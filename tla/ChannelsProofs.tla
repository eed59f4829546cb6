--------------------------- MODULE ChannelsProofs ---------------------------
(***************************************************************************)
(* The credit channel, for every DEPTH and any delay on the wires: credits *)
(* are conserved, the flopped can_send is exact, and the channel is the    *)
(* elastic queue.  The C++ classes of its two ends answer as the circuit   *)
(* does.  Then what SynchronizerProofs shows of the clock-domain           *)
(* crossings, as properties of Channels; and the drivers, connects and     *)
(* targets of a tlm_method, for every link: calls are conserved, answers   *)
(* match, and what is offered and not accepted stays.                      *)
(***************************************************************************)
EXTENDS Channels, SequenceTheorems, FiniteSetTheorems, TLAPS

(* The flop holds what the comparison would say now.                       *)
FlopIsFresh == can_send_r <=> credit # 0

(* tail is occ slots after head, and the slots between were written.       *)
At(h, i) == (h + i) % DEPTH
BufferInv ==
    /\ tail = At(head, occ)
    /\ \A i \in 0..(occ - 1) : buf[At(head, i)] \in Data

(* The inductive invariant.                                                *)
ChannelInv ==
    /\ TypeOK
    /\ CreditsConserved
    /\ registered => FlopIsFresh
    /\ BufferInv
-----------------------------------------------------------------------------
(* A remainder is below its divisor.                                       *)
LEMMA ModRange == ASSUME NEW a \in Nat, NEW d \in Nat \ {0} PROVE a % d \in 0..(d - 1)
  BY SMT

(* Counting down modulo r does not wrap above 0.                           *)
LEMMA ModDown == ASSUME NEW r \in Nat, NEW c \in Nat, 0 < c, c < r
                 PROVE (c + r - 1) % r = c - 1
  BY SMT

(* Counting up modulo r does not wrap below r - 1.                         *)
LEMMA ModUp == ASSUME NEW r \in Nat, NEW c \in Nat, c + 1 < r
               PROVE (c + 1) % r = c + 1
  BY SMT

(* Addresses that stay below 2 * d need one conditional subtraction.       *)
LEMMA ModLow == ASSUME NEW d \in Nat, NEW a \in Nat, a < d PROVE a % d = a
  BY SMT

(* From d to 2 * d the subtraction is made once.                           *)
LEMMA ModHigh == ASSUME NEW d \in Nat, NEW a \in Nat, d <= a, a < 2 * d PROVE a % d = a - d
<1>1. a = d + (a - d) /\ a - d \in 0..(d - 1)
  OBVIOUS
<1> QED BY <1>1

(* The next slot of the ring, without a remainder.                         *)
LEMMA StepIs ==
    ASSUME NEW p \in 0..(DEPTH - 1)
    PROVE  Step(p) = IF p + 1 < DEPTH THEN p + 1 ELSE 0
<1>1. DEPTH \in Nat /\ p + 1 \in Nat /\ p + 1 < 2 * DEPTH
  BY CreditChannelAssumption
<1>2. CASE p + 1 < DEPTH
  <2>1. (p + 1) % DEPTH = p + 1
    BY <1>1, <1>2, ModLow, Zenon
  <2> QED BY <2>1, <1>2 DEF Step
<1>3. CASE ~(p + 1 < DEPTH)
  <2>1. p + 1 = DEPTH /\ DEPTH <= p + 1
    BY <1>1, <1>3
  <2>2. DEPTH % DEPTH = 0
    BY <1>1
  <2> QED BY <1>1, <2>1, <2>2, <1>3 DEF Step
<1> QED BY <1>2, <1>3

(* The slot i places after h, without a remainder.                         *)
LEMMA AtIs ==
    ASSUME NEW h \in 0..(DEPTH - 1), NEW i \in 0..DEPTH
    PROVE  At(h, i) = IF h + i < DEPTH THEN h + i ELSE h + i - DEPTH
<1>1. DEPTH \in Nat /\ h + i \in Nat /\ h + i < 2 * DEPTH
  BY CreditChannelAssumption
<1>2. CASE h + i < DEPTH
  <2>1. (h + i) % DEPTH = h + i
    BY <1>1, <1>2, ModLow, Zenon
  <2> QED BY <2>1, <1>2 DEF At
<1>3. CASE ~(h + i < DEPTH)
  <2>1. DEPTH <= h + i
    BY <1>1, <1>3
  <2>2. PICK a \in Nat : a = h + i
    BY <1>1
  <2>3. a % DEPTH = a - DEPTH
    BY <1>1, <2>1, <2>2, ModHigh
  <2>4. (h + i) % DEPTH = a % DEPTH
    BY <2>2, Zenon
  <2>5. a - DEPTH = h + i - DEPTH
    BY <1>1, <2>2
  <2>6. (h + i) % DEPTH = h + i - DEPTH
    BY <2>3, <2>4, <2>5, Zenon
  <2> QED BY <2>6, <1>3 DEF At
<1> QED BY <1>2, <1>3

(* What adds up to n is n at most.                                         *)
LEMMA PartsFit ==
    ASSUME NEW n \in Nat, NEW a \in Nat, NEW b \in Nat, NEW c \in Nat, NEW d \in Nat,
           a + b + c + d = n
    PROVE  a \in 0..n /\ c \in 0..n
OBVIOUS

(* The counters: with credits conserved neither wraps.                     *)
LEMMA CountersStep ==
    ASSUME ChannelInv, NEW send \in Words, NEW arrive \in BOOLEAN, NEW pop \in BOOLEAN,
           NEW back \in BOOLEAN, Edge(send, arrive, pop, back)
    PROVE  /\ credit' = IF send # NoData /\ ~back THEN credit - 1
                        ELSE IF back /\ send = NoData THEN credit + 1 ELSE credit
           /\ occ' = IF arrive /\ ~pop THEN occ + 1
                     ELSE IF ~arrive /\ pop THEN occ - 1 ELSE occ
           /\ credit' \in 0..DEPTH /\ occ' \in 0..DEPTH
           /\ link' \in Seq(Data) /\ returning' \in Nat
           /\ credit' + Len(link') + occ' + returning' = DEPTH
<1> USE CreditChannelAssumption
<1> DEFINE sent == IF send = NoData THEN link ELSE Append(link, send)
           owed == IF pop THEN returning + 1 ELSE returning
<1>1. /\ credit \in 0..DEPTH /\ occ \in 0..DEPTH /\ returning \in Nat
      /\ link \in Seq(Data) /\ Len(link) \in Nat
      /\ credit + Len(link) + occ + returning = DEPTH
  BY DEF ChannelInv, TypeOK, CreditsConserved
<1>2. /\ sent \in Seq(Data)
      /\ Len(sent) = IF send = NoData THEN Len(link) ELSE Len(link) + 1
  BY <1>1 DEF Words
<1>3. /\ arrive => sent # <<>>
      /\ pop => occ # 0
      /\ back => owed > 0
      /\ send # NoData => credit # 0
      /\ link' = IF arrive THEN Tail(sent) ELSE sent
      /\ returning' = IF back THEN owed - 1 ELSE owed
  BY DEF Edge, valid, can_send, ChannelInv, FlopIsFresh
<1>4. /\ link' \in Seq(Data)
      /\ Len(link') = IF arrive THEN Len(sent) - 1 ELSE Len(sent)
      /\ arrive => Len(sent) > 0
  BY <1>2, <1>3
<1> HIDE DEF sent
<1>5. returning' \in Nat /\ returning' = IF back THEN owed - 1 ELSE owed
  BY <1>1, <1>3
<1>6. credit' = IF send # NoData /\ ~back THEN credit - 1
                ELSE IF back /\ send = NoData THEN credit + 1 ELSE credit
  <2>1. credit' = CreditNext(send # NoData, back)
    BY DEF Edge, Sender
  <2>2. CASE send # NoData /\ ~back
    <3>1. (credit + RANGE - 1) % RANGE = credit - 1
      BY <2>2, <1>1, <1>3, ModDown
    <3> QED BY <2>1, <2>2, <3>1 DEF CreditNext
  <2>3. CASE back /\ send = NoData
    <3>1. credit + 1 < RANGE \/ credit = DEPTH
      BY <1>1
    <3>2. credit # DEPTH
      BY <1>1, <1>3, <2>3
    <3>3. (credit + 1) % RANGE = credit + 1
      <4>1. credit \in Nat /\ RANGE \in Nat /\ credit + 1 < RANGE
        BY <3>1, <3>2, <1>1
      <4> QED BY <4>1, ModUp, Zenon
    <3> QED BY <2>1, <2>3, <3>3 DEF CreditNext
  <2>4. CASE ~(send # NoData /\ ~back) /\ ~(back /\ send = NoData)
    BY <2>1, <2>4 DEF CreditNext
  <2> QED BY <2>2, <2>3, <2>4
<1>7. occ' = IF arrive /\ ~pop THEN occ + 1 ELSE IF ~arrive /\ pop THEN occ - 1 ELSE occ
  <2>1. occ' = OccNext(arrive, pop)
    BY <1>3 DEF Edge, Receiver, valid
  <2>2. CASE arrive /\ ~pop
    <3>1. occ # DEPTH
      BY <1>1, <1>2, <1>3, <1>4, <2>2
    <3>2. (occ + 1) % RANGE = occ + 1
      <4>1. occ \in Nat /\ RANGE \in Nat /\ occ + 1 < RANGE
        BY <3>1, <1>1
      <4> QED BY <4>1, ModUp, Zenon
    <3> QED BY <2>1, <2>2, <3>2 DEF OccNext
  <2>3. CASE ~arrive /\ pop
    <3>1. (occ + RANGE - 1) % RANGE = occ - 1
      BY <2>3, <1>1, <1>3, ModDown
    <3> QED BY <2>1, <2>3, <3>1 DEF OccNext
  <2>4. CASE ~(arrive /\ ~pop) /\ ~(~arrive /\ pop)
    BY <2>1, <2>4 DEF OccNext
  <2> QED BY <2>2, <2>3, <2>4
<1>8. PICK S, A, P, B \in 0..1 :
          /\ credit' = credit - S + B
          /\ Len(link') = Len(link) + S - A
          /\ occ' = occ + A - P
          /\ returning' = returning + P - B
  <2>1. PICK S \in 0..1 : S = IF send # NoData THEN 1 ELSE 0
    OBVIOUS
  <2>2. PICK A \in 0..1 : A = IF arrive THEN 1 ELSE 0
    OBVIOUS
  <2>3. PICK P \in 0..1 : P = IF pop THEN 1 ELSE 0
    OBVIOUS
  <2>4. PICK B \in 0..1 : B = IF back THEN 1 ELSE 0
    OBVIOUS
  <2>5. credit' = credit - S + B
    BY <2>1, <2>4, <1>1, <1>6
  <2>6. Len(link') = Len(link) + S - A
    BY <2>1, <2>2, <1>1, <1>2, <1>4
  <2>7. occ' = occ + A - P
    BY <2>2, <2>3, <1>1, <1>7
  <2>8. returning' = returning + P - B
    BY <2>3, <2>4, <1>1, <1>5
  <2> QED BY <2>5, <2>6, <2>7, <2>8
<1>9. Len(link') \in Nat
  BY <1>4
<1> HIDE DEF owed
<1>10. credit' + Len(link') + occ' + returning' = DEPTH
  BY <1>1, <1>8, <1>9
<1>11. credit' \in Nat
  BY <1>1, <1>3, <1>6
<1>12. occ' \in Nat
  BY <1>1, <1>3, <1>7
<1>13. credit' \in 0..DEPTH /\ occ' \in 0..DEPTH
  <2>1. PICK l \in Nat : l = Len(link')
    BY <1>9
  <2>2. credit' + l + occ' + returning' = DEPTH
    BY <1>10, <2>1
  <2>3. DEPTH \in Nat /\ returning' \in Nat
    BY <1>1, <1>5
  <2> QED BY <1>11, <1>12, <2>1, <2>2, <2>3, PartsFit
<1> QED BY <1>4, <1>5, <1>6, <1>7, <1>10, <1>13

(* The buffer as a ring: addresses below DEPTH apart are distinct, and a   *)
(* pointer step is one more.                                               *)
LEMMA RingStep ==
    ASSUME NEW h \in 0..(DEPTH - 1), NEW i \in 0..(DEPTH - 1)
    PROVE  /\ Step(h) \in 0..(DEPTH - 1) /\ At(h, i) \in 0..(DEPTH - 1)
           /\ At(Step(h), i) = At(h, i + 1)
           /\ Step(At(h, i)) = At(h, i + 1)
<1> USE CreditChannelAssumption
<1>1. Step(h) \in 0..(DEPTH - 1)
  BY StepIs
<1>2. At(h, i) \in 0..(DEPTH - 1)
  <2>1. At(h, i) = IF h + i < DEPTH THEN h + i ELSE h + i - DEPTH
    BY AtIs
  <2> QED BY <2>1
<1>3. At(h, i + 1) = IF h + i + 1 < DEPTH THEN h + i + 1 ELSE h + i + 1 - DEPTH
  <2>1. PICK j \in 0..DEPTH : j = i + 1
    OBVIOUS
  <2>2. At(h, j) = IF h + j < DEPTH THEN h + j ELSE h + j - DEPTH
    BY AtIs
  <2> QED BY <2>1, <2>2
<1>4. At(Step(h), i) = At(h, i + 1)
  <2>1. At(Step(h), i) = IF Step(h) + i < DEPTH THEN Step(h) + i ELSE Step(h) + i - DEPTH
    BY <1>1, AtIs
  <2>2. Step(h) = IF h + 1 < DEPTH THEN h + 1 ELSE 0
    BY StepIs
  <2> QED BY <2>1, <2>2, <1>3
<1>5. Step(At(h, i)) = At(h, i + 1)
  <2>1. Step(At(h, i)) = IF At(h, i) + 1 < DEPTH THEN At(h, i) + 1 ELSE 0
    BY <1>2, StepIs
  <2>2. At(h, i) = IF h + i < DEPTH THEN h + i ELSE h + i - DEPTH
    BY AtIs
  <2> QED BY <2>1, <2>2, <1>3
<1> QED BY <1>1, <1>2, <1>4, <1>5

(* Different distances from one slot reach different slots.                *)
LEMMA RingDistinct ==
    ASSUME NEW h \in 0..(DEPTH - 1), NEW i \in 0..(DEPTH - 1), NEW j \in 0..(DEPTH - 1), i # j
    PROVE  At(h, i) # At(h, j)
<1> USE CreditChannelAssumption
<1>1. At(h, i) = IF h + i < DEPTH THEN h + i ELSE h + i - DEPTH
  BY AtIs
<1>2. At(h, j) = IF h + j < DEPTH THEN h + j ELSE h + j - DEPTH
  BY AtIs
<1> QED BY <1>1, <1>2

(* At distance 0 is the slot itself.                                       *)
LEMMA RingZero ==
    ASSUME NEW h \in 0..(DEPTH - 1) PROVE At(h, 0) = h
<1>1. At(h, 0) = IF h + 0 < DEPTH THEN h + 0 ELSE h + 0 - DEPTH
  BY AtIs, CreditChannelAssumption
<1> QED BY <1>1, CreditChannelAssumption

(* A place below the count, and the one after it, are places.              *)
LEMMA BelowCount ==
    ASSUME NEW d \in Nat, NEW o \in 0..d, NEW i \in 0..(o - 1)
    PROVE  i \in 0..d /\ i + 1 \in 0..d
  BY SMT

(* The j-th of o words is j - 1 slots after the first.                     *)
LEMMA IndexOf ==
    ASSUME NEW d \in Nat, NEW o \in 0..d, NEW j \in 1..o
    PROVE  j - 1 \in 0..(o - 1) /\ (j - 1) + 1 = j /\ j \in 0..d /\ j - 1 \in 0..d
  BY SMT

(* Where the words of the buffer come from: the slot pop positions further *)
(* on, or the word that arrives.                                           *)
LEMMA BufferStep ==
    ASSUME ChannelInv, NEW send \in Words, NEW arrive \in BOOLEAN, NEW pop \in BOOLEAN,
           NEW back \in BOOLEAN, Edge(send, arrive, pop, back),
           NEW word, word = (IF arrive THEN Head(IF send = NoData THEN link ELSE Append(link, send))
                             ELSE NoData)
    PROVE  /\ head' \in 0..(DEPTH - 1) /\ tail' \in 0..(DEPTH - 1)
           /\ buf' \in [0..(DEPTH - 1) -> Words]
           /\ arrive => word \in Data /\ occ < DEPTH
           /\ tail' = At(head', occ')
           /\ \A i \in 0..(occ' - 1), k \in 0..DEPTH :
                  k = (IF pop THEN i + 1 ELSE i)
                    => /\ k \in 0..(DEPTH - 1) /\ k <= occ /\ (k = occ => arrive)
                       /\ buf'[At(head', i)] = IF k < occ THEN buf[At(head, k)] ELSE word
<1> USE CreditChannelAssumption
<1> DEFINE sent == IF send = NoData THEN link ELSE Append(link, send)
<1>1. /\ credit \in 0..DEPTH /\ occ \in 0..DEPTH /\ returning \in Nat
      /\ link \in Seq(Data) /\ Len(link) \in Nat
      /\ credit + Len(link) + occ + returning = DEPTH
      /\ head \in 0..(DEPTH - 1) /\ tail \in 0..(DEPTH - 1)
      /\ buf \in [0..(DEPTH - 1) -> Words]
      /\ tail = At(head, occ)
  BY DEF ChannelInv, TypeOK, CreditsConserved, BufferInv
<1>2. /\ sent \in Seq(Data)
      /\ Len(sent) = IF send = NoData THEN Len(link) ELSE Len(link) + 1
  BY <1>1 DEF Words
<1>3. /\ arrive => sent # <<>>
      /\ pop => occ # 0
      /\ send # NoData => credit # 0
      /\ buf' = IF arrive THEN [buf EXCEPT ![tail] = word] ELSE buf
      /\ tail' = IF arrive THEN Step(tail) ELSE tail
      /\ head' = IF pop THEN Step(head) ELSE head
  BY DEF Edge, Receiver, valid, can_send, ChannelInv, FlopIsFresh
<1>4. arrive => word \in Data /\ occ < DEPTH
  <2>1. arrive => Len(sent) > 0 /\ Head(sent) \in Data
    BY <1>2, <1>3
  <2>2. arrive => word = Head(sent)
    OBVIOUS
  <2>3. arrive => Len(link) > 0 \/ credit > 0
    BY <1>1, <1>2, <1>3, <2>1
  <2>4. arrive => occ < DEPTH
    BY <1>1, <2>3
  <2> QED BY <2>1, <2>2, <2>4
<1>5. occ' = IF arrive /\ ~pop THEN occ + 1 ELSE IF ~arrive /\ pop THEN occ - 1 ELSE occ
  BY CountersStep
<1> HIDE DEF sent
<1>6. head' \in 0..(DEPTH - 1) /\ tail' \in 0..(DEPTH - 1)
  <2>1. Step(head) \in 0..(DEPTH - 1) /\ Step(tail) \in 0..(DEPTH - 1)
    BY <1>1, StepIs
  <2> QED BY <1>1, <1>3, <2>1
<1>7. buf' \in [0..(DEPTH - 1) -> Words]
  BY <1>1, <1>3, <1>4 DEF Words
<1>8. ASSUME NEW i \in 0..(DEPTH - 1)
      PROVE  At(head', i) = IF pop THEN At(head, i + 1) ELSE At(head, i)
  BY <1>1, <1>3, RingStep
<1>9. tail' = At(head', occ')
  <2>1. CASE arrive /\ pop
    <3>1. occ \in 0..(DEPTH - 1) /\ occ' = occ
      BY <1>1, <1>4, <1>5, <2>1
    <3>2. Step(At(head, occ)) = At(head, occ + 1)
      BY <3>1, <1>1, RingStep
    <3> QED BY <3>1, <3>2, <1>1, <1>3, <1>8, <2>1
  <2>2. CASE arrive /\ ~pop
    <3>1. occ \in 0..(DEPTH - 1) /\ occ' = occ + 1
      BY <1>1, <1>4, <1>5, <2>2
    <3>2. Step(At(head, occ)) = At(head, occ + 1)
      BY <3>1, <1>1, RingStep
    <3> QED BY <3>1, <3>2, <1>1, <1>3, <2>2
  <2>3. CASE ~arrive /\ pop
    <3>1. occ' \in 0..(DEPTH - 1) /\ occ' + 1 = occ
      BY <1>1, <1>3, <1>5, <2>3
    <3> QED BY <3>1, <1>1, <1>3, <1>8, <2>3
  <2>4. CASE ~arrive /\ ~pop
    BY <1>1, <1>3, <1>5, <2>4
  <2> QED BY <2>1, <2>2, <2>3, <2>4
<1>10. ASSUME NEW i \in 0..(occ' - 1), NEW k \in 0..DEPTH, k = (IF pop THEN i + 1 ELSE i)
       PROVE  /\ k \in 0..(DEPTH - 1) /\ k <= occ /\ (k = occ => arrive)
              /\ buf'[At(head', i)] = IF k < occ THEN buf[At(head, k)] ELSE word
  <2>1. k <= occ /\ (k = occ => arrive)
    BY <1>1, <1>3, <1>5, <1>10
  <2>2. k \in 0..(DEPTH - 1) /\ i \in 0..(DEPTH - 1)
    BY <1>1, <1>4, <1>10, <2>1
  <2>3. At(head', i) = At(head, k)
    BY <2>2, <1>8, <1>10
  <2>4. At(head, k) \in 0..(DEPTH - 1)
    BY <1>1, <2>2, RingStep
  <2>5. CASE k < occ
    <3>1. arrive => At(head, k) # tail
      <4>1. arrive => occ \in 0..(DEPTH - 1)
        BY <1>1, <1>4
      <4>2. k # occ
        BY <1>1, <2>2, <2>5
      <4> QED BY <1>1, <2>2, <4>1, <4>2, RingDistinct
    <3> QED BY <1>1, <1>3, <2>3, <2>4, <2>5, <3>1
  <2>6. CASE k = occ
    <3>1. arrive /\ At(head, k) = tail
      BY <1>1, <2>1, <2>6
    <3>2. ~(k < occ)
      BY <1>1, <2>6
    <3> QED BY <1>1, <1>3, <2>1, <2>2, <2>3, <2>4, <3>1, <3>2
  <2> QED BY <1>1, <2>1, <2>2, <2>5, <2>6
<1> QED BY <1>4, <1>6, <1>7, <1>9, <1>10

(* Full credit and nothing on the way.                                     *)
LEMMA InitialInv == Init => ChannelInv
<1> SUFFICES ASSUME Init PROVE ChannelInv
  OBVIOUS
<1> USE CreditChannelAssumption DEF Init
<1>1. TypeOK
  BY DEF TypeOK, Words
<1>2. CreditsConserved
  BY DEF CreditsConserved
<1>3. FlopIsFresh
  BY DEF FlopIsFresh
<1>4. BufferInv
  BY RingZero DEF BufferInv
<1> QED BY <1>1, <1>2, <1>3, <1>4 DEF ChannelInv

(* A clock edge with any of a send, an arrival, a pop and a credit that    *)
(* returns.                                                                *)
LEMMA EdgeInv ==
    ASSUME ChannelInv, NEW send \in Words, NEW arrive \in BOOLEAN, NEW pop \in BOOLEAN,
           NEW back \in BOOLEAN, Edge(send, arrive, pop, back)
    PROVE  ChannelInv'
<1> USE CreditChannelAssumption
<1> DEFINE word == IF arrive THEN Head(IF send = NoData THEN link ELSE Append(link, send))
                   ELSE NoData
<1>1. /\ credit' = IF send # NoData /\ ~back THEN credit - 1
                   ELSE IF back /\ send = NoData THEN credit + 1 ELSE credit
      /\ credit' \in 0..DEPTH /\ occ' \in 0..DEPTH
      /\ link' \in Seq(Data) /\ returning' \in Nat
      /\ credit' + Len(link') + occ' + returning' = DEPTH
  BY CountersStep
<1>2. /\ head' \in 0..(DEPTH - 1) /\ tail' \in 0..(DEPTH - 1)
      /\ buf' \in [0..(DEPTH - 1) -> Words]
      /\ arrive => word \in Data /\ occ < DEPTH
      /\ tail' = At(head', occ')
      /\ \A i \in 0..(occ' - 1), k \in 0..DEPTH :
             k = (IF pop THEN i + 1 ELSE i)
               => /\ k \in 0..(DEPTH - 1) /\ k <= occ /\ (k = occ => arrive)
                  /\ buf'[At(head', i)] = IF k < occ THEN buf[At(head, k)] ELSE word
  BY BufferStep
<1>3. /\ registered \in BOOLEAN /\ can_send_r \in BOOLEAN /\ credit \in 0..DEPTH
      /\ occ \in 0..DEPTH /\ head \in 0..(DEPTH - 1) /\ buf \in [0..(DEPTH - 1) -> Words]
      /\ registered => FlopIsFresh
      /\ \A i \in 0..(occ - 1) : buf[At(head, i)] \in Data
  BY DEF ChannelInv, TypeOK, BufferInv
<1>4. /\ registered' = registered /\ pushed' = send
      /\ popped' = IF pop /\ valid THEN buf[head] ELSE NoData
      /\ can_send_r' = IF registered THEN CanSendNext(send # NoData, back) ELSE can_send_r
      /\ send # NoData => can_send
  BY DEF Edge, Sender, Receiver, data
<1> HIDE DEF word
<1>5. can_send_r' \in BOOLEAN
  <2>1. (credit > 1) \in BOOLEAN /\ (credit # 0) \in BOOLEAN
    OBVIOUS
  <2>2. CanSendNext(send # NoData, back) \in BOOLEAN
    BY <2>1, Zenon DEF CanSendNext
  <2> QED BY <1>3, <1>4, <2>2, Zenon
<1>6. pushed' \in Words /\ popped' \in Words
  BY <1>3, <1>4 DEF Words
<1>7. TypeOK'
  BY <1>1, <1>2, <1>3, <1>4, <1>5, <1>6 DEF TypeOK
<1>8. CreditsConserved'
  BY <1>1 DEF CreditsConserved
<1>9. registered' => FlopIsFresh'
  <2> SUFFICES ASSUME registered PROVE can_send_r' <=> credit' # 0
    BY <1>4 DEF FlopIsFresh
  <2>1. can_send_r' <=> CanSendNext(send # NoData, back)
    BY <1>4
  <2>2. send # NoData => credit # 0
    BY <1>3, <1>4 DEF can_send, FlopIsFresh
  <2> QED BY <1>1, <1>3, <2>1, <2>2 DEF CanSendNext
<1>10. BufferInv'
  <2> SUFFICES ASSUME NEW i \in 0..(occ' - 1) PROVE buf'[At(head', i)] \in Data
    BY <1>2 DEF BufferInv, At
  <2>1. PICK k \in 0..DEPTH : k = (IF pop THEN i + 1 ELSE i)
    <3>1. i \in 0..DEPTH /\ i + 1 \in 0..DEPTH
      <4>1. occ' \in 0..DEPTH /\ DEPTH \in Nat
        BY <1>1
      <4> QED BY <4>1, BelowCount
    <3> QED BY <3>1
  <2>2. /\ k \in 0..(DEPTH - 1) /\ k <= occ /\ (k = occ => arrive)
        /\ buf'[At(head', i)] = IF k < occ THEN buf[At(head, k)] ELSE word
    BY <1>2, <2>1
  <2>3. CASE k < occ
    <3>1. k \in 0..(occ - 1)
      BY <1>3, <2>2, <2>3
    <3> QED BY <1>3, <2>2, <2>3, <3>1
  <2>4. CASE ~(k < occ)
    <3>1. k = occ
      BY <1>3, <2>2, <2>4
    <3> QED BY <1>2, <2>2, <2>4, <3>1
  <2> QED BY <2>3, <2>4
<1> QED BY <1>7, <1>8, <1>9, <1>10 DEF ChannelInv

(* Reset of both ends and of the wires between them.                       *)
LEMMA ResetInv == ASSUME ChannelInv, Reset PROVE ChannelInv'
<1> USE CreditChannelAssumption
<1>1. TypeOK'
  BY DEF ChannelInv, Reset, TypeOK, Words
<1>2. CreditsConserved'
  <2>1. credit' = DEPTH /\ Len(link') = 0 /\ occ' = 0 /\ returning' = 0
    BY DEF Reset
  <2> QED BY <2>1 DEF CreditsConserved
<1>5. registered' => FlopIsFresh'
  <2>1. DEPTH # 0
    OBVIOUS
  <2> QED BY <2>1, Zenon DEF Reset, FlopIsFresh
<1>3. At(0, 0) = 0
  BY RingZero
<1>4. BufferInv'
  BY <1>3 DEF Reset, BufferInv, At
<1> QED BY <1>1, <1>2, <1>4, <1>5 DEF ChannelInv

(* ChannelInv is inductive.                                                *)
LEMMA InductiveStep == ChannelInv /\ [Next]_vars => ChannelInv'
<1> SUFFICES ASSUME ChannelInv, [Next]_vars PROVE ChannelInv'
  OBVIOUS
<1>1. ASSUME NEW send \in Words, NEW arrive \in BOOLEAN, NEW pop \in BOOLEAN,
             NEW back \in BOOLEAN, Edge(send, arrive, pop, back)
      PROVE  ChannelInv'
  BY <1>1, EdgeInv
<1>2. CASE Reset
  BY <1>2, ResetInv
<1>3. CASE UNCHANGED vars
  BY <1>3 DEF vars, sender, receiver, ChannelInv, TypeOK, CreditsConserved, FlopIsFresh,
              BufferInv, At
<1> QED BY <1>1, <1>2, <1>3 DEF Next

(* For every DEPTH and any delay of the wires no credit is lost or made up *)
(* and the registers keep their ranges: a send never underflows the        *)
(* counter and an arriving word never overflows the buffer.                *)
THEOREM ChannelCreditsConserved == Spec => [](TypeOK /\ CreditsConserved)
<1>1. ChannelInv => TypeOK /\ CreditsConserved
  BY DEF ChannelInv
<1> QED BY <1>1, InitialInv, InductiveStep, PTL DEF Spec

(* The flopped can_send is never late: it says what the counter says.      *)
THEOREM ChannelCanSendExact == Spec => []CanSendExact
<1>1. ChannelInv => CanSendExact
  BY DEF ChannelInv, CanSendExact, can_send, FlopIsFresh
<1> QED BY <1>1, InitialInv, InductiveStep, PTL DEF Spec
-----------------------------------------------------------------------------
(* Sequences: the word that arrives moves from the head of the link to the *)
(* end of the buffer, a pop takes the head of the buffer.                  *)
LEMMA MoveHead ==
    ASSUME NEW S, NEW c \in Seq(S), NEW l \in Seq(S), l # <<>>
    PROVE  Append(c, Head(l)) \o Tail(l) = c \o l
<1>1. /\ Head(l) \in S /\ Tail(l) \in Seq(S) /\ Len(Tail(l)) = Len(l) - 1
      /\ Len(l) \in Nat \ {0} /\ Len(c) \in Nat
      /\ Append(c, Head(l)) \in Seq(S) /\ Len(Append(c, Head(l))) = Len(c) + 1
  OBVIOUS
<1>2. /\ Append(c, Head(l)) \o Tail(l) \in Seq(S) /\ c \o l \in Seq(S)
      /\ Len(Append(c, Head(l)) \o Tail(l)) = Len(c) + Len(l)
      /\ Len(c \o l) = Len(c) + Len(l)
  BY <1>1
<1>3. ASSUME NEW i \in 1..(Len(c) + Len(l))
      PROVE  (Append(c, Head(l)) \o Tail(l))[i] = (c \o l)[i]
  BY <1>1
<1> QED BY <1>2, <1>3, SeqEqual

(* Taking the first word of two sequences takes it from the first.         *)
LEMMA TailOfConcat ==
    ASSUME NEW S, NEW b \in Seq(S), NEW l \in Seq(S), b # <<>>
    PROVE  /\ b \o l \in Seq(S) /\ b \o l # <<>>
           /\ Head(b \o l) = Head(b)
           /\ Tail(b \o l) = Tail(b) \o l
<1>1. /\ Tail(b) \in Seq(S) /\ Len(Tail(b)) = Len(b) - 1
      /\ Len(b) \in Nat \ {0} /\ Len(l) \in Nat
      /\ b \o l \in Seq(S) /\ Len(b \o l) = Len(b) + Len(l)
  OBVIOUS
<1>2. b \o l # <<>> /\ Head(b \o l) = Head(b)
  BY <1>1
<1>3. /\ Tail(b \o l) \in Seq(S) /\ Tail(b) \o l \in Seq(S)
      /\ Len(Tail(b \o l)) = Len(b) + Len(l) - 1
      /\ Len(Tail(b) \o l) = Len(b) + Len(l) - 1
  BY <1>1, <1>2
<1>4. ASSUME NEW i \in 1..(Len(b) + Len(l) - 1)
      PROVE  Tail(b \o l)[i] = (Tail(b) \o l)[i]
  BY <1>1, <1>2
<1> QED BY <1>1, <1>2, <1>3, <1>4, SeqEqual

(* Appending to two sequences appends to the second.                       *)
LEMMA ConcatAppend ==
    ASSUME NEW S, NEW b \in Seq(S), NEW l \in Seq(S), NEW e \in S
    PROVE  b \o Append(l, e) = Append(b \o l, e)
<1>1. /\ b \o Append(l, e) \in Seq(S) /\ Append(b \o l, e) \in Seq(S)
      /\ Len(b \o Append(l, e)) = Len(b) + Len(l) + 1
      /\ Len(Append(b \o l, e)) = Len(b) + Len(l) + 1
      /\ Len(b) \in Nat /\ Len(l) \in Nat
  OBVIOUS
<1>2. ASSUME NEW i \in 1..(Len(b) + Len(l) + 1)
      PROVE  (b \o Append(l, e))[i] = Append(b \o l, e)[i]
  BY <1>1
<1> QED BY <1>1, <1>2, SeqEqual

BufferedIs ==
    /\ Buffered \in Seq(Data) /\ Len(Buffered) = occ /\ occ \in Nat
    /\ \A j \in 1..occ : Buffered[j] = buf[At(head, j - 1)]

(* The buffer has occ words, found by their distance from head.            *)
LEMMA BufferedFacts == ChannelInv => BufferedIs
<1> SUFFICES ASSUME ChannelInv PROVE BufferedIs
  OBVIOUS
<1>1. occ \in Nat /\ \A i \in 0..(occ - 1) : buf[At(head, i)] \in Data
  BY CreditChannelAssumption DEF ChannelInv, TypeOK, BufferInv
<1>2. \A j \in 1..occ : j - 1 \in 0..(occ - 1)
  BY <1>1
<1>3. Buffered = [j \in 1..occ |-> buf[At(head, j - 1)]]
  BY DEF Buffered, At
<1>4. Buffered \in [1..occ -> Data]
  BY <1>1, <1>2, <1>3
<1>5. Buffered \in Seq(Data)
  BY <1>1, <1>4, SeqDef
<1>6. DOMAIN Buffered = 1..occ
  BY <1>3
<1>7. Len(Buffered) = occ
  BY <1>1, <1>5, <1>6, LenProperties
<1> QED BY <1>1, <1>3, <1>5, <1>7 DEF BufferedIs

(* Every edge is one transfer of the elastic queue.                        *)
LEMMA EdgeIsTransfer ==
    ASSUME ChannelInv, NEW send \in Words, NEW arrive \in BOOLEAN, NEW pop \in BOOLEAN,
           NEW back \in BOOLEAN, Edge(send, arrive, pop, back)
    PROVE  Elastic!Transfer(send, pop)
<1> USE CreditChannelAssumption
<1> DEFINE sent == IF send = NoData THEN link ELSE Append(link, send)
           word == IF arrive THEN Head(sent) ELSE NoData
           rest == IF pop THEN Tail(Buffered) ELSE Buffered
           queue == Buffered \o link
<1>1. ChannelInv'
  BY EdgeInv
<1>2. /\ Buffered \in Seq(Data) /\ Len(Buffered) = occ /\ occ \in Nat
      /\ \A j \in 1..occ : Buffered[j] = buf[At(head, j - 1)]
  BY BufferedFacts DEF BufferedIs
<1>3. /\ Buffered' \in Seq(Data) /\ Len(Buffered') = occ' /\ occ' \in Nat
      /\ \A j \in 1..occ' : Buffered'[j] = buf'[At(head', j - 1)]
  <2>1. ChannelInv' => BufferedIs'
    BY BufferedFacts, PTL
  <2> QED BY <1>1, <2>1 DEF BufferedIs, At
<1>4. /\ link \in Seq(Data) /\ Len(link) \in Nat
      /\ credit \in 0..DEPTH /\ returning \in Nat
      /\ credit + Len(link) + occ + returning = DEPTH
      /\ head \in 0..(DEPTH - 1)
  BY DEF ChannelInv, TypeOK, CreditsConserved
<1>5. /\ arrive => sent # <<>>
      /\ pop => occ # 0
      /\ send # NoData => credit # 0
      /\ link' = IF arrive THEN Tail(sent) ELSE sent
      /\ pushed' = send
      /\ popped' = IF pop THEN buf[head] ELSE NoData
  BY DEF Edge, Receiver, valid, data, can_send, ChannelInv, FlopIsFresh
<1>6. /\ occ' = IF arrive /\ ~pop THEN occ + 1 ELSE IF ~arrive /\ pop THEN occ - 1 ELSE occ
      /\ occ' \in 0..DEPTH
  BY CountersStep
<1>7. /\ arrive => word \in Data
      /\ \A i \in 0..(occ' - 1), k \in 0..DEPTH :
            k = (IF pop THEN i + 1 ELSE i)
              => /\ k <= occ
                 /\ buf'[At(head', i)] = IF k < occ THEN buf[At(head, k)] ELSE word
  BY BufferStep
<1>8. sent \in Seq(Data)
  BY <1>4 DEF Words
<1> HIDE DEF sent, word
<1>9. /\ pop => Buffered # <<>>
      /\ rest \in Seq(Data)
      /\ Len(rest) = IF pop THEN occ - 1 ELSE occ
      /\ \A j \in 1..Len(rest) : rest[j] = Buffered[IF pop THEN j + 1 ELSE j]
  BY <1>2, <1>5
<1>10. Buffered' = IF arrive THEN Append(rest, word) ELSE rest
  <2> DEFINE after == IF arrive THEN Append(rest, word) ELSE rest
  <2>1. after \in Seq(Data) /\ Len(after) = occ'
    BY <1>2, <1>5, <1>6, <1>7, <1>9
  <2>2. ASSUME NEW j \in 1..occ' PROVE Buffered'[j] = after[j]
    <3>1. PICK i \in 0..(occ' - 1) : i = j - 1 /\ i + 1 = j /\ j \in 0..DEPTH /\ i \in 0..DEPTH
      BY <1>6, IndexOf
    <3>2. PICK k \in 0..DEPTH : k = (IF pop THEN i + 1 ELSE i)
      BY <3>1
    <3>6. k <= occ /\ buf'[At(head', i)] = IF k < occ THEN buf[At(head, k)] ELSE word
      BY <1>7, <3>2
    <3>7. Buffered'[j] = buf'[At(head', j - 1)]
      BY <1>3
    <3>3. k <= occ /\ Buffered'[j] = IF k < occ THEN buf[At(head, k)] ELSE word
      BY <3>1, <3>6, <3>7
    <3>4. CASE k < occ
      <4>1. k + 1 \in 1..occ /\ (k + 1) - 1 = k /\ k + 1 = (IF pop THEN j + 1 ELSE j)
        BY <1>2, <3>1, <3>2, <3>4
      <4>2. Buffered[k + 1] = buf[At(head, k)]
        BY <1>2, <4>1
      <4>3. j \in 1..Len(rest)
        BY <1>2, <1>9, <3>1, <3>2, <3>4
      <4>4. after[j] = rest[j]
        BY <1>7, <1>9, <4>3
      <4> QED BY <1>9, <3>3, <3>4, <4>1, <4>2, <4>3, <4>4
    <3>5. CASE ~(k < occ)
      <4>1. k = occ
        BY <1>2, <3>3, <3>5
      <4>2. arrive /\ j = Len(rest) + 1
        BY <1>2, <1>5, <1>6, <1>9, <3>1, <3>2, <4>1
      <4>3. after[j] = word
        BY <1>7, <1>9, <4>2
      <4> QED BY <3>3, <3>5, <4>3
    <3> QED BY <3>4, <3>5
  <2> HIDE DEF after
  <2>3. Buffered' = after
    BY <1>3, <2>1, <2>2, SeqEqual
  <2> QED BY <2>3 DEF after
<1>11. Buffered' \o link' = rest \o sent
  <2>1. CASE arrive
    <3>1. word = Head(sent)
      BY <2>1 DEF word
    <3>2. Append(rest, Head(sent)) \o Tail(sent) = rest \o sent
      BY <1>5, <1>8, <1>9, <2>1, MoveHead
    <3> QED BY <1>5, <1>10, <2>1, <3>1, <3>2
  <2>2. CASE ~arrive
    BY <1>5, <1>10, <2>2
  <2> QED BY <2>1, <2>2
<1>12. Buffered' \o link' = IF send # NoData THEN Append(rest \o link, send) ELSE rest \o link
  <2>1. CASE send = NoData
    BY <1>11, <2>1 DEF sent
  <2>2. CASE send # NoData
    <3>1. send \in Data /\ sent = Append(link, send)
      BY <2>2 DEF sent, Words
    <3>2. rest \o Append(link, send) = Append(rest \o link, send)
      <4>1. rest \in Seq(Data) /\ link \in Seq(Data)
        BY <1>4, <1>9
      <4> HIDE DEF rest
      <4> QED BY <3>1, <4>1, ConcatAppend
    <3> QED BY <1>11, <2>2, <3>1, <3>2
  <2> QED BY <2>1, <2>2
<1>13. /\ queue \in Seq(Data) /\ Len(queue) = occ + Len(link)
       /\ rest \o link = IF pop THEN Tail(queue) ELSE queue
       /\ pop => queue # <<>> /\ Head(queue) = Head(Buffered)
  <2>1. queue \in Seq(Data) /\ Len(queue) = occ + Len(link)
    <3>1. Buffered \in Seq(Data) /\ link \in Seq(Data) /\ Len(Buffered) = occ
      BY <1>2, <1>4
    <3> QED BY <3>1, ConcatProperties
  <2>2. CASE pop
    <3>1. /\ queue # <<>> /\ Head(queue) = Head(Buffered)
          /\ Tail(queue) = Tail(Buffered) \o link
      <4>1. Buffered \in Seq(Data) /\ link \in Seq(Data) /\ Buffered # <<>>
        BY <1>2, <1>4, <1>9, <2>2
      <4> QED BY <4>1, TailOfConcat
    <3>2. rest \o link = Tail(queue)
      BY <2>2, <3>1
    <3> QED BY <2>1, <2>2, <3>1, <3>2
  <2>3. CASE ~pop
    BY <2>1, <2>3
  <2> QED BY <2>2, <2>3
<1>14. pop => Head(Buffered) = buf[head]
  <2>1. pop => 1 \in 1..occ
    BY <1>2, <1>5
  <2>2. At(head, 1 - 1) = head
    BY <1>4, RingZero
  <2> QED BY <1>2, <1>9, <2>1, <2>2
<1>15. send # NoData => Len(queue) < DEPTH
  BY <1>2, <1>4, <1>5, <1>13
<1> HIDE DEF rest
<1> QED BY <1>5, <1>12, <1>13, <1>14, <1>15 DEF Elastic!Transfer

(* Words leave the channel in the order they were sent, each once, and at  *)
(* most DEPTH are between sender and consumer.                             *)
THEOREM ChannelImplementsElasticQueue == Spec => ImplementsElasticQueue
<1>1. Init => Elastic!Init
  <2> SUFFICES ASSUME Init PROVE Elastic!Init
    OBVIOUS
  <2>1. Buffered \in Seq(Data) /\ Len(Buffered) = 0
    BY InitialInv, BufferedFacts DEF Init, BufferedIs
  <2>2. Buffered \o link = <<>>
    BY <2>1 DEF Init
  <2> QED BY <2>2 DEF Init, Elastic!Init
<1>2. ChannelInv /\ [Next]_vars => [Elastic!Next]_(Elastic!vars)
  <2> SUFFICES ASSUME ChannelInv, [Next]_vars PROVE [Elastic!Next]_(Elastic!vars)
    OBVIOUS
  <2>1. ASSUME NEW send \in Words, NEW arrive \in BOOLEAN, NEW pop \in BOOLEAN,
               NEW back \in BOOLEAN, Edge(send, arrive, pop, back)
        PROVE  Elastic!Transfer(send, pop)
    BY <2>1, EdgeIsTransfer
  <2>2. ASSUME Reset PROVE Elastic!Reset
    <3>1. ChannelInv'
      BY <2>2, ResetInv
    <3>2. ChannelInv' => BufferedIs'
      BY BufferedFacts, PTL
    <3>3. Buffered' = <<>>
      BY <2>2, <3>1, <3>2 DEF Reset, BufferedIs
    <3>4. Buffered' \o link' = <<>>
      BY <2>2, <3>3 DEF Reset
    <3> QED BY <2>2, <3>4 DEF Reset, Elastic!Reset
  <2>3. ASSUME UNCHANGED vars PROVE UNCHANGED Elastic!vars
    BY <2>3 DEF vars, sender, receiver, Elastic!vars, Buffered
  <2> QED BY <2>1, <2>2, <2>3 DEF Next, Elastic!Next, Words
<1> QED BY <1>1, <1>2, InitialInv, InductiveStep, PTL DEF Spec, ImplementsElasticQueue, Elastic!Spec
-----------------------------------------------------------------------------
(* The C++ classes: their fields hold what the registers hold, and the     *)
(* outputs of the last comb update are those of the registers now.  A      *)
(* counter of the class is an int that is never masked to its width.       *)
SenderMirrors ==
    /\ sim_sender \in [credit : Nat, can_send : BOOLEAN]
    /\ sim_sender.credit = credit
    /\ sim_sender.can_send <=> credit # 0
ReceiverMirrors ==
    /\ sim_receiver \in [buf : [0..(DEPTH - 1) -> Words], head : 0..(DEPTH - 1),
                         tail : 0..(DEPTH - 1), occ : Nat, valid : BOOLEAN, data : Words]
    /\ sim_receiver.buf = buf /\ sim_receiver.head = head /\ sim_receiver.tail = tail
    /\ sim_receiver.occ = occ
    /\ sim_receiver.valid <=> occ # 0
    /\ sim_receiver.data = buf[head]

(* The inductive invariant of circuit and classes.                         *)
ClassInv == ChannelInv /\ SenderMirrors /\ ReceiverMirrors

(* The classes start like the circuit.                                     *)
LEMMA ClassInitial == SimInit => ClassInv
<1> SUFFICES ASSUME SimInit PROVE ClassInv
  OBVIOUS
<1> USE CreditChannelAssumption
<1>1. ChannelInv
  BY InitialInv DEF SimInit
<1>2. SenderMirrors
  BY DEF SimInit, Init, SenderMirrors
<1>3. /\ buf = [i \in 0..(DEPTH - 1) |-> NoData] /\ head = 0 /\ tail = 0 /\ occ = 0
      /\ sim_receiver = [buf |-> [i \in 0..(DEPTH - 1) |-> NoData], head |-> 0, tail |-> 0,
                         occ |-> 0, valid |-> FALSE, data |-> NoData]
  BY DEF SimInit, Init
<1>4. 0 \in 0..(DEPTH - 1) /\ NoData \in Words /\ buf \in [0..(DEPTH - 1) -> Words]
  BY <1>3 DEF Words
<1>5. ReceiverMirrors
  BY <1>3, <1>4 DEF ReceiverMirrors
<1> QED BY <1>1, <1>2, <1>5 DEF ClassInv

(* The word the class reads from the link is the one the circuit reads.    *)
LEMMA SameWord ==
    ASSUME link \in Seq(Data), NEW send \in Words,
           (IF send = NoData THEN link ELSE Append(link, send)) # <<>>
    PROVE  Head(link \o <<send>>) = Head(IF send = NoData THEN link ELSE Append(link, send))
<1>1. CASE link = <<>>
  <2>1. send # NoData
    BY <1>1
  <2>2. link \o <<send>> = <<send>> /\ Append(link, send) = <<send>>
    BY <1>1
  <2> QED BY <2>1, <2>2
<1>2. CASE link # <<>>
  <2>1. link \in Seq(Words) /\ <<send>> \in Seq(Words) /\ Len(link) > 0
    BY <1>2 DEF Words
  <2>2. Head(link \o <<send>>) = link[1]
    BY <2>1
  <2>3. Head(link) = link[1] /\ Head(Append(link, send)) = link[1]
    BY <2>1
  <2> QED BY <2>2, <2>3
<1> QED BY <1>1, <1>2

(* An eval() on a clock edge.                                              *)
LEMMA ClassEdge ==
    ASSUME ClassInv, NEW send \in Words, NEW arrive \in BOOLEAN, NEW pop \in BOOLEAN,
           NEW back \in BOOLEAN, SimEdge(send, arrive, pop, back)
    PROVE  ClassInv'
<1> USE CreditChannelAssumption
<1> DEFINE sent == IF send = NoData THEN link ELSE Append(link, send)
           word == IF arrive THEN Head(link \o <<send>>) ELSE NoData
<1>1. ChannelInv /\ Edge(send, arrive, pop, back)
  BY DEF ClassInv, SimEdge
<1>2. ChannelInv'
  BY <1>1, EdgeInv
<1>3. /\ credit' = IF send # NoData /\ ~back THEN credit - 1
                   ELSE IF back /\ send = NoData THEN credit + 1 ELSE credit
      /\ occ' = IF arrive /\ ~pop THEN occ + 1 ELSE IF ~arrive /\ pop THEN occ - 1 ELSE occ
      /\ credit' \in 0..DEPTH /\ occ' \in 0..DEPTH
  BY <1>1, CountersStep
<1>4. /\ credit \in 0..DEPTH /\ occ \in 0..DEPTH /\ link \in Seq(Data)
      /\ buf' \in [0..(DEPTH - 1) -> Words]
      /\ head' \in 0..(DEPTH - 1) /\ tail' \in 0..(DEPTH - 1)
  BY <1>1, <1>2 DEF ChannelInv, TypeOK
<1>5. /\ pop => occ # 0
      /\ arrive => sent # <<>>
      /\ buf' = IF arrive THEN [buf EXCEPT ![tail] = Head(sent)] ELSE buf
      /\ tail' = IF arrive THEN Step(tail) ELSE tail
      /\ head' = IF pop THEN Step(head) ELSE head
  BY <1>1 DEF Edge, Receiver, valid
<1>6. arrive => word = Head(sent)
  BY <1>4, <1>5, SameWord
<1> HIDE DEF sent, word
<1>7. /\ sim_sender' = CombSender(PosedgeSender(sim_sender, send # NoData, back))
      /\ sim_receiver' = CombReceiver(PosedgeReceiver(sim_receiver, arrive, word, pop))
  BY DEF SimEdge, word
<1>8. SenderMirrors'
  <2> DEFINE s == PosedgeSender(sim_sender, send # NoData, back)
  <2>1. /\ sim_sender \in [credit : Nat, can_send : BOOLEAN]
        /\ sim_sender.credit = credit
    BY DEF ClassInv, SenderMirrors
  <2>2. s.credit = credit'
    BY <1>3, <1>4, <2>1 DEF PosedgeSender
  <2>3. s \in [credit : Nat, can_send : BOOLEAN]
    <3>1. (IF send # NoData /\ ~back THEN sim_sender.credit - 1
           ELSE IF ~(send # NoData) /\ back THEN sim_sender.credit + 1
           ELSE sim_sender.credit) \in Nat
      BY <1>3, <1>4, <2>1
    <3> QED BY <2>1, <3>1 DEF PosedgeSender
  <2> HIDE DEF s
  <2>4. /\ sim_sender' = [s EXCEPT !.can_send = s.credit # 0]
    BY <1>7 DEF CombSender, s
  <2>5. (s.credit # 0) \in BOOLEAN
    OBVIOUS
  <2>6. /\ sim_sender' \in [credit : Nat, can_send : BOOLEAN]
        /\ sim_sender'.credit = s.credit
        /\ sim_sender'.can_send = (s.credit # 0)
    BY <2>3, <2>4, <2>5, Zenon
  <2> QED BY <2>2, <2>6 DEF SenderMirrors
<1>9. ReceiverMirrors'
  <2> DEFINE r == PosedgeReceiver(sim_receiver, arrive, word, pop)
             Fields == [buf : [0..(DEPTH - 1) -> Words], head : 0..(DEPTH - 1),
                        tail : 0..(DEPTH - 1), occ : Nat, valid : BOOLEAN, data : Words]
  <2>1. /\ sim_receiver \in Fields
        /\ sim_receiver.buf = buf /\ sim_receiver.head = head /\ sim_receiver.tail = tail
        /\ sim_receiver.occ = occ
        /\ sim_receiver.valid <=> occ # 0
    BY DEF ClassInv, ReceiverMirrors
  <2>2. pop /\ sim_receiver.valid <=> pop
    BY <1>5, <2>1
  <2>3. /\ r.buf = buf' /\ r.head = head' /\ r.tail = tail' /\ r.occ = occ'
    BY <1>3, <1>4, <1>5, <1>6, <2>1, <2>2 DEF PosedgeReceiver, OccAfter
  <2>4. r \in Fields
    <3>1. PICK b, h, t, o : r = [sim_receiver EXCEPT !.buf = b, !.tail = t, !.head = h, !.occ = o]
      BY Zenon DEF PosedgeReceiver
    <3>2. r.buf = b /\ r.head = h /\ r.tail = t /\ r.occ = o
      BY <2>1, <3>1
    <3>3. /\ b \in [0..(DEPTH - 1) -> Words] /\ h \in 0..(DEPTH - 1)
          /\ t \in 0..(DEPTH - 1) /\ o \in Nat
      BY <1>3, <1>4, <2>3, <3>2
    <3> HIDE DEF r
    <3> QED BY <2>1, <3>1, <3>3
  <2> HIDE DEF r
  <2>5. sim_receiver' = [r EXCEPT !.valid = r.occ # 0, !.data = r.buf[r.head]]
    BY <1>7 DEF CombReceiver, r
  <2>6. r.buf[r.head] \in Words /\ (r.occ # 0) \in BOOLEAN
    BY <2>4
  <2>7. /\ sim_receiver' \in Fields
        /\ sim_receiver'.buf = r.buf /\ sim_receiver'.head = r.head
        /\ sim_receiver'.tail = r.tail /\ sim_receiver'.occ = r.occ
        /\ sim_receiver'.valid = (r.occ # 0)
        /\ sim_receiver'.data = r.buf[r.head]
    BY <2>4, <2>5, <2>6, Zenon
  <2> QED BY <2>3, <2>7 DEF ReceiverMirrors
<1> QED BY <1>2, <1>8, <1>9 DEF ClassInv

(* An eval() on a clock edge with the reset asserted.                      *)
LEMMA ClassReset ==
    ASSUME ClassInv, SimReset
    PROVE  ClassInv'
<1> USE CreditChannelAssumption
<1>1. ChannelInv /\ Reset
  BY DEF ClassInv, SimReset
<1>2. ChannelInv'
  BY <1>1, ResetInv
<1>3. credit' = DEPTH /\ head' = 0 /\ tail' = 0 /\ occ' = 0 /\ buf' = buf
  BY <1>1 DEF Reset
<1>4. SenderMirrors'
  <2> DEFINE s == ResetSender(sim_sender)
  <2>1. sim_sender \in [credit : Nat, can_send : BOOLEAN]
    BY DEF ClassInv, SenderMirrors
  <2>2. s.credit = credit' /\ s \in [credit : Nat, can_send : BOOLEAN]
    BY <1>3, <2>1 DEF ResetSender
  <2> HIDE DEF s
  <2>3. sim_sender' = [s EXCEPT !.can_send = s.credit # 0]
    BY DEF SimReset, CombSender, s
  <2>4. (s.credit # 0) \in BOOLEAN
    OBVIOUS
  <2>5. /\ sim_sender' \in [credit : Nat, can_send : BOOLEAN]
        /\ sim_sender'.credit = s.credit
        /\ sim_sender'.can_send = (s.credit # 0)
    BY <2>2, <2>3, <2>4, Zenon
  <2> QED BY <2>2, <2>5 DEF SenderMirrors
<1>5. ReceiverMirrors'
  <2> DEFINE r == ResetReceiver(sim_receiver)
             Fields == [buf : [0..(DEPTH - 1) -> Words], head : 0..(DEPTH - 1),
                        tail : 0..(DEPTH - 1), occ : Nat, valid : BOOLEAN, data : Words]
  <2>1. sim_receiver \in Fields /\ sim_receiver.buf = buf
    BY DEF ClassInv, ReceiverMirrors
  <2>2. 0 \in 0..(DEPTH - 1)
    OBVIOUS
  <2>3. r \in Fields /\ r.buf = buf' /\ r.head = head' /\ r.tail = tail' /\ r.occ = occ'
    BY <1>3, <2>1, <2>2 DEF ResetReceiver
  <2> HIDE DEF r
  <2>4. sim_receiver' = [r EXCEPT !.valid = r.occ # 0, !.data = r.buf[r.head]]
    BY DEF SimReset, CombReceiver, r
  <2>5. r.buf[r.head] \in Words /\ (r.occ # 0) \in BOOLEAN
    BY <2>3
  <2>6. /\ sim_receiver' \in Fields
        /\ sim_receiver'.buf = r.buf /\ sim_receiver'.head = r.head
        /\ sim_receiver'.tail = r.tail /\ sim_receiver'.occ = r.occ
        /\ sim_receiver'.valid = (r.occ # 0)
        /\ sim_receiver'.data = r.buf[r.head]
    BY <2>3, <2>4, <2>5, Zenon
  <2> QED BY <2>3, <2>6 DEF ReceiverMirrors
<1> QED BY <1>2, <1>4, <1>5 DEF ClassInv

(* Whatever step the model takes, the fields keep mirroring the registers. *)
LEMMA ClassStep ==
    ASSUME ClassInv, [SimNext]_sim_vars
    PROVE  ClassInv'
<1>1. ASSUME NEW send \in Words, NEW arrive \in BOOLEAN, NEW pop \in BOOLEAN,
             NEW back \in BOOLEAN, SimEdge(send, arrive, pop, back)
      PROVE  ClassInv'
  BY <1>1, ClassEdge
<1>2. CASE SimReset
  BY <1>2, ClassReset
<1>3. CASE UNCHANGED sim_vars
  <2>1. ChannelInv'
    BY <1>3, InductiveStep DEF sim_vars, ClassInv
  <2> QED BY <1>3, <2>1 DEF sim_vars, vars, sender, receiver, ClassInv, SenderMirrors,
                            ReceiverMirrors
<1> QED BY <1>1, <1>2, <1>3 DEF SimNext

(* Fields that mirror the registers answer as the circuit does.            *)
LEMMA ClassAgrees == ASSUME ClassInv PROVE SimAgrees
<1>1. can_send <=> credit # 0
  BY DEF ClassInv, ChannelInv, can_send, FlopIsFresh
<1>2. can_send \in BOOLEAN /\ valid \in BOOLEAN
  BY DEF ClassInv, ChannelInv, TypeOK, can_send, valid
<1>3. /\ sim_sender.can_send \in BOOLEAN /\ (sim_sender.can_send <=> credit # 0)
      /\ sim_receiver.valid \in BOOLEAN /\ (sim_receiver.valid <=> valid)
      /\ sim_receiver.data = data
  BY DEF ClassInv, SenderMirrors, ReceiverMirrors, valid, data
<1> QED BY <1>1, <1>2, <1>3, Zenon DEF SimAgrees

(* After every eval() the C++ classes of the channel's two ends show       *)
(* can_send, valid and data of the circuit, with the comparison and with   *)
(* the flop: no counter of theirs needs the mask the circuit has.          *)
THEOREM ChannelClassAgrees == SimSpec => []SimAgrees
BY ClassInitial, ClassStep, ClassAgrees, PTL DEF SimSpec
-----------------------------------------------------------------------------
(* The lemmas of SynchronizerProofs, about the synchronizer of Channels.   *)
Crossings == INSTANCE SynchronizerProofs WITH
    Kinds <- {"ff", "gray", "handshake", "reset", "pulse"},
    Samplings <- BOOLEAN, CDC_RANDOM <- FALSE,
    kind <- y_kind, async <- y_async, metastable <- y_metastable, rst <- y_rst,
    cleared <- y_cleared, data_in <- y_data_in, data_reg <- y_data_reg,
    req_src <- y_req_src, ack_sync <- y_ack_sync, chain <- y_chain, ack_dst <- y_ack_dst,
    data_out_reg <- y_data_out_reg, gap <- y_gap, pushed <- y_pushed, popped <- y_popped,
    clk <- y_clk, sim <- y_sim, owed <- y_owed, sim_owed <- y_sim_owed,
    window <- y_window, quiet <- y_quiet

(* Crossings has the sizes the theorems of SynchronizerProofs assume.      *)
LEMMA CrossingsSized == Crossings!CrossingSized /\ Crossings!Sized
<1>1. NoData \notin SUBSET (0..(WIDTH - 1))
  BY SynchronizerAssumption
<1> QED BY <1>1, SynchronizerAssumption
        DEF Crossings!CrossingSized, Crossings!Sized, Crossings!Bits, Crossings!FiveKinds

(* Both instances define the same circuit: its edges,                      *)
LEMMA SameEdges ==
    ASSUME NEW src, NEW dst
    PROVE  Sync!Edges(src, dst) <=> Crossings!Edges(src, dst)
<1>1. Sync!SourceRegisters <=> Crossings!SourceRegisters
  BY DEF Sync!SourceRegisters, Crossings!SourceRegisters, Sync!MayLatch,
            Crossings!MayLatch, Sync!ack_src, Crossings!ack_src, Sync!Bits, Crossings!Bits,
            Sync!Low, Crossings!Low, Sync!High, Crossings!High, Sync!Level,
            Crossings!Level, Sync!Xor, Crossings!Xor, Sync!Invert, Crossings!Invert
<1>2. Sync!DestinationRegisters <=> Crossings!DestinationRegisters
  BY DEF Sync!DestinationRegisters, Crossings!DestinationRegisters, Sync!Captures,
            Crossings!Captures, Sync!ReleaseStep, Crossings!ReleaseStep, Sync!Crossing,
            Crossings!Crossing, Sync!bin_to_gray, Crossings!bin_to_gray, Sync!ShiftRight,
            Crossings!ShiftRight, Sync!Bits, Crossings!Bits, Sync!Low, Crossings!Low,
            Sync!High, Crossings!High, Sync!Level, Crossings!Level, Sync!Xor,
            Crossings!Xor, Sync!Invert, Crossings!Invert, Sync!Shift, Crossings!Shift,
            Sync!Filled, Crossings!Filled, Sync!last, Crossings!last, Sync!Sampled,
            Crossings!Sampled, Sync!Mixed, Crossings!Mixed
<1>3. Sync!AcknowledgeChain <=> Crossings!AcknowledgeChain
  BY DEF Sync!AcknowledgeChain, Crossings!AcknowledgeChain, Sync!Bits, Crossings!Bits,
            Sync!Low, Crossings!Low, Sync!High, Crossings!High, Sync!Level,
            Crossings!Level, Sync!Xor, Crossings!Xor, Sync!Invert, Crossings!Invert,
            Sync!Shift, Crossings!Shift, Sync!Filled, Crossings!Filled, Sync!last,
            Crossings!last, Sync!Sampled, Crossings!Sampled, Sync!Mixed, Crossings!Mixed
<1>4. Sync!Driven = Crossings!Driven
  BY DEF Sync!Driven, Crossings!Driven, Sync!Increment, Crossings!Increment, Sync!Word,
            Crossings!Word, Sync!Bits, Crossings!Bits, Sync!Low, Crossings!Low, Sync!High,
            Crossings!High, Sync!Level, Crossings!Level, Sync!Xor, Crossings!Xor,
            Sync!Invert, Crossings!Invert
<1> QED BY <1>1, <1>2, <1>3, <1>4
        DEF Sync!Edges, Crossings!Edges, Sync!High, Crossings!High, Sync!design,
            Crossings!design, Sync!destination, Crossings!destination

(* its steps that no clock takes,                                          *)
LEMMA SameResets ==
    /\ Sync!AssertReset <=> Crossings!AssertReset
    /\ Sync!ReleaseReset <=> Crossings!ReleaseReset
    /\ Sync!AsyncInput <=> Crossings!AsyncInput
BY DEF Sync!AssertReset, Crossings!AssertReset, Sync!ReleaseReset,
            Crossings!ReleaseReset, Sync!AsyncInput, Crossings!AsyncInput, Sync!source,
            Crossings!source, Sync!destination, Crossings!destination, Sync!design,
            Crossings!design, Sync!Level, Crossings!Level, Sync!Low, Crossings!Low,
            Sync!High, Crossings!High, Sync!Filled, Crossings!Filled

(* its output, and the object of the C++ class,                            *)
LEMMA SameObject ==
    /\ Sync!data_out = Crossings!data_out
    /\ \A c : Sync!EvalComb(c) = Crossings!EvalComb(c)
    /\ \A c, level, input, skip :
          Sync!EvalPosedge(c, level, input, skip) = Crossings!EvalPosedge(c, level, input, skip)
    /\ \A level, input : Sync!eval(level, input) <=> Crossings!eval(level, input)
<1>1. Sync!data_out = Crossings!data_out
  BY DEF Sync!data_out, Crossings!data_out, Sync!gray_to_bin, Crossings!gray_to_bin,
            Sync!Cardinality, Crossings!Cardinality, Sync!last, Crossings!last, Sync!Bits,
            Crossings!Bits, Sync!EdgeOfLastTwo, Crossings!EdgeOfLastTwo, Sync!Xor,
            Crossings!Xor
<1>2. ASSUME NEW c PROVE Sync!EvalComb(c) = Crossings!EvalComb(c)
  <2>1. ASSUME NEW g PROVE Sync!Doubling(g) = Crossings!Doubling(g)
    BY DEF Sync!Doubling, Crossings!Doubling, Sync!ShiftRight, Crossings!ShiftRight,
            Sync!Xor, Crossings!Xor, Sync!Bits, Crossings!Bits
  <2> QED BY <2>1 DEF Sync!EvalComb, Crossings!EvalComb, Sync!Xor, Crossings!Xor
<1>3. ASSUME NEW c, NEW level, NEW input, NEW skip
      PROVE  Sync!EvalPosedge(c, level, input, skip) = Crossings!EvalPosedge(c, level, input, skip)
  BY DEF Sync!EvalPosedge, Crossings!EvalPosedge, Sync!SimReset, Crossings!SimReset,
            Sync!Object, Crossings!Object, Sync!SimSource, Crossings!SimSource,
            Sync!SimDestination, Crossings!SimDestination, Sync!BeforeHandshake,
            Crossings!BeforeHandshake, Sync!PrevBeforeShift, Crossings!PrevBeforeShift,
            Sync!bin_to_gray, Crossings!bin_to_gray, Sync!ShiftRight, Crossings!ShiftRight,
            Sync!Shift, Crossings!Shift, Sync!Filled, Crossings!Filled, Sync!Bits,
            Crossings!Bits, Sync!Low, Crossings!Low, Sync!High, Crossings!High, Sync!Xor,
            Crossings!Xor, Sync!Invert, Crossings!Invert
<1>4. ASSUME NEW level, NEW input PROVE Sync!eval(level, input) <=> Crossings!eval(level, input)
  BY <1>2, <1>3 DEF Sync!eval, Crossings!eval
<1> QED BY <1>1, <1>2, <1>3, <1>4

(* and so the same initial states and steps.                               *)
LEMMA SameCrossings ==
    /\ Sync!SimInit => Crossings!SimInit
    /\ Sync!SimNext => Crossings!SimNext
<1>1. Sync!SimInit => Crossings!SimInit
  <2>1. Sync!Init <=> Crossings!Init
    BY DEF Sync!Init, Crossings!Init, Sync!Filled, Crossings!Filled, Sync!Low,
            Crossings!Low, Sync!High, Crossings!High
  <2>2. Sync!Object = Crossings!Object
    BY DEF Sync!Object, Crossings!Object, Sync!Filled, Crossings!Filled, Sync!Low,
            Crossings!Low
  <2> QED BY <2>1, <2>2, SameObject
         DEF Sync!SimInit, Crossings!SimInit, Sync!Filled, Crossings!Filled, Sync!Low,
             Crossings!Low
<1>2. ASSUME NEW src \in BOOLEAN, NEW dst \in BOOLEAN, Sync!Rise(src, dst)
      PROVE  Crossings!Rise(src, dst)
  BY <1>2, SameEdges, SameObject
        DEF Sync!Rise, Crossings!Rise, Sync!Due, Crossings!Due, Sync!High, Crossings!High,
            Sync!Low, Crossings!Low, Sync!Filled, Crossings!Filled, Sync!Shift,
            Crossings!Shift
<1>3. Sync!Settle => Crossings!Settle
  BY SameObject DEF Sync!Settle, Crossings!Settle, Sync!vars, Crossings!vars, Sync!design,
            Crossings!design, Sync!source, Crossings!source, Sync!destination,
            Crossings!destination
<1>4. Sync!Asynchronous => Crossings!Asynchronous
  BY SameResets, SameObject
     DEF Sync!Asynchronous, Crossings!Asynchronous, Sync!High, Crossings!High, Sync!Low,
         Crossings!Low, Sync!Filled, Crossings!Filled
<1> QED BY <1>1, <1>2, <1>3, <1>4 DEF Sync!SimNext, Crossings!SimNext

(* Each step of Channels is a step of the synchronizer or leaves it alone. *)
LEMMA CrossingsStep ==
    ASSUME [ChannelsNext]_<<connection, sim_vars, sync_vars, tlm_vars>>
    PROVE  [Crossings!SimNext]_(Crossings!simVars)
<1>1. ASSUME UNCHANGED sync_vars PROVE UNCHANGED Crossings!simVars
  BY <1>1 DEF sync_vars, Crossings!simVars, Crossings!vars, Crossings!design,
              Crossings!source, Crossings!destination
<1> QED BY <1>1, SameCrossings DEF ChannelsNext, Credits, Crossing, Clocked, ResetMethod

(* kind gray: although its bits are sampled one by one, the output is a    *)
(* value the counter had at one sampling edge.  kind pulse, circuit and    *)
(* C++ class: spaced pulses are neither lost nor doubled.  kind reset: the *)
(* release takes STAGES quiet edges.  For every number of stages and every *)
(* width, whether or not coincident edges sample old or new.               *)
THEOREM ChannelsCrossClean == ChannelsSpec => []CrossingsAreClean
<1>1. ChannelsInit => Crossings!CrossingInv
  BY SameCrossings, CrossingsSized, Crossings!CrossingInit DEF ChannelsInit
<1>2. Crossings!CrossingInv /\ [ChannelsNext]_<<connection, sim_vars, sync_vars, tlm_vars>>
        => Crossings!CrossingInv'
  BY CrossingsStep, CrossingsSized, Crossings!CrossingStep
<1>3. Crossings!CrossingInv => CrossingsAreClean
  <2>1. Crossings!CrossingInv => Crossings!CrossingsAreClean
    BY CrossingsSized, Crossings!CrossingClean
  <2>2. Sync!GrayIsCoherent <=> Crossings!GrayIsCoherent
    BY DEF Sync!GrayIsCoherent, Crossings!GrayIsCoherent, Sync!gray_to_bin,
            Crossings!gray_to_bin, Sync!Cardinality, Crossings!Cardinality, Sync!Bits,
            Crossings!Bits
  <2> QED BY <2>1, <2>2, SameObject
          DEF CrossingsAreClean,
              Sync!CrossingsAreClean, Crossings!CrossingsAreClean, Sync!PulsesConserved,
            Crossings!PulsesConserved, Sync!SimPulsesConserved,
            Crossings!SimPulsesConserved, Sync!SimPulsesNotDoubled,
            Crossings!SimPulsesNotDoubled, Sync!ReleaseIsSynchronous,
            Crossings!ReleaseIsSynchronous, Sync!High, Crossings!High, Sync!Low,
            Crossings!Low
<1> QED BY <1>1, <1>2, <1>3, PTL DEF ChannelsSpec

(* The C++ objects of both ends of the credit channel show after each      *)
(* call of eval() what their circuits show.  So does that of a             *)
(* synchronizer of kind ff, gray, handshake or reset, out of reset and     *)
(* without --cdc-random, coincident edges of its two clocks included.      *)
(* Nothing is said of kind pulse, whose class has a timing of its own.     *)
THEOREM ChannelsClassesAgree == ChannelsSpec => []ClassesAgree
<1> DEFINE Inv == ClassInv /\ Crossings!CrossingInv
<1>1. ChannelsInit => Inv
  BY SameCrossings, CrossingsSized, Crossings!CrossingInit, ClassInitial DEF ChannelsInit
<1>2. Inv /\ [ChannelsNext]_<<connection, sim_vars, sync_vars, tlm_vars>> => Inv'
  <2> SUFFICES ASSUME Inv, [ChannelsNext]_<<connection, sim_vars, sync_vars, tlm_vars>>
               PROVE  Inv'
    OBVIOUS
  <2>1. [SimNext]_sim_vars
    BY DEF ChannelsNext, Credits, Crossing, Clocked, ResetMethod
  <2> QED BY <2>1, ClassStep, CrossingsStep, CrossingsSized, Crossings!CrossingStep
<1>3. Inv => ClassesAgree
  <2>1. Crossings!CrossingInv => Crossings!SimAgrees
    BY CrossingsSized, Crossings!CrossingAgrees
  <2> QED BY <2>1, SameObject, ClassAgrees DEF ClassesAgree, Sync!SimAgrees, Crossings!SimAgrees
<1> QED BY <1>1, <1>2, <1>3, PTL DEF ChannelsSpec

(* kind handshake, for every number of stages, every width, and clocks     *)
(* that coincide or not: each word latched in the source domain is         *)
(* captured in the destination domain once and in order, and data_reg,     *)
(* which crosses without a chain, is not written on the edge that captures *)
(* it.                                                                     *)
THEOREM ChannelsHandshake == ChannelsSpec => HandshakeIsChannel
<1> DEFINE Moves == [ChannelsNext]_<<connection, sim_vars, sync_vars, tlm_vars>>
           Inv == Crossings!HandshakeInv
<1>1. ChannelsInit => Crossings!Init
  BY SameCrossings DEF ChannelsInit, Crossings!SimInit
<1>2. Moves => [Crossings!Next]_(Crossings!vars)
  BY CrossingsStep, Crossings!SimIsNext
<1>3. ChannelsInit => Inv /\ Sync!Channel!Init
  BY <1>1, Crossings!HandshakeInit DEF Crossings!Init, Sync!Channel!Init, Sync!InFlight
<1>4. Inv /\ Moves => Inv'
  BY <1>2, CrossingsSized, Crossings!HandshakeStep
<1>5. Inv /\ Moves => [Sync!Channel!Next]_(Sync!Channel!vars)
  <2>1. Inv /\ Moves => [Crossings!Channel!Next]_(Crossings!Channel!vars)
    BY <1>2, CrossingsSized, Crossings!HandshakeSteps
  <2>2. /\ UNCHANGED Crossings!Channel!vars => UNCHANGED Sync!Channel!vars
        /\ Crossings!Channel!Next => Sync!Channel!Next
    BY DEF Sync!Channel!vars, Crossings!Channel!vars, Sync!Channel!Next,
           Crossings!Channel!Next, Sync!Channel!Transfer, Crossings!Channel!Transfer,
           Sync!Channel!Reset, Crossings!Channel!Reset, Sync!Bits, Crossings!Bits,
           Sync!InFlight, Crossings!InFlight
  <2> QED BY <2>1, <2>2
<1>6. Inv /\ Moves => [y_popped' # NoData => y_data_reg' = y_data_reg]_(Sync!vars)
  <2>1. Inv /\ Moves => [y_popped' # NoData => y_data_reg' = y_data_reg]_(Crossings!vars)
    BY <1>2, CrossingsSized, Crossings!StableStep
  <2>2. UNCHANGED Crossings!vars => UNCHANGED Sync!vars
    BY DEF Sync!vars, Crossings!vars, Sync!design, Crossings!design, Sync!source,
            Crossings!source, Sync!destination, Crossings!destination
  <2> QED BY <2>1, <2>2
<1> QED BY <1>3, <1>4, <1>5, <1>6, PTL
        DEF ChannelsSpec, HandshakeIsChannel, Sync!HandshakeIsChannel, Sync!Channel!Spec,
            Sync!StableWhenSampled
-----------------------------------------------------------------------------
(* The links on which answers find their call (section 3 of the README has *)
(* the others): behind a decoded connect one call at a time, in a locked   *)
(* group one target that takes one call at a time, and a handwritten       *)
(* initiator that tells its calls apart by their tags.  Only a fork group  *)
(* has a join.                                                             *)
Paired(l) ==
    /\ l.target = "decoded" => l.n = 1
    /\ l.initiator = "group" /\ l.n > 1 => l.target = "thread"
    /\ l.initiator = "port" => (l.tagged \/ l.n = 1) /\ l.target # "pool"
    /\ l.joins => l.initiator = "fork"

LinksPaired == \A l \in Links : Paired(l)

(* The links that are model-checked are such links.                        *)
LEMMA CheckedArePaired == Links = CheckedLinks => LinksPaired
<1>1. ASSUME NEW l, l.initiator = "group", l.n = 1, ~l.joins PROVE Paired(l)
  <2>1. ~(l.n > 1)
    BY <1>1
  <2>2. l.initiator # "port" /\ (l.joins => l.initiator = "fork")
    BY <1>1
  <2> QED BY <1>1, <2>1, <2>2, Zenon DEF Paired
<1>2. Paired(Between("cohort", 3, FALSE, "priority", "pool"))
  BY DEF Paired, Between
<1>3. Paired(Between("cohort", 2, FALSE, "priority", "thread"))
  BY DEF Paired, Between
<1>4. Paired(Between("cohort", 2, TRUE, "priority", "lanes"))
  BY DEF Paired, Between
<1>5. Paired(Between("cohort", 2, TRUE, "priority", "pool"))
  BY DEF Paired, Between
<1>6. Paired(Between("cohort", 3, TRUE, "round_robin", "lanes"))
  BY DEF Paired, Between
<1>7. Paired([Between("fork", 3, FALSE, "priority", "pool")
                EXCEPT !.delay = <<0, 1, 3>>, !.tail = TRUE])
  BY DEF Paired, Between
<1>8. Paired(Between("fork", 2, TRUE, "priority", "lanes"))
  BY DEF Paired, Between
<1>9. Paired(Between("group", 3, FALSE, "round_robin", "thread"))
  BY DEF Paired, Between
<1>10. Paired(Between("group", 2, FALSE, "priority", "thread"))
  BY DEF Paired, Between
<1>11. Paired(Between("group", 1, TRUE, "priority", "pool"))
  <2> DEFINE l == Between("group", 1, TRUE, "priority", "pool")
  <2>1. l.initiator = "group" /\ l.n = 1 /\ ~l.joins
    BY DEF Between
  <2> QED BY <1>1, <2>1
<1>12. Paired(OneThread)
  <2>1. OneThread.initiator = "group" /\ OneThread.n = 1 /\ ~OneThread.joins
    BY DEF OneThread, Between
  <2> QED BY <1>1, <2>1
<1>13. Paired([OneThread EXCEPT !.missing = {1}])
  <2> DEFINE l == [OneThread EXCEPT !.missing = {1}]
  <2>1. l.initiator = "group" /\ l.n = 1 /\ ~l.joins
    BY DEF OneThread, Between
  <2> QED BY <1>1, <2>1
<1>14. Paired(Between("port", 2, TRUE, "priority", "lanes"))
  BY DEF Paired, Between
<1>15. Paired([Between("port", 3, TRUE, "round_robin", "lanes") EXCEPT !.body = FALSE])
  BY DEF Paired, Between
<1>16. ASSUME NEW l \in CheckedLinks PROVE Paired(l)
  BY <1>2, <1>3, <1>4, <1>5, <1>6, <1>7, <1>8, <1>9, <1>10, <1>11, <1>12, <1>13, <1>14,
      <1>15, Zenon DEF CheckedLinks
<1> QED BY <1>16 DEF LinksPaired

Asked == [who : Method!Calls, addr : Method!Address, tag : Method!Calls]
MethodTypeOK ==
    /\ t_link \in Links
    /\ t_state \in [Method!Calls -> {"issue", "wait", "done", "compute"}]
    /\ t_order \in [fifo : [Method!Calls -> Method!Calls], head : Method!Calls,
                    tail : Method!Calls, occ : 0..t_link.n]
    /\ t_age \in Nat /\ t_rr_ptr \in Method!Calls /\ t_err_valid \in BOOLEAN
    /\ t_unit \in [Method!Units -> [st : {"entry", "body", "respond"},
                                    latched : Asked \cup {NoData}]]
    /\ t_hold \in [valid : BOOLEAN, idx : Method!Calls]
    /\ t_arb \in [hold_valid : BOOLEAN, owner : Method!Calls, rr : Method!Calls]
    /\ t_pool \in Seq(Asked) /\ t_addr \in [Method!Calls -> Method!Address]

(* A target holds requests of waiting calls, as they were made, each where *)
(* it belongs, and every waiting call is held.                             *)
UnitsOK ==
    \A u \in Method!Units : ~Method!Entry(u) =>
        LET r == t_unit[u].latched IN
        /\ r.who \in Method!Waiting /\ r = Method!Request(r.who)
        /\ Method!selected(r) = u /\ u \notin t_link.missing
        /\ t_link.target = "decoded" => t_route = u
PoolOK ==
    /\ \A k \in DOMAIN t_pool :
          t_pool[k].who \in Method!Waiting /\ t_pool[k] = Method!Request(t_pool[k].who)
    /\ \A j, k \in DOMAIN t_pool : t_pool[j].who = t_pool[k].who => j = k
    /\ t_link.target # "pool" => t_pool = <<>>
Served(i) ==
    CASE t_link.target = "pool" -> \E k \in DOMAIN t_pool : t_pool[k].who = i
      [] t_link.target = "decoded" /\ t_addr[i] \in t_link.missing -> t_err_valid
      [] OTHER -> LET u == Method!selected(Method!Request(i))
                  IN  ~Method!Entry(u) /\ t_unit[u].latched.who = i
HeldOK == \A i \in Method!Waiting : Served(i)
ErrorOK == t_err_valid => /\ t_link.target = "decoded"
                          /\ \E i \in Method!Waiting : t_addr[i] \in t_link.missing

(* The issue order has the waiting calls, in the order of the answers.     *)
InOrder == t_link.initiator \in {"cohort", "fork"}
OrderOK ==
    InOrder =>
        /\ t_order.occ = Cardinality(Method!Waiting)
        /\ t_order.tail = (t_order.head + t_order.occ) % t_link.n
        /\ t_link.target = "pool" => Len(t_pool) = t_order.occ
        /\ Method!Blocking /\ t_link.target = "pool" =>
              \A k \in DOMAIN t_pool :
                  t_order.fifo[(t_order.head + k - 1) % t_link.n] = t_pool[k].who
        /\ Method!Blocking /\ t_link.target # "pool" =>
              \A i \in Method!Waiting : t_order.fifo[t_order.head] = i

(* What is offered and not accepted: a request of a call that goes on      *)
(* asking, in a fork group of the first that is due; a response, only to a *)
(* handwritten initiator, that lanes hold and other targets keep offering. *)
HoldOK == t_hold.valid =>
              /\ t_link.target = "lanes" /\ t_hold.idx \in Method!Units
              /\ t_unit[t_hold.idx].st = "respond"
RspHeld ==
    t_stalled.rsp # NoData => /\ t_link.initiator = "port"
                              /\ t_link.target = "lanes" => t_hold.valid
                              /\ Method!RspStable
ReqHeld ==
    t_stalled.req # NoData =>
        LET c == t_stalled.req.who IN
        /\ c \in Method!InState("issue") /\ t_stalled.req = Method!Request(c)
        /\ t_link.initiator = "fork" =>
              Method!Aged(c) /\ \A j \in Method!InState("issue") : c <= j

(* The calls answered since the last join.                                 *)
JoinOK == t_link.joins => \/ t_joined = Method!InState("done") /\ t_joined # Method!Calls
                          \/ t_joined = {} /\ Method!AllDone

(* The inductive invariant.                                                *)
MethodInv ==
    /\ MethodTypeOK /\ UnitsOK /\ PoolOK /\ HeldOK /\ ErrorOK /\ OrderOK
    /\ HoldOK /\ RspHeld /\ ReqHeld /\ JoinOK
-----------------------------------------------------------------------------
(* What a link is.                                                         *)
LEMMA LinkIs ==
    ASSUME LinksPaired, t_link \in Links
    PROVE  /\ t_link.n \in Nat \ {0} /\ t_link.tagged \in BOOLEAN
           /\ t_link.initiator \in {"cohort", "fork", "group", "port"}
           /\ t_link.target \in {"thread", "lanes", "decoded", "pool"}
           /\ t_link.delay \in [1..t_link.n -> Nat]
           /\ \A i, j \in 1..t_link.n : i <= j => t_link.delay[i] <= t_link.delay[j]
           /\ t_link.target = "lanes" => t_link.tagged
           /\ t_link.target = "decoded" => ~t_link.tagged /\ t_link.n = 1
           /\ t_link.missing \subseteq {0, 1}
           /\ t_link.target # "decoded" => t_link.missing = {}
           /\ t_link.initiator = "group" /\ t_link.n > 1 => t_link.target = "thread"
           /\ t_link.initiator = "port" =>
                 (t_link.tagged \/ t_link.n = 1) /\ t_link.target # "pool"
           /\ t_link.joins => t_link.initiator = "fork"
           /\ Method!Calls = 0..(t_link.n - 1) /\ 0 \in Method!Calls
           /\ NoData \notin Asked /\ Method!Error # NoData /\ Method!Error \notin Asked
<1>1. Method!Calls = 0..(t_link.n - 1)
  BY DEF Method!Calls
<1>2. NoData \notin [who : -1..(t_link.n - 1), addr : -1..1, tag : 0..(t_link.n - 1)]
  BY LinksWellFormed DEF Method!WellFormed
<1>3. t_link.n \in Nat \ {0}
  BY LinksWellFormed DEF Method!WellFormed
<1>4. Asked \subseteq [who : -1..(t_link.n - 1), addr : -1..1, tag : 0..(t_link.n - 1)]
  BY <1>1, <1>3 DEF Asked, Method!Address
<1>5. Method!Error \in [who : -1..(t_link.n - 1), addr : -1..1, tag : 0..(t_link.n - 1)]
  BY <1>3 DEF Method!Error
<1>6. Method!Error \notin Asked
  BY <1>1, <1>3 DEF Asked, Method!Error
<1> QED BY <1>1, <1>2, <1>3, <1>4, <1>5, <1>6, LinksWellFormed
        DEF Method!WellFormed, LinksPaired, Paired

(* Method!Cardinality is that of FiniteSets.                               *)
LEMMA CallsAreCounted == \A S : Method!Cardinality(S) = Cardinality(S)
BY DEF Method!Cardinality, Cardinality, Method!IsFiniteSet, IsFiniteSet

(* A set has at most one lowest number, and one nearest to the scan start. *)
LEMMA OneLowest ==
    ASSUME NEW n \in Nat \ {0}, NEW S \in SUBSET (0..(n - 1)), NEW s \in 0..(n - 1)
    PROVE  /\ Method!Lowest(S) \subseteq S /\ Method!FromScan(S, s, n) \subseteq S
           /\ \A i, j \in Method!Lowest(S) : i = j
           /\ \A i, j \in Method!FromScan(S, s, n) : i = j
<1> DEFINE Dist(x) == IF x >= s THEN x - s ELSE x - s + n
<1>1. ASSUME NEW x \in 0..(n - 1) PROVE (x - s) % n = Dist(x)
  <2>1. CASE x >= s
    BY <2>1
  <2>2. CASE x < s
    BY <2>2
  <2> QED BY <2>1, <2>2
<1>2. ASSUME NEW i \in Method!FromScan(S, s, n), NEW j \in Method!FromScan(S, s, n)
      PROVE  i = j
  <2>1. i \in 0..(n - 1) /\ j \in 0..(n - 1)
    BY DEF Method!FromScan
  <2>2. Dist(i) <= Dist(j) /\ Dist(j) <= Dist(i)
    BY <1>1, <1>2 DEF Method!FromScan
  <2> QED BY <2>1, <2>2
<1> QED BY <1>2 DEF Method!Lowest, Method!FromScan

(* Calls that still ask leave room in the issue order.                     *)
LEMMA AskersHaveRoom ==
    ASSUME LinksPaired, MethodTypeOK, OrderOK, InOrder, Method!InState("issue") # {}
    PROVE  Method!HasRoom
<1>1. IsFiniteSet(Method!Calls) /\ Cardinality(Method!Calls) = t_link.n
  <2>1. t_link.n \in Nat \ {0} /\ Method!Calls = 0..(t_link.n - 1)
    BY LinkIs DEF MethodTypeOK
  <2>2. /\ IsFiniteSet(0..(t_link.n - 1))
        /\ Cardinality(0..(t_link.n - 1)) = t_link.n - 1 - 0 + 1
    BY <2>1, FS_Interval
  <2> QED BY <2>1, <2>2
<1>2. Method!Waiting \subseteq Method!Calls /\ Method!Waiting # Method!Calls
  BY DEF Method!Waiting, Method!InState, MethodTypeOK
<1>3. Cardinality(Method!Waiting) <= t_link.n /\ Cardinality(Method!Waiting) # t_link.n
      /\ Cardinality(Method!Waiting) \in Nat
  BY <1>1, <1>2, FS_Subset, FS_CardinalityType
<1> QED BY <1>3, CallsAreCounted, LinkIs DEF OrderOK, Method!HasRoom, MethodTypeOK

(* What the initiator grants is one call that asks.                        *)
LEMMA GrantIs ==
    ASSUME LinksPaired, MethodTypeOK, ReqHeld, NEW pick \in Method!Picks
    PROVE  /\ Method!grants(pick) \subseteq Method!InState("issue")
           /\ \A i, j \in Method!grants(pick) : i = j
           /\ \/ Method!grants(pick) = {} /\ Method!request(pick) = NoData
              \/ \E c \in Method!InState("issue") :
                    /\ Method!grants(pick) = {c} /\ Method!request(pick) = Method!Request(c)
                    /\ Method!Request(c) \in Asked
<1>1. Method!wants \subseteq Method!InState("issue") /\ Method!wants \subseteq 0..(t_link.n - 1)
  BY LinkIs DEF Method!wants, Method!InState, MethodTypeOK
<1>1a. /\ Method!Lowest(Method!wants) \subseteq Method!wants
       /\ Method!FromScan(Method!wants, t_rr_ptr, t_link.n) \subseteq Method!wants
       /\ \A i, j \in Method!Lowest(Method!wants) : i = j
       /\ \A i, j \in Method!FromScan(Method!wants, t_rr_ptr, t_link.n) : i = j
  <2>1. t_link.n \in Nat \ {0} /\ t_rr_ptr \in 0..(t_link.n - 1)
    BY LinkIs DEF MethodTypeOK
  <2> QED BY <1>1, <2>1, OneLowest
<1>2. Method!grants(pick) \subseteq Method!InState("issue")
  <2>1. CASE t_link.initiator = "port"
    BY <1>1, <2>1 DEF Method!grants, ReqHeld
  <2>2. CASE t_link.initiator # "port"
    BY <1>1, <1>1a, <2>2 DEF Method!grants
  <2> QED BY <2>1, <2>2
<1>3. \A i, j \in Method!grants(pick) : i = j
  <2>1. CASE t_link.initiator = "port"
    BY <2>1 DEF Method!grants, Method!Picks
  <2>2. CASE t_link.initiator # "port"
    BY <1>1, <1>1a, <2>2 DEF Method!grants
  <2> QED BY <2>1, <2>2
<1>4. ASSUME NEW c \in Method!Calls PROVE Method!Request(c) \in Asked
  BY LinkIs DEF Method!Request, Method!req_tag, Asked, MethodTypeOK
<1>5. ASSUME Method!grants(pick) # {}
      PROVE  \E c \in Method!InState("issue") :
                    /\ Method!grants(pick) = {c} /\ Method!request(pick) = Method!Request(c)
                    /\ Method!Request(c) \in Asked
  <2>1. PICK c \in Method!grants(pick) : TRUE
    BY <1>5
  <2>2. Method!grants(pick) = {c} /\ c \in Method!InState("issue") /\ c \in Method!Calls
    BY <1>2, <1>3, <2>1 DEF Method!InState
  <2>3. (CHOOSE i \in Method!grants(pick) : TRUE) = c
    BY <1>3, <2>1
  <2> QED BY <1>4, <1>5, <2>2, <2>3 DEF Method!request
<1> QED BY <1>2, <1>3, <1>5 DEF Method!request

(* At most one unit is offered to the initiator, a lane that is held first.*)
LEMMA OfferIs ==
    ASSUME LinksPaired, MethodTypeOK, HoldOK, NEW release \in BOOLEAN
    PROVE  /\ Method!offering(release) \subseteq Method!responding
           /\ \A u, v \in Method!offering(release) : u = v
           /\ t_link.target = "lanes" =>
                 /\ Method!arb_grant(release) \subseteq Method!arb_req
                 /\ \A u, v \in Method!arb_grant(release) : u = v
                 /\ t_hold.valid => Method!arb_grant(release) = {}
                                    /\ Method!offering(release) = {t_hold.idx}
                 /\ ~t_hold.valid => Method!offering(release) = Method!arb_grant(release)
<1>1. CASE t_link.target = "lanes"
  <2>1. Method!Units = Method!Calls
    BY <1>1 DEF Method!Units
  <2>2. /\ t_link.n \in Nat \ {0} /\ Method!arb_req \subseteq 0..(t_link.n - 1)
        /\ t_arb.rr \in 0..(t_link.n - 1)
    BY <2>1, LinkIs DEF MethodTypeOK, Method!arb_req, Method!responding
  <2>3. /\ Method!Lowest(Method!arb_req) \subseteq Method!arb_req
        /\ Method!FromScan(Method!arb_req, t_arb.rr, t_link.n) \subseteq Method!arb_req
        /\ \A i, j \in Method!Lowest(Method!arb_req) : i = j
        /\ \A i, j \in Method!FromScan(Method!arb_req, t_arb.rr, t_link.n) : i = j
    BY <2>2, OneLowest
  <2>4. /\ Method!arb_grant(release) \subseteq Method!arb_req
        /\ \A u, v \in Method!arb_grant(release) : u = v
    BY <2>3 DEF Method!arb_grant
  <2>5. Method!offering(release) =
            (Method!held_lane \cup Method!arb_grant(release)) \cap Method!responding
    BY <1>1 DEF Method!offering
  <2>6. CASE t_hold.valid
    <3>1. Method!arb_req = {} /\ Method!arb_grant(release) = {}
      BY <2>4, <2>6 DEF Method!arb_req
    <3>2. t_hold.idx \in Method!responding
      BY <2>6 DEF HoldOK, Method!responding
    <3> QED BY <2>4, <2>5, <2>6, <3>1, <3>2 DEF Method!held_lane
  <2>7. CASE ~t_hold.valid
    <3>1. Method!arb_req = Method!responding /\ Method!held_lane = {}
      BY <2>7 DEF Method!arb_req, Method!held_lane
    <3> QED BY <2>4, <2>5, <2>7, <3>1
  <2> QED BY <2>6, <2>7
<1>2. CASE t_link.target = "decoded"
  BY <1>2 DEF Method!offering
<1>3. CASE t_link.target \in {"thread", "pool"}
  <2>1. Method!offering(release) = Method!responding
    BY <1>3 DEF Method!offering
  <2>2. \A u, v \in Method!responding : u = v
    BY <1>3 DEF Method!responding, Method!Units
  <2> QED BY <1>3, <2>1, <2>2
<1> QED BY <1>1, <1>2, <1>3, LinkIs DEF MethodTypeOK

(* Where a response comes from.                                            *)
LEMMA SourceIs ==
    ASSUME LinksPaired, MethodTypeOK, HoldOK, NEW release \in BOOLEAN,
           NEW offer \in Method!Offers, Method!response(offer, release) # NoData
    PROVE  LET rsp == Method!response(offer, release) IN
           \/ /\ t_link.target = "pool" /\ offer \in DOMAIN t_pool /\ rsp = t_pool[offer]
              /\ Method!Blocking => offer = 1
           \/ t_link.target = "decoded" /\ t_err_valid /\ rsp = Method!Error
           \/ /\ t_link.target # "pool" /\ ~(t_link.target = "decoded" /\ t_err_valid)
              /\ \E u \in Method!Units :
                    /\ Method!offering(release) = {u} /\ t_unit[u].st = "respond"
                    /\ rsp = t_unit[u].latched
<1> DEFINE rsp == Method!response(offer, release)
<1>1. CASE t_link.target = "pool"
  <2>1. offer \in DOMAIN t_pool /\ rsp = t_pool[offer]
    BY <1>1 DEF Method!response
  <2>2. Method!Blocking => offer = 1
    <3>1. t_pool # <<>> /\ offer # 0
      BY <2>1 DEF MethodTypeOK
    <3> QED BY <3>1 DEF Method!Offers
  <2> QED BY <1>1, <2>1, <2>2
<1>2. CASE t_link.target = "decoded" /\ t_err_valid
  BY <1>2 DEF Method!response
<1>3. CASE t_link.target # "pool" /\ ~(t_link.target = "decoded" /\ t_err_valid)
  <2>1. /\ Method!offering(release) # {}
        /\ rsp = t_unit[CHOOSE u \in Method!offering(release) : TRUE].latched
    BY <1>3 DEF Method!response
  <2>2. PICK u \in Method!offering(release) : TRUE
    BY <2>1
  <2>3. Method!offering(release) = {u} /\ u \in Method!responding
    BY <2>2, OfferIs
  <2>4. (CHOOSE v \in Method!offering(release) : TRUE) = u
    BY <2>3
  <2> QED BY <1>3, <2>1, <2>3, <2>4 DEF Method!responding
<1> QED BY <1>1, <1>2, <1>3

(* The call w is the one whose answer is offered, and its place.           *)
Answers(offer, release, w) ==
    LET rsp == Method!response(offer, release) IN
    /\ w \in Method!Waiting /\ rsp = Method!Own(w)
    /\ \/ /\ t_link.target = "pool" /\ offer \in DOMAIN t_pool /\ t_pool[offer].who = w
          /\ rsp = Method!Request(w) /\ (Method!Blocking => offer = 1)
       \/ /\ t_link.target = "decoded" /\ t_err_valid /\ t_addr[w] \in t_link.missing
          /\ rsp = Method!Error
       \/ /\ t_link.target # "pool" /\ ~(t_link.target = "decoded" /\ t_err_valid)
          /\ rsp = Method!Request(w)
          /\ \E u \in Method!Units :
                /\ Method!offering(release) = {u} /\ t_unit[u].st = "respond"
                /\ t_unit[u].latched = rsp /\ Method!selected(rsp) = u

(* A response is the answer to a waiting call.                             *)
LEMMA ResponseIs ==
    ASSUME LinksPaired, MethodInv, NEW release \in BOOLEAN, NEW offer \in Method!Offers,
           Method!response(offer, release) # NoData
    PROVE  \E w \in Method!Waiting : Answers(offer, release, w)
<1> DEFINE rsp == Method!response(offer, release)
<1>1. MethodTypeOK /\ HoldOK
  BY DEF MethodInv
<1>2. CASE /\ t_link.target = "pool" /\ offer \in DOMAIN t_pool /\ rsp = t_pool[offer]
           /\ Method!Blocking => offer = 1
  BY <1>2 DEF MethodInv, PoolOK, Answers, Method!Own
<1>3. CASE t_link.target = "decoded" /\ t_err_valid /\ rsp = Method!Error
  <2>1. PICK w \in Method!Waiting : t_addr[w] \in t_link.missing
    BY <1>3 DEF MethodInv, ErrorOK
  <2> QED BY <1>3, <2>1 DEF Answers, Method!Own
<1>4. CASE /\ t_link.target # "pool" /\ ~(t_link.target = "decoded" /\ t_err_valid)
           /\ \E u \in Method!Units :
                 /\ Method!offering(release) = {u} /\ t_unit[u].st = "respond"
                 /\ rsp = t_unit[u].latched
  <2>1. PICK u \in Method!Units : /\ Method!offering(release) = {u}
                                  /\ t_unit[u].st = "respond" /\ rsp = t_unit[u].latched
    BY <1>4
  <2>2. /\ rsp.who \in Method!Waiting /\ rsp = Method!Request(rsp.who)
        /\ Method!selected(rsp) = u /\ u \notin t_link.missing
    BY <2>1 DEF MethodInv, UnitsOK, Method!Entry
  <2>3. Method!Own(rsp.who) = rsp
    BY <2>2 DEF Method!Own, Method!selected, Method!Request
  <2> QED BY <1>4, <2>1, <2>2, <2>3 DEF Answers
<1> QED BY <1>1, <1>2, <1>3, <1>4, SourceIs

(* It goes to that call alone.                                             *)
LEMMA AddresseeIs ==
    ASSUME LinksPaired, MethodInv, NEW release \in BOOLEAN, NEW offer \in Method!Offers,
           NEW w \in Method!Waiting, Answers(offer, release, w)
    PROVE  Method!addressee(Method!response(offer, release)) = {w}
<1> DEFINE rsp == Method!response(offer, release)
<1>1. /\ t_link \in Links /\ w \in Method!Calls /\ t_link.n \in Nat \ {0}
      /\ t_order.head \in 0..(t_link.n - 1)
  BY LinkIs DEF MethodInv, MethodTypeOK, Method!Waiting, Method!InState
<1>2. rsp.tag = Method!req_tag(w) \/ (rsp.tag = 0 /\ t_link.target = "decoded")
  BY DEF Answers, Method!Request, Method!Error
<1>3. t_link.n = 1 => Method!Calls = {0} /\ w = 0 /\ Method!Waiting = {0}
  BY <1>1, LinkIs DEF Method!Waiting, Method!InState
<1>4. CASE t_link.initiator = "group"
  <2>1. rsp.tag = 0
    BY <1>2, <1>4 DEF Method!req_tag
  <2>2. Method!Waiting = {w}
    <3>1. CASE t_link.n = 1
      BY <1>3, <3>1
    <3>2. CASE t_link.n # 1
      <4>1. t_link.target = "thread" /\ Method!Units = {0}
        BY <1>1, <1>4, <3>2, LinkIs DEF Method!Units
      <4>2. \A i \in Method!Waiting : t_unit[0].latched.who = i
        BY <4>1 DEF MethodInv, HeldOK, Served, Method!selected
      <4> QED BY <4>2
    <3> QED BY <3>1, <3>2
  <2>3. Method!addressee(rsp) = {i \in Method!Waiting : t_link.tagged => rsp.tag = 0}
    <3> HIDE DEF rsp
    <3> QED BY <1>4 DEF Method!addressee
  <2> QED BY <2>1, <2>2, <2>3
<1>5. CASE t_link.initiator # "group" /\ (t_link.tagged \/ t_link.initiator = "port")
  <2>1. rsp.tag = w
    BY <1>1, <1>2, <1>3, <1>5, LinkIs DEF Method!req_tag
  <2>2. Method!addressee(rsp) = {i \in Method!Waiting : rsp.tag = i}
    <3>1. t_link.initiator # "group" /\ (t_link.tagged \/ t_link.initiator = "port")
      BY <1>5
    <3> HIDE DEF rsp
    <3> QED BY <3>1 DEF Method!addressee, Method!Blocking
  <2> QED BY <2>1, <2>2
<1>6. CASE InOrder /\ ~t_link.tagged
  <2>1. Method!oldest = w
    <3>1. CASE t_link.target = "pool"
      <4>1. offer = 1 /\ 1 \in DOMAIN t_pool /\ t_pool[1].who = w
        BY <1>6, <3>1 DEF Answers, Method!Blocking
      <4>2. t_order.fifo[(t_order.head + 1 - 1) % t_link.n] = w
        BY <1>6, <3>1, <4>1 DEF MethodInv, OrderOK, Method!Blocking
      <4>3. (t_order.head + 1 - 1) % t_link.n = t_order.head
        BY <1>1, ModLow
      <4> QED BY <4>2, <4>3 DEF Method!oldest
    <3>2. CASE t_link.target # "pool"
      BY <1>6, <3>2 DEF MethodInv, OrderOK, Method!Blocking, Method!oldest
    <3> QED BY <3>1, <3>2
  <2> QED BY <1>6, <2>1 DEF InOrder, Method!addressee, Method!Blocking
<1> QED BY <1>1, <1>4, <1>5, <1>6, LinkIs DEF InOrder
-----------------------------------------------------------------------------
(* The calls accepted and the calls answered at an edge.                   *)
Fires(pick, ready) ==
    Method!request(pick) # NoData /\ Method!req_ready(Method!request(pick), ready)
Issued(pick, ready) == IF Fires(pick, ready) THEN Method!grants(pick) ELSE {}
Returned(ready, offer, release) == Method!takers(Method!response(offer, release), ready)
OneEdge(pick, ready, offer, finished, release, go) ==
    /\ pick \in Method!Picks /\ ready \in Method!Readies /\ offer \in Method!Offers
    /\ finished \in SUBSET Method!Bodies /\ release \in Method!Releases /\ go \in Method!Going
    /\ Method!Edge(pick, ready, offer, finished, release, go)

(* At most one call is accepted, one that asks.                            *)
LEMMA IssuedIs ==
    ASSUME LinksPaired, MethodInv, NEW pick \in Method!Picks, NEW ready
    PROVE  \/ ~Fires(pick, ready) /\ Issued(pick, ready) = {}
           \/ /\ Fires(pick, ready)
              /\ \E c \in Method!InState("issue") :
                    /\ Issued(pick, ready) = {c} /\ Method!grants(pick) = {c}
                    /\ Method!request(pick) = Method!Request(c) /\ Method!Request(c) \in Asked
BY GrantIs DEF MethodInv, Issued, Fires

(* At most one call is answered, one that waits; an initiator that is not  *)
(* handwritten accepts every response at once.                             *)
LEMMA ReturnedIs ==
    ASSUME LinksPaired, MethodInv, NEW ready, NEW offer \in Method!Offers,
           NEW release \in BOOLEAN
    PROVE  /\ \/ /\ Returned(ready, offer, release) = {}
                 /\ Method!response(offer, release) = NoData \/ ~Method!rsp_ready(ready)
              \/ /\ Method!response(offer, release) # NoData /\ Method!rsp_ready(ready)
                 /\ \E w \in Method!Waiting :
                       Returned(ready, offer, release) = {w} /\ Answers(offer, release, w)
           /\ t_link.initiator # "port" /\ Method!response(offer, release) # NoData =>
                 Method!rsp_ready(ready)
           /\ InOrder => (Method!pops(Method!response(offer, release))
                            <=> Returned(ready, offer, release) # {})
<1> DEFINE rsp == Method!response(offer, release)
<1>1. CASE rsp = NoData
  BY <1>1 DEF Returned, Method!takers, Method!pops
<1>2. CASE rsp # NoData
  <2>1. PICK w \in Method!Waiting : Answers(offer, release, w)
    BY <1>2, ResponseIs
  <2>2. Method!addressee(rsp) = {w}
    BY <2>1, AddresseeIs
  <2>3. Returned(ready, offer, release) = IF Method!rsp_ready(ready) THEN {w} ELSE {}
    BY <1>2, <2>2 DEF Returned, Method!takers
  <2>4. InOrder => t_order.occ > 0
    <3>1. IsFiniteSet(Method!Waiting)
      <4>1. t_link.n \in Nat \ {0} /\ Method!Calls = 0..(t_link.n - 1)
        BY LinkIs DEF MethodInv, MethodTypeOK
      <4>2. IsFiniteSet(Method!Calls)
        BY <4>1, FS_Interval
      <4> QED BY <4>2, FS_Subset DEF Method!Waiting, Method!InState
    <3>2. Cardinality(Method!Waiting) # 0 /\ Cardinality(Method!Waiting) \in Nat
      BY <2>1, <3>1, FS_EmptySet, FS_CardinalityType
    <3> QED BY <3>2, CallsAreCounted DEF MethodInv, OrderOK
  <2>5. t_link.initiator # "port" => Method!rsp_ready(ready)
    <3>1. t_link.initiator \in {"cohort", "fork", "group", "port"}
      BY LinkIs DEF MethodInv, MethodTypeOK
    <3> QED BY <2>1, <2>4, <3>1 DEF InOrder, Method!rsp_ready
  <2> HIDE DEF rsp
  <2> QED BY <1>2, <2>1, <2>3, <2>4, <2>5 DEF InOrder, Method!pops, rsp
<1> QED BY <1>1, <1>2

(* Hence a call is answered alone, or none is.                             *)
LEMMA ReturnedOne ==
    ASSUME LinksPaired, MethodInv, NEW ready, NEW offer \in Method!Offers,
           NEW release \in BOOLEAN
    PROVE  \/ Returned(ready, offer, release) = {}
           \/ \E w \in Method!Waiting :
                 Returned(ready, offer, release) = {w} /\ Answers(offer, release, w)
<1>1. \/ /\ Returned(ready, offer, release) = {}
         /\ Method!response(offer, release) = NoData \/ ~Method!rsp_ready(ready)
      \/ /\ Method!response(offer, release) # NoData /\ Method!rsp_ready(ready)
         /\ \E w \in Method!Waiting :
               Returned(ready, offer, release) = {w} /\ Answers(offer, release, w)
  BY ReturnedIs
<1> QED BY <1>1

(* The request of call i after the step.                                   *)
RequestNext(i) == [who |-> i, addr |-> t_addr'[i], tag |-> Method!req_tag(i)]

(* What becomes of the calls.                                              *)
LEMMA CallsStep ==
    ASSUME LinksPaired, MethodInv, NEW pick, NEW ready, NEW offer, NEW finished,
           NEW release, NEW go, OneEdge(pick, ready, offer, finished, release, go)
    PROVE  LET issued == Issued(pick, ready)
               returned == Returned(ready, offer, release) IN
           /\ t_link' = t_link /\ Method!Calls' = Method!Calls /\ Method!Units' = Method!Units
           /\ issued \subseteq Method!InState("issue") /\ returned \subseteq Method!Waiting
           /\ t_state' \in [Method!Calls -> {"issue", "wait", "done", "compute"}]
           /\ Method!Waiting' = (Method!Waiting \ returned) \cup issued
           /\ \A i \in Method!Calls : i \notin returned =>
                 /\ t_addr'[i] = t_addr[i]
                 /\ RequestNext(i) = Method!Request(i)
                 /\ (Method!Request(i))' = Method!Request(i) /\ (Method!Own(i))' = Method!Own(i)
           /\ t_addr' \in [Method!Calls -> Method!Address]
<1> DEFINE issued == Issued(pick, ready)
           returned == Returned(ready, offer, release)
<1>1. /\ pick \in Method!Picks /\ offer \in Method!Offers /\ release \in BOOLEAN
      /\ Method!Edge(pick, ready, offer, finished, release, go)
  BY DEF OneEdge, Method!Releases
<1>2. t_link' = t_link
  BY <1>1 DEF Method!Edge
<1>3. Method!Calls' = Method!Calls /\ Method!Units' = Method!Units
  BY <1>2 DEF Method!Calls, Method!Units
<1>4. issued \subseteq Method!InState("issue") /\ returned \subseteq Method!Waiting
  <2>1. issued = {} \/ \E c \in Method!InState("issue") : issued = {c}
    BY <1>1, IssuedIs
  <2>2. returned = {} \/ \E w \in Method!Waiting : returned = {w}
    <3>1. offer \in Method!Offers /\ release \in BOOLEAN
      BY <1>1
    <3> QED BY <3>1, ReturnedIs
  <2> QED BY <2>1, <2>2
<1>5. Method!CallEdge(issued, returned, go)
  BY <1>1 DEF Method!Edge, Issued, Fires, Returned
<1>6. /\ t_addr' \in [Method!Calls -> Method!Address]
      /\ \A i \in Method!Calls \ returned : t_addr'[i] = t_addr[i]
  BY <1>1 DEF Method!Edge, Returned
<1>7. Method!Restart => Method!InState("issue") = {} /\ Method!Waiting = {}
  BY DEF Method!Restart, Method!AllDone, Method!InState, Method!Waiting
<1>8. t_state \in [Method!Calls -> {"issue", "wait", "done", "compute"}]
  BY DEF MethodInv, MethodTypeOK
<1>9. t_state' \in [Method!Calls -> {"issue", "wait", "done", "compute"}]
  BY <1>5, <1>8 DEF Method!CallEdge, Method!Returned
<1>10. Method!Waiting' = (Method!Waiting \ returned) \cup issued
  <2> HIDE DEF issued, returned
  <2>1. ASSUME NEW i \in Method!Calls
        PROVE  t_state'[i] = "wait" <=> (t_state[i] = "wait" /\ i \notin returned) \/ i \in issued
    <3>1. t_state'[i] = CASE i \in returned -> Method!Returned(i, go)
                 [] i \in issued \ returned -> "wait"
                 [] Method!Restart \/ (t_state[i] = "compute" /\ i \in go) -> "issue"
                 [] OTHER -> t_state[i]
      BY <1>5 DEF Method!CallEdge
    <3>2. CASE i \in returned
      <4>1. t_state[i] = "wait" /\ ~Method!Restart /\ i \notin issued
        BY <1>4, <1>7, <3>2 DEF Method!Waiting, Method!InState
      <4>2. t_state'[i] = Method!Returned(i, go)
        BY <3>1, <3>2, <4>1
      <4> QED BY <3>2, <4>1, <4>2 DEF Method!Returned
    <3>3. CASE i \in issued
      <4>1. t_state[i] = "issue" /\ ~Method!Restart /\ i \notin returned
        BY <1>4, <1>7, <3>3 DEF Method!Waiting, Method!InState
      <4> QED BY <3>1, <3>3, <4>1
    <3>4. CASE i \notin returned /\ i \notin issued
      <4>1. Method!Restart => t_state[i] # "wait"
        BY <1>7 DEF Method!Waiting, Method!InState
      <4> QED BY <3>1, <3>4, <4>1
    <3> QED BY <3>2, <3>3, <3>4
  <2> QED BY <1>3, <1>4, <2>1 DEF Method!Waiting, Method!InState
<1>11. ASSUME NEW i \in Method!Calls, i \notin returned
       PROVE  /\ t_addr'[i] = t_addr[i] /\ RequestNext(i) = Method!Request(i)
              /\ (Method!Request(i))' = Method!Request(i) /\ (Method!Own(i))' = Method!Own(i)
  BY <1>2, <1>6, <1>11 DEF Method!Request, Method!Own, Method!req_tag, Method!Error, RequestNext
<1> HIDE DEF issued, returned
<1> QED BY <1>2, <1>3, <1>4, <1>6, <1>9, <1>10, <1>11 DEF issued, returned

(* RemoveAt leaves out one position.                                       *)
LEMMA RemoveIs ==
    ASSUME NEW S, NEW s \in Seq(S), NEW i \in 1..Len(s)
    PROVE  /\ Method!RemoveAt(s, i) \in Seq(S) /\ Len(Method!RemoveAt(s, i)) = Len(s) - 1
           /\ \A k \in 1..(Len(s) - 1) :
                 Method!RemoveAt(s, i)[k] = IF k < i THEN s[k] ELSE s[k + 1]
<1> DEFINE a == SubSeq(s, 1, i - 1)
           b == SubSeq(s, i + 1, Len(s))
<1>1. Method!RemoveAt(s, i) = a \o b
  BY DEF Method!RemoveAt
<1>2. a \in Seq(S) /\ Len(a) = i - 1 /\ \A k \in 1..(i - 1) : a[k] = s[k]
  OBVIOUS
<1>3. /\ b \in Seq(S) /\ Len(b) = Len(s) - i
      /\ \A k \in 1..(Len(s) - i) : b[k] = s[i + k]
  OBVIOUS
<1> HIDE DEF a, b
<1>4. a \o b \in Seq(S) /\ Len(a \o b) = Len(s) - 1
  <2>1. a \o b \in Seq(S) /\ Len(a \o b) = Len(a) + Len(b)
    BY <1>2, <1>3, ConcatProperties
  <2>2. Len(s) \in Nat /\ i \in Int
    OBVIOUS
  <2> QED BY <1>2, <1>3, <2>1, <2>2
<1>5. ASSUME NEW k \in 1..(Len(s) - 1)
      PROVE  (a \o b)[k] = IF k < i THEN s[k] ELSE s[k + 1]
  <2>1. CASE k < i
    <3>1. k \in 1..Len(a)
      BY <1>2, <2>1
    <3> QED BY <1>2, <1>3, <2>1, <3>1
  <2>2. CASE k >= i
    <3>1. k - Len(a) \in 1..Len(b) /\ k \in (Len(a) + 1)..(Len(a) + Len(b))
      BY <1>2, <1>3, <2>2
    <3>2. (a \o b)[k] = b[k - Len(a)]
      BY <1>2, <1>3, <3>1
    <3>3. b[k - Len(a)] = s[i + (k - Len(a))] /\ i + (k - Len(a)) = k + 1
      BY <1>2, <1>3, <2>2
    <3> QED BY <2>2, <3>2, <3>3
  <2>3. k < i \/ k >= i
    OBVIOUS
  <2> QED BY <2>1, <2>2, <2>3
<1> QED BY <1>1, <1>4, <1>5

(* A call that the connect or one of its two targets has is the only one.  *)
LEMMA DecodedIsAlone ==
    ASSUME LinksPaired, MethodInv, t_link.target = "decoded"
    PROVE  /\ t_err_valid => Method!InState("issue") = {} /\ \A u \in Method!Units : Method!Entry(u)
           /\ (\E u \in Method!Units : ~Method!Entry(u)) => Method!InState("issue") = {}
<1>1. Method!Calls = {0}
  BY LinkIs DEF MethodInv, MethodTypeOK
<1>2. Method!Waiting # {} => Method!InState("issue") = {}
  BY <1>1 DEF Method!Waiting, Method!InState
<1>3. ASSUME NEW u \in Method!Units, ~Method!Entry(u), t_err_valid PROVE FALSE
  <2>1. /\ t_unit[u].latched.who \in Method!Waiting
        /\ t_unit[u].latched = Method!Request(t_unit[u].latched.who)
        /\ Method!selected(t_unit[u].latched) = u /\ u \notin t_link.missing
    BY <1>3 DEF MethodInv, UnitsOK
  <2>2. \E i \in Method!Waiting : t_addr[i] \in t_link.missing
    BY <1>3 DEF MethodInv, ErrorOK
  <2>3. t_addr[0] = u /\ t_addr[0] \in t_link.missing
    BY <1>1, <2>1, <2>2 DEF Method!Waiting, Method!InState, Method!selected, Method!Request
  <2> QED BY <2>1, <2>3
<1>4. (\E u \in Method!Units : ~Method!Entry(u)) => Method!Waiting # {}
  BY DEF MethodInv, UnitsOK
<1>5. t_err_valid => Method!Waiting # {}
  BY DEF MethodInv, ErrorOK
<1> QED BY <1>2, <1>3, <1>4, <1>5

(* A unit takes a request exactly when the initiator sees it accepted.     *)
LEMMA UnitTakes ==
    ASSUME LinksPaired, MethodInv, NEW pick \in Method!Picks, NEW ready,
           NEW u \in Method!Units
    PROVE  Method!Accepts(u, Method!request(pick)) <=>
               /\ Fires(pick, ready) /\ Method!selected(Method!request(pick)) = u
               /\ u \notin t_link.missing
<1> DEFINE req == Method!request(pick)
<1>1. t_link.target \in {"thread", "lanes", "decoded"}
  BY LinkIs DEF MethodInv, MethodTypeOK, Method!Units
<1>2. CASE req = NoData
  BY <1>2 DEF Method!Accepts, Fires
<1>3. CASE req # NoData
  <2>1. Method!InState("issue") # {}
    BY <1>3, GrantIs DEF MethodInv
  <2>2. t_link.target = "decoded" => ~t_err_valid
    BY <2>1, DecodedIsAlone
  <2> HIDE DEF req
  <2>3. Method!selected(req) = u /\ u \notin t_link.missing =>
            (Method!req_ready(req, ready) <=> Method!Entry(u))
    BY <1>1, <2>2 DEF Method!req_ready
  <2> QED BY <1>3, <2>3 DEF Method!Accepts, Fires, req
<1> QED BY <1>2, <1>3

(* What becomes of a unit: it takes the request that is accepted, gives up *)
(* the one that is answered, or keeps the one it has.                      *)
LEMMA UnitStep ==
    ASSUME LinksPaired, MethodInv, NEW pick, NEW ready, NEW offer, NEW finished,
           NEW release, NEW go, OneEdge(pick, ready, offer, finished, release, go),
           NEW u \in Method!Units
    PROVE  LET req == Method!request(pick)
               returned == Returned(ready, offer, release) IN
           \/ /\ Fires(pick, ready) /\ Method!selected(req) = u /\ u \notin t_link.missing
              /\ Method!Entry(u) /\ t_unit'[u] = Method!Accepted(req)
           \/ /\ ~(Fires(pick, ready) /\ Method!selected(req) = u /\ u \notin t_link.missing)
              /\ Method!Entry(u) /\ t_unit'[u] = t_unit[u]
           \/ /\ ~Method!Entry(u) /\ t_unit[u].latched.who \in returned
              /\ t_unit'[u].st = "entry"
           \/ /\ ~Method!Entry(u) /\ t_unit[u].latched.who \notin returned
              /\ t_unit'[u].st # "entry" /\ t_unit'[u].latched = t_unit[u].latched
              /\ (t_unit[u].st = "respond" => t_unit'[u] = t_unit[u])
<1> DEFINE req == Method!request(pick)
           rsp == Method!response(offer, release)
           taken == Method!rsp_ready(ready)
           returned == Returned(ready, offer, release)
<1>1. /\ pick \in Method!Picks /\ offer \in Method!Offers /\ release \in BOOLEAN
      /\ finished \in SUBSET Method!Bodies
      /\ Method!UnitEdge(req, Method!offering(release), taken, finished)
  BY DEF OneEdge, Method!Releases, Method!Edge
<1>2. Method!Accepts(u, req) <=> /\ Fires(pick, ready) /\ Method!selected(req) = u
                                 /\ u \notin t_link.missing
  BY <1>1, UnitTakes
<1>3. t_unit'[u] = CASE Method!Accepts(u, req) -> Method!Accepted(req)
           [] t_unit[u].st = "body" /\ u \in finished -> [t_unit[u] EXCEPT !.st = "respond"]
           [] u \in Method!offering(release) /\ taken -> [t_unit[u] EXCEPT !.st = "entry"]
           [] OTHER -> t_unit[u]
  BY <1>1 DEF Method!UnitEdge
<1>4. Method!offering(release) \subseteq Method!responding
  BY <1>1, OfferIs DEF MethodInv
<1>5. t_unit[u] \in [st : {"entry", "body", "respond"}, latched : Asked \cup {NoData}]
  BY DEF MethodInv, MethodTypeOK
<1>6. CASE Method!Entry(u)
  <2>1. u \notin Method!offering(release) /\ t_unit[u].st # "body"
    BY <1>4, <1>6 DEF Method!responding, Method!Entry
  <2>2. CASE Method!Accepts(u, req)
    <3>1. t_unit'[u] = Method!Accepted(req)
      BY <1>3, <2>1, <2>2
    <3> QED BY <1>2, <1>6, <2>2, <3>1
  <2>3. CASE ~Method!Accepts(u, req)
    <3>1. t_unit'[u] = t_unit[u]
      BY <1>3, <2>1, <2>3
    <3> QED BY <1>2, <1>6, <2>3, <3>1
  <2> QED BY <2>2, <2>3
<1>7. CASE ~Method!Entry(u)
  <2>1. ~Method!Accepts(u, req)
    BY <1>7 DEF Method!Accepts
  <2>2. /\ t_unit[u].latched.who \in Method!Waiting
        /\ t_unit[u].latched = Method!Request(t_unit[u].latched.who)
        /\ Method!selected(t_unit[u].latched) = u
    BY <1>7 DEF MethodInv, UnitsOK
  <2>3. t_unit[u].latched.who \in returned <=> u \in Method!offering(release) /\ taken
    <3>1. ASSUME t_unit[u].latched.who \in returned
          PROVE  u \in Method!offering(release) /\ taken
      <4>1. taken /\ \E w \in Method!Waiting : returned = {w} /\ Answers(offer, release, w)
        BY <1>1, <3>1, ReturnedIs
      <4>2. PICK w \in Method!Waiting : returned = {w} /\ Answers(offer, release, w)
        BY <4>1
      <4>3. w = t_unit[u].latched.who
        BY <3>1, <4>2
      <4>4. t_link.target # "pool" /\ ~(t_link.target = "decoded" /\ t_err_valid)
        BY <1>7, DecodedIsAlone DEF Method!Units
      <4>5. /\ rsp = Method!Request(w)
            /\ \E v \in Method!Units : /\ Method!offering(release) = {v}
                                       /\ t_unit[v].latched = rsp /\ Method!selected(rsp) = v
        BY <4>2, <4>4 DEF Answers
      <4> QED BY <2>2, <4>1, <4>3, <4>5
    <3>2. ASSUME u \in Method!offering(release), taken
          PROVE  t_unit[u].latched.who \in returned
      <4>1. t_link.target # "pool" /\ ~(t_link.target = "decoded" /\ t_err_valid)
        BY <1>7, DecodedIsAlone DEF Method!Units
      <4>2. rsp # NoData
        <5>1. Method!offering(release) = {u}
          BY <1>1, <3>2, OfferIs DEF MethodInv
        <5>2. rsp = t_unit[CHOOSE v \in {u} : TRUE].latched
          BY <4>1, <5>1 DEF Method!response
        <5>3. (CHOOSE v \in {u} : TRUE) = u
          OBVIOUS
        <5>4. t_unit[u].latched # NoData
          <6>1. t_unit[u].latched \in Asked
            <7>1. t_unit[u].latched.who \in Method!Calls
              BY <2>2 DEF Method!Waiting, Method!InState
            <7> QED BY <2>2, <7>1, LinkIs
                    DEF Method!Request, Method!req_tag, Asked, MethodInv, MethodTypeOK
          <6> QED BY <6>1, LinkIs DEF MethodInv, MethodTypeOK
        <5> QED BY <5>2, <5>3, <5>4
      <4>3. PICK w \in Method!Waiting : returned = {w} /\ Answers(offer, release, w)
        <5>1. \/ rsp = NoData \/ ~taken
              \/ \E w \in Method!Waiting : returned = {w} /\ Answers(offer, release, w)
          BY <1>1, ReturnedIs
        <5> QED BY <3>2, <4>2, <5>1
      <4>4. /\ rsp = Method!Request(w)
            /\ \E v \in Method!Units : /\ Method!offering(release) = {v}
                                       /\ t_unit[v].latched = rsp
        BY <4>1, <4>3 DEF Answers
      <4>5. t_unit[u].latched = Method!Request(w)
        BY <3>2, <4>4
      <4> QED BY <4>3, <4>5 DEF Method!Request
    <3> QED BY <3>1, <3>2
  <2>4. CASE u \in Method!offering(release) /\ taken
    <3>1. t_unit[u].st # "body"
      BY <1>4, <2>4 DEF Method!responding
    <3>2. t_unit'[u] = [t_unit[u] EXCEPT !.st = "entry"]
      BY <1>3, <2>1, <2>4, <3>1
    <3> QED BY <1>5, <1>7, <2>3, <2>4, <3>2
  <2>5. CASE ~(u \in Method!offering(release) /\ taken)
    <3>1. t_unit'[u] = IF t_unit[u].st = "body" /\ u \in finished
                       THEN [t_unit[u] EXCEPT !.st = "respond"] ELSE t_unit[u]
      BY <1>3, <2>1, <2>5
    <3>2. t_unit[u].latched.who \notin returned
      BY <2>3, <2>5
    <3>3. t_unit[u].st # "entry"
      BY <1>7 DEF Method!Entry
    <3>4. /\ t_unit'[u].st # "entry" /\ t_unit'[u].latched = t_unit[u].latched
          /\ t_unit[u].st = "respond" => t_unit'[u] = t_unit[u]
      BY <1>5, <3>1, <3>3
    <3> HIDE DEF returned, rsp, taken, req
    <3> QED BY <1>7, <3>2, <3>4 DEF returned
  <2> QED BY <2>4, <2>5
<1> QED BY <1>6, <1>7

(* What the external target keeps: all but the call it answers.            *)
Kept(ready, offer, release) ==
    IF Returned(ready, offer, release) = {} THEN t_pool ELSE Method!RemoveAt(t_pool, offer)

(* What becomes of the calls inside it.                                    *)
LEMMA PoolStep ==
    ASSUME LinksPaired, MethodInv, NEW pick, NEW ready, NEW offer, NEW finished,
           NEW release, NEW go, OneEdge(pick, ready, offer, finished, release, go),
           t_link.target = "pool"
    PROVE  LET kept == Kept(ready, offer, release)
               returned == Returned(ready, offer, release) IN
           /\ t_pool' = IF Fires(pick, ready) THEN Append(kept, Method!request(pick)) ELSE kept
           /\ kept \in Seq(Asked)
           /\ Len(kept) = IF returned = {} THEN Len(t_pool) ELSE Len(t_pool) - 1
           /\ \A k \in DOMAIN kept : /\ kept[k].who \in Method!Waiting \ returned
                                     /\ kept[k] = Method!Request(kept[k].who)
           /\ \A j, k \in DOMAIN kept : kept[j].who = kept[k].who => j = k
           /\ \A i \in Method!Waiting \ returned : \E k \in DOMAIN kept : kept[k].who = i
           /\ Method!Blocking => \A k \in DOMAIN kept :
                 kept[k] = IF returned = {} THEN t_pool[k] ELSE t_pool[k + 1]
<1> DEFINE kept == Kept(ready, offer, release)
           returned == Returned(ready, offer, release)
           rsp == Method!response(offer, release)
<1>1. /\ offer \in Method!Offers /\ release \in BOOLEAN
      /\ Method!Edge(pick, ready, offer, finished, release, go)
  BY DEF OneEdge, Method!Releases
<1>2. \/ returned = {} /\ (rsp = NoData \/ ~Method!rsp_ready(ready))
      \/ /\ rsp # NoData /\ Method!rsp_ready(ready)
         /\ \E w \in Method!Waiting : returned = {w} /\ Answers(offer, release, w)
  <2>1. offer \in Method!Offers /\ release \in BOOLEAN
    BY <1>1
  <2> QED BY <2>1, ReturnedIs
<1>3. t_pool' = IF Fires(pick, ready) THEN Append(kept, Method!request(pick)) ELSE kept
  <2>1. t_pool' = LET keep == IF rsp # NoData /\ Method!rsp_ready(ready)
                              THEN Method!RemoveAt(t_pool, offer) ELSE t_pool
                  IN  IF Fires(pick, ready) THEN Append(keep, Method!request(pick)) ELSE keep
    BY <1>1 DEF Method!Edge, Fires
  <2> QED BY <1>2, <2>1 DEF Kept
<1>4. /\ t_pool \in Seq(Asked) /\ Len(t_pool) \in Nat /\ DOMAIN t_pool = 1..Len(t_pool)
  BY DEF MethodInv, MethodTypeOK
<1>5. /\ \A k \in DOMAIN t_pool : /\ t_pool[k].who \in Method!Waiting
                                  /\ t_pool[k] = Method!Request(t_pool[k].who)
      /\ \A j, k \in DOMAIN t_pool : t_pool[j].who = t_pool[k].who => j = k
      /\ \A i \in Method!Waiting : \E k \in DOMAIN t_pool : t_pool[k].who = i
  BY DEF MethodInv, PoolOK, HeldOK, Served
<1>6. CASE returned = {}
  <2>1. kept = t_pool
    BY <1>6 DEF Kept
  <2> QED BY <1>3, <1>4, <1>5, <1>6, <2>1
<1>7. CASE returned # {}
  <2>1. PICK w \in Method!Waiting : returned = {w} /\ Answers(offer, release, w)
    BY <1>2, <1>7
  <2>2. offer \in 1..Len(t_pool) /\ t_pool[offer].who = w /\ (Method!Blocking => offer = 1)
    BY <1>4, <2>1 DEF Answers
  <2>3. kept = Method!RemoveAt(t_pool, offer)
    BY <1>7 DEF Kept
  <2>4. /\ kept \in Seq(Asked) /\ Len(kept) = Len(t_pool) - 1
        /\ \A k \in 1..(Len(t_pool) - 1) :
              kept[k] = IF k < offer THEN t_pool[k] ELSE t_pool[k + 1]
    BY <1>4, <2>2, <2>3, RemoveIs
  <2> HIDE DEF kept, returned, rsp
  <2>5. DOMAIN kept = 1..(Len(t_pool) - 1)
    BY <2>4
  <2> DEFINE from(k) == IF k < offer THEN k ELSE k + 1
  <2>6. \A k \in DOMAIN kept : /\ from(k) \in DOMAIN t_pool /\ from(k) # offer
                               /\ kept[k] = t_pool[from(k)]
    BY <1>4, <2>2, <2>4, <2>5
  <2>7. \A j, k \in DOMAIN kept : from(j) = from(k) => j = k
    BY <1>4, <2>2, <2>5
  <2>8. \A m \in DOMAIN t_pool : m # offer => \E k \in DOMAIN kept : from(k) = m
    <3> SUFFICES ASSUME NEW m \in DOMAIN t_pool, m # offer
                 PROVE  \E k \in DOMAIN kept : from(k) = m
      OBVIOUS
    <3>1. CASE m < offer
      <4>1. m \in DOMAIN kept /\ from(m) = m
        BY <1>4, <2>2, <2>5, <3>1
      <4> QED BY <4>1
    <3>2. CASE m > offer
      <4>1. m - 1 \in DOMAIN kept /\ from(m - 1) = m
        BY <1>4, <2>2, <2>5, <3>2
      <4> QED BY <4>1
    <3> QED BY <1>4, <2>2, <3>1, <3>2
  <2>9. Method!Blocking => \A k \in DOMAIN kept : from(k) = k + 1
    BY <1>4, <2>2, <2>5
  <2> HIDE DEF from
  <2>10. \A k \in DOMAIN kept : /\ kept[k].who \in Method!Waiting \ returned
                                /\ kept[k] = Method!Request(kept[k].who)
    BY <1>4, <1>5, <2>1, <2>2, <2>6
  <2>11. \A j, k \in DOMAIN kept : kept[j].who = kept[k].who => j = k
    BY <1>5, <2>6, <2>7
  <2>12. \A i \in Method!Waiting \ returned : \E k \in DOMAIN kept : kept[k].who = i
    <3> SUFFICES ASSUME NEW i \in Method!Waiting, i \notin returned
                 PROVE  \E k \in DOMAIN kept : kept[k].who = i
      OBVIOUS
    <3>1. PICK m \in DOMAIN t_pool : t_pool[m].who = i
      BY <1>5
    <3>2. m # offer
      BY <2>1, <2>2, <3>1
    <3> QED BY <2>6, <2>8, <3>1, <3>2
  <2>13. Method!Blocking => \A k \in DOMAIN kept : kept[k] = t_pool[k + 1]
    BY <2>6, <2>9
  <2> QED BY <1>3, <1>7, <2>4, <2>10, <2>11, <2>12, <2>13 DEF kept, returned
<1> QED BY <1>6, <1>7

(* The targets of a method go on holding requests of waiting calls.        *)
LEMMA UnitsStep ==
    ASSUME LinksPaired, MethodInv, NEW pick, NEW ready, NEW offer, NEW finished,
           NEW release, NEW go, OneEdge(pick, ready, offer, finished, release, go)
    PROVE  UnitsOK'
<1> DEFINE issued == Issued(pick, ready)
           returned == Returned(ready, offer, release)
           req == Method!request(pick)
<1>1. /\ t_link' = t_link /\ Method!Units' = Method!Units
      /\ issued \subseteq Method!InState("issue") /\ returned \subseteq Method!Waiting
      /\ Method!Waiting' = (Method!Waiting \ returned) \cup issued
      /\ \A i \in Method!Calls : i \notin returned => RequestNext(i) = Method!Request(i)
  BY CallsStep
<1>2. pick \in Method!Picks /\ Method!ConnectEdge(req, Fires(pick, ready), Method!rsp_ready(ready))
  BY DEF OneEdge, Method!Edge, Fires
<1> SUFFICES ASSUME NEW u \in Method!Units, ~Method!Entry(u)'
             PROVE  LET r == t_unit'[u].latched IN
                    /\ r.who \in Method!Waiting' /\ r = RequestNext(r.who)
                    /\ Method!selected(r) = u /\ u \notin t_link.missing
                    /\ t_link.target = "decoded" => t_route' = u
  BY <1>1 DEF UnitsOK, RequestNext, Method!Request, Method!req_tag, Method!selected
<1> DEFINE r == t_unit'[u].latched
<1>3. t_unit'[u].st # "entry"
  BY DEF Method!Entry
<1>5. CASE /\ Fires(pick, ready) /\ Method!selected(req) = u /\ u \notin t_link.missing
           /\ t_unit'[u] = Method!Accepted(req)
  <2>1. PICK c \in Method!InState("issue") : issued = {c} /\ req = Method!Request(c)
    BY <1>2, <1>5, IssuedIs
  <2>2. r = Method!Request(c) /\ r.who = c
    BY <1>5, <2>1 DEF Method!Accepted, Method!Request
  <2>3. c \in Method!Calls /\ c \notin returned
    BY <1>1, <2>1 DEF Method!InState, Method!Waiting
  <2>4. t_link.target = "decoded" => t_route' = u
    BY <1>2, <1>5 DEF Method!ConnectEdge
  <2> QED BY <1>1, <1>5, <2>1, <2>2, <2>3, <2>4
<1>6. CASE /\ ~Method!Entry(u) /\ t_unit[u].latched.who \notin returned
           /\ r = t_unit[u].latched
  <2>1. /\ r.who \in Method!Waiting /\ r = Method!Request(r.who)
        /\ Method!selected(r) = u /\ u \notin t_link.missing
        /\ t_link.target = "decoded" => t_route = u
    BY <1>6 DEF MethodInv, UnitsOK
  <2>2. r.who \in Method!Calls
    BY <2>1 DEF Method!Waiting, Method!InState
  <2>3. t_link.target = "decoded" => t_route' = u
    <3>1. t_link.target = "decoded" => ~Fires(pick, ready)
      <4>1. t_link.target = "decoded" => Method!InState("issue") = {}
        BY <1>6, DecodedIsAlone
      <4> QED BY <1>2, <4>1, IssuedIs
    <3> QED BY <1>2, <2>1, <3>1 DEF Method!ConnectEdge
  <2> HIDE DEF r
  <2> QED BY <1>1, <1>6, <2>1, <2>2, <2>3 DEF r
<1>7. \/ /\ Fires(pick, ready) /\ Method!selected(req) = u /\ u \notin t_link.missing
         /\ t_unit'[u] = Method!Accepted(req)
      \/ /\ ~Method!Entry(u) /\ t_unit[u].latched.who \notin returned
         /\ r = t_unit[u].latched
  <2>1. \/ /\ Fires(pick, ready) /\ Method!selected(req) = u /\ u \notin t_link.missing
           /\ t_unit'[u] = Method!Accepted(req)
        \/ Method!Entry(u) /\ t_unit'[u] = t_unit[u]
        \/ t_unit'[u].st = "entry"
        \/ /\ ~Method!Entry(u) /\ t_unit[u].latched.who \notin returned
           /\ r = t_unit[u].latched
    BY UnitStep
  <2>2. Method!Entry(u) /\ t_unit'[u] = t_unit[u] => t_unit'[u].st = "entry"
    BY DEF Method!Entry
  <2> QED BY <1>3, <2>1, <2>2
<1> QED BY <1>5, <1>6, <1>7

(* The external target goes on holding each call once.                     *)
LEMMA PoolsStep ==
    ASSUME LinksPaired, MethodInv, NEW pick, NEW ready, NEW offer, NEW finished,
           NEW release, NEW go, OneEdge(pick, ready, offer, finished, release, go)
    PROVE  PoolOK' /\ t_pool' \in Seq(Asked)'
<1> DEFINE issued == Issued(pick, ready)
           returned == Returned(ready, offer, release)
           req == Method!request(pick)
           kept == Kept(ready, offer, release)
<1>1. /\ t_link' = t_link /\ Method!Calls' = Method!Calls
      /\ issued \subseteq Method!InState("issue") /\ returned \subseteq Method!Waiting
      /\ Method!Waiting' = (Method!Waiting \ returned) \cup issued
      /\ \A i \in Method!Calls : i \notin returned => RequestNext(i) = Method!Request(i)
  BY CallsStep
<1>2. Asked' = Asked
  BY <1>1 DEF Asked, Method!Address
<1>3. CASE t_link.target # "pool"
  <2>1. t_pool = <<>>
    BY <1>3 DEF MethodInv, PoolOK
  <2>2. t_pool' = t_pool
    BY <1>3 DEF OneEdge, Method!Edge
  <2> QED BY <1>1, <1>3, <2>1, <2>2 DEF PoolOK, RequestNext, Method!Request, Method!req_tag
<1>4. CASE t_link.target = "pool"
  <2>1. /\ t_pool' = IF Fires(pick, ready) THEN Append(kept, Method!request(pick)) ELSE kept
        /\ kept \in Seq(Asked)
        /\ \A k \in DOMAIN kept : /\ kept[k].who \in Method!Waiting \ returned
                                  /\ kept[k] = Method!Request(kept[k].who)
        /\ \A j, k \in DOMAIN kept : kept[j].who = kept[k].who => j = k
    BY <1>4, PoolStep
  <2> HIDE DEF kept, returned
  <2>2. \A i \in Method!Waiting : i \in Method!Calls
    BY DEF Method!Waiting, Method!InState
  <2>3. \A k \in DOMAIN kept : /\ kept[k].who \in Method!Waiting'
                               /\ kept[k] = RequestNext(kept[k].who)
    BY <1>1, <2>1, <2>2
  <2>4. CASE ~Fires(pick, ready)
    BY <1>1, <1>2, <1>4, <2>1, <2>3, <2>4 DEF PoolOK, RequestNext, Method!Request, Method!req_tag
  <2>5. CASE Fires(pick, ready)
    <3>1. PICK c \in Method!InState("issue") :
              issued = {c} /\ req = Method!Request(c) /\ Method!Request(c) \in Asked
      BY <2>5, IssuedIs DEF OneEdge
    <3>2. req.who = c /\ c \in Method!Waiting' /\ c \in Method!Calls /\ c \notin Method!Waiting
      BY <1>1, <3>1 DEF Method!Request, Method!InState, Method!Waiting
    <3>3. req = RequestNext(req.who) /\ req \in Asked
      BY <1>1, <3>1, <3>2
    <3> HIDE DEF req
    <3>4. /\ t_pool' \in Seq(Asked) /\ Len(kept) \in Nat /\ DOMAIN kept = 1..Len(kept)
          /\ DOMAIN t_pool' = 1..(Len(kept) + 1)
          /\ t_pool'[Len(kept) + 1] = req
          /\ \A k \in 1..Len(kept) : t_pool'[k] = kept[k]
      BY <2>1, <2>5, <3>3 DEF req
    <3>5. \A k \in DOMAIN t_pool' : /\ t_pool'[k].who \in Method!Waiting'
                                    /\ t_pool'[k] = RequestNext(t_pool'[k].who)
      BY <2>3, <3>2, <3>3, <3>4
    <3>6. \A j, k \in DOMAIN t_pool' : t_pool'[j].who = t_pool'[k].who => j = k
      <4>1. \A k \in 1..Len(kept) : t_pool'[k].who # c /\ t_pool'[k].who = kept[k].who
        BY <2>1, <3>2, <3>4
      <4>2. \A j, k \in 1..Len(kept) : t_pool'[j].who = t_pool'[k].who => j = k
        BY <2>1, <3>4, <4>1
      <4>3. \A k \in DOMAIN t_pool' : k \in 1..Len(kept) \/ k = Len(kept) + 1
        BY <3>4
      <4>4. t_pool'[Len(kept) + 1].who = c
        BY <3>2, <3>4
      <4> QED BY <4>1, <4>2, <4>3, <4>4
    <3> QED BY <1>1, <1>2, <1>4, <3>4, <3>5, <3>6
            DEF PoolOK, RequestNext, Method!Request, Method!req_tag
  <2> QED BY <2>4, <2>5
<1> QED BY <1>3, <1>4

(* The error that the connect answers itself is that of a waiting call.    *)
LEMMA ErrorStep ==
    ASSUME LinksPaired, MethodInv, NEW pick, NEW ready, NEW offer, NEW finished,
           NEW release, NEW go, OneEdge(pick, ready, offer, finished, release, go)
    PROVE  /\ ErrorOK' /\ t_err_valid' \in BOOLEAN
           /\ t_link.target = "decoded" =>
                 \A i \in Method!Waiting' : t_addr'[i] \in t_link.missing => t_err_valid'
<1> DEFINE issued == Issued(pick, ready)
           returned == Returned(ready, offer, release)
           req == Method!request(pick)
           taken == Method!rsp_ready(ready)
<1>1. /\ t_link' = t_link /\ Method!Calls' = Method!Calls
      /\ issued \subseteq Method!InState("issue") /\ returned \subseteq Method!Waiting
      /\ Method!Waiting' = (Method!Waiting \ returned) \cup issued
      /\ \A i \in Method!Calls : i \notin returned => t_addr'[i] = t_addr[i]
  BY CallsStep
<1>2. /\ pick \in Method!Picks /\ offer \in Method!Offers /\ release \in BOOLEAN
      /\ Method!ConnectEdge(req, Fires(pick, ready), taken)
  BY DEF OneEdge, Method!Edge, Fires, Method!Releases
<1>3. t_err_valid' = ((t_link.target = "decoded" /\ Fires(pick, ready)
                            /\ Method!selected(req) \in t_link.missing)
                         \/ (t_err_valid /\ ~taken))
  BY <1>2 DEF Method!ConnectEdge
<1>4. t_err_valid \in BOOLEAN /\ (t_link.target # "decoded" => ~t_err_valid)
  BY DEF MethodInv, MethodTypeOK, ErrorOK
<1>5. CASE t_link.target # "decoded"
  <2>1. ~t_err_valid'
    BY <1>3, <1>4, <1>5
  <2> QED BY <1>3, <1>4, <1>5, <2>1 DEF ErrorOK
<1>6. CASE t_link.target = "decoded"
  <2>1. Method!Calls = {0}
    BY <1>6, LinkIs DEF MethodInv, MethodTypeOK
  <2>2. CASE Fires(pick, ready)
    <3>1. PICK c \in Method!InState("issue") : issued = {c} /\ req = Method!Request(c)
      BY <1>2, <2>2, IssuedIs
    <3>2. /\ c = 0 /\ 0 \notin returned /\ 0 \in Method!Waiting' /\ t_addr'[0] = t_addr[0]
          /\ \A i \in Method!Waiting' : i = 0
      BY <1>1, <2>1, <3>1 DEF Method!InState, Method!Waiting
    <3>3. Method!selected(req) = t_addr[0]
      BY <1>6, <3>1, <3>2 DEF Method!selected, Method!Request
    <3>4. ~t_err_valid
      BY <1>6, <3>1, DecodedIsAlone
    <3>5. t_err_valid' = (t_addr[0] \in t_link.missing)
      BY <1>3, <1>6, <2>2, <3>3, <3>4
    <3>6. ErrorOK'
      BY <1>1, <1>6, <3>2, <3>5 DEF ErrorOK
    <3>7. \A i \in Method!Waiting' : t_addr'[i] \in t_link.missing => t_err_valid'
      BY <3>2, <3>5
    <3>8. t_err_valid' \in BOOLEAN
      BY <3>5
    <3> QED BY <3>6, <3>7, <3>8
  <2>3. CASE ~Fires(pick, ready)
    <3>1. t_err_valid' = (t_err_valid /\ ~taken) /\ issued = {}
      BY <1>3, <2>3 DEF Issued
    <3>2. ~taken => returned = {}
      <4>1. \/ returned = {} \/ taken
        BY <1>2, ReturnedIs
      <4> QED BY <4>1
    <3>3. ErrorOK'
      <4> SUFFICES ASSUME t_err_valid'
                   PROVE  \E i \in Method!Waiting' : t_addr'[i] \in t_link.missing
        BY <1>1, <1>6 DEF ErrorOK
      <4>1. t_err_valid /\ returned = {}
        BY <3>1, <3>2
      <4>2. PICK i \in Method!Waiting : t_addr[i] \in t_link.missing
        BY <4>1 DEF MethodInv, ErrorOK
      <4>3. i \in Method!Waiting' /\ t_addr'[i] = t_addr[i]
        BY <1>1, <4>1, <4>2 DEF Method!Waiting, Method!InState
      <4> QED BY <4>2, <4>3
    <3>4. ASSUME NEW i \in Method!Waiting', t_addr'[i] \in t_link.missing
          PROVE  t_err_valid'
      <4>1. i \in Method!Waiting /\ i \notin returned /\ t_addr[i] \in t_link.missing
        BY <1>1, <3>1, <3>4 DEF Method!Waiting, Method!InState
      <4>2. t_err_valid
        BY <1>6, <4>1 DEF MethodInv, HeldOK, Served
      <4>3. ASSUME taken PROVE FALSE
        <5>1. Method!response(offer, release) = Method!Error
          BY <1>6, <4>2 DEF Method!response
        <5>2. Method!response(offer, release) # NoData
          BY <5>1, LinkIs DEF MethodInv, MethodTypeOK
        <5>3. \E w \in Method!Waiting : returned = {w}
          <6>1. \/ Method!response(offer, release) = NoData \/ ~taken
                \/ \E w \in Method!Waiting : returned = {w}
            BY <1>2, ReturnedIs
          <6> QED BY <4>3, <5>2, <6>1
        <5>4. Method!Waiting = {0}
          BY <2>1, <4>1 DEF Method!Waiting, Method!InState
        <5> QED BY <4>1, <5>3, <5>4
      <4> QED BY <3>1, <4>2, <4>3
    <3>5. t_err_valid' \in BOOLEAN
      BY <1>4, <3>1
    <3> QED BY <3>3, <3>4, <3>5
  <2> QED BY <2>2, <2>3
<1> QED BY <1>5, <1>6

(* Every waiting call goes on being held.                                  *)
LEMMA HeldStep ==
    ASSUME LinksPaired, MethodInv, NEW pick, NEW ready, NEW offer, NEW finished,
           NEW release, NEW go, OneEdge(pick, ready, offer, finished, release, go)
    PROVE  HeldOK'
<1> DEFINE issued == Issued(pick, ready)
           returned == Returned(ready, offer, release)
           req == Method!request(pick)
           kept == Kept(ready, offer, release)
<1>1. /\ t_link' = t_link /\ Method!Calls' = Method!Calls /\ Method!Units' = Method!Units
      /\ issued \subseteq Method!InState("issue") /\ returned \subseteq Method!Waiting
      /\ Method!Waiting' = (Method!Waiting \ returned) \cup issued
      /\ \A i \in Method!Calls : i \notin returned => /\ RequestNext(i) = Method!Request(i)
                                                      /\ t_addr'[i] = t_addr[i]
  BY CallsStep
<1>2. pick \in Method!Picks
  BY DEF OneEdge
<1> SUFFICES ASSUME NEW i \in Method!Waiting' PROVE Served(i)'
  BY DEF HeldOK
<1>3. i \in Method!Calls /\ i \notin returned
  BY <1>1 DEF Method!InState, Method!Waiting
<1>4. CASE t_link.target = "pool"
  <2>1. /\ t_pool' = IF Fires(pick, ready) THEN Append(kept, req) ELSE kept
        /\ kept \in Seq(Asked)
        /\ \A j \in Method!Waiting \ returned : \E k \in DOMAIN kept : kept[k].who = j
    BY <1>4, PoolStep
  <2>2. \E k \in DOMAIN t_pool' : t_pool'[k].who = i
    <3>1. CASE i \in issued
      <4>1. PICK c \in Method!InState("issue") : issued = {c} /\ req = Method!Request(c)
                                                 /\ Fires(pick, ready)
        BY <1>2, <3>1, IssuedIs
      <4>2. req.who = i
        BY <3>1, <4>1 DEF Method!Request
      <4>3. t_pool' = Append(kept, req)
        BY <2>1, <4>1
      <4> HIDE DEF kept, req
      <4>4. Len(kept) + 1 \in DOMAIN t_pool' /\ t_pool'[Len(kept) + 1] = req
        BY <2>1, <4>3
      <4> QED BY <4>2, <4>4
    <3>2. CASE i \in Method!Waiting \ returned
      <4>1. PICK k \in DOMAIN kept : kept[k].who = i
        BY <2>1, <3>2
      <4> HIDE DEF kept, req
      <4>2. k \in DOMAIN t_pool' /\ t_pool'[k] = kept[k]
        BY <2>1, <4>1 DEF req
      <4> QED BY <4>1, <4>2
    <3> QED BY <1>1, <3>1, <3>2
  <2> QED BY <1>1, <1>4, <2>2 DEF Served
<1>5. CASE t_link.target = "decoded" /\ t_addr[i] \in t_link.missing
  <2>1. t_addr'[i] \in t_link.missing
    BY <1>1, <1>3, <1>5
  <2>2. t_err_valid'
    BY <1>5, <2>1, ErrorStep
  <2> QED BY <1>1, <1>5, <2>1, <2>2 DEF Served
<1>6. CASE t_link.target # "pool" /\ ~(t_link.target = "decoded" /\ t_addr[i] \in t_link.missing)
  <2> DEFINE u == Method!selected(Method!Request(i))
  <2>1. /\ u \in Method!Units /\ u \notin t_link.missing
        /\ u = Method!selected(RequestNext(i))
    <3>1. t_link \in Links /\ t_addr[i] \in Method!Address
      BY <1>3 DEF MethodInv, MethodTypeOK
    <3>2. /\ t_link.target \in {"thread", "lanes", "decoded"}
          /\ t_link.target # "decoded" => t_link.missing = {}
          /\ t_link.target = "lanes" => t_link.tagged
      BY <1>6, <3>1, LinkIs
    <3>3. u \in Method!Units
      BY <1>3, <3>1, <3>2, LinkIs DEF Method!selected, Method!Request, Method!Units,
             Method!req_tag, Method!Address
    <3>4. u \notin t_link.missing
      BY <1>6, <3>2 DEF Method!selected, Method!Request
    <3> QED BY <1>1, <1>3, <3>3, <3>4
  <2>2. t_unit'[u].st # "entry" /\ t_unit'[u].latched.who = i
    <3>1. CASE i \in issued
      <4>1. PICK c \in Method!InState("issue") : issued = {c} /\ req = Method!Request(c)
                                                 /\ Fires(pick, ready)
        BY <1>2, <3>1, IssuedIs
      <4>2. req = Method!Request(i) /\ req.who = i /\ Method!selected(req) = u
        BY <3>1, <4>1 DEF Method!Request
      <4>3. Fires(pick, ready) /\ Method!selected(req) = u /\ u \notin t_link.missing
        BY <2>1, <4>1, <4>2
      <4>4. Method!Entry(u)
        <5>1. Method!Accepts(u, req)
          BY <1>2, <2>1, <4>3, UnitTakes
        <5> QED BY <5>1 DEF Method!Accepts
      <4> HIDE DEF u
      <4>5. t_unit'[u] = Method!Accepted(req)
        BY <2>1, <4>3, <4>4, UnitStep
      <4> QED BY <4>2, <4>5 DEF Method!Accepted
    <3>2. CASE i \in Method!Waiting \ returned
      <4>1. ~Method!Entry(u) /\ t_unit[u].latched.who = i
        BY <1>6, <3>2 DEF MethodInv, HeldOK, Served
      <4> HIDE DEF u
      <4>2. t_unit'[u].st # "entry" /\ t_unit'[u].latched = t_unit[u].latched
        BY <2>1, <3>2, <4>1, UnitStep
      <4> QED BY <4>1, <4>2
    <3> QED BY <1>1, <3>1, <3>2
  <2>3. t_addr'[i] = t_addr[i]
    BY <1>1, <1>3
  <2>4. Method!selected(RequestNext(i)) = (Method!selected(Method!Request(i)))'
    BY <1>1 DEF Method!selected, RequestNext, Method!Request, Method!req_tag
  <2>5. (Method!selected(Method!Request(i)))' = u
    BY <2>1, <2>4
  <2> HIDE DEF u
  <2> QED BY <1>1, <1>6, <2>2, <2>3, <2>5 DEF Served, Method!Entry
<1> QED BY <1>4, <1>5, <1>6

(* The registers of the issue order: pushes and pops keep tail ahead of    *)
(* head by the occupancy, and leave the slots between them alone.          *)
SlotsOK(n, first, used, push, pop) ==
    LET step(p) == IF p = n - 1 THEN 0 ELSE p + 1
            last == (first + used) % n
            head2 == IF pop THEN step(first) ELSE first
            tail2 == IF push THEN step(last) ELSE last
            kept == IF pop THEN used - 1 ELSE used
            occ2 == IF push THEN kept + 1 ELSE kept IN
        /\ last \in 0..(n - 1) /\ head2 \in 0..(n - 1) /\ tail2 \in 0..(n - 1)
        /\ tail2 = (head2 + occ2) % n /\ last = (head2 + kept) % n
        /\ \A k \in 1..kept : LET slot == (head2 + k - 1) % n IN
              /\ slot \in 0..(n - 1) /\ (push => slot # last)
              /\ slot = (first + (IF pop THEN k + 1 ELSE k) - 1) % n

(* They do so for every size and occupancy.                                *)
LEMMA SlotsStep ==
    ASSUME NEW n \in Nat \ {0}, NEW first \in 0..(n - 1), NEW used \in 0..n,
           NEW push \in BOOLEAN, NEW pop \in BOOLEAN, pop => used > 0, push => used < n
    PROVE  SlotsOK(n, first, used, push, pop)
<1> DEFINE step(p) == IF p = n - 1 THEN 0 ELSE p + 1
           wrap(x) == IF x < n THEN x ELSE x - n
           head2 == IF pop THEN step(first) ELSE first
           kept == IF pop THEN used - 1 ELSE used
           occ2 == IF push THEN kept + 1 ELSE kept
           tail2 == IF push THEN step((first + used) % n) ELSE (first + used) % n
<1>1. ASSUME NEW x \in 0..(2 * n - 1) PROVE x % n = wrap(x) /\ wrap(x) \in 0..(n - 1)
  <2>1. CASE x < n
    BY <2>1, ModLow
  <2>2. CASE x >= n
    <3>1. x \in Nat /\ n \in Nat /\ n <= x /\ x < 2 * n
      BY <2>2
    <3>2. x % n = x - n
      BY <3>1, ModHigh
    <3> QED BY <3>1, <3>2
  <2> QED BY <2>1, <2>2
<1>2. first + used \in 0..(2 * n - 1) /\ head2 \in 0..(n - 1) /\ kept \in 0..n
  OBVIOUS
<1>3. head2 + occ2 \in 0..(2 * n - 1) /\ head2 + kept \in 0..(2 * n - 1)
  OBVIOUS
<1>4. /\ (first + used) % n = wrap(first + used) /\ (head2 + occ2) % n = wrap(head2 + occ2)
      /\ (head2 + kept) % n = wrap(head2 + kept)
  BY <1>1, <1>2, <1>3
<1>5. wrap(head2 + kept) = wrap(first + used)
  OBVIOUS
<1>6. (IF push THEN step(wrap(first + used)) ELSE wrap(first + used)) = wrap(head2 + occ2)
  OBVIOUS
<1>7. tail2 = (head2 + occ2) % n
  <2>1. tail2 = IF push THEN step(wrap(first + used)) ELSE wrap(first + used)
    BY <1>4
  <2> QED BY <1>4, <1>6, <2>1
<1>8. ASSUME NEW k \in 1..kept
      PROVE  LET slot == (head2 + k - 1) % n IN
             /\ slot \in 0..(n - 1) /\ (push => slot # (first + used) % n)
             /\ slot = (first + (IF pop THEN k + 1 ELSE k) - 1) % n
  <2> DEFINE from == IF pop THEN k + 1 ELSE k
  <2>1. head2 + k - 1 \in 0..(2 * n - 1) /\ first + from - 1 \in 0..(2 * n - 1)
    BY <1>2
  <2>2. (head2 + k - 1) % n = wrap(head2 + k - 1)
    BY <1>1, <2>1
  <2>3. (first + from - 1) % n = wrap(first + from - 1)
    BY <1>1, <2>1
  <2>4. wrap(head2 + k - 1) = wrap(first + from - 1)
    BY <1>2
  <2>5. push => wrap(head2 + k - 1) # wrap(first + used)
    BY <1>2
  <2>6. wrap(head2 + k - 1) \in 0..(n - 1)
    BY <1>1, <2>1
  <2> HIDE DEF wrap
  <2> QED BY <1>4, <2>2, <2>3, <2>4, <2>5, <2>6
<1>9. (first + used) % n \in 0..(n - 1)
  BY <1>1, <1>2
<1>10. tail2 \in 0..(n - 1)
  <2>1. (head2 + occ2) % n \in 0..(n - 1)
    BY <1>1, <1>3
  <2> QED BY <1>7, <2>1
<1>11. (first + used) % n = (head2 + kept) % n
  BY <1>4, <1>5
<1> HIDE DEF step, wrap
<1> QED BY <1>2, <1>7, <1>8, <1>9, <1>10, <1>11 DEF SlotsOK, step

(* The waiting calls are counted one by one.                               *)
LEMMA CountStep ==
    ASSUME LinksPaired, MethodInv, NEW pick, NEW ready, NEW offer, NEW finished,
           NEW release, NEW go, OneEdge(pick, ready, offer, finished, release, go), InOrder
    PROVE  LET push == Issued(pick, ready) # {}
               pop == Returned(ready, offer, release) # {}
               kept == IF pop THEN t_order.occ - 1 ELSE t_order.occ IN
           /\ Cardinality(Method!Waiting)' = IF push THEN kept + 1 ELSE kept
           /\ Cardinality(Method!Waiting)' \in 0..t_link.n
           /\ push => t_order.occ < t_link.n
           /\ pop => t_order.occ > 0
<1> DEFINE issued == Issued(pick, ready)
           returned == Returned(ready, offer, release)
           left == Method!Waiting \ returned
           kept == IF returned # {} THEN t_order.occ - 1 ELSE t_order.occ
<1>1. /\ t_link' = t_link /\ Method!Calls' = Method!Calls
      /\ issued \subseteq Method!InState("issue") /\ returned \subseteq Method!Waiting
      /\ Method!Waiting' = left \cup issued
  BY CallsStep
<1>2. /\ pick \in Method!Picks /\ offer \in Method!Offers /\ release \in BOOLEAN
  BY DEF OneEdge, Method!Releases
<1>3. IsFiniteSet(Method!Calls) /\ Cardinality(Method!Calls) = t_link.n
  <2>1. t_link.n \in Nat \ {0} /\ Method!Calls = 0..(t_link.n - 1)
    BY LinkIs DEF MethodInv, MethodTypeOK
  <2>2. /\ IsFiniteSet(0..(t_link.n - 1))
        /\ Cardinality(0..(t_link.n - 1)) = t_link.n - 1 - 0 + 1
    BY <2>1, FS_Interval
  <2> QED BY <2>1, <2>2
<1>4. IsFiniteSet(Method!Waiting) /\ Method!Waiting \subseteq Method!Calls
  BY <1>3, FS_Subset DEF Method!Waiting, Method!InState
<1>5. t_order.occ = Cardinality(Method!Waiting) /\ t_order.occ \in Nat
  BY <1>4, CallsAreCounted, FS_CardinalityType DEF MethodInv, OrderOK
<1>6. IsFiniteSet(left) /\ Cardinality(left) = kept /\ (returned # {} => t_order.occ > 0)
  <2>1. CASE returned = {}
    BY <1>4, <1>5, <2>1
  <2>2. CASE returned # {}
    <3>1. PICK w \in Method!Waiting : returned = {w}
      BY <1>2, <2>2, ReturnedOne
    <3>2. left = Method!Waiting \ {w} /\ w \in Method!Waiting
      BY <3>1
    <3>3. IsFiniteSet(left) /\ Cardinality(left) = Cardinality(Method!Waiting) - 1
      BY <1>4, <3>2, FS_RemoveElement
    <3>4. Cardinality(Method!Waiting) # 0
      BY <1>4, <3>1, FS_EmptySet
    <3> QED BY <1>5, <2>2, <3>3, <3>4
  <2> QED BY <2>1, <2>2
<1>7. Cardinality(Method!Waiting') = IF issued # {} THEN kept + 1 ELSE kept
  <2>1. CASE issued = {}
    <3>1. Method!Waiting' = left
      BY <1>1, <2>1
    <3> QED BY <1>6, <2>1, <3>1
  <2>2. CASE issued # {}
    <3>1. PICK c \in Method!InState("issue") : issued = {c}
      BY <1>2, <2>2, IssuedIs
    <3>2. Method!Waiting' = left \cup {c} /\ c \notin left
      BY <1>1, <3>1 DEF Method!InState, Method!Waiting
    <3>3. Cardinality(left \cup {c}) = Cardinality(left) + 1
      BY <1>6, <3>2, FS_AddElement
    <3> QED BY <1>6, <2>2, <3>2, <3>3
  <2> QED BY <2>1, <2>2
<1>8. Cardinality(Method!Waiting') \in 0..t_link.n
  <2>1. Method!Waiting' \subseteq Method!Calls
    BY <1>1, <1>4 DEF Method!InState
  <2>2. /\ Cardinality(Method!Waiting') <= t_link.n /\ Cardinality(Method!Waiting') \in Nat
    BY <1>3, <2>1, FS_Subset, FS_CardinalityType
  <2>3. t_link.n \in Nat
    BY LinkIs DEF MethodInv, MethodTypeOK
  <2> QED BY <2>2, <2>3
<1>9. issued # {} => t_order.occ < t_link.n
  <2>1. issued # {} => Method!InState("issue") # {}
    BY <1>1
  <2> QED BY <2>1, AskersHaveRoom DEF MethodInv, Method!HasRoom
<1>10. Cardinality(Method!Waiting)' = Cardinality(Method!Waiting')
  OBVIOUS
<1> QED BY <1>6, <1>7, <1>8, <1>9, <1>10

(* The issue order goes on listing the waiting calls.                      *)
LEMMA OrderStep ==
    ASSUME LinksPaired, MethodInv, NEW pick, NEW ready, NEW offer, NEW finished,
           NEW release, NEW go, OneEdge(pick, ready, offer, finished, release, go)
    PROVE  /\ OrderOK'
           /\ t_order' \in [fifo : [Method!Calls -> Method!Calls], head : Method!Calls,
                            tail : Method!Calls, occ : 0..t_link.n]
<1> DEFINE issued == Issued(pick, ready)
           returned == Returned(ready, offer, release)
           req == Method!request(pick)
           kept == Kept(ready, offer, release)
           n == t_link.n
<1>1. /\ t_link' = t_link /\ Method!Calls' = Method!Calls
      /\ issued \subseteq Method!InState("issue") /\ returned \subseteq Method!Waiting
      /\ Method!Waiting' = (Method!Waiting \ returned) \cup issued
  BY CallsStep
<1>2. pick \in Method!Picks /\ offer \in Method!Offers /\ release \in BOOLEAN
  BY DEF OneEdge, Method!Releases
<1>3. /\ n \in Nat \ {0} /\ Method!Calls = 0..(n - 1) /\ t_link \in Links
      /\ t_order \in [fifo : [Method!Calls -> Method!Calls], head : Method!Calls,
                      tail : Method!Calls, occ : 0..n]
  BY LinkIs DEF MethodInv, MethodTypeOK
<1>4. CASE ~InOrder
  <2>1. t_order' = t_order
    BY <1>4 DEF InOrder, OneEdge, Method!Edge
  <2>2. ~InOrder'
    BY <1>1, <1>4 DEF InOrder
  <2> QED BY <1>3, <2>1, <2>2 DEF OrderOK
<1>5. CASE InOrder
  <2> DEFINE push == issued # {}
             pop == returned # {}
             left == IF pop THEN t_order.occ - 1 ELSE t_order.occ
             step(p) == IF p = n - 1 THEN 0 ELSE p + 1
             head2 == IF pop THEN step(t_order.head) ELSE t_order.head
             tail2 == IF push THEN step(t_order.tail) ELSE t_order.tail
             occ2 == IF push THEN left + 1 ELSE left
  <2>1. /\ Cardinality(Method!Waiting)' = occ2 /\ occ2 \in 0..n
        /\ push => t_order.occ < n
        /\ pop => t_order.occ > 0
    BY <1>5, CountStep
  <2>2. Method!OrderEdge(issued, Method!pops(Method!response(offer, release)))
    BY <1>5 DEF InOrder, OneEdge, Method!Edge, Issued, Fires
  <2>3. Method!pops(Method!response(offer, release)) <=> pop
    BY <1>2, <1>5, ReturnedIs
  <2>4. /\ t_order'.head = head2 /\ t_order'.tail = tail2 /\ t_order'.occ = occ2
        /\ t_order' = [fifo |-> t_order'.fifo, tail |-> t_order'.tail,
                       head |-> t_order'.head, occ |-> t_order'.occ]
        /\ t_order'.fifo = [i \in Method!Calls |-> IF push /\ i = t_order.tail
                                THEN CHOOSE c \in issued : TRUE ELSE t_order.fifo[i]]
    <3>1. t_order' =
            [fifo |-> [i \in Method!Calls |-> IF push /\ i = t_order.tail
                          THEN CHOOSE c \in issued : TRUE ELSE t_order.fifo[i]],
             tail |-> IF push THEN Method!NextIdx(t_order.tail) ELSE t_order.tail,
             head |-> IF Method!pops(Method!response(offer, release))
                      THEN Method!NextIdx(t_order.head) ELSE t_order.head,
             occ |-> Method!OccNext(push, Method!pops(Method!response(offer, release)))]
      BY <2>2 DEF Method!OrderEdge
    <3>2. Method!OccNext(push, Method!pops(Method!response(offer, release))) = occ2
      <4> HIDE DEF issued, returned
      <4>1. CASE push /\ pop
        BY <1>3, <2>3, <4>1 DEF Method!OccNext
      <4>2. CASE push /\ ~pop
        BY <1>3, <2>3, <4>2 DEF Method!OccNext
      <4>3. CASE ~push /\ pop
        BY <1>3, <2>3, <4>3 DEF Method!OccNext
      <4>4. CASE ~push /\ ~pop
        BY <1>3, <2>3, <4>4 DEF Method!OccNext
      <4> QED BY <4>1, <4>2, <4>3, <4>4
    <3>3. /\ Method!NextIdx(t_order.tail) = step(t_order.tail)
          /\ Method!NextIdx(t_order.head) = step(t_order.head)
      BY DEF Method!NextIdx
    <3> HIDE DEF issued, returned, occ2, step
    <3> QED BY <2>3, <3>1, <3>2, <3>3
  <2>5. /\ t_order.tail = (t_order.head + t_order.occ) % n
        /\ Method!Blocking /\ t_link.target = "pool" =>
              \A k \in DOMAIN t_pool : t_order.fifo[(t_order.head + k - 1) % n] = t_pool[k].who
        /\ Method!Blocking /\ t_link.target # "pool" =>
              \A i \in Method!Waiting : t_order.fifo[t_order.head] = i
        /\ t_link.target = "pool" => Len(t_pool) = t_order.occ
    BY <1>5 DEF MethodInv, OrderOK
  <2>6. /\ t_order.tail \in 0..(n - 1) /\ head2 \in 0..(n - 1) /\ tail2 \in 0..(n - 1)
        /\ tail2 = (head2 + occ2) % n /\ t_order.tail = (head2 + left) % n
        /\ \A k \in 1..left :
              /\ (head2 + k - 1) % n \in 0..(n - 1)
              /\ push => (head2 + k - 1) % n # t_order.tail
              /\ (head2 + k - 1) % n = (t_order.head + (IF pop THEN k + 1 ELSE k) - 1) % n
    <3>1. /\ n \in Nat \ {0} /\ t_order.head \in 0..(n - 1) /\ t_order.occ \in 0..n
          /\ push \in BOOLEAN /\ pop \in BOOLEAN
      BY <1>3
    <3> DEFINE h == t_order.head
               o == t_order.occ
               t == t_order.tail
    <3>2. t = (h + o) % n /\ (pop => o > 0) /\ (push => o < n)
      BY <2>1, <2>5
    <3>3. n \in Nat \ {0} /\ h \in 0..(n - 1) /\ o \in 0..n
      BY <3>1
    <3>4. push \in BOOLEAN /\ pop \in BOOLEAN
      BY <3>1
    <3> HIDE DEF push, pop, n, h, o, t
    <3>5. SlotsOK(n, h, o, push, pop)
      BY <3>2, <3>3, <3>4, SlotsStep
    <3> QED BY <3>2, <3>5 DEF h, o, t, SlotsOK
  <2>7. ASSUME NEW c, issued = {c}
        PROVE  /\ c \in Method!Calls /\ t_order'.fifo[t_order.tail] = c
               /\ \A s \in 0..(n - 1) : s # t_order.tail => t_order'.fifo[s] = t_order.fifo[s]
    <3>1. (CHOOSE x \in issued : TRUE) = c /\ push
      BY <2>7
    <3>2. c \in Method!Calls
      BY <1>1, <2>7 DEF Method!InState
    <3> HIDE DEF issued, push
    <3> QED BY <1>3, <2>4, <2>6, <3>1, <3>2
  <2>8. issued = {} => t_order'.fifo = t_order.fifo
    <3> SUFFICES ASSUME issued = {} PROVE t_order'.fifo = t_order.fifo
      OBVIOUS
    <3>1. t_order'.fifo = [i \in Method!Calls |-> t_order.fifo[i]]
      BY <2>4
    <3> QED BY <1>3, <3>1
  <2>9. t_order' \in [fifo : [Method!Calls -> Method!Calls], head : Method!Calls,
                      tail : Method!Calls, occ : 0..n]
    <3>1. t_order'.fifo \in [Method!Calls -> Method!Calls]
      <4>1. CASE issued = {}
        BY <1>3, <2>8, <4>1
      <4>2. CASE issued # {}
        <5>1. PICK c : issued = {c}
          BY <1>2, <4>2, IssuedIs
        <5>2. (CHOOSE x \in issued : TRUE) = c /\ c \in Method!Calls
          BY <2>7, <5>1
        <5> HIDE DEF issued, push
        <5> QED BY <1>3, <2>4, <5>2
      <4> QED BY <4>1, <4>2
    <3> HIDE DEF issued, returned, head2, tail2, occ2, n
    <3> QED BY <1>3, <2>1, <2>4, <2>6, <3>1
  <2>10. CASE t_link.target = "pool"
    <3>1. /\ t_pool' = IF Fires(pick, ready) THEN Append(kept, req) ELSE kept
          /\ kept \in Seq(Asked) /\ Len(kept) = left
          /\ Method!Blocking => \A k \in DOMAIN kept :
                kept[k] = IF returned = {} THEN t_pool[k] ELSE t_pool[k + 1]
      <4>1. Len(kept) = IF returned = {} THEN Len(t_pool) ELSE Len(t_pool) - 1
        BY <2>10, PoolStep
      <4>2. Len(kept) = left
        BY <2>5, <2>10, <4>1
      <4>3. /\ t_pool' = IF Fires(pick, ready) THEN Append(kept, req) ELSE kept
            /\ kept \in Seq(Asked)
            /\ Method!Blocking => \A k \in DOMAIN kept :
                  kept[k] = IF returned = {} THEN t_pool[k] ELSE t_pool[k + 1]
        BY <2>10, PoolStep
      <4> QED BY <4>2, <4>3
    <3>2. Fires(pick, ready) <=> push
      BY <1>2, IssuedIs
    <3>3. Len(t_pool') = occ2
      <4> HIDE DEF issued, returned, kept, req
      <4>1. CASE push
        BY <3>1, <3>2, <4>1 DEF req
      <4>2. CASE ~push
        BY <3>1, <3>2, <4>2
      <4> QED BY <4>1, <4>2
    <3>4. ASSUME Method!Blocking, NEW k \in 1..left
          PROVE  t_order'.fifo[(head2 + k - 1) % n] = kept[k].who
      <4> DEFINE from == IF pop THEN k + 1 ELSE k
      <4>1. from \in DOMAIN t_pool /\ kept[k] = t_pool[from]
        <5>1. DOMAIN kept = 1..left /\ DOMAIN t_pool = 1..t_order.occ /\ left \in Nat
          <6>1. Len(t_pool) = t_order.occ /\ t_pool \in Seq(Asked)
            BY <2>5, <2>10 DEF MethodInv, MethodTypeOK
          <6>2. DOMAIN kept = 1..Len(kept) /\ Len(kept) \in Nat
            BY <3>1
          <6> QED BY <3>1, <6>1, <6>2
        <5>2. kept[k] = IF returned = {} THEN t_pool[k] ELSE t_pool[k + 1]
          BY <3>1, <3>4, <5>1
        <5> HIDE DEF returned, kept
        <5> QED BY <1>3, <2>1, <3>4, <5>1, <5>2
      <4>2. /\ (head2 + k - 1) % n \in 0..(n - 1)
            /\ push => (head2 + k - 1) % n # t_order.tail
            /\ (head2 + k - 1) % n = (t_order.head + from - 1) % n
        BY <2>6
      <4>3. t_order.fifo[(t_order.head + from - 1) % n] = kept[k].who
        BY <2>5, <2>10, <3>4, <4>1
      <4> DEFINE slot == (head2 + k - 1) % n
      <4>4. t_order'.fifo[slot] = t_order.fifo[slot]
        <5>1. CASE issued = {}
          BY <2>8, <5>1
        <5>2. CASE issued # {}
          <6>1. PICK c : issued = {c}
            BY <1>2, <5>2, IssuedIs
          <6>2. slot \in 0..(n - 1) /\ slot # t_order.tail
            BY <4>2, <5>2
          <6> HIDE DEF slot
          <6> QED BY <2>7, <6>1, <6>2
        <5> QED BY <5>1, <5>2
      <4>5. slot = (t_order.head + from - 1) % n
        BY <4>2
      <4> HIDE DEF slot, from, kept
      <4>6. t_order'.fifo[slot] = kept[k].who
        BY <4>3, <4>4, <4>5
      <4> QED BY <4>6 DEF slot
    <3>5. ASSUME Method!Blocking, NEW k \in DOMAIN t_pool'
          PROVE  t_order'.fifo[(t_order'.head + k - 1) % n] = t_pool'[k].who
      <4>1. CASE k \in 1..left
        <5>1. t_pool'[k] = kept[k]
          <6> HIDE DEF kept, req, left
          <6> QED BY <3>1, <4>1 DEF req
        <5> QED BY <2>4, <3>4, <3>5, <4>1, <5>1
      <4>2. CASE k \notin 1..left
        <5>1. push /\ k = left + 1 /\ t_pool' = Append(kept, req)
          <6>1. kept \in Seq(Asked) /\ Len(kept) = left /\ left \in Nat
            BY <3>1
          <6>2. CASE push
            <7>1. t_pool' = Append(kept, req)
              BY <3>1, <3>2, <6>2
            <7> HIDE DEF kept, req, left, issued
            <7>2. DOMAIN t_pool' = 1..(left + 1)
              BY <6>1, <7>1
            <7> QED BY <3>5, <4>2, <6>1, <6>2, <7>1, <7>2
          <6>3. CASE ~push
            <7>1. t_pool' = kept
              BY <3>1, <3>2, <6>3
            <7> HIDE DEF kept, req, left, issued
            <7> QED BY <3>5, <4>2, <6>1, <7>1
          <6> QED BY <6>2, <6>3
        <5>2. t_pool'[left + 1] = req
          <6>1. kept \in Seq(Asked) /\ Len(kept) = left
            BY <3>1
          <6> HIDE DEF kept, req, left
          <6> QED BY <5>1, <6>1 DEF req
        <5>3. PICK c \in Method!InState("issue") : issued = {c} /\ req = Method!Request(c)
          BY <1>2, <5>1, IssuedIs
        <5>4. t_order'.fifo[t_order.tail] = c /\ req.who = c
          BY <2>7, <5>3 DEF Method!Request
        <5>5. (head2 + k - 1) % n = t_order.tail
          <6>1. left \in Int /\ head2 \in Int
            BY <1>3, <2>6
          <6> HIDE DEF head2, left
          <6>2. head2 + k - 1 = head2 + left
            BY <5>1, <6>1
          <6> QED BY <2>6, <6>2
        <5> HIDE DEF head2, left, req, n
        <5> QED BY <2>4, <5>1, <5>2, <5>4, <5>5
      <4> QED BY <4>1, <4>2
    <3>6. InOrder' /\ (Method!Blocking)' = Method!Blocking
      BY <1>1, <1>5 DEF InOrder, Method!Blocking
    <3>8. t_order'.tail = (t_order'.head + t_order'.occ) % n
      BY <2>4, <2>6
    <3> HIDE DEF head2, left, req, occ2, tail2, issued, returned, kept
    <3>9. Len(t_pool') = t_order'.occ
      BY <2>4, <3>3
    <3>10. OrderOK'
      BY <1>1, <2>1, <2>4, <2>10, <3>5, <3>6, <3>8, <3>9 DEF OrderOK
    <3> QED BY <2>9, <3>10
  <2>11. CASE t_link.target # "pool"
    <3>1. ASSUME Method!Blocking, NEW i \in Method!Waiting'
          PROVE  t_order'.fifo[t_order'.head] = i
      <4>1. t_link.target \in {"thread", "decoded"} /\ (t_link.target = "decoded" => n = 1)
        BY <1>3, <2>11, <3>1, LinkIs DEF Method!Blocking
      <4>2. \A j \in Method!Waiting' : j = i
        <5>1. CASE n = 1
          BY <1>1, <1>3, <3>1, <5>1 DEF Method!Waiting, Method!InState
        <5>2. CASE t_link.target = "thread"
          <6>1. HeldOK'
            BY HeldStep
          <6>2. ASSUME NEW j \in Method!Waiting' PROVE j = t_unit'[0].latched.who
            <7>1. Served(j)'
              BY <6>1, <6>2 DEF HeldOK
            <7> QED BY <1>1, <5>2, <7>1 DEF Served, Method!selected
          <6> QED BY <3>1, <6>2
        <5> QED BY <4>1, <5>1, <5>2
      <4>3. CASE i \in issued
        <5>1. issued = {i}
          BY <1>2, <4>3, IssuedIs
        <5>2. Method!Waiting' = {i} /\ push
          BY <1>1, <4>2, <5>1
        <5>3. Cardinality({i}) = 1
          BY FS_Singleton
        <5>4. Cardinality(Method!Waiting)' = 1
          BY <5>2, <5>3
        <5>5. left = 0
          <6> HIDE DEF left, issued
          <6>1. left + 1 = 1 /\ left \in Int
            <7>1. left \in Int
              BY <1>3 DEF left
            <7>2. occ2 = left + 1
              BY <5>2
            <7> QED BY <2>1, <5>4, <7>1, <7>2
          <6> QED BY <6>1
        <5>6. t_order.tail = head2
          <6>1. head2 \in Nat /\ n \in Nat /\ head2 < n /\ head2 + 0 = head2
            <7>1. head2 \in 0..(n - 1) /\ n \in Nat \ {0}
              BY <1>3, <2>6
            <7> HIDE DEF head2, n
            <7> QED BY <7>1
          <6>2. head2 % n = head2
            BY <6>1, ModLow
          <6> HIDE DEF head2, left, n
          <6> QED BY <2>6, <5>5, <6>1, <6>2
        <5>7. t_order'.fifo[t_order.tail] = i
          BY <2>7, <5>1
        <5> HIDE DEF head2
        <5> QED BY <2>4, <5>6, <5>7
      <4>4. CASE i \in Method!Waiting \ returned
        <5>1. issued = {}
          <6>1. \A c \in issued : c \in Method!Waiting' /\ c # i
            BY <1>1, <4>4 DEF Method!Waiting, Method!InState
          <6> QED BY <4>2, <6>1
        <5>2. returned = {}
          <6>1. CASE n = 1
            BY <1>1, <1>3, <4>4, <6>1 DEF Method!Waiting, Method!InState
          <6>2. CASE t_link.target = "thread"
            <7>1. ASSUME NEW j \in Method!Waiting PROVE j = t_unit[0].latched.who
              BY <6>2, <7>1 DEF MethodInv, HeldOK, Served, Method!selected
            <7> QED BY <1>1, <4>4, <7>1
          <6> QED BY <4>1, <6>1, <6>2
        <5>3. t_order.fifo[t_order.head] = i
          BY <2>5, <2>11, <3>1, <4>4
        <5>4. head2 = t_order.head
          BY <5>2
        <5> HIDE DEF head2
        <5> QED BY <2>4, <2>8, <5>1, <5>3, <5>4
      <4> QED BY <1>1, <4>3, <4>4
    <3>6. InOrder' /\ (Method!Blocking)' = Method!Blocking
      BY <1>1, <1>5 DEF InOrder, Method!Blocking
    <3>8. t_order'.tail = (t_order'.head + t_order'.occ) % n
      BY <2>4, <2>6
    <3> HIDE DEF head2, left, req, occ2, tail2, issued, returned, kept
    <3>9. OrderOK'
      BY <1>1, <2>1, <2>4, <2>11, <3>1, <3>6, <3>8 DEF OrderOK
    <3> QED BY <2>9, <3>9
  <2> QED BY <2>10, <2>11
<1> QED BY <1>4, <1>5

(* A unit that is offered and not accepted goes on being offered: lanes    *)
(* hold it, a thread and the connect keep it.                              *)
LEMMA HoldStep ==
    ASSUME LinksPaired, MethodInv, NEW pick, NEW ready, NEW offer, NEW finished,
           NEW release, NEW go, OneEdge(pick, ready, offer, finished, release, go)
    PROVE  /\ HoldOK'
           /\ t_hold' \in [valid : BOOLEAN, idx : Method!Calls]
           /\ t_arb' \in [hold_valid : BOOLEAN, owner : Method!Calls, rr : Method!Calls]
           /\ ~Method!rsp_ready(ready) =>
                 \A u \in Method!responding : t_unit'[u] = t_unit[u]
           /\ t_link.target = "lanes" /\ ~Method!rsp_ready(ready) =>
                 \A u \in Method!offering(release) : t_hold'.valid /\ t_hold'.idx = u
<1> DEFINE granted == Method!arb_grant(release)
           lane == CHOOSE u \in granted : TRUE
           taken == Method!rsp_ready(ready)
           held == t_link.target = "lanes" /\ granted # {}
<1>1. /\ offer \in Method!Offers /\ release \in BOOLEAN
      /\ Method!LanesEdge(release, taken)
  BY DEF OneEdge, Method!Edge, Method!Releases
<1>2. /\ t_hold' = CASE t_hold.valid /\ taken -> [t_hold EXCEPT !.valid = FALSE]
                     [] held /\ ~taken -> [valid |-> TRUE, idx |-> lane]
                     [] OTHER -> t_hold
      /\ t_arb' = IF held THEN [hold_valid |-> ~release, owner |-> lane,
                                rr |-> IF t_link.policy = "round_robin"
                                       THEN Method!NextIdx(lane) ELSE 0]
                  ELSE [t_arb EXCEPT !.hold_valid = FALSE]
  BY <1>1 DEF Method!LanesEdge
<1>3. /\ t_link' = t_link /\ Method!Units' = Method!Units
  BY CallsStep
<1>4. /\ t_link.n \in Nat \ {0} /\ Method!Calls = 0..(t_link.n - 1)
      /\ t_hold \in [valid : BOOLEAN, idx : Method!Calls]
      /\ t_arb \in [hold_valid : BOOLEAN, owner : Method!Calls, rr : Method!Calls]
  BY LinkIs DEF MethodInv, MethodTypeOK
<1>5. held => /\ lane \in granted /\ lane \in Method!Units /\ lane \in Method!Calls
              /\ t_unit[lane].st = "respond" /\ ~t_hold.valid
              /\ granted = {lane} /\ Method!offering(release) = {lane}
  <2> SUFFICES ASSUME held
               PROVE  /\ lane \in granted /\ lane \in Method!Units /\ lane \in Method!Calls
                      /\ t_unit[lane].st = "respond" /\ ~t_hold.valid
                      /\ granted = {lane} /\ Method!offering(release) = {lane}
    OBVIOUS
  <2>1. /\ granted \subseteq Method!arb_req /\ \A u, v \in granted : u = v
        /\ t_hold.valid => granted = {}
        /\ ~t_hold.valid => Method!offering(release) = granted
    BY <1>1, OfferIs DEF MethodInv
  <2>2. lane \in granted
    OBVIOUS
  <2>3. lane \in Method!arb_req /\ ~t_hold.valid /\ granted = {lane}
    BY <2>1, <2>2
  <2>4. lane \in Method!responding
    BY <2>3 DEF Method!arb_req
  <2>5. Method!Units = Method!Calls
    BY DEF Method!Units
  <2> QED BY <2>1, <2>2, <2>3, <2>4, <2>5 DEF Method!responding
<1>6. ASSUME ~taken, NEW u \in Method!responding PROVE t_unit'[u] = t_unit[u]
  <2>1. Returned(ready, offer, release) = {}
    BY <1>6 DEF Returned, Method!takers
  <2>2. u \in Method!Units /\ t_unit[u].st = "respond" /\ ~Method!Entry(u)
    BY DEF Method!responding, Method!Entry
  <2> QED BY <2>1, <2>2, UnitStep
<1> HIDE DEF lane, held, granted
<1>7. t_hold' \in [valid : BOOLEAN, idx : Method!Calls]
  <2>1. CASE t_hold.valid /\ taken
    BY <1>2, <1>4, <2>1
  <2>2. CASE ~(t_hold.valid /\ taken) /\ held /\ ~taken
    BY <1>2, <1>5, <2>2
  <2>3. CASE ~(t_hold.valid /\ taken) /\ ~(held /\ ~taken)
    BY <1>2, <1>4, <2>3
  <2> QED BY <2>1, <2>2, <2>3
<1>8. t_arb' \in [hold_valid : BOOLEAN, owner : Method!Calls, rr : Method!Calls]
  <2>1. CASE held
    <3>1. lane \in Method!Calls /\ Method!NextIdx(lane) \in Method!Calls /\ 0 \in Method!Calls
      BY <1>4, <1>5, <2>1 DEF Method!NextIdx
    <3> QED BY <1>1, <1>2, <2>1, <3>1
  <2>2. CASE ~held
    BY <1>2, <1>4, <2>2
  <2> QED BY <2>1, <2>2
<1>9. HoldOK'
  <2> SUFFICES ASSUME t_hold'.valid
               PROVE  /\ t_link.target = "lanes" /\ t_hold'.idx \in Method!Units
                      /\ t_unit'[t_hold'.idx].st = "respond"
    BY <1>3 DEF HoldOK
  <2>1. ~(t_hold.valid /\ taken)
    BY <1>2, <1>4
  <2>2. CASE held /\ ~taken
    <3>1. t_hold'.idx = lane /\ lane \in Method!responding
      BY <1>2, <1>5, <2>1, <2>2 DEF Method!responding
    <3> QED BY <1>5, <1>6, <2>2, <3>1 DEF held
  <2>3. CASE ~(held /\ ~taken)
    <3>1. t_hold' = t_hold /\ ~taken
      BY <1>2, <1>4, <2>1, <2>3
    <3>2. /\ t_link.target = "lanes" /\ t_hold.idx \in Method!Units
          /\ t_unit[t_hold.idx].st = "respond"
      BY <3>1 DEF MethodInv, HoldOK
    <3> QED BY <1>6, <3>1, <3>2 DEF Method!responding
  <2> QED BY <2>2, <2>3
<1>10. ASSUME t_link.target = "lanes", ~taken, NEW u \in Method!offering(release)
       PROVE  t_hold'.valid /\ t_hold'.idx = u
  <2>1. CASE t_hold.valid
    <3>1. ~held /\ Method!offering(release) = {t_hold.idx}
      BY <1>1, <1>5, <1>10, <2>1, OfferIs DEF MethodInv
    <3> QED BY <1>2, <1>10, <2>1, <3>1
  <2>2. CASE ~t_hold.valid
    <3>1. Method!offering(release) = granted
      BY <1>1, <1>10, <2>2, OfferIs DEF MethodInv, granted
    <3>2. held
      BY <1>10, <3>1 DEF held
    <3> QED BY <1>2, <1>5, <1>10, <2>2, <3>2
  <2> QED BY <2>1, <2>2
<1> QED BY <1>6, <1>7, <1>8, <1>9, <1>10

(* A response that is not accepted is offered again.                       *)
LEMMA RspHeldStep ==
    ASSUME LinksPaired, MethodInv, NEW pick, NEW ready, NEW offer, NEW finished,
           NEW release, NEW go, OneEdge(pick, ready, offer, finished, release, go)
    PROVE  RspHeld'
<1> DEFINE rsp == Method!response(offer, release)
           taken == Method!rsp_ready(ready)
           req == Method!request(pick)
<1>1. /\ pick \in Method!Picks /\ offer \in Method!Offers /\ release \in BOOLEAN
      /\ Method!ConnectEdge(req, Fires(pick, ready), taken)
      /\ t_stalled'.rsp = IF taken THEN NoData ELSE rsp
  BY DEF OneEdge, Method!Edge, Fires, Method!Releases
<1>2. /\ t_link' = t_link /\ Method!Units' = Method!Units
  BY CallsStep
<1> SUFFICES ASSUME t_stalled'.rsp # NoData
             PROVE  /\ t_link.initiator = "port" /\ (t_link.target = "lanes" => t_hold'.valid)
                    /\ \A r \in BOOLEAN : Method!response(0, r)' = t_stalled'.rsp
  BY <1>2 DEF RspHeld, Method!RspStable, Method!Releases
<1>3. ~taken /\ rsp # NoData /\ t_stalled'.rsp = rsp
  BY <1>1
<1>4. t_link.initiator = "port" /\ t_link.target # "pool"
  <2>1. t_link.initiator = "port"
    BY <1>1, <1>3, ReturnedIs
  <2> QED BY <2>1, LinkIs DEF MethodInv, MethodTypeOK
<1>5. CASE t_link.target = "decoded" /\ t_err_valid
  <2>1. rsp = Method!Error
    BY <1>5 DEF Method!response
  <2>2. t_err_valid'
    BY <1>1, <1>3, <1>5 DEF Method!ConnectEdge
  <2>3. \A r \in BOOLEAN : Method!response(0, r)' = Method!Error
    BY <1>2, <1>5, <2>2 DEF Method!response, Method!Error
  <2> QED BY <1>3, <1>4, <1>5, <2>1, <2>3
<1>6. CASE ~(t_link.target = "decoded" /\ t_err_valid)
  <2>1. PICK u \in Method!Units : /\ Method!offering(release) = {u}
                                  /\ t_unit[u].st = "respond" /\ rsp = t_unit[u].latched
    BY <1>1, <1>3, <1>4, <1>6, SourceIs DEF MethodInv
  <2>2. u \in Method!responding /\ ~Method!Entry(u)
    BY <2>1 DEF Method!responding, Method!Entry
  <2>3. t_unit'[u] = t_unit[u] /\ u \in Method!responding'
    <3>1. t_unit'[u] = t_unit[u]
      BY <1>3, <2>2, HoldStep
    <3> QED BY <1>2, <2>1, <3>1 DEF Method!responding
  <2>4. t_link.target = "lanes" => t_hold'.valid /\ t_hold'.idx = u
    BY <1>3, <2>1, HoldStep
  <2>5. ~(t_link'.target = "decoded" /\ t_err_valid')
    <3> SUFFICES ASSUME t_link.target = "decoded" PROVE ~t_err_valid'
      BY <1>2
    <3>1. Method!InState("issue") = {}
      BY <2>2, DecodedIsAlone
    <3>2. ~Fires(pick, ready)
      BY <1>1, <3>1, IssuedIs
    <3> QED BY <1>1, <1>6, <3>2 DEF Method!ConnectEdge
  <2>6. ASSUME NEW r \in BOOLEAN PROVE Method!offering(r)' = {u}
    <3>1. CASE t_link.target = "lanes"
      <4>1. Method!arb_req' = {} /\ Method!held_lane' = {u}
        BY <2>4, <3>1 DEF Method!arb_req, Method!held_lane
      <4>2. Method!arb_grant(r)' = {}
        BY <4>1 DEF Method!arb_grant, Method!FromScan, Method!Lowest
      <4>3. Method!offering(r)' =
                (Method!held_lane' \cup Method!arb_grant(r)') \cap Method!responding'
        BY <1>2, <3>1 DEF Method!offering
      <4> QED BY <2>3, <4>1, <4>2, <4>3
    <3>2. CASE t_link.target = "decoded"
      <4>1. t_route = u
        BY <2>1, <3>2 DEF Method!offering
      <4>2. t_route' = t_route
        <5>1. Method!InState("issue") = {}
          BY <2>2, <3>2, DecodedIsAlone
        <5>2. ~Fires(pick, ready)
          BY <1>1, <5>1, IssuedIs
        <5> QED BY <1>1, <5>2 DEF Method!ConnectEdge
      <4>3. Method!offering(r)' = {t_route'} \cap Method!responding'
        BY <1>2, <3>2 DEF Method!offering
      <4> QED BY <2>3, <4>1, <4>2, <4>3
    <3>3. CASE t_link.target = "thread"
      <4>1. Method!offering(r)' = Method!responding'
        BY <1>2, <3>3 DEF Method!offering
      <4>2. Method!Units = {0} /\ Method!responding' \subseteq {0}
        BY <1>2, <3>3 DEF Method!Units, Method!responding
      <4> QED BY <2>3, <4>1, <4>2
    <3> QED BY <1>4, <3>1, <3>2, <3>3, LinkIs DEF MethodInv, MethodTypeOK
  <2>7. ASSUME NEW r \in BOOLEAN PROVE Method!response(0, r)' = rsp
    <3>1. (CHOOSE v \in {u} : TRUE) = u
      OBVIOUS
    <3>2. Method!response(0, r)' = t_unit'[CHOOSE v \in {u} : TRUE].latched
      <4> HIDE DEF rsp
      <4> QED BY <1>2, <1>4, <2>5, <2>6 DEF Method!response
    <3> QED BY <2>1, <2>3, <3>1, <3>2
  <2> QED BY <1>3, <1>4, <2>4, <2>7
<1> QED BY <1>5, <1>6

(* A request that is not accepted is made again: its call goes on asking,  *)
(* and in a fork group it stays the first that is due.                     *)
LEMMA ReqHeldStep ==
    ASSUME LinksPaired, MethodInv, NEW pick, NEW ready, NEW offer, NEW finished,
           NEW release, NEW go, OneEdge(pick, ready, offer, finished, release, go)
    PROVE  ReqHeld' /\ t_age' \in Nat
<1> DEFINE issued == Issued(pick, ready)
           returned == Returned(ready, offer, release)
           req == Method!request(pick)
<1>1. /\ t_link' = t_link /\ Method!Calls' = Method!Calls
      /\ issued \subseteq Method!InState("issue") /\ returned \subseteq Method!Waiting
      /\ \A i \in Method!Calls : i \notin returned => RequestNext(i) = Method!Request(i)
  BY CallsStep
<1>2. /\ pick \in Method!Picks /\ go \in Method!Going
      /\ Method!CallEdge(issued, returned, go) /\ Method!JoinEdge
      /\ t_stalled'.req = IF Fires(pick, ready) THEN NoData ELSE req
  BY DEF OneEdge, Method!Edge, Fires, Issued, Returned
<1>3. /\ t_age \in Nat /\ t_link.n \in Nat \ {0} /\ Method!Calls = 0..(t_link.n - 1)
      /\ t_link.delay \in [1..t_link.n -> Nat]
      /\ \A i, j \in 1..t_link.n : i <= j => t_link.delay[i] <= t_link.delay[j]
  BY LinkIs DEF MethodInv, MethodTypeOK
<1>4. t_age' \in Nat /\ (~Method!Restart => t_age <= t_age')
  <2> DEFINE later == ~Method!AllDone /\ t_age < t_link.delay[t_link.n]
  <2>1. t_age' = CASE Method!Restart -> 0 [] later -> t_age + 1 [] OTHER -> t_age
    BY <1>2 DEF Method!JoinEdge
  <2>2. Method!Restart => ~later
    BY DEF Method!Restart
  <2> HIDE DEF later
  <2> QED BY <1>3, <2>1, <2>2
<1> SUFFICES ASSUME t_stalled'.req # NoData PROVE ReqHeld'
  BY <1>4 DEF ReqHeld
<1>5. ~Fires(pick, ready) /\ req # NoData /\ t_stalled'.req = req /\ issued = {}
  BY <1>2 DEF Issued
<1>6. PICK c \in Method!InState("issue") :
          Method!grants(pick) = {c} /\ req = Method!Request(c)
  BY <1>2, <1>5, GrantIs DEF MethodInv
<1>7. /\ c \in Method!Calls /\ t_state[c] = "issue" /\ c \notin returned /\ ~Method!Restart
  BY <1>1, <1>6 DEF Method!InState, Method!Waiting, Method!Restart, Method!AllDone
<1>8. ASSUME NEW i \in Method!Calls
      PROVE  t_state'[i] = CASE i \in returned -> Method!Returned(i, go)
                             [] t_state[i] = "compute" /\ i \in go /\ i \notin returned -> "issue"
                             [] OTHER -> t_state[i]
  <2>1. t_state'[i] = CASE i \in returned -> Method!Returned(i, go)
                        [] i \in issued \ returned -> "wait"
                        [] Method!Restart \/ (t_state[i] = "compute" /\ i \in go) -> "issue"
                        [] OTHER -> t_state[i]
    BY <1>2 DEF Method!CallEdge
  <2>2. i \in returned => t_state[i] # "compute"
    BY <1>1 DEF Method!Waiting, Method!InState
  <2> HIDE DEF issued, returned
  <2> QED BY <1>5, <1>7, <2>1, <2>2
<1>9. t_state'[c] = "issue"
  BY <1>7, <1>8
<1>10. req.who = c /\ RequestNext(c) = req
  BY <1>1, <1>6, <1>7 DEF Method!Request
<1>11. ASSUME t_link.initiator = "fork"
       PROVE  /\ t_link.delay[c + 1] <= t_age'
              /\ \A j \in Method!Calls : t_state'[j] = "issue" => c <= j
  <2>1. Method!grants(pick) = Method!Lowest(Method!wants)
    BY <1>11 DEF Method!grants
  <2>2. Method!wants = {i \in Method!InState("issue") : Method!Aged(i)}
    <3>1. Method!wants # {}
      BY <1>6, <2>1 DEF Method!Lowest
    <3>2. Method!wants = IF Method!HasRoom
                         THEN {i \in Method!InState("issue") : Method!Aged(i)} ELSE {}
      BY <1>11 DEF Method!wants
    <3> QED BY <3>1, <3>2
  <2>3. c \in Method!wants /\ \A j \in Method!wants : c <= j
    BY <1>6, <2>1 DEF Method!Lowest
  <2>4. t_link.delay[c + 1] <= t_age
    BY <2>2, <2>3 DEF Method!Aged
  <2>5. c + 1 \in 1..t_link.n /\ t_link.delay[c + 1] \in Nat
    BY <1>3, <1>7
  <2>6. ASSUME NEW j \in Method!Calls, t_state'[j] = "issue" PROVE c <= j
    <3>1. t_state[j] = "issue"
      <4>1. j \notin go
        BY <1>2, <1>11 DEF Method!Going
      <4>2. Method!Returned(j, go) = "done"
        BY <1>11 DEF Method!Returned
      <4> HIDE DEF returned
      <4> QED BY <1>8, <2>6, <4>1, <4>2
    <3>2. CASE j \in Method!wants
      BY <2>3, <3>2
    <3>3. CASE j \notin Method!wants
      <4>1. ~Method!Aged(j)
        BY <2>2, <3>1, <3>3 DEF Method!InState
      <4>2. j + 1 \in 1..t_link.n /\ t_link.delay[j + 1] \in Nat
        BY <1>3
      <4>3. t_link.delay[j + 1] > t_age
        BY <1>3, <4>1, <4>2 DEF Method!Aged
      <4>4. ~(j + 1 <= c + 1)
        BY <1>3, <2>4, <2>5, <4>2, <4>3
      <4> QED BY <1>3, <1>7, <4>4
    <3> QED BY <3>2, <3>3
  <2> QED BY <1>3, <1>4, <1>7, <2>4, <2>5, <2>6
<1>12. /\ t_stalled'.req.who = c /\ c \in Method!InState("issue")'
       /\ t_stalled'.req = RequestNext(c)
  BY <1>1, <1>5, <1>7, <1>9, <1>10 DEF Method!InState
<1> QED BY <1>1, <1>11, <1>12
        DEF ReqHeld, RequestNext, Method!Request, Method!req_tag, Method!Aged, Method!InState

(* The join of a fork group waits for all of its calls.                    *)
LEMMA JoinStep ==
    ASSUME LinksPaired, MethodInv, NEW pick, NEW ready, NEW offer, NEW finished,
           NEW release, NEW go, OneEdge(pick, ready, offer, finished, release, go)
    PROVE  JoinOK'
<1> DEFINE issued == Issued(pick, ready)
           returned == Returned(ready, offer, release)
           done == Method!InState("done")
<1>1. /\ t_link' = t_link /\ Method!Calls' = Method!Calls
      /\ issued \subseteq Method!InState("issue") /\ returned \subseteq Method!Waiting
  BY CallsStep
<1>2. /\ go \in Method!Going /\ Method!CallEdge(issued, returned, go)
      /\ t_joined' = IF t_link.joins /\ t_joined \cup returned # Method!Calls
                     THEN t_joined \cup returned ELSE {}
  BY DEF OneEdge, Method!Edge, Fires, Issued, Returned
<1> SUFFICES ASSUME t_link.joins
             PROVE  \/ t_joined' = done' /\ t_joined' # Method!Calls
                    \/ t_joined' = {} /\ done' = Method!Calls
  BY <1>1 DEF JoinOK, Method!AllDone
<1>3. t_link.initiator = "fork" /\ 0 \in Method!Calls
  BY LinkIs DEF MethodInv, MethodTypeOK
<1>4. done' = {i \in Method!Calls : t_state'[i] = "done"}
  BY <1>1 DEF Method!InState
<1>5. ASSUME NEW i \in Method!Calls
      PROVE  t_state'[i] = CASE i \in returned -> Method!Returned(i, go)
                             [] i \in issued \ returned -> "wait"
                             [] Method!Restart \/ (t_state[i] = "compute" /\ i \in go) -> "issue"
                             [] OTHER -> t_state[i]
  BY <1>2 DEF Method!CallEdge
<1>6. CASE Method!AllDone
  <2>1. returned = {} /\ issued = {} /\ \A i \in Method!Calls : t_state[i] = "done"
    BY <1>1, <1>6 DEF Method!AllDone, Method!InState, Method!Waiting
  <2>2. t_joined = {}
    BY <1>6 DEF MethodInv, JoinOK, Method!AllDone
  <2>3. t_joined' = {} /\ {} # Method!Calls
    BY <1>2, <1>3, <2>1, <2>2
  <2> HIDE DEF issued, returned
  <2>4. \A i \in Method!Calls : t_state'[i] = IF Method!Restart THEN "issue" ELSE "done"
    BY <1>5, <2>1
  <2> QED BY <1>4, <2>3, <2>4
<1>7. CASE ~Method!AllDone
  <2>1. t_joined = done /\ t_joined # Method!Calls /\ ~Method!Restart
    BY <1>7 DEF MethodInv, JoinOK, Method!Restart
  <2>2. ASSUME NEW i \in Method!Calls
        PROVE  t_state'[i] = "done" <=> t_state[i] = "done" \/ i \in returned
    <3>1. i \notin go
      BY <1>2, <1>3 DEF Method!Going
    <3>2. Method!Returned(i, go) = "done"
      BY <1>3 DEF Method!Returned
    <3>3. i \in issued => t_state[i] = "issue"
      BY <1>1 DEF Method!InState
    <3> HIDE DEF issued, returned
    <3> QED BY <1>5, <2>1, <3>1, <3>2, <3>3
  <2>3. returned \subseteq Method!Calls
    BY <1>1 DEF Method!Waiting, Method!InState
  <2>4. done = {i \in Method!Calls : t_state[i] = "done"}
    BY DEF Method!InState
  <2> HIDE DEF returned
  <2>5. done' = t_joined \cup returned
    BY <1>4, <2>1, <2>2, <2>3, <2>4
  <2> QED BY <1>2, <2>5
<1> QED BY <1>6, <1>7

(* Every register keeps its range.                                         *)
LEMMA TypesStep ==
    ASSUME LinksPaired, MethodInv, NEW pick, NEW ready, NEW offer, NEW finished,
           NEW release, NEW go, OneEdge(pick, ready, offer, finished, release, go)
    PROVE  MethodTypeOK'
<1> DEFINE issued == Issued(pick, ready)
           req == Method!request(pick)
<1>1. /\ t_link' = t_link /\ Method!Calls' = Method!Calls /\ Method!Units' = Method!Units
      /\ t_state' \in [Method!Calls -> {"issue", "wait", "done", "compute"}]
      /\ t_addr' \in [Method!Calls -> Method!Address]
  BY CallsStep
<1>2. /\ t_order' \in [fifo : [Method!Calls -> Method!Calls], head : Method!Calls,
                       tail : Method!Calls, occ : 0..t_link.n]
      /\ t_age' \in Nat /\ t_err_valid' \in BOOLEAN /\ t_pool' \in Seq(Asked)'
      /\ t_hold' \in [valid : BOOLEAN, idx : Method!Calls]
      /\ t_arb' \in [hold_valid : BOOLEAN, owner : Method!Calls, rr : Method!Calls]
  BY OrderStep, ReqHeldStep, ErrorStep, PoolsStep, HoldStep
<1>3. Asked' = Asked /\ Method!Address' = Method!Address
  BY <1>1 DEF Asked, Method!Address
<1>4. /\ MethodTypeOK /\ t_link.n \in Nat \ {0} /\ Method!Calls = 0..(t_link.n - 1)
  BY LinkIs DEF MethodInv, MethodTypeOK
<1>5. /\ pick \in Method!Picks /\ finished \in SUBSET Method!Bodies
      /\ Method!GrantEdge(issued)
      /\ Method!UnitEdge(req, Method!offering(release), Method!rsp_ready(ready), finished)
  BY DEF OneEdge, Method!Edge, Fires, Issued
<1>6. t_rr_ptr' \in Method!Calls
  <2>1. CASE issued = {}
    BY <1>4, <1>5, <2>1 DEF Method!GrantEdge, MethodTypeOK
  <2>2. CASE issued # {}
    <3>1. PICK c \in Method!InState("issue") : issued = {c}
      BY <1>5, <2>2, IssuedIs
    <3>2. (CHOOSE i \in issued : TRUE) = c /\ c \in Method!Calls
      BY <3>1 DEF Method!InState
    <3>3. Method!NextIdx(c) \in Method!Calls
      BY <1>4, <3>2 DEF Method!NextIdx
    <3> HIDE DEF issued
    <3> QED BY <1>4, <1>5, <3>2, <3>3 DEF Method!GrantEdge, MethodTypeOK
  <2> QED BY <2>1, <2>2
<1>7. t_unit' \in [Method!Units -> [st : {"entry", "body", "respond"},
                                    latched : Asked \cup {NoData}]]
  <2>1. ASSUME NEW u \in Method!Units
        PROVE  t_unit'[u] \in [st : {"entry", "body", "respond"}, latched : Asked \cup {NoData}]
    <3>1. t_unit[u] \in [st : {"entry", "body", "respond"}, latched : Asked \cup {NoData}]
      BY <1>4 DEF MethodTypeOK
    <3>2. t_unit'[u] =
             CASE Method!Accepts(u, req) -> Method!Accepted(req)
               [] t_unit[u].st = "body" /\ u \in finished -> [t_unit[u] EXCEPT !.st = "respond"]
               [] u \in Method!offering(release) /\ Method!rsp_ready(ready) ->
                      [t_unit[u] EXCEPT !.st = "entry"]
               [] OTHER -> t_unit[u]
      BY <1>5 DEF Method!UnitEdge
    <3>3. CASE Method!Accepts(u, req)
      <4>1. Fires(pick, ready)
        BY <1>5, <3>3, UnitTakes
      <4>2. req \in Asked
        BY <1>5, <4>1, IssuedIs
      <4>3. t_unit'[u] = Method!Accepted(req)
        <5>1. Method!Entry(u)
          BY <3>3 DEF Method!Accepts
        <5>2. Fires(pick, ready) /\ Method!selected(req) = u /\ u \notin t_link.missing
          BY <3>3, <4>1 DEF Method!Accepts
        <5> QED BY <5>1, <5>2, UnitStep
      <4> QED BY <4>2, <4>3 DEF Method!Accepted
    <3>4. CASE ~Method!Accepts(u, req)
      <4> DEFINE e == [t_unit[u] EXCEPT !.st = "entry"]
                 d == [t_unit[u] EXCEPT !.st = "respond"]
      <4>2. t_unit'[u] \in {t_unit[u], e, d}
        <5>2. t_unit[u].st = "body" => u \notin Method!offering(release)
          <6>1. Method!offering(release) \subseteq Method!responding
            BY OfferIs DEF MethodInv, OneEdge, Method!Releases
          <6> QED BY <6>1 DEF Method!responding
        <5> QED BY <3>2, <3>4, <5>2
      <4>3. e \in [st : {"entry", "body", "respond"}, latched : Asked \cup {NoData}]
            /\ d \in [st : {"entry", "body", "respond"}, latched : Asked \cup {NoData}]
        BY <3>1
      <4> HIDE DEF e, d
      <4> QED BY <3>1, <4>2, <4>3
    <3> QED BY <3>3, <3>4
  <2>2. t_unit' = [u \in Method!Units |-> t_unit'[u]]
    BY <1>5 DEF Method!UnitEdge
  <2> QED BY <2>1, <2>2
<1> QED BY <1>1, <1>2, <1>3, <1>4, <1>6, <1>7 DEF MethodTypeOK
-----------------------------------------------------------------------------
(* The invariant holds out of reset.                                       *)
LEMMA ClearedIs ==
    LinksPaired /\ t_link \in Links /\ Method!Cleared
        /\ t_addr \in [Method!Calls -> Method!Address] => MethodInv
<1> SUFFICES ASSUME LinksPaired, t_link \in Links, Method!Cleared,
                    t_addr \in [Method!Calls -> Method!Address]
             PROVE  MethodInv
  OBVIOUS
<1>1. /\ t_link.n \in Nat \ {0} /\ Method!Calls = 0..(t_link.n - 1) /\ 0 \in Method!Calls
  BY LinkIs
<1>2. /\ t_state = [i \in Method!Calls |->
                       IF t_link.initiator = "group" THEN "compute" ELSE "issue"]
      /\ t_order = [fifo |-> [i \in Method!Calls |-> 0], head |-> 0, tail |-> 0, occ |-> 0]
      /\ t_unit = [u \in Method!Units |-> [st |-> "entry", latched |-> NoData]]
      /\ t_hold = [valid |-> FALSE, idx |-> 0]
      /\ t_arb = [hold_valid |-> FALSE, owner |-> 0, rr |-> 0]
      /\ t_age = 0 /\ t_rr_ptr = 0 /\ t_err_valid = FALSE /\ t_pool = <<>>
      /\ t_stalled = [req |-> NoData, rsp |-> NoData] /\ t_joined = {}
  BY DEF Method!Cleared, Method!Reset0
<1>3. MethodTypeOK
  <2>1. t_state \in [Method!Calls -> {"issue", "wait", "done", "compute"}]
    BY <1>2
  <2>2. [i \in Method!Calls |-> 0] \in [Method!Calls -> Method!Calls] /\ 0 \in 0..t_link.n
    BY <1>1
  <2>3. t_order \in [fifo : [Method!Calls -> Method!Calls], head : Method!Calls,
                     tail : Method!Calls, occ : 0..t_link.n]
    BY <1>1, <1>2, <2>2
  <2>4. t_unit \in [Method!Units -> [st : {"entry", "body", "respond"},
                                     latched : Asked \cup {NoData}]]
    BY <1>2
  <2>5. /\ t_hold \in [valid : BOOLEAN, idx : Method!Calls]
        /\ t_arb \in [hold_valid : BOOLEAN, owner : Method!Calls, rr : Method!Calls]
    BY <1>1, <1>2
  <2>6. t_pool \in Seq(Asked)
    BY <1>2
  <2>7. t_age \in Nat /\ t_rr_ptr \in Method!Calls /\ t_err_valid \in BOOLEAN
    BY <1>1, <1>2
  <2> QED BY <2>1, <2>3, <2>4, <2>5, <2>6, <2>7 DEF MethodTypeOK
<1>4. Method!Waiting = {} /\ Method!InState("done") = {} /\ \A u \in Method!Units : Method!Entry(u)
  BY <1>2 DEF Method!Waiting, Method!InState, Method!Entry
<1>5. UnitsOK /\ PoolOK /\ HeldOK /\ ErrorOK /\ HoldOK /\ RspHeld /\ ReqHeld
  BY <1>2, <1>4 DEF UnitsOK, PoolOK, HeldOK, ErrorOK, HoldOK, RspHeld, ReqHeld
<1>6. OrderOK
  <2>1. Cardinality(Method!Waiting) = 0
    BY <1>4, FS_EmptySet
  <2>2. (0 + 0) % t_link.n = 0
    BY <1>1, ModLow
  <2>3. /\ t_order.head = 0 /\ t_order.tail = 0 /\ t_order.occ = 0
        /\ Len(t_pool) = 0 /\ DOMAIN t_pool = {}
    BY <1>2
  <2> QED BY <1>4, <2>1, <2>2, <2>3 DEF OrderOK
<1>7. JoinOK
  BY <1>1, <1>2, <1>4 DEF JoinOK
<1> QED BY <1>3, <1>5, <1>6, <1>7 DEF MethodInv

(* An edge keeps the invariant, and so does a reset.                       *)
LEMMA EdgeKeeps ==
    ASSUME LinksPaired, MethodInv, Method!Clocked
    PROVE  MethodInv'
<1>1. PICK pick \in Method!Picks, ready \in Method!Readies, offer \in Method!Offers,
           finished \in SUBSET Method!Bodies, release \in Method!Releases, go \in Method!Going :
          Method!Edge(pick, ready, offer, finished, release, go)
  BY DEF Method!Clocked
<1>2. OneEdge(pick, ready, offer, finished, release, go)
  BY <1>1 DEF OneEdge
<1>3. MethodTypeOK' /\ UnitsOK' /\ PoolOK' /\ HeldOK' /\ ErrorOK'
  BY <1>2, TypesStep, UnitsStep, PoolsStep, HeldStep, ErrorStep
<1>4. OrderOK' /\ HoldOK' /\ RspHeld' /\ ReqHeld' /\ JoinOK'
  BY <1>2, OrderStep, HoldStep, RspHeldStep, ReqHeldStep, JoinStep
<1> QED BY <1>3, <1>4 DEF MethodInv

(* Every step of the method, or of another connection, keeps MethodInv.    *)
LEMMA MethodKeeps ==
    LinksPaired /\ MethodInv /\ (Method!Clocked \/ Method!Reset \/ UNCHANGED tlm_vars)
        => MethodInv'
<1>1. (LinksPaired /\ t_link \in Links /\ Method!Cleared
           /\ t_addr \in [Method!Calls -> Method!Address] => MethodInv)'
  BY ClearedIs, PTL
<1>2. ASSUME LinksPaired, MethodInv, Method!Reset PROVE MethodInv'
  <2>1. /\ t_link' = t_link /\ t_addr' = t_addr /\ Method!Calls' = Method!Calls
        /\ Method!Address' = Method!Address /\ Method!Units' = Method!Units
    BY <1>2 DEF Method!Reset, Method!Calls, Method!Address, Method!Units
  <2>2. Method!Cleared'
    BY <1>2, <2>1 DEF Method!Reset, Method!Cleared, Method!Reset0
  <2>3. t_link' \in Links /\ t_addr' \in [Method!Calls' -> Method!Address']
    BY <1>2, <2>1 DEF MethodInv, MethodTypeOK
  <2> QED BY <1>1, <1>2, <2>2, <2>3
<1>3. ASSUME MethodInv, UNCHANGED tlm_vars PROVE MethodInv'
  <2> USE <1>3 DEF tlm_vars
  <2>1. /\ Method!Calls' = Method!Calls /\ Method!Address' = Method!Address
        /\ Method!Units' = Method!Units /\ Asked' = Asked /\ InOrder' = InOrder
    BY DEF Method!Calls, Method!Address, Method!Units, Asked, InOrder
  <2>2. /\ Method!Waiting' = Method!Waiting /\ (Method!InState("issue"))' = Method!InState("issue")
        /\ (Method!InState("done"))' = Method!InState("done")
    BY <2>1 DEF Method!Waiting, Method!InState
  <2>3. MethodTypeOK'
    BY <2>1 DEF MethodInv, MethodTypeOK
  <2>4. UnitsOK' /\ PoolOK' /\ HeldOK' /\ ErrorOK'
    BY <2>1, <2>2 DEF MethodInv, UnitsOK, PoolOK, HeldOK, ErrorOK, Served, Method!Entry,
           Method!Request, Method!req_tag, Method!selected
  <2>5. OrderOK' /\ HoldOK'
    BY <2>1, <2>2 DEF MethodInv, OrderOK, HoldOK, Method!Blocking
  <2>6. RspHeld'
    <3>1. Method!Releases' = Method!Releases
      BY DEF Method!Releases
    <3>2. ASSUME NEW r PROVE (Method!response(0, r))' = Method!response(0, r)
      BY <2>1 DEF Method!response, Method!offering, Method!responding, Method!held_lane,
             Method!arb_grant, Method!arb_req, Method!FromScan, Method!Lowest, Method!Error
    <3> QED BY <3>1, <3>2 DEF MethodInv, RspHeld, Method!RspStable
  <2>7. ReqHeld' /\ JoinOK'
    BY <2>1, <2>2 DEF MethodInv, ReqHeld, JoinOK, Method!AllDone, Method!Request,
           Method!req_tag, Method!Aged
  <2> QED BY <2>3, <2>4, <2>5, <2>6, <2>7 DEF MethodInv
<1> QED BY <1>2, <1>3, EdgeKeeps

(* What the invariant says of the calls, and of the steps.                 *)
LEMMA InvConserves ==
    ASSUME LinksPaired, MethodInv
    PROVE  Method!CallsConserved
<1>1. /\ t_link \in Links /\ t_addr \in [Method!Calls -> Method!Address]
      /\ t_link.target \in {"thread", "lanes", "decoded", "pool"}
      /\ t_link.target # "decoded" => t_link.missing = {}
      /\ t_link.target = "lanes" => t_link.tagged
  BY LinkIs DEF MethodInv, MethodTypeOK
<1>2. \A p \in Method!Inside :
          \/ \E u \in Method!Units : p = <<"unit", u>> /\ ~Method!Entry(u)
                                     /\ Method!Held(p) = t_unit[u].latched
          \/ \E k \in DOMAIN t_pool : p = <<"pool", k>> /\ Method!Held(p) = t_pool[k]
  BY DEF Method!Inside, Method!Held
<1>3. /\ \A u \in Method!Units : ~Method!Entry(u) =>
             /\ <<"unit", u>> \in Method!Inside
             /\ Method!Held(<<"unit", u>>) = t_unit[u].latched
      /\ \A k \in DOMAIN t_pool : /\ <<"pool", k>> \in Method!Inside
                                  /\ Method!Held(<<"pool", k>>) = t_pool[k]
  BY DEF Method!Inside, Method!Held
<1>4. \A p \in Method!Inside : /\ Method!Held(p).who \in Method!Waiting
                               /\ Method!Held(p) = Method!Request(Method!Held(p).who)
  BY <1>2 DEF MethodInv, UnitsOK, PoolOK
<1>5. \A p, q \in Method!Inside : Method!Held(p).who = Method!Held(q).who => p = q
  <2> SUFFICES ASSUME NEW p \in Method!Inside, NEW q \in Method!Inside,
                      Method!Held(p).who = Method!Held(q).who
               PROVE  p = q
    OBVIOUS
  <2>1. Method!Held(p) = Method!Held(q)
    BY <1>4
  <2>2. CASE t_link.target = "pool"
    <3>1. Method!Units = {}
      BY <2>2 DEF Method!Units
    <3> QED BY <1>2, <3>1 DEF MethodInv, PoolOK
  <2>3. CASE t_link.target # "pool"
    <3>1. DOMAIN t_pool = {}
      BY <2>3 DEF MethodInv, PoolOK
    <3>2. PICK u \in Method!Units : p = <<"unit", u>> /\ ~Method!Entry(u)
                                    /\ Method!Held(p) = t_unit[u].latched
      BY <1>2, <3>1
    <3>3. PICK v \in Method!Units : q = <<"unit", v>> /\ ~Method!Entry(v)
                                    /\ Method!Held(q) = t_unit[v].latched
      BY <1>2, <3>1
    <3>4. Method!selected(t_unit[u].latched) = u /\ Method!selected(t_unit[v].latched) = v
      BY <3>2, <3>3 DEF MethodInv, UnitsOK
    <3> QED BY <2>1, <3>2, <3>3, <3>4
  <2> QED BY <2>2, <2>3
<1>6. ASSUME NEW i \in Method!Calls
      PROVE  Method!Own(i) = Method!Error <=>
                 t_link.target = "decoded" /\ t_addr[i] \in t_link.missing
  <2>1. Method!Request(i) # Method!Error
    <3>1. i # -1
      BY <1>1, LinkIs
    <3> QED BY <3>1 DEF Method!Request, Method!Error
  <2> QED BY <2>1 DEF Method!Own
<1>7. ASSUME NEW i \in Method!Waiting, Method!Own(i) # Method!Error
      PROVE  \E p \in Method!Inside : Method!Held(p).who = i
  <2>1. i \in Method!Calls /\ Served(i)
    BY DEF MethodInv, HeldOK, Method!Waiting, Method!InState
  <2>2. CASE t_link.target = "pool"
    BY <1>3, <2>1, <2>2 DEF Served
  <2>3. CASE t_link.target # "pool"
    <3> DEFINE u == Method!selected(Method!Request(i))
    <3>1. ~(t_link.target = "decoded" /\ t_addr[i] \in t_link.missing)
      BY <1>6, <1>7, <2>1
    <3>2. ~Method!Entry(u) /\ t_unit[u].latched.who = i
      BY <2>1, <2>3, <3>1 DEF Served
    <3>3. u \in Method!Units
      BY <1>1, <2>1, <2>3, LinkIs DEF Method!selected, Method!Request, Method!Units,
             Method!req_tag, Method!Address
    <3> HIDE DEF u
    <3> QED BY <1>3, <3>2, <3>3
  <2> QED BY <2>2, <2>3
<1>8. \A i \in Method!Waiting : Method!Own(i) # Method!Error =>
          \E p \in Method!Inside :
              /\ Method!Held(p) = Method!Request(i)
              /\ \A q \in Method!Inside : Method!Held(q).who = i => q = p
  <2> SUFFICES ASSUME NEW i \in Method!Waiting, Method!Own(i) # Method!Error
               PROVE  \E p \in Method!Inside :
                          /\ Method!Held(p) = Method!Request(i)
                          /\ \A q \in Method!Inside : Method!Held(q).who = i => q = p
    OBVIOUS
  <2>1. PICK p \in Method!Inside : Method!Held(p).who = i
    BY <1>7
  <2>2. Method!Held(p) = Method!Request(i)
    BY <1>4, <2>1
  <2>3. \A q \in Method!Inside : Method!Held(q).who = i => q = p
    BY <1>5, <2>1
  <2> QED BY <2>2, <2>3
<1>9. t_err_valid <=> \E i \in Method!Waiting : Method!Own(i) = Method!Error
  <2>1. \A i \in Method!Waiting : i \in Method!Calls
    BY DEF Method!Waiting, Method!InState
  <2>2. t_err_valid => \E i \in Method!Waiting : Method!Own(i) = Method!Error
    BY <1>6, <2>1 DEF MethodInv, ErrorOK
  <2>3. ASSUME NEW i \in Method!Waiting, Method!Own(i) = Method!Error PROVE t_err_valid
    <3>1. t_link.target = "decoded" /\ t_addr[i] \in t_link.missing /\ Served(i)
      BY <1>6, <2>1, <2>3 DEF MethodInv, HeldOK
    <3> QED BY <3>1 DEF Served
  <2>4. t_err_valid \in BOOLEAN
    BY DEF MethodInv, MethodTypeOK
  <2> QED BY <2>2, <2>3, <2>4
<1>10. InOrder => t_order.occ = Method!Cardinality(Method!Waiting)
  BY CallsAreCounted DEF MethodInv, OrderOK
<1>11. InOrder /\ Method!Blocking /\ t_link.target = "pool" =>
           \A k \in DOMAIN t_pool :
               t_order.fifo[(t_order.head + k - 1) % t_link.n] = t_pool[k].who
  BY DEF MethodInv, OrderOK
<1> QED BY <1>4, <1>8, <1>9, <1>10, <1>11 DEF Method!CallsConserved, InOrder

(* What is offered and not accepted can be offered again.                  *)
LEMMA InvStable ==
    ASSUME LinksPaired, MethodInv
    PROVE  Method!HandshakesStable
<1>1. Method!RspStable
  BY DEF MethodInv, RspHeld, Method!RspStable
<1>2. ASSUME t_link.initiator = "fork" \/ t_link.n = 1, t_stalled.req # NoData
      PROVE  \E pick \in Method!Picks : Method!request(pick) = t_stalled.req
  <2> DEFINE c == t_stalled.req.who
  <2>1. /\ c \in Method!InState("issue") /\ t_stalled.req = Method!Request(c)
        /\ t_link.initiator = "fork" =>
              Method!Aged(c) /\ \A j \in Method!InState("issue") : c <= j
    BY <1>2 DEF MethodInv, ReqHeld
  <2>2. c \in Method!Calls /\ InOrder => Method!HasRoom
    BY <2>1, AskersHaveRoom DEF MethodInv
  <2>3. ASSUME NEW pick \in Method!Picks, Method!grants(pick) = {c}
        PROVE  Method!request(pick) = t_stalled.req
    <3>1. (CHOOSE i \in {c} : TRUE) = c
      OBVIOUS
    <3> QED BY <2>1, <2>3, <3>1 DEF Method!request
  <2>4. {} \in Method!Picks
    BY DEF Method!Picks
  <2>5. CASE t_link.initiator = "port"
    <3>1. Method!grants({}) = {c}
      BY <1>2, <2>5 DEF Method!grants
    <3> QED BY <2>3, <2>4, <3>1
  <2>6. CASE t_link.initiator = "fork"
    <3>1. Method!wants = {i \in Method!InState("issue") : Method!Aged(i)}
      BY <2>1, <2>2, <2>6 DEF InOrder, Method!wants, Method!InState
    <3>2. c \in Method!wants /\ \A j \in Method!wants : c <= j
      BY <2>1, <2>6, <3>1
    <3>3. \A i \in Method!wants : i \in 0..(t_link.n - 1)
      BY <3>1 DEF Method!InState, Method!Calls
    <3>4. Method!Lowest(Method!wants) = {c}
      <4>1. t_link.n \in Nat
        BY LinkIs DEF MethodInv, MethodTypeOK
      <4> HIDE DEF c
      <4> QED BY <3>2, <3>3, <4>1 DEF Method!Lowest
    <3>5. Method!grants({}) = {c}
      BY <2>6, <3>4 DEF Method!grants
    <3> QED BY <2>3, <2>4, <3>5
  <2>7. CASE t_link.n = 1 /\ t_link.initiator \in {"cohort", "group"}
    <3>1. Method!Calls = {0} /\ c = 0 /\ Method!InState("issue") = {0}
      BY <2>1, <2>7, LinkIs DEF MethodInv, MethodTypeOK, Method!InState
    <3>2. Method!wants = {0}
      BY <2>2, <2>7, <3>1 DEF InOrder, Method!wants
    <3>3. /\ Method!Lowest({0}) = {0}
          /\ Method!FromScan({0}, t_rr_ptr, t_link.n) = {0}
      <4>1. (0 - t_rr_ptr) % 1 \in Int
        <5>1. t_rr_ptr = 0
          BY <3>1 DEF MethodInv, MethodTypeOK
        <5> QED BY <5>1
      <4> QED BY <2>7, <4>1 DEF Method!Lowest, Method!FromScan
    <3>4. Method!grants({}) = {0}
      BY <2>7, <3>2, <3>3 DEF Method!grants
    <3> QED BY <2>3, <2>4, <3>1, <3>4
  <2> QED BY <1>2, <2>5, <2>6, <2>7, LinkIs DEF MethodInv, MethodTypeOK
<1> QED BY <1>1, <1>2 DEF Method!HandshakesStable, Method!ReqStable

(* Only the answer to a waiting call changes its state and its register;   *)
(* a call answered since the last join has not yet been made again.        *)
LEMMA StepAnswers ==
    ASSUME LinksPaired, MethodInv, Method!Clocked \/ Method!Reset \/ UNCHANGED tlm_vars
    PROVE  /\ \A i \in Method!Calls :
                 /\ t_state[i] = "wait" /\ t_state'[i] # "wait" =>
                        t_answer'[i] = Method!Own(i) \/ Method!Cleared'
                 /\ t_answer'[i] # t_answer[i] => t_state[i] = "wait"
           /\ t_link.joins =>
                 \A i \in t_joined : t_state[i] = "issue" => t_state'[i] = "issue"
<1>1. t_link.joins => \A i \in t_joined : t_state[i] # "issue"
  BY DEF MethodInv, JoinOK, Method!InState
<1>2. CASE Method!Clocked
  <2>1. PICK pick \in Method!Picks, ready \in Method!Readies, offer \in Method!Offers,
             finished \in SUBSET Method!Bodies, release \in Method!Releases,
             go \in Method!Going :
            Method!Edge(pick, ready, offer, finished, release, go)
    BY <1>2 DEF Method!Clocked
  <2>2. OneEdge(pick, ready, offer, finished, release, go) /\ release \in BOOLEAN
    BY <2>1 DEF OneEdge, Method!Releases
  <2> DEFINE returned == Returned(ready, offer, release)
             rsp == Method!response(offer, release)
  <2>3. /\ returned \subseteq Method!Waiting /\ Method!Calls' = Method!Calls
        /\ Method!Waiting' = (Method!Waiting \ returned) \cup Issued(pick, ready)
    BY <2>2, CallsStep
  <2>4. t_answer' = [i \in Method!Calls |-> IF i \in returned THEN rsp ELSE t_answer[i]]
    BY <2>1 DEF Method!Edge, Returned
  <2>5. ASSUME NEW i \in Method!Calls, i \in returned
        PROVE  t_answer'[i] = Method!Own(i) /\ t_state[i] = "wait"
    <3>1. PICK w \in Method!Waiting : returned = {w} /\ Answers(offer, release, w)
      BY <2>2, <2>5, ReturnedOne
    <3>2. i = w /\ t_answer'[i] = rsp
      BY <2>4, <2>5, <3>1
    <3>3. rsp = Method!Own(w)
      BY <3>1 DEF Answers
    <3> QED BY <3>1, <3>2, <3>3 DEF Method!Waiting, Method!InState
  <2>6. ASSUME NEW i \in Method!Calls, i \notin returned
        PROVE  t_answer'[i] = t_answer[i] /\ (t_state[i] = "wait" => t_state'[i] = "wait")
    <3>1. t_answer'[i] = t_answer[i]
      BY <2>4, <2>6
    <3>2. t_state[i] = "wait" => i \in Method!Waiting'
      BY <2>3, <2>6 DEF Method!Waiting, Method!InState
    <3> QED BY <2>3, <3>1, <3>2 DEF Method!Waiting, Method!InState
  <2> HIDE DEF returned
  <2> QED BY <1>1, <2>5, <2>6
<1>3. CASE Method!Reset
  <2>1. t_link' = t_link /\ t_answer' = t_answer
    BY <1>3 DEF Method!Reset
  <2>2. Method!Cleared'
    BY <1>3, <2>1 DEF Method!Reset, Method!Cleared, Method!Reset0, Method!Calls, Method!Units
  <2> QED BY <1>1, <2>1, <2>2
<1>4. CASE UNCHANGED tlm_vars
  BY <1>4 DEF tlm_vars
<1> QED BY <1>2, <1>3, <1>4

(* Hence it always holds.                                                  *)
LEMMA MethodInvariant ==
    ASSUME LinksPaired
    PROVE  ChannelsSpec => []MethodInv
<1>1. ChannelsInit => MethodInv
  BY ClearedIs DEF ChannelsInit, Method!Init
<1>2. MethodInv /\ [ChannelsNext]_<<connection, sim_vars, sync_vars, tlm_vars>>
          => MethodInv'
  BY MethodKeeps DEF ChannelsNext, Credits, Crossing, Clocked, ResetMethod
<1> QED BY <1>1, <1>2, PTL DEF ChannelsSpec

(* At every moment, on every link of LinksPaired with any number of calls  *)
(* and any delays, each waiting call is held in exactly one place with its *)
(* own argument.                                                           *)
THEOREM ChannelsCallsConserved ==
    ASSUME LinksPaired
    PROVE  ChannelsSpec => []CallsConserved
<1>1. MethodInv => CallsConserved
  BY InvConserves DEF CallsConserved
<1> QED BY <1>1, MethodInvariant, PTL

(* On the same links, what is offered and not accepted stays as it is.     *)
THEOREM ChannelsOffersStable ==
    ASSUME LinksPaired
    PROVE  ChannelsSpec => []HandshakesStable
<1>1. MethodInv => HandshakesStable
  BY InvStable DEF HandshakesStable
<1> QED BY <1>1, MethodInvariant, PTL

(* A call returns while it waits, with the answer to its own request, and  *)
(* no call of a fork group is made again before all have been answered.    *)
THEOREM ChannelsAnswersMatch ==
    ASSUME LinksPaired
    PROVE  ChannelsSpec => AnswersMatch
<1>1. MethodInv /\ [ChannelsNext]_<<connection, sim_vars, sync_vars, tlm_vars>> =>
          Method!Clocked \/ Method!Reset \/ UNCHANGED tlm_vars
  BY DEF ChannelsNext, Credits, Crossing, Clocked, ResetMethod
<1>2. UNCHANGED tlm_vars <=> UNCHANGED Method!vars
  BY DEF tlm_vars, Method!vars, Method!registers
<1>3. MethodInv /\ [ChannelsNext]_<<connection, sim_vars, sync_vars, tlm_vars>> =>
          [\A i \in Method!Calls :
              /\ t_state[i] = "wait" /\ t_state'[i] # "wait" =>
                     t_answer'[i] = Method!Own(i) \/ Method!Cleared'
              /\ t_answer'[i] # t_answer[i] => t_state[i] = "wait"]_Method!vars
  BY <1>1, StepAnswers
<1>4. MethodInv /\ [ChannelsNext]_<<connection, sim_vars, sync_vars, tlm_vars>> =>
          [t_link.joins => \A i \in t_joined : t_state[i] = "issue" =>
                               t_state'[i] = "issue"]_Method!vars
  BY <1>1, StepAnswers
<1> QED BY <1>3, <1>4, MethodInvariant, PTL
        DEF ChannelsSpec, AnswersMatch, Method!AnswersMatch, Method!JoinIsBarrier
=============================================================================
