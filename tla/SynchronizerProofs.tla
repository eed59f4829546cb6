------------------------- MODULE SynchronizerProofs -------------------------
(***************************************************************************)
(* The clock-domain crossings for every number of stages and every width.  *)
(*                                                                         *)
(* handshake: the registers req_src, the chain, ack_dst and the ack chain, *)
(* read in the order a request travels, show one wave: from some register  *)
(* on they all still hold the previous level.  A word is latched when the  *)
(* wave has come all the way back and captured when it passes ack_dst, so  *)
(* the two never coincide, however the clocks do.                          *)
(*                                                                         *)
(* gray: counting up changes one bit of the code, and both decoders, the   *)
(* prefix XOR of the circuit and the doubling shifts of the C++ class,     *)
(* invert it.  pulse: the levels a toggle passes form a line, and a pulse  *)
(* that is owed is a place where the line turns.  reset: a stage that is   *)
(* low has seen as many quiet edges.                                       *)
(***************************************************************************)
EXTENDS SimSynchronizer, Integers, FiniteSetTheorems, WellFoundedInduction, TLAPS

(* What the declaration guarantees; typecheck demands two stages.          *)
Sized == /\ STAGES \in Nat /\ STAGES >= 2
         /\ WIDTH \in Nat \ {0}
         /\ NoData \notin SUBSET Bits

Stages == 1..STAGES

(* The registers of kind handshake hold levels, its words fit.             *)
LevelsOK ==
    /\ data_in \in SUBSET Bits /\ data_reg \in SUBSET Bits
    /\ req_src \in Level /\ ack_dst \in Level
    /\ chain \in [Stages -> Level] /\ ack_sync \in [Stages -> Level]

(* A domain that the reset has reached is at its reset values.             *)
ClearedOK ==
    /\ "src" \in cleared => req_src = Low /\ ack_sync = Filled(Low)
    /\ "dst" \in cleared => chain = Filled(Low) /\ ack_dst = Low

(* From some register on, all hold the level before the last request.      *)
OneWave ==
    /\ \A i, j \in Stages : i <= j /\ chain[i] # req_src => chain[j] # req_src
    /\ last # req_src => ack_dst # req_src
    /\ ack_dst # req_src => \A i \in Stages : ack_sync[i] # req_src
    /\ \A i, j \in Stages : i <= j /\ ack_sync[i] # req_src => ack_sync[j] # req_src

HandshakeInv ==
    kind = "handshake" => /\ LevelsOK
                          /\ rst => ClearedOK
                          /\ ~rst => OneWave
-----------------------------------------------------------------------------
(* A level has two values.                                                 *)
LEMMA TwoLevels ==
    /\ \A a \in Level : Invert(a) \in Level /\ Invert(a) # a
    /\ \A a, b, c \in Level : a # b /\ b # c => a = c
BY DEF Level, Low, High, Invert, Xor

(* Sampling a level gives its old or its new value,                        *)
LEMMA SampledLevel ==
    ASSUME NEW a \in Level, NEW b \in Level, NEW x \in Sampled(a, b)
    PROVE  x \in {a, b}
<1>1. CASE metastable
  <2>1. PICK m \in SUBSET Xor(a, b) : x = (a \cap b) \cup m
    BY <1>1 DEF Sampled, Mixed
  <2> QED BY <2>1 DEF Xor, Level, Low, High
<1>2. CASE ~metastable
  BY <1>2 DEF Sampled
<1> QED BY <1>1, <1>2

(* and sampling a signal that does not change gives its value.             *)
LEMMA SampledSame ==
    ASSUME NEW a, NEW x \in Sampled(a, a)
    PROVE  x = a
<1>1. CASE metastable
  <2>1. PICK m \in SUBSET Xor(a, a) : x = (a \cap a) \cup m
    BY <1>1 DEF Sampled, Mixed
  <2> QED BY <2>1 DEF Xor
<1>2. CASE ~metastable
  BY <1>2 DEF Sampled
<1> QED BY <1>1, <1>2

(* A chain after it has shifted.                                           *)
LEMMA ShiftTyped ==
    ASSUME Sized, NEW S, NEW c \in [Stages -> S], NEW first \in S
    PROVE  /\ Shift(c, first) \in [Stages -> S]
           /\ Shift(c, first)[1] = first
           /\ \A i \in Stages : i # 1 => i - 1 \in Stages /\ Shift(c, first)[i] = c[i - 1]
BY DEF Sized, Shift, Stages

(* A chain that has been filled with one level.                            *)
LEMMA FilledTyped ==
    ASSUME NEW S, NEW level \in S
    PROVE  Filled(level) \in [Stages -> S] /\ \A i \in Stages : Filled(level)[i] = level
BY DEF Filled, Stages

(* The edge latches a word.                                                *)
Latches(src) == src /\ MayLatch

(* What an edge out of reset does to the registers of kind handshake.      *)
LEMMA HandshakeEdge ==
    ASSUME kind = "handshake", ~rst, NEW src \in BOOLEAN, NEW dst \in BOOLEAN, Edges(src, dst),
           data_in \in SUBSET Bits
    PROVE  /\ kind' = kind /\ rst' = rst /\ data_in' \in SUBSET Bits
           /\ data_reg' = IF Latches(src) THEN data_in ELSE data_reg
           /\ req_src' = IF Latches(src) THEN Invert(req_src) ELSE req_src
           /\ pushed' = IF Latches(src) THEN data_in ELSE NoData
           /\ dst => /\ \E first \in Sampled(req_src, req_src') : chain' = Shift(chain, first)
                     /\ ack_dst' = last
                     /\ \E word \in Sampled(data_reg, data_reg') :
                           popped' = IF last # ack_dst THEN word ELSE NoData
           /\ ~dst => chain' = chain /\ ack_dst' = ack_dst /\ popped' = NoData
           /\ src => \E first \in Sampled(ack_dst, ack_dst') : ack_sync' = Shift(ack_sync, first)
           /\ ~src => ack_sync' = ack_sync
<1>1. kind' = kind /\ rst' = rst
  BY DEF Edges, design
<1>2. data_in' \in SUBSET Bits
  BY DEF Edges, Driven, Word
<1>3. /\ data_reg' = IF Latches(src) THEN data_in ELSE data_reg
      /\ req_src' = IF Latches(src) THEN Invert(req_src) ELSE req_src
      /\ pushed' = IF Latches(src) THEN data_in ELSE NoData
  BY DEF Edges, SourceRegisters, Latches
<1>4. Crossing = req_src /\ Crossing' = req_src'
  BY <1>1 DEF Crossing
<1>5. ASSUME dst
      PROVE  /\ \E first \in Sampled(req_src, req_src') : chain' = Shift(chain, first)
             /\ ack_dst' = last
             /\ \E word \in Sampled(data_reg, data_reg') :
                   popped' = IF last # ack_dst THEN word ELSE NoData
  <2>1. PICK first \in Sampled(Crossing, Crossing'), word \in Sampled(data_reg, data_reg') :
            /\ chain' = Shift(chain, first)
            /\ ack_dst' = last
            /\ popped' = IF last # ack_dst THEN word ELSE NoData
    BY <1>5 DEF Edges, DestinationRegisters, Captures
  <2> QED BY <1>4, <2>1
<1>6. ~dst => chain' = chain /\ ack_dst' = ack_dst /\ popped' = NoData
  BY DEF Edges, destination
<1>7. src => \E first \in Sampled(ack_dst, ack_dst') : ack_sync' = Shift(ack_sync, first)
  BY DEF Edges, AcknowledgeChain
<1>8. ~src => ack_sync' = ack_sync
  BY DEF Edges
<1> QED BY <1>1, <1>2, <1>3, <1>5, <1>6, <1>7, <1>8

(* The stages of a chain after it has shifted.                             *)
LEMMA ShiftStages ==
    ASSUME Sized, NEW c \in [Stages -> Level], NEW first \in Level, NEW d, d = Shift(c, first)
    PROVE  /\ d \in [Stages -> Level]
           /\ 1 \in Stages /\ STAGES \in Stages /\ d[1] = first
           /\ \A i \in Stages : i # 1 => i - 1 \in Stages /\ d[i] = c[i - 1]
BY DEF Sized, Shift, Stages

(* A word is latched only when every register holds the same level.        *)
LEMMA LatchWhenQuiet ==
    ASSUME Sized, LevelsOK, OneWave, MayLatch
    PROVE  /\ \A i \in Stages : chain[i] = req_src /\ ack_sync[i] = req_src
           /\ ack_dst = req_src
<1>1. STAGES \in Stages /\ \A i \in Stages : i <= STAGES
  BY DEF Sized, Stages
<1>2. ack_sync[STAGES] = req_src
  BY DEF MayLatch, ack_src
<1>3. \A i \in Stages : ack_sync[i] = req_src
  BY <1>1, <1>2 DEF OneWave
<1>4. ack_dst = req_src
  BY <1>1, <1>3 DEF OneWave
<1>5. \A i \in Stages : chain[i] = req_src
  BY <1>1, <1>4 DEF OneWave, last
<1> QED BY <1>3, <1>4, <1>5

(* The wave stays one wave.                                                *)
LEMMA WaveStep ==
    ASSUME Sized, kind = "handshake", ~rst, LevelsOK, OneWave,
           NEW src \in BOOLEAN, NEW dst \in BOOLEAN, Edges(src, dst)
    PROVE  LevelsOK' /\ OneWave'
<1>0. /\ data_in \in SUBSET Bits /\ data_reg \in SUBSET Bits
      /\ req_src \in Level /\ ack_dst \in Level
      /\ chain \in [Stages -> Level] /\ ack_sync \in [Stages -> Level]
      /\ STAGES \in Stages /\ 1 \in Stages /\ last \in Level
      /\ \A i \in Stages : i \in Int /\ 1 <= i /\ i <= STAGES
  BY DEF LevelsOK, Sized, Stages, last
<1>1. /\ data_in' \in SUBSET Bits
      /\ data_reg' = IF Latches(src) THEN data_in ELSE data_reg
      /\ req_src' = IF Latches(src) THEN Invert(req_src) ELSE req_src
      /\ ack_dst' = IF dst THEN last ELSE ack_dst
  BY <1>0, HandshakeEdge
<1>2. req_src' \in Level /\ ack_dst' \in Level /\ data_reg' \in SUBSET Bits
  BY <1>0, <1>1, TwoLevels
<1>3. /\ chain' \in [Stages -> Level]
      /\ dst => /\ chain'[1] \in {req_src, req_src'}
                /\ \A i \in Stages : i # 1 => i - 1 \in Stages /\ chain'[i] = chain[i - 1]
      /\ ~dst => chain' = chain
  <2>1. CASE dst
    <3>1. PICK first \in Sampled(req_src, req_src') : chain' = Shift(chain, first)
      BY <1>0, <2>1, HandshakeEdge
    <3>2. first \in {req_src, req_src'} /\ first \in Level
      BY <1>0, <1>2, SampledLevel
    <3> QED BY <1>0, <2>1, <3>1, <3>2, ShiftStages
  <2>2. CASE ~dst
    BY <1>0, <2>2, HandshakeEdge
  <2> QED BY <2>1, <2>2
<1>4. /\ ack_sync' \in [Stages -> Level]
      /\ src => /\ ack_sync'[1] \in {ack_dst, ack_dst'}
                /\ \A i \in Stages : i # 1 => i - 1 \in Stages /\ ack_sync'[i] = ack_sync[i - 1]
      /\ ~src => ack_sync' = ack_sync
  <2>1. CASE src
    <3>1. PICK first \in Sampled(ack_dst, ack_dst') : ack_sync' = Shift(ack_sync, first)
      BY <1>0, <2>1, HandshakeEdge
    <3>2. first \in {ack_dst, ack_dst'} /\ first \in Level
      BY <1>0, <1>2, SampledLevel
    <3>3. /\ ack_sync' \in [Stages -> Level] /\ ack_sync'[1] = first
          /\ \A i \in Stages : i # 1 => i - 1 \in Stages /\ ack_sync'[i] = ack_sync[i - 1]
      BY <1>0, <3>1, <3>2, ShiftStages
    <3> QED BY <2>1, <3>2, <3>3
  <2>2. CASE ~src
    BY <1>0, <2>2, HandshakeEdge
  <2> QED BY <2>1, <2>2
<1>5. LevelsOK'
  BY <1>1, <1>2, <1>3, <1>4 DEF LevelsOK
<1>6. CASE Latches(src)
  <2>1. /\ \A i \in Stages : chain[i] = req_src /\ ack_sync[i] = req_src
        /\ ack_dst = req_src /\ last = req_src
    BY <1>0, <1>6, LatchWhenQuiet DEF Latches, last
  <2>2. req_src' # req_src /\ ack_dst' = req_src
    BY <1>0, <1>1, <1>6, <2>1, TwoLevels
  <2>3. \A i \in Stages : ack_sync'[i] = req_src
    BY <1>4, <2>1, <2>2
  <2>4. \A i \in Stages : i # 1 => chain'[i] = req_src
    BY <1>3, <2>1
  <2>5. STAGES # 1
    BY DEF Sized
  <2>6. last' # req_src'
    BY <1>0, <2>2, <2>4, <2>5 DEF last
  <2> QED BY <1>0, <1>5, <2>2, <2>3, <2>4 DEF OneWave
<1>7. CASE ~Latches(src)
  <2>1. req_src' = req_src
    BY <1>1, <1>7
  <2>2. /\ \A i, j \in Stages : i <= j /\ chain'[i] # req_src => chain'[j] # req_src
        /\ last' # req_src => ack_dst' # req_src
    <3>1. CASE dst
      <4>1. chain'[1] = req_src
        BY <1>3, <2>1, <3>1
      <4>2. ASSUME NEW i \in Stages, NEW j \in Stages, i <= j, chain'[i] # req_src PROVE chain'[j] # req_src
        <5>1. i # 1 /\ j # 1
          BY <1>0, <4>1, <4>2
        <5>2. i - 1 \in Stages /\ j - 1 \in Stages /\ i - 1 <= j - 1 /\ chain[i - 1] # req_src
          BY <1>0, <1>3, <3>1, <4>2, <5>1
        <5>3. chain[j - 1] # req_src
          BY <5>2 DEF OneWave
        <5> QED BY <1>3, <3>1, <5>1, <5>3
      <4>3. last' # req_src => last # req_src
        <5>1. CASE STAGES = 1
          BY <5>1, <4>1 DEF last
        <5>2. CASE STAGES # 1
          BY <1>0, <1>3, <3>1, <5>2 DEF OneWave, last
        <5> QED BY <5>1, <5>2
      <4> QED BY <1>1, <3>1, <4>2, <4>3
    <3>2. CASE ~dst
      BY <1>1, <1>3, <3>2 DEF OneWave, last
    <3> QED BY <3>1, <3>2
  <2>3. ack_dst' # req_src => ack_dst # req_src
    BY <1>1 DEF OneWave
  <2>4. ack_dst' # req_src => \A i \in Stages : ack_sync'[i] # req_src
    BY <1>4, <2>3 DEF OneWave
  <2>5. \A i, j \in Stages : i <= j /\ ack_sync'[i] # req_src => ack_sync'[j] # req_src
    <3>1. CASE src
      <4>1. ASSUME NEW i \in Stages, NEW j \in Stages, i <= j, ack_sync'[i] # req_src
            PROVE  ack_sync'[j] # req_src
        <5>1. CASE j = 1
          BY <1>0, <4>1, <5>1
        <5>2. CASE i = 1 /\ j # 1
          <6>1. ack_dst # req_src
            BY <1>4, <2>3, <3>1, <4>1, <5>2
          <6> QED BY <1>4, <3>1, <5>2, <6>1 DEF OneWave
        <5>3. CASE i # 1 /\ j # 1
          <6>1. i - 1 \in Stages /\ j - 1 \in Stages /\ i - 1 <= j - 1 /\ ack_sync[i - 1] # req_src
            BY <1>0, <1>4, <3>1, <4>1, <5>3
          <6>2. ack_sync[j - 1] # req_src
            BY <6>1 DEF OneWave
          <6> QED BY <1>4, <3>1, <5>3, <6>2
        <5> QED BY <5>1, <5>2, <5>3
      <4> QED BY <4>1
    <3>2. CASE ~src
      BY <1>4, <3>2 DEF OneWave
    <3> QED BY <3>1, <3>2
  <2> QED BY <1>5, <2>1, <2>2, <2>4, <2>5 DEF OneWave
<1> QED BY <1>5, <1>6, <1>7

(* Power-up is a reset that has reached both domains.                      *)
LEMMA HandshakeInit == Init => HandshakeInv
<1> SUFFICES ASSUME Init, kind = "handshake" PROVE LevelsOK /\ ClearedOK /\ rst
  BY DEF HandshakeInv
<1>1. Low \in Level /\ data_in = Low /\ chain = Filled(Low)
  BY DEF Init, Level
<1>2. LevelsOK
  BY <1>1, FilledTyped DEF Init, LevelsOK, Low
<1>3. ClearedOK /\ rst
  BY <1>1 DEF Init, ClearedOK
<1> QED BY <1>2, <1>3

(* Every step keeps the wave, or the reset values.                         *)
LEMMA HandshakeStep ==
    ASSUME Sized, HandshakeInv, [Next]_vars
    PROVE  HandshakeInv'
<1> SUFFICES ASSUME kind' = "handshake" PROVE HandshakeInv'
  BY DEF HandshakeInv
<1>0. Low \in Level /\ Low \in SUBSET Bits
  BY DEF Level, Low
<1>1. ASSUME NEW src \in BOOLEAN, NEW dst \in BOOLEAN, Edges(src, dst) PROVE HandshakeInv'
  <2>1. kind = "handshake" /\ rst' = rst
    BY <1>1 DEF Edges, design
  <2>2. LevelsOK
    BY <2>1 DEF HandshakeInv
  <2>3. CASE ~rst
    <3>1. LevelsOK' /\ OneWave'
      BY <1>1, <2>1, <2>2, <2>3, WaveStep DEF HandshakeInv
    <3> QED BY <2>1, <2>3, <3>1 DEF HandshakeInv
  <2>4. CASE rst
    <3>1. data_in' \in SUBSET Bits
      BY <1>1, <2>1, <2>2 DEF Edges, Driven, Word, LevelsOK
    <3>2. /\ src => data_reg' = Low /\ req_src' = Low /\ ack_sync' = Filled(Low)
          /\ ~src => UNCHANGED <<data_reg, req_src, ack_sync>>
      BY <1>1, <2>4 DEF Edges, SourceRegisters, AcknowledgeChain
    <3>3. /\ dst => chain' = Filled(Low) /\ ack_dst' = Low
          /\ ~dst => UNCHANGED <<chain, ack_dst>>
      BY <1>1, <2>1, <2>4 DEF Edges, DestinationRegisters, destination
    <3>4. LevelsOK'
      BY <1>0, <2>2, <3>1, <3>2, <3>3, FilledTyped DEF LevelsOK
    <3>5. cleared' = cleared \cup (IF src THEN {"src"} ELSE {}) \cup (IF dst THEN {"dst"} ELSE {})
      BY <1>1 DEF Edges
    <3>6. ClearedOK
      BY <2>1, <2>4 DEF HandshakeInv
    <3>7. ClearedOK'
      BY <3>2, <3>3, <3>5, <3>6 DEF ClearedOK
    <3> QED BY <2>1, <2>4, <3>4, <3>7 DEF HandshakeInv
  <2> QED BY <2>3, <2>4
<1>2. CASE AssertReset
  <2>1. kind = "handshake" /\ rst' /\ cleared' = {} /\ data_in' = data_in
    BY <1>2 DEF AssertReset, design
  <2>2. LevelsOK
    BY <2>1 DEF HandshakeInv
  <2>3. \/ /\ data_reg' = Low /\ req_src' = Low /\ ack_sync' = Filled(Low)
           /\ chain' = Filled(Low) /\ ack_dst' = Low
        \/ UNCHANGED <<data_reg, req_src, ack_sync, chain, ack_dst>>
    BY <1>2 DEF AssertReset, source, destination
  <2>4. LevelsOK'
    BY <1>0, <2>1, <2>2, <2>3, FilledTyped DEF LevelsOK
  <2> QED BY <2>1, <2>4 DEF HandshakeInv, ClearedOK
<1>3. CASE ReleaseReset
  <2>1. /\ kind = "handshake" /\ rst /\ ~rst' /\ "src" \in cleared /\ "dst" \in cleared
        /\ UNCHANGED <<data_in, data_reg, req_src, ack_sync, chain, ack_dst>>
    BY <1>3 DEF ReleaseReset, design, source, destination
  <2>2. LevelsOK /\ ClearedOK
    BY <2>1 DEF HandshakeInv
  <2>3. req_src = Low /\ ack_dst = Low /\ \A i \in Stages : chain[i] = Low /\ ack_sync[i] = Low
    BY <1>0, <2>1, <2>2, FilledTyped DEF ClearedOK
  <2>4. STAGES \in Stages
    BY DEF Sized, Stages
  <2>5. LevelsOK' /\ OneWave'
    BY <2>1, <2>2, <2>3, <2>4 DEF LevelsOK, OneWave, last
  <2> QED BY <2>1, <2>5 DEF HandshakeInv
<1>4. CASE AsyncInput
  BY <1>4 DEF AsyncInput, design
<1>5. CASE UNCHANGED vars
  BY <1>5 DEF vars, design, source, destination, HandshakeInv, LevelsOK, ClearedOK, OneWave, last
<1> QED BY <1>1, <1>2, <1>3, <1>4, <1>5 DEF Next

(* A word is captured from a request that is under way: data_reg holds it, *)
(* and no other can be latched on the same edge.                           *)
LEMMA CaptureIsDue ==
    ASSUME Sized, LevelsOK, OneWave, last # ack_dst
    PROVE  last = req_src /\ ack_dst # req_src /\ ~MayLatch
<1>1. last \in Level /\ STAGES \in Stages
  BY DEF LevelsOK, Sized, Stages, last
<1>2. last = req_src /\ ack_dst # req_src
  BY <1>1, TwoLevels DEF LevelsOK, OneWave
<1>3. ack_sync[STAGES] # req_src
  BY <1>1, <1>2 DEF OneWave
<1> QED BY <1>2, <1>3 DEF MayLatch, ack_src

(* Each step is a step of the elastic queue with room for one word.        *)
LEMMA HandshakeRefines ==
    ASSUME Sized, HandshakeInv, Next
    PROVE  [Channel!Next]_(Channel!vars)
<1> DEFINE Idle == InFlight' = <<>> /\ pushed' = NoData /\ popped' = NoData
<1>0. Idle => Channel!Next
  BY DEF Channel!Next, Channel!Reset
<1>1. CASE kind' # "handshake"
  <2>1. InFlight' = <<>> /\ kind # "handshake"
    BY <1>1 DEF InFlight, Next, Edges, AssertReset, ReleaseReset, AsyncInput, design
  <2>2. pushed' = NoData /\ popped' = NoData
    <3>1. ASSUME NEW src \in BOOLEAN, NEW dst \in BOOLEAN, Edges(src, dst) PROVE pushed' = NoData /\ popped' = NoData
      BY <2>1, <3>1 DEF Edges, SourceRegisters, DestinationRegisters
    <3> QED BY <3>1 DEF Next, AssertReset, ReleaseReset, AsyncInput
  <2> QED BY <1>0, <2>1, <2>2
<1>2. CASE rst' \/ ReleaseReset \/ rst
  <2>1. pushed' = NoData /\ popped' = NoData
    <3>1. ASSUME NEW src \in BOOLEAN, NEW dst \in BOOLEAN, Edges(src, dst) PROVE pushed' = NoData /\ popped' = NoData
      <4>1. rst
        BY <1>2, <3>1 DEF Edges, ReleaseReset
      <4> QED BY <3>1, <4>1 DEF Edges, SourceRegisters, DestinationRegisters
    <3> QED BY <3>1 DEF Next, AssertReset, ReleaseReset, AsyncInput
  <2>2. InFlight' = <<>>
    <3>1. CASE rst'
      BY <3>1 DEF InFlight
    <3>2. CASE ~rst' /\ kind' = "handshake"
      <4>1. ReleaseReset
        BY <1>2, <3>2 DEF Next, Edges, AssertReset, AsyncInput
      <4>2. rst /\ kind = "handshake" /\ "src" \in cleared /\ "dst" \in cleared
            /\ UNCHANGED <<req_src, ack_dst>>
        BY <3>2, <4>1 DEF ReleaseReset, design, source, destination
      <4>3. req_src = Low /\ ack_dst = Low
        BY <4>2 DEF HandshakeInv, ClearedOK
      <4> QED BY <4>2, <4>3 DEF InFlight
    <3> QED BY <3>1, <3>2, <1>1 DEF InFlight
  <2> QED BY <1>0, <2>1, <2>2
<1>3. ASSUME kind = "handshake", ~rst, NEW src \in BOOLEAN, NEW dst \in BOOLEAN, Edges(src, dst)
      PROVE  Channel!Next
  <2>1. LevelsOK /\ OneWave /\ data_in \in SUBSET Bits /\ data_in # NoData
    BY <1>3 DEF HandshakeInv, LevelsOK, Sized
  <2>2. /\ kind' = kind /\ rst' = rst
        /\ data_reg' = IF Latches(src) THEN data_in ELSE data_reg
        /\ req_src' = IF Latches(src) THEN Invert(req_src) ELSE req_src
        /\ pushed' = IF Latches(src) THEN data_in ELSE NoData
        /\ ack_dst' = IF dst THEN last ELSE ack_dst
        /\ ~dst => popped' = NoData
    BY <1>3, <2>1, HandshakeEdge
  <2>3. InFlight' = IF req_src' # ack_dst' THEN <<data_reg'>> ELSE <<>>
    BY <1>3, <2>2 DEF InFlight
  <2>4. InFlight = IF req_src # ack_dst THEN <<data_reg>> ELSE <<>>
    BY <1>3 DEF InFlight
  <2>5. CASE Latches(src)
    <3>1. /\ \A i \in Stages : chain[i] = req_src
          /\ ack_dst = req_src /\ last = req_src
      BY <2>1, <2>5, LatchWhenQuiet DEF Latches, last, Sized, Stages
    <3>2. popped' = NoData
      BY <1>3, <2>1, <2>2, <3>1, HandshakeEdge
    <3>3. req_src' # req_src /\ ack_dst' = req_src
      BY <2>1, <2>2, <2>5, <3>1, TwoLevels DEF LevelsOK
    <3>4. InFlight = <<>> /\ InFlight' = <<data_in>>
      BY <2>2, <2>3, <2>4, <2>5, <3>1, <3>3
    <3>5. Channel!Transfer(data_in, FALSE)
      BY <2>1, <2>2, <2>5, <3>2, <3>4 DEF Channel!Transfer
    <3> QED BY <2>1, <3>5 DEF Channel!Next
  <2>6. CASE ~Latches(src) /\ dst /\ last # ack_dst
    <3>1. last = req_src /\ ack_dst # req_src
      BY <2>1, <2>6, CaptureIsDue
    <3>2. data_reg' = data_reg /\ req_src' = req_src /\ ack_dst' = last /\ pushed' = NoData
      BY <2>2, <2>6
    <3>3. PICK word \in Sampled(data_reg, data_reg') : popped' = word
      BY <1>3, <2>1, <2>6, HandshakeEdge
    <3>4. popped' = data_reg
      BY <3>2, <3>3, SampledSame
    <3>5. InFlight = <<data_reg>> /\ InFlight' = <<>>
      BY <2>3, <2>4, <3>1, <3>2
    <3>6. Channel!Transfer(NoData, TRUE)
      BY <3>2, <3>4, <3>5 DEF Channel!Transfer
    <3> QED BY <3>6 DEF Channel!Next
  <2>7. CASE ~Latches(src) /\ ~(dst /\ last # ack_dst)
    <3>1. popped' = NoData /\ pushed' = NoData
      BY <1>3, <2>1, <2>2, <2>7, HandshakeEdge
    <3>2. InFlight' = InFlight
      BY <2>2, <2>3, <2>4, <2>7
    <3>3. Channel!Transfer(NoData, FALSE)
      BY <3>1, <3>2 DEF Channel!Transfer
    <3> QED BY <3>3 DEF Channel!Next
  <2> QED BY <2>5, <2>6, <2>7
<1>4. CASE kind' = "handshake" /\ ~rst /\ ~rst'
  BY <1>3, <1>4 DEF Next, Edges, AssertReset, ReleaseReset, AsyncInput, design
<1> QED BY <1>0, <1>1, <1>2, <1>4

(* A step that changes nothing is one of the channel, too.                 *)
LEMMA HandshakeSteps ==
    ASSUME Sized, HandshakeInv, [Next]_vars
    PROVE  [Channel!Next]_(Channel!vars)
<1>1. ASSUME UNCHANGED vars PROVE UNCHANGED Channel!vars
  BY <1>1 DEF vars, design, source, destination, Channel!vars, InFlight
<1> QED BY <1>1, HandshakeRefines

(* kind handshake, for every number of stages, every width, and clocks     *)
(* that coincide or not: each word latched in the source domain is         *)
(* captured in the destination domain once and in order.                   *)
THEOREM SynchronizerHandshake == ASSUME Sized PROVE Spec => HandshakeIsChannel
<1>1. Init => Channel!Init
  BY DEF Init, Channel!Init, InFlight
<1> QED BY <1>1, HandshakeInit, HandshakeStep, HandshakeSteps, PTL
        DEF Spec, HandshakeIsChannel, Channel!Spec

(* The edge that captures the word is none that latches the next.          *)
LEMMA StableStep ==
    ASSUME Sized, HandshakeInv, [Next]_vars
    PROVE  [popped' # NoData => data_reg' = data_reg]_vars
<1> SUFFICES ASSUME Next, popped' # NoData PROVE data_reg' = data_reg
  BY DEF vars
<1>1. PICK src \in BOOLEAN, dst \in BOOLEAN : Edges(src, dst)
  BY DEF Next, AssertReset, ReleaseReset, AsyncInput
<1>2. kind = "handshake" /\ ~rst
  BY <1>1 DEF Edges, DestinationRegisters
<1>3. LevelsOK /\ OneWave /\ data_in \in SUBSET Bits
  BY <1>2 DEF HandshakeInv, LevelsOK
<1>4. last # ack_dst
  BY <1>1, <1>2, <1>3, HandshakeEdge
<1>5. ~MayLatch
  BY <1>3, <1>4, CaptureIsDue
<1> QED BY <1>1, <1>2, <1>3, <1>5, HandshakeEdge DEF Latches

(* kind handshake: data_reg, the word that crosses without a chain, is not *)
(* written on the edge that captures it.                                   *)
THEOREM SynchronizerStable == ASSUME Sized PROVE Spec => StableWhenSampled
BY HandshakeInit, HandshakeStep, StableStep, PTL DEF Spec, StableWhenSampled
-----------------------------------------------------------------------------
(* Induction over data, as the absence of a least counterexample.          *)
LEMMA LeastNatural ==
    ASSUME NEW S \in SUBSET Nat, S # {}
    PROVE  \E m \in S : \A k \in S : m <= k
<1> DEFINE T == {1..n : n \in S}
           R == StrictSubsetOrdering(Nat)
<1>1. \A n \in S : 1..n \in FiniteSubsetsOf(Nat)
  BY FS_Interval DEF FiniteSubsetsOf
<1>2. T \subseteq FiniteSubsetsOf(Nat) /\ T # {}
  BY <1>1
<1>3. IsWellFoundedOn(R, FiniteSubsetsOf(Nat))
  BY FS_StrictSubsetOrderingWellFounded
<1> HIDE DEF R
<1>4. PICK x \in T : \A y \in T : <<y, x>> \notin R
  <2> HIDE DEF T
  <2> QED BY <1>2, <1>3, WFMin
<1>5. PICK m \in S : x = 1..m
  OBVIOUS
<1>6. ASSUME NEW k \in S, ~(m <= k) PROVE FALSE
  <2>1. 1..k \subseteq 1..m /\ m \in 1..m /\ m \notin 1..k
    BY <1>6
  <2>2. <<1..k, 1..m>> \in R
    BY <2>1 DEF R, StrictSubsetOrdering
  <2> QED BY <1>4, <1>5, <2>2
<1> QED BY <1>6

(* The bits of g from b up, and whether their number is odd.               *)
Above(g, b) == {c \in g : c >= b}
Odd(S) == Cardinality(S) % 2 = 1

(* Adding an element changes the parity of a set.                          *)
LEMMA OddAdd ==
    ASSUME NEW S, IsFiniteSet(S), NEW x, x \notin S
    PROVE  Odd(S \cup {x}) <=> ~Odd(S)
<1>1. Cardinality(S) \in Nat /\ Cardinality(S \cup {x}) = Cardinality(S) + 1
  BY FS_AddElement, FS_CardinalityType
<1> QED BY <1>1 DEF Odd

(* The bits are a finite set of naturals.                                  *)
LEMMA FiniteBits ==
    ASSUME Sized, NEW g \in SUBSET Bits
    PROVE  /\ IsFiniteSet(g) /\ \A b \in Bits : b \in Nat /\ b < WIDTH
           /\ \A b \in Nat : b < WIDTH => b \in Bits
           /\ WIDTH \in Nat /\ WIDTH >= 1
           /\ \A T \in SUBSET g : IsFiniteSet(T)
<1>1. Bits = 0..(WIDTH - 1) /\ WIDTH \in Nat /\ WIDTH >= 1
  BY DEF Sized, Bits
<1>2. IsFiniteSet(Bits)
  BY <1>1, FS_Interval
<1>3. \A T \in SUBSET Bits : IsFiniteSet(T)
  BY <1>2, FS_Subset
<1> QED BY <1>1, <1>3

(* From b up, a code word has an odd number of one bits iff b is set: the  *)
(* decoder inverts the encoder.                                            *)
LEMMA GrayInverse ==
    ASSUME Sized, NEW w \in SUBSET Bits
    PROVE  gray_to_bin(bin_to_gray(w)) = w
<1> DEFINE g == bin_to_gray(w)
           Bad == {n \in Nat : n <= WIDTH /\ ~(Odd(Above(g, WIDTH - n)) <=> WIDTH - n \in w)}
<1>0. /\ \A b \in Bits : b \in Nat /\ b < WIDTH
      /\ \A b \in Nat : b < WIDTH => b \in Bits
      /\ WIDTH \in Nat /\ WIDTH >= 1
  BY FiniteBits
<1>1. g \in SUBSET Bits /\ \A b \in Bits : b \in g <=> ~(b \in w <=> b + 1 \in w)
  BY DEF bin_to_gray, Xor, ShiftRight
<1>2. \A T \in SUBSET g : IsFiniteSet(T)
  BY <1>1, FiniteBits
<1> HIDE DEF g
<1>3. 0 \notin Bad
  <2>1. Above(g, WIDTH - 0) = {}
    BY <1>0, <1>1 DEF Above
  <2>2. ~Odd(Above(g, WIDTH - 0))
    BY <2>1, FS_EmptySet DEF Odd
  <2>3. WIDTH - 0 \notin w
    BY <1>0
  <2> QED BY <2>2, <2>3
<1>4. ASSUME NEW n \in Nat, n + 1 <= WIDTH, Odd(Above(g, WIDTH - n)) <=> WIDTH - n \in w
      PROVE  Odd(Above(g, WIDTH - (n + 1))) <=> WIDTH - (n + 1) \in w
  <2> DEFINE b == WIDTH - (n + 1)
  <2>1. b \in Bits /\ b + 1 = WIDTH - n /\ b \in Nat
    BY <1>0, <1>4
  <2>2. b \in g <=> ~(b \in w <=> b + 1 \in w)
    BY <1>1, <2>1
  <2>3. Above(g, b) = IF b \in g THEN Above(g, b + 1) \cup {b} ELSE Above(g, b + 1)
    BY <1>0, <1>1, <2>1 DEF Above
  <2>4. IsFiniteSet(Above(g, b + 1)) /\ b \notin Above(g, b + 1)
    BY <1>2, <2>1 DEF Above
  <2>5. Odd(Above(g, b)) <=> ~(b \in g <=> Odd(Above(g, b + 1)))
    BY <2>3, <2>4, OddAdd
  <2> QED BY <1>4, <2>1, <2>2, <2>5
<1>5. Bad = {}
  <2> SUFFICES ASSUME Bad # {} PROVE FALSE
    OBVIOUS
  <2>1. PICK m \in Bad : \A k \in Bad : m <= k
    BY LeastNatural
  <2>2. m # 0 /\ m \in Nat /\ m <= WIDTH
    BY <1>3, <2>1
  <2>3. m - 1 \in Nat /\ m - 1 <= WIDTH /\ m - 1 \notin Bad /\ (m - 1) + 1 = m
    BY <1>0, <2>1, <2>2
  <2>4. Odd(Above(g, WIDTH - (m - 1))) <=> WIDTH - (m - 1) \in w
    BY <2>3
  <2>5. Odd(Above(g, WIDTH - m)) <=> WIDTH - m \in w
    BY <1>4, <2>2, <2>3, <2>4
  <2> QED BY <2>1, <2>5
<1>6. ASSUME NEW b \in Bits PROVE Odd(Above(g, b)) <=> b \in w
  <2>1. WIDTH - b \in Nat /\ WIDTH - b <= WIDTH /\ WIDTH - (WIDTH - b) = b
    BY <1>0
  <2> QED BY <1>5, <2>1
<1>7. gray_to_bin(g) = {b \in Bits : Odd(Above(g, b))}
  BY DEF gray_to_bin, Odd, Above
<1>8. gray_to_bin(g) = w
  BY <1>6, <1>7
<1> QED BY <1>8 DEF g

(* Counting up changes one bit of the code, or none.                       *)
LEMMA GrayStep ==
    ASSUME Sized, NEW w \in SUBSET Bits
    PROVE  /\ Increment(w) \in SUBSET Bits
           /\ \E z : Xor(bin_to_gray(w), bin_to_gray(Increment(w))) \subseteq {z}
<1>0. /\ \A b \in Bits : b \in Nat /\ b < WIDTH
      /\ \A b \in Nat : b < WIDTH => b \in Bits
      /\ WIDTH \in Nat /\ WIDTH >= 1
  BY FiniteBits
<1> DEFINE zeros == Bits \ w
<1>1. CASE zeros = {}
  <2>1. Increment(w) = {} /\ w = Bits
    BY <1>1 DEF Increment
  <2>2. \A b \in bin_to_gray(w) : b = WIDTH - 1
    BY <1>0, <2>1 DEF bin_to_gray, Xor, ShiftRight
  <2>3. bin_to_gray(Increment(w)) = {}
    BY <2>1 DEF bin_to_gray, Xor, ShiftRight
  <2> QED BY <2>1, <2>2, <2>3 DEF Xor
<1>2. CASE zeros # {}
  <2> DEFINE z == CHOOSE b \in zeros : \A c \in zeros : b <= c
             v == {z} \cup {b \in w : b > z}
  <2>1. \E b \in zeros : \A c \in zeros : b <= c
    BY <1>0, <1>2, LeastNatural
  <2>2. z \in zeros /\ \A c \in zeros : z <= c
    BY <2>1
  <2>3. Increment(w) = v
    BY <1>2 DEF Increment
  <2> HIDE DEF z
  <2>4. z \in Bits /\ z \in Nat /\ z \notin w /\ \A b \in Bits : b < z => b \in w
    BY <1>0, <2>2
  <2>5. \A b \in Nat : (b \in v <=> b \in w) <=> b > z \/ b \notin Bits
    BY <1>0, <2>4
  <2>6. \A b \in Bits : b # z => (b \in bin_to_gray(w) <=> b \in bin_to_gray(v))
    <3> SUFFICES ASSUME NEW b \in Bits, b # z
                 PROVE b \in bin_to_gray(w) <=> b \in bin_to_gray(v)
      OBVIOUS
    <3>1. b \in bin_to_gray(w) <=> ~(b \in w <=> b + 1 \in w)
      BY DEF bin_to_gray, Xor, ShiftRight
    <3>2. b \in bin_to_gray(v) <=> ~(b \in v <=> b + 1 \in v)
      BY DEF bin_to_gray, Xor, ShiftRight
    <3>3. b \in Nat /\ b + 1 \in Nat /\ (b > z <=> b + 1 > z) /\ (b < z => b + 1 \in Bits)
      BY <1>0, <2>4
    <3>4. CASE b > z
      <4>1. (b \in v <=> b \in w) /\ (b + 1 \in v <=> b + 1 \in w)
        BY <2>5, <3>3, <3>4
      <4> QED BY <3>1, <3>2, <4>1
    <3>5. CASE b < z
      <4>1. ~(b \in v <=> b \in w) /\ ~(b + 1 \in v <=> b + 1 \in w)
        BY <2>4, <2>5, <3>3, <3>5
      <4> QED BY <3>1, <3>2, <4>1
    <3> QED BY <2>4, <3>3, <3>4, <3>5
  <2>7. bin_to_gray(w) \subseteq Bits /\ bin_to_gray(v) \subseteq Bits /\ v \subseteq Bits
    BY <2>4 DEF bin_to_gray, Xor, ShiftRight
  <2>8. Xor(bin_to_gray(w), bin_to_gray(v)) \subseteq {z}
    BY <2>6, <2>7 DEF Xor
  <2> QED BY <2>3, <2>7, <2>8
<1> QED BY <1>1, <1>2

(* So sampling the code while the counter moves reads the count before or  *)
(* after.                                                                  *)
LEMMA GraySampled ==
    ASSUME Sized, NEW w \in SUBSET Bits, NEW v \in {w, Increment(w)},
           NEW x \in Sampled(bin_to_gray(w), bin_to_gray(v))
    PROVE  gray_to_bin(x) \in {w, v} /\ v \in SUBSET Bits
<1> DEFINE a == bin_to_gray(w)
           c == bin_to_gray(v)
<1>1. v \in SUBSET Bits
  BY GrayStep
<1>2. gray_to_bin(a) = w /\ gray_to_bin(c) = v
  BY <1>1, GrayInverse
<1>3. PICK z : Xor(a, c) \subseteq {z}
  <2>1. CASE v = w
    BY <2>1 DEF Xor
  <2>2. CASE v # w
    BY <2>2, GrayStep
  <2> QED BY <2>1, <2>2
<1> HIDE DEF a, c
<1>4. x \in {a, c}
  <2>1. CASE metastable
    <3>1. PICK m \in SUBSET Xor(a, c) : x = (a \cap c) \cup m
      BY <2>1 DEF Sampled, Mixed, a, c
    <3>2. CASE Xor(a, c) = {}
      BY <3>1, <3>2 DEF Xor
    <3>3. CASE Xor(a, c) = {z}
      <4>1. CASE z \in a
        <5>1. z \notin c /\ a = (a \cap c) \cup {z} /\ c = a \cap c
          BY <3>3, <4>1 DEF Xor
        <5> QED BY <3>1, <3>3, <5>1
      <4>2. CASE z \notin a
        <5>1. z \in c /\ c = (a \cap c) \cup {z} /\ a = a \cap c
          BY <3>3, <4>2 DEF Xor
        <5> QED BY <3>1, <3>3, <5>1
      <4> QED BY <4>1, <4>2
    <3> QED BY <1>3, <3>2, <3>3
  <2>2. CASE ~metastable
    BY <2>2 DEF Sampled, a, c
  <2> QED BY <2>1, <2>2
<1> QED BY <1>1, <1>2, <1>4

(* The bits of g in the s places from b up.                                *)
Segment(g, b, s) == {c \in g : b <= c /\ c < b + s}

(* The passes of the C++ decoder; a pass with shift s joins two segments   *)
(* of s bits.                                                              *)
Pass(p) == IF p.shift < WIDTH
           THEN [b |-> Xor(p.b, ShiftRight(p.b, p.shift)), shift |-> 2 * p.shift]
           ELSE p
Passes(f, g, n) == f = [k \in 0..n |-> IF k = 0 THEN [b |-> g, shift |-> 1] ELSE Pass(f[k - 1])]

(* The parity of a union of two sets apart.                                *)
LEMMA OddUnion ==
    ASSUME NEW S, NEW T, IsFiniteSet(S), IsFiniteSet(T), S \cap T = {}
    PROVE  Odd(S \cup T) <=> ~(Odd(S) <=> Odd(T))
<1>1. /\ Cardinality(S) \in Nat /\ Cardinality(T) \in Nat
      /\ Cardinality(S \cup T) = Cardinality(S) + Cardinality(T)
  <2>1. Cardinality(S \cap T) = 0
    BY FS_EmptySet
  <2>2. Cardinality(S) \in Nat /\ Cardinality(T) \in Nat
    BY FS_CardinalityType
  <2>3. Cardinality(S \cup T) = Cardinality(S) + Cardinality(T) - Cardinality(S \cap T)
    BY FS_Union
  <2> QED BY <2>1, <2>2, <2>3
<1> QED BY <1>1 DEF Odd

(* The recursion that defines the decoder has a solution.                  *)
LEMMA PassesExist ==
    ASSUME NEW g, NEW n \in Nat
    PROVE  \E f : Passes(f, g, n)
<1> DEFINE Bad == {k \in Nat : ~\E f : Passes(f, g, k)}
           first == [b |-> g, shift |-> 1]
<1>1. 0 \notin Bad
  <2> DEFINE f == [k \in 0..0 |-> first]
  <2>1. f = [k \in 0..0 |-> IF k = 0 THEN first ELSE Pass(f[k - 1])]
    OBVIOUS
  <2> QED BY <2>1 DEF Passes
<1>2. ASSUME NEW k \in Nat, NEW f, Passes(f, g, k) PROVE k + 1 \notin Bad
  <2> DEFINE h == [i \in 0..(k + 1) |-> IF i = k + 1 THEN Pass(f[k]) ELSE f[i]]
  <2>1. \A i \in 0..k : h[i] = f[i] /\ f[i] = IF i = 0 THEN first ELSE Pass(f[i - 1])
    BY <1>2 DEF Passes
  <2>2. \A i \in 0..(k + 1) : h[i] = IF i = 0 THEN first ELSE Pass(h[i - 1])
    <3> SUFFICES ASSUME NEW i \in 0..(k + 1) PROVE h[i] = IF i = 0 THEN first ELSE Pass(h[i - 1])
      OBVIOUS
    <3>1. CASE i = k + 1
      <4>1. h[i] = Pass(f[k]) /\ i - 1 = k /\ k \in 0..k /\ i # 0
        BY <3>1
      <4> QED BY <2>1, <4>1
    <3>2. CASE i # k + 1
      <4>1. i \in 0..k /\ (i # 0 => i - 1 \in 0..k)
        BY <3>2
      <4> HIDE DEF h
      <4> QED BY <2>1, <4>1
    <3> QED BY <3>1, <3>2
  <2>3. h = [i \in 0..(k + 1) |-> IF i = 0 THEN first ELSE Pass(h[i - 1])]
    <3>1. h = [i \in 0..(k + 1) |-> h[i]]
      OBVIOUS
    <3> HIDE DEF h
    <3> QED BY <2>2, <3>1
  <2>4. \E e : e = [i \in 0..(k + 1) |-> IF i = 0 THEN first ELSE Pass(e[i - 1])]
    <3> HIDE DEF h
    <3> QED BY <2>3
  <2> QED BY <2>4 DEF Passes
<1>3. Bad = {}
  <2> SUFFICES ASSUME Bad # {} PROVE FALSE
    OBVIOUS
  <2>1. PICK m \in Bad : \A k \in Bad : m <= k
    BY LeastNatural
  <2>2. m # 0 /\ m \in Nat
    BY <1>1, <2>1
  <2>3. m - 1 \in Nat /\ m - 1 \notin Bad /\ (m - 1) + 1 = m
    BY <2>1, <2>2
  <2>4. PICK f : Passes(f, g, m - 1)
    BY <2>3
  <2> QED BY <1>2, <2>1, <2>3, <2>4
<1> QED BY <1>3

(* After a pass, bit b is the parity of the segment of shift bits at b.    *)
LEMMA PassDoubles ==
    ASSUME Sized, NEW g \in SUBSET Bits, NEW s \in Nat \ {0}, NEW p,
           p = [b |-> {b \in Bits : Odd(Segment(g, b, s))}, shift |-> s], s < WIDTH
    PROVE  Pass(p) = [b |-> {b \in Bits : Odd(Segment(g, b, 2 * s))}, shift |-> 2 * s]
<1>0. /\ \A b \in Bits : b \in Nat /\ b < WIDTH
      /\ \A b \in Nat : b < WIDTH => b \in Bits
      /\ WIDTH \in Nat /\ \A T \in SUBSET g : IsFiniteSet(T)
  BY FiniteBits
<1> DEFINE parity == {b \in Bits : Odd(Segment(g, b, s))}
<1>1. ASSUME NEW b \in Bits
      PROVE  Odd(Segment(g, b, 2 * s)) <=> ~(b \in parity <=> b + s \in parity)
  <2>1. b \in Nat /\ b + s \in Nat /\ \A c \in g : c \in Nat /\ c < WIDTH
    BY <1>0
  <2>2. /\ Segment(g, b, 2 * s) = Segment(g, b, s) \cup Segment(g, b + s, s)
        /\ Segment(g, b, s) \cap Segment(g, b + s, s) = {}
    <3>1. \A c \in g : (b <= c /\ c < b + 2 * s)
                          <=> (b <= c /\ c < b + s) \/ (b + s <= c /\ c < b + s + s)
      BY <2>1
    <3>2. \A c \in g : ~(c < b + s /\ b + s <= c)
      BY <2>1
    <3>3. \A c : c \in Segment(g, b, 2 * s)
                    <=> c \in Segment(g, b, s) \/ c \in Segment(g, b + s, s)
      BY <3>1 DEF Segment
    <3>4. \A c : ~(c \in Segment(g, b, s) /\ c \in Segment(g, b + s, s))
      BY <3>2 DEF Segment
    <3> QED BY <3>3, <3>4
  <2>3. IsFiniteSet(Segment(g, b, s)) /\ IsFiniteSet(Segment(g, b + s, s))
    BY <1>0 DEF Segment
  <2>4. Odd(Segment(g, b, 2 * s)) <=> ~(Odd(Segment(g, b, s)) <=> Odd(Segment(g, b + s, s)))
    BY <2>2, <2>3, OddUnion
  <2>5. b + s \notin Bits => ~Odd(Segment(g, b + s, s))
    <3> SUFFICES ASSUME b + s \notin Bits PROVE ~Odd(Segment(g, b + s, s))
      OBVIOUS
    <3>1. \A c \in g : ~(b + s <= c)
      BY <1>0, <2>1
    <3>2. Segment(g, b + s, s) = {}
      BY <3>1 DEF Segment
    <3> QED BY <3>2, FS_EmptySet DEF Odd
  <2> QED BY <2>4, <2>5
<1>2. Xor(parity, ShiftRight(parity, s)) = {b \in Bits : Odd(Segment(g, b, 2 * s))}
  BY <1>1 DEF Xor, ShiftRight
<1>3. p.b = parity /\ p.shift = s
  OBVIOUS
<1> HIDE DEF parity
<1> QED BY <1>2, <1>3 DEF Pass

(* The doubling shifts of the C++ class compute the prefix XOR of the      *)
(* emitted circuit.                                                        *)
LEMMA DoublingDecodes ==
    ASSUME Sized, NEW g \in SUBSET Bits
    PROVE  Doubling(g) = gray_to_bin(g)
<1>0. /\ \A b \in Bits : b \in Nat /\ b < WIDTH
      /\ \A b \in Nat : b < WIDTH => b \in Bits
      /\ WIDTH \in Nat /\ WIDTH >= 1
  BY FiniteBits
<1> DEFINE f == CHOOSE h : Passes(h, g, WIDTH)
           parity(s) == {b \in Bits : Odd(Segment(g, b, s))}
           Reached(n) == \E s \in Nat \ {0} : /\ f[n] = [b |-> parity(s), shift |-> s]
                                              /\ s >= WIDTH \/ s > n
           Bad == {n \in Nat : n <= WIDTH /\ ~Reached(n)}
<1>1. Doubling(g) = f[WIDTH].b
  BY DEF Doubling, Passes, Pass
<1>2. Passes(f, g, WIDTH)
  BY <1>0, PassesExist
<1> HIDE DEF f
<1>3. f[0] = [b |-> g, shift |-> 1] /\ \A n \in Nat : n + 1 <= WIDTH => f[n + 1] = Pass(f[n])
  <2>1. \A k \in 0..WIDTH : f[k] = IF k = 0 THEN [b |-> g, shift |-> 1] ELSE Pass(f[k - 1])
    BY <1>2 DEF Passes
  <2>2. 0 \in 0..WIDTH
    BY <1>0
  <2>3. \A n \in Nat : n + 1 <= WIDTH => n + 1 \in 0..WIDTH /\ n + 1 # 0 /\ (n + 1) - 1 = n
    BY <1>0
  <2> QED BY <2>1, <2>2, <2>3
<1>4. 0 \notin Bad
  <2>1. ASSUME NEW b \in Bits PROVE b \in g <=> Odd(Segment(g, b, 1))
    <3>1. Segment(g, b, 1) = IF b \in g THEN {b} ELSE {}
      BY <1>0 DEF Segment
    <3>2. Cardinality({b}) = 1 /\ Cardinality({}) = 0
      BY FS_EmptySet, FS_Singleton
    <3> QED BY <3>1, <3>2 DEF Odd
  <2>2. parity(1) = g
    BY <2>1
  <2>3. f[0] = [b |-> parity(1), shift |-> 1]
    <3> HIDE DEF parity
    <3> QED BY <1>3, <2>2
  <2>4. Reached(0)
    <3> HIDE DEF parity
    <3> QED BY <2>3
  <2> QED BY <2>4
<1>5. ASSUME NEW n \in Nat, n + 1 <= WIDTH, Reached(n) PROVE Reached(n + 1)
  <2>1. PICK s \in Nat \ {0} : /\ f[n] = [b |-> parity(s), shift |-> s]
                               /\ s >= WIDTH \/ s > n
    BY <1>5
  <2>2. f[n + 1] = Pass(f[n])
    BY <1>3, <1>5
  <2>3. CASE s < WIDTH
    <3>1. Pass(f[n]) = [b |-> parity(2 * s), shift |-> 2 * s]
      BY <2>1, <2>3, PassDoubles
    <3>2. 2 * s \in Nat \ {0} /\ 2 * s > n + 1
      BY <1>0, <2>1, <2>3
    <3> HIDE DEF parity
    <3> QED BY <2>2, <3>1, <3>2
  <2>4. CASE ~(s < WIDTH)
    <3>1. f[n].shift = s
      BY <2>1
    <3>2. Pass(f[n]) = f[n]
      BY <2>4, <3>1 DEF Pass
    <3>3. s >= WIDTH
      BY <1>0, <2>4
    <3> HIDE DEF parity
    <3> QED BY <2>1, <2>2, <3>2, <3>3
  <2> QED BY <2>3, <2>4
<1>6. Bad = {}
  <2> HIDE DEF Reached
  <2> SUFFICES ASSUME Bad # {} PROVE FALSE
    OBVIOUS
  <2>1. PICK m \in Bad : \A k \in Bad : m <= k
    BY LeastNatural
  <2>2. m # 0 /\ m \in Nat /\ m <= WIDTH
    BY <1>4, <2>1
  <2>3. m - 1 \in Nat /\ m - 1 <= WIDTH /\ m - 1 \notin Bad /\ (m - 1) + 1 = m
    BY <1>0, <2>1, <2>2
  <2>4. Reached(m - 1)
    BY <2>3
  <2>5. Reached((m - 1) + 1)
    BY <1>5, <2>2, <2>3, <2>4
  <2> QED BY <2>1, <2>3, <2>5
<1>7. PICK s \in Nat \ {0} : f[WIDTH] = [b |-> parity(s), shift |-> s] /\ s >= WIDTH
  <2>1. Reached(WIDTH)
    BY <1>0, <1>6
  <2>2. PICK s \in Nat \ {0} : /\ f[WIDTH] = [b |-> parity(s), shift |-> s]
                               /\ s >= WIDTH \/ s > WIDTH
    BY <2>1
  <2>3. s >= WIDTH
    BY <1>0, <2>2
  <2> HIDE DEF parity
  <2> QED BY <2>2, <2>3
<1>8. \A b \in Bits : Segment(g, b, s) = Above(g, b)
  BY <1>0, <1>7 DEF Segment, Above
<1>9. parity(s) = gray_to_bin(g)
  BY <1>8 DEF gray_to_bin, Odd, Above
<1>10. f[WIDTH].b = parity(s)
  BY <1>7
<1> QED BY <1>1, <1>9, <1>10

-----------------------------------------------------------------------------
(* For kind pulse: the levels a toggle passes, as a line x of n + 1        *)
(* levels, and the places where the line turns.                            *)
Turns(x, n) == {i \in 1..n : x[i] # x[i - 1]}
Line == [i \in 0..STAGES |-> IF i = 0 THEN req_src ELSE chain[i]]
SimLine == [i \in 0..(STAGES + 1) |->
              IF i = 0 THEN sim.req_src ELSE IF i \in Stages THEN sim.stage[i] ELSE sim.sync_prev]

FiveKinds == {"ff", "gray", "handshake", "reset", "pulse"}
Words == SUBSET Bits
ObjectType ==
    [clk_prev : BOOLEAN \X BOOLEAN, stage : [Stages -> Words],
     data_reg : Words, data_out_reg : Words, req_src : Words, ack_src : Words,
     ack_dst : Words, ack_sync : [Stages -> Words], sync_prev : Words, data_out : Words]

CircuitOK ==
    /\ kind \in FiveKinds /\ metastable \in BOOLEAN /\ rst \in BOOLEAN
    /\ data_in \in Word /\ data_reg \in Words /\ data_out_reg \in Words
    /\ req_src \in Level /\ ack_dst \in Level /\ ack_sync \in [Stages -> Level]
    /\ chain \in [Stages -> IF kind = "gray" THEN Words ELSE Level]
ObjectOK == clk \in BOOLEAN \X BOOLEAN /\ sim \in ObjectType

Blank(c) ==
    /\ c.stage = Filled(Low) /\ c.data_reg = Low /\ c.data_out_reg = Low
    /\ c.req_src = Low /\ c.ack_src = Low /\ c.ack_dst = Low
    /\ c.ack_sync = Filled(Low) /\ c.sync_prev = Low

(* A domain that the reset has reached is at its reset values; the C++     *)
(* object is as soon as either clock has ticked.                           *)
ResetOK ==
    rst /\ kind # "reset" =>
        /\ "src" \in cleared => data_reg = Low /\ req_src = Low /\ ack_sync = Filled(Low)
        /\ "dst" \in cleared => chain = Filled(Low) /\ ack_dst = Low /\ data_out_reg = Low
        /\ cleared # {} /\ ~metastable => Blank(sim)
        /\ gap

(* The object has seen the levels of the clocks and its output is settled. *)
Shown ==
    CASE kind = "gray"      -> Doubling(sim.stage[STAGES])
      [] kind = "handshake" -> sim.data_out_reg
      [] kind = "pulse"     -> Xor(sim.stage[STAGES], sim.sync_prev)
      [] OTHER              -> sim.stage[STAGES]
SettledOK == ~metastable => sim.clk_prev = clk /\ sim.data_out = Shown

(* The object holds the circuit's registers, kind pulse apart.             *)
FollowsOK ==
    ~metastable /\ kind # "pulse" /\ (rst => kind = "reset") =>
        /\ sim.stage = chain
        /\ kind = "handshake" =>
              /\ sim.data_reg = data_reg /\ sim.req_src = req_src /\ sim.ack_sync = ack_sync
              /\ sim.ack_dst = ack_dst /\ sim.data_out_reg = data_out_reg /\ sim.ack_src = ack_src

(* A pulse that is owed is a turn of the line.                             *)
PulseOK ==
    kind = "pulse" =>
        /\ rst => owed = 0
        /\ ~rst => owed = Cardinality(Turns(Line, STAGES)) /\ (gap => chain[1] = req_src)
SimPulseOK ==
    kind = "pulse" /\ ~metastable =>
        /\ SimLine \in [0..(STAGES + 1) -> Level]
        /\ rst => sim_owed = 0
        /\ ~rst => /\ sim_owed = Cardinality(Turns(SimLine, STAGES + 1))
                   /\ gap => sim.stage[1] = sim.req_src

GrayOK ==
    /\ kind = "gray" /\ rst => window = Filled({Low})
    /\ GrayIsCoherent

(* A stage is low only after as many quiet edges of the clock.             *)
ReleaseOK ==
    kind = "reset" =>
        /\ quiet \in 0..STAGES
        /\ data_in = High => chain = Filled(High)
        /\ \A i \in Stages : chain[i] = Low => i <= quiet

CrossingInv ==
    /\ CircuitOK /\ ObjectOK /\ ResetOK /\ SettledOK /\ FollowsOK
    /\ PulseOK /\ SimPulseOK /\ GrayOK /\ ReleaseOK

(* Moving every element of a set of naturals up by one keeps its size.     *)
LEMMA MovedUp ==
    ASSUME NEW S \in SUBSET Nat, IsFiniteSet(S)
    PROVE  IsFiniteSet({i + 1 : i \in S}) /\ Cardinality({i + 1 : i \in S}) = Cardinality(S)
<1> DEFINE T == {i + 1 : i \in S}
           f == [i \in S |-> i + 1]
<1>1. f \in [S -> T] /\ (\A a, b \in S : f[a] = f[b] => a = b) /\ \A t \in T : \E s \in S : f[s] = t
  OBVIOUS
<1>2. f \in Bijection(S, T)
  BY <1>1 DEF Bijection, Injection, Surjection, IsInjective
<1>3. ExistsBijection(S, T)
  BY <1>2 DEF ExistsBijection
<1> QED BY <1>3, FS_Bijection

(* A step of a line: the first level may toggle, if the line did not turn  *)
(* there; on a destination edge the others move one place on, and the      *)
(* first of them is sampled.  The turn at the end is then paid.            *)
LEMMA LineStep ==
    ASSUME NEW n \in Nat, n >= 2, NEW x \in [0..n -> Level], NEW y \in [0..n -> Level],
           NEW toggle \in BOOLEAN, NEW dst \in BOOLEAN, NEW out,
           out = High <=> x[n] # x[n - 1],
           toggle => x[1] = x[0],
           y[0] = (IF toggle THEN Invert(x[0]) ELSE x[0]),
           dst => y[1] \in {x[0], y[0]} /\ \A i \in 2..n : y[i] = x[i - 1],
           ~dst => \A i \in 1..n : y[i] = x[i]
    PROVE  Cardinality(Turns(y, n)) = Due(Cardinality(Turns(x, n)), toggle, dst, out)
<1>0. 0 \in 0..n /\ 1 \in 0..n /\ n \in 0..n /\ n - 1 \in 0..n
  OBVIOUS
<1>1. IsFiniteSet(Turns(x, n)) /\ Turns(x, n) \subseteq 1..n /\ Cardinality(Turns(x, n)) \in Nat
  <2>1. Turns(x, n) \subseteq 1..n
    BY DEF Turns
  <2>2. IsFiniteSet(1..n)
    BY FS_Interval
  <2> QED BY <2>1, <2>2, FS_Subset, FS_CardinalityType
<1>2. toggle => y[0] # x[0] /\ 1 \notin Turns(x, n)
  BY <1>0, TwoLevels DEF Turns
<1>3. CASE ~dst
  <2>1. \A i \in 2..n : y[i] # y[i - 1] <=> x[i] # x[i - 1]
    BY <1>3
  <2>2. y[1] = x[1]
    BY <1>3
  <2>3. CASE toggle
    <3>1. Turns(y, n) = Turns(x, n) \cup {1}
      <4>1. 1 \in Turns(y, n)
        BY <1>2, <2>2, <2>3 DEF Turns
      <4>2. \A i \in 2..n : i \in Turns(y, n) <=> i \in Turns(x, n)
        BY <2>1 DEF Turns
      <4>3. 1..n = {1} \cup 2..n
        OBVIOUS
      <4> QED BY <4>1, <4>2, <4>3 DEF Turns
    <3>2. Cardinality(Turns(y, n)) = Cardinality(Turns(x, n)) + 1
      BY <1>1, <1>2, <2>3, <3>1, FS_AddElement
    <3> QED BY <1>1, <1>3, <2>3, <3>2 DEF Due
  <2>4. CASE ~toggle
    <3>1. Turns(y, n) = Turns(x, n)
      <4>1. \A i \in 1..n : y[i] = x[i] /\ y[i - 1] = x[i - 1]
        BY <1>3, <2>4
      <4> QED BY <4>1 DEF Turns
    <3> QED BY <1>1, <1>3, <2>4, <3>1 DEF Due
  <2> QED BY <2>3, <2>4
<1>4. CASE dst
  <2> DEFINE K == Turns(x, n) \ {n}
             Moved == {i + 1 : i \in K}
  <2>1. IsFiniteSet(K) /\ K \in SUBSET Nat
        /\ Cardinality(K) = Cardinality(Turns(x, n)) - (IF out = High THEN 1 ELSE 0)
    <3>1. n \in Turns(x, n) <=> out = High
      BY <1>0 DEF Turns
    <3> QED BY <1>1, <3>1, FS_RemoveElement
  <2>2. IsFiniteSet(Moved) /\ Cardinality(Moved) = Cardinality(K)
    BY <2>1, MovedUp
  <2>3. \A i \in 3..n : i \in Turns(y, n) <=> i \in Moved
    <3> SUFFICES ASSUME NEW i \in 3..n PROVE i \in Turns(y, n) <=> i \in Moved
      OBVIOUS
    <3>1. y[i] = x[i - 1] /\ y[i - 1] = x[(i - 1) - 1]
      BY <1>4
    <3>2. i \in Turns(y, n) <=> x[i - 1] # x[(i - 1) - 1]
      BY <3>1 DEF Turns
    <3>3. i - 1 \in 1..n /\ i - 1 # n
      OBVIOUS
    <3>4. i \in Moved <=> i - 1 \in K
      BY <2>1
    <3> QED BY <3>2, <3>3, <3>4 DEF Turns
  <2>4. Moved \subseteq 1..n /\ 1 \notin Moved
    BY <1>1
  <2>5. 1..n = {1, 2} \cup 3..n /\ Turns(y, n) \subseteq 1..n
    BY DEF Turns
  <2>6. 2 \in Moved <=> x[1] # x[0]
    <3>1. 2 \in Moved <=> 1 \in K
      BY <2>1
    <3>2. 1 \in 1..n /\ 1 # n
      OBVIOUS
    <3> QED BY <3>1, <3>2 DEF Turns
  <2>7. y[2] = x[1]
    BY <1>4
  <2>8. (1 \in Turns(y, n) <=> y[1] # y[0]) /\ (2 \in Turns(y, n) <=> x[1] # y[1])
    BY <2>7 DEF Turns
  <2> HIDE DEF K, Moved
  <2>9. CASE ~toggle
    <3>1. Turns(y, n) = Moved
      <4>1. y[1] = y[0] /\ y[1] = x[0]
        BY <1>4, <2>9
      <4>2. 1 \notin Turns(y, n) /\ (2 \in Turns(y, n) <=> 2 \in Moved)
        BY <2>6, <2>8, <4>1
      <4>3. \A i \in 1..n : i \in Turns(y, n) <=> i \in Moved
        BY <2>3, <2>4, <2>5, <4>2
      <4> QED BY <2>4, <2>5, <4>3
    <3> QED BY <1>1, <1>4, <2>1, <2>2, <2>9, <3>1 DEF Due
  <2>10. CASE toggle /\ y[1] = x[0]
    <3>1. Turns(y, n) = Moved \cup {1}
      <4>1. 1 \in Turns(y, n) /\ 2 \notin Turns(y, n) /\ 2 \notin Moved
        BY <1>2, <2>6, <2>8, <2>10
      <4> QED BY <2>3, <2>4, <2>5, <4>1
    <3>2. 1 \notin Moved
      BY <2>4
    <3>3. Cardinality(Turns(y, n)) = Cardinality(Moved) + 1
      BY <2>2, <3>1, <3>2, FS_AddElement
    <3> QED BY <1>1, <1>4, <2>1, <2>2, <2>10, <3>3 DEF Due
  <2>11. CASE toggle /\ y[1] = y[0]
    <3>1. 2 \notin Moved /\ Turns(y, n) = Moved \cup {2}
      <4>1. 1 \notin Turns(y, n) /\ 2 \in Turns(y, n) /\ 2 \notin Moved
        BY <1>2, <2>6, <2>8, <2>11
      <4> QED BY <2>3, <2>4, <2>5, <4>1
    <3>3. Cardinality(Turns(y, n)) = Cardinality(Moved) + 1
      BY <2>2, <3>1, FS_AddElement
    <3> QED BY <1>1, <1>4, <2>1, <2>2, <2>11, <3>3 DEF Due
  <2> QED BY <1>4, <2>9, <2>10, <2>11
<1> QED BY <1>3, <1>4

-----------------------------------------------------------------------------
(* What the declaration guarantees of the run of the C++ class, too.       *)
CrossingSized ==
    /\ Sized /\ Kinds \subseteq FiveKinds /\ Samplings \subseteq BOOLEAN /\ CDC_RANDOM = FALSE

(* Levels are words, and the operators on words stay within them.          *)
LEMMA WordFacts ==
    ASSUME Sized
    PROVE  /\ Low \in Words /\ High \in Words /\ Level \subseteq Words
           /\ Low \in Level /\ High \in Level /\ Low # High /\ Word \subseteq Words
           /\ \A a, b \in Words : Xor(a, b) \in Words
           /\ \A a \in Words : bin_to_gray(a) \in Words /\ gray_to_bin(a) \in Words
           /\ \A a \in Words : Doubling(a) \in Words
           /\ STAGES \in Stages /\ 1 \in Stages /\ STAGES - 1 \in Stages
<1>1. Low \in Words /\ High \in Words
  BY FiniteBits DEF Words, Low, High, Sized, Bits
<1>2. \A a, b \in Words : Xor(a, b) \in Words
  BY DEF Words, Xor
<1>3. \A a \in Words : bin_to_gray(a) \in Words /\ gray_to_bin(a) \in Words
  BY DEF Words, Xor, bin_to_gray, gray_to_bin, ShiftRight
<1>4. \A a \in Words : Doubling(a) \in Words
  BY <1>3, DoublingDecodes DEF Words
<1>5. STAGES \in Stages /\ 1 \in Stages /\ STAGES - 1 \in Stages
  BY DEF Sized, Stages
<1> QED BY <1>1, <1>2, <1>3, <1>4, <1>5 DEF Level, Low, High, Word, Words

(* Two states of the object that differ in clk_prev and data_out at most,  *)
(* and what eval_comb() writes to data_out.                                *)
SameRegisters(c, o) ==
    /\ o.stage = c.stage /\ o.data_reg = c.data_reg /\ o.data_out_reg = c.data_out_reg
    /\ o.req_src = c.req_src /\ o.ack_src = c.ack_src /\ o.ack_dst = c.ack_dst
    /\ o.ack_sync = c.ack_sync /\ o.sync_prev = c.sync_prev
Output(c) ==
    CASE kind = "gray"      -> Doubling(c.stage[STAGES])
      [] kind = "handshake" -> c.data_out_reg
      [] kind = "pulse"     -> Xor(c.stage[STAGES], c.sync_prev)
      [] OTHER              -> c.stage[STAGES]

(* eval_comb() writes data_out and nothing else.                           *)
LEMMA CombFacts ==
    ASSUME Sized, NEW c \in ObjectType, NEW o, o = EvalComb(c)
    PROVE  /\ o \in ObjectType /\ o.clk_prev = c.clk_prev /\ SameRegisters(c, o)
           /\ o.data_out = Output(o)
<1>1. o = [c EXCEPT !.data_out = Output(c)]
  BY DEF EvalComb, Output
<1>2. Output(c) \in Words
  BY WordFacts DEF Output, ObjectType
<1> HIDE DEF Output
<1>3. o \in ObjectType /\ o.clk_prev = c.clk_prev /\ SameRegisters(c, o) /\ o.data_out = Output(c)
  BY <1>1, <1>2 DEF ObjectType, SameRegisters
<1>4. Output(o) = Output(c)
  BY <1>3 DEF Output, SameRegisters
<1> QED BY <1>3, <1>4

(* The if (rst) block.                                                     *)
LEMMA ResetFacts ==
    ASSUME Sized, NEW c \in ObjectType
    PROVE  SimReset(c) \in ObjectType /\ SimReset(c).clk_prev = c.clk_prev /\ Blank(SimReset(c))
<1>1. Filled(Low) \in [Stages -> Words] /\ Low \in Words
  BY WordFacts, FilledTyped
<1>2. SimReset(c) \in ObjectType
  BY <1>1 DEF ObjectType, SimReset, Object
<1>3. SimReset(c).clk_prev = c.clk_prev /\ Blank(SimReset(c))
  BY DEF SimReset, Object, Blank
<1> QED BY <1>2, <1>3

(* What the source block writes out of reset.                              *)
SourceDone(c, src, o) ==
    /\ o \in ObjectType /\ o.clk_prev = c.clk_prev
    /\ o.stage = c.stage /\ o.sync_prev = c.sync_prev
    /\ o.ack_dst = c.ack_dst /\ o.data_out_reg = c.data_out_reg
    /\ kind = "pulse" =>
          o.req_src = IF src /\ data_in = High THEN Invert(c.req_src) ELSE c.req_src
    /\ kind = "handshake" =>
          LET latch == src /\ data_in # c.data_reg /\ c.req_src = c.ack_src
          IN  /\ o.data_reg = IF latch THEN data_in ELSE c.data_reg
              /\ o.req_src = IF latch THEN Invert(c.req_src) ELSE c.req_src
              /\ o.ack_sync = IF src THEN Shift(c.ack_sync, c.ack_dst) ELSE c.ack_sync
              /\ o.ack_src = IF src THEN o.ack_sync[STAGES] ELSE c.ack_src

(* The source block.                                                       *)
LEMMA SourceFacts ==
    ASSUME Sized, CircuitOK, NEW c \in ObjectType, NEW src \in BOOLEAN
    PROVE  SourceDone(c, src, SimSource(c, src))
<1> USE DEF SourceDone
<1>1. Invert(c.req_src) \in Words /\ data_in \in Words
  BY WordFacts DEF CircuitOK, Invert, ObjectType
<1>2. Shift(c.ack_sync, c.ack_dst) \in [Stages -> Words] /\ STAGES \in Stages
  <2>1. c.ack_sync \in [Stages -> Words] /\ c.ack_dst \in Words
    BY DEF ObjectType
  <2> QED BY <2>1, ShiftTyped, WordFacts
<1> QED BY <1>1, <1>2 DEF SimSource, ObjectType

(* What the destination block writes out of reset.                         *)
DestinationDone(before, c, dst, o) ==
    /\ o \in ObjectType /\ o.clk_prev = c.clk_prev
    /\ o.req_src = c.req_src /\ o.data_reg = c.data_reg
    /\ o.ack_sync = c.ack_sync /\ o.ack_src = c.ack_src
    /\ ~dst => o = c
    /\ dst /\ kind = "ff" => o.stage = Shift(c.stage, data_in)
    /\ dst /\ kind = "gray" => o.stage = Shift(c.stage, bin_to_gray(data_in))
    /\ dst /\ kind = "pulse" => /\ o.stage = Shift(c.stage, c.req_src)
                                /\ o.sync_prev = c.stage[STAGES]
    /\ dst /\ kind = "handshake" =>
          /\ o.stage = Shift(c.stage, before.req_src) /\ o.ack_dst = c.stage[STAGES]
          /\ o.data_out_reg = IF c.stage[STAGES] # c.ack_dst
                              THEN before.data_reg ELSE c.data_out_reg

(* The destination block; before is the object that the call found.        *)
LEMMA DestinationFacts ==
    ASSUME Sized, CircuitOK, NEW c \in ObjectType, NEW before \in ObjectType, NEW dst \in BOOLEAN,
           kind # "reset"
    PROVE  DestinationDone(before, c, dst, SimDestination(before, c, dst))
<1> SUFFICES ASSUME NEW o, o = SimDestination(before, c, dst)
             PROVE  DestinationDone(before, c, dst, o)
  OBVIOUS
<1> USE DEF DestinationDone
<1>1. data_in \in Words /\ bin_to_gray(data_in) \in Words /\ c.stage[STAGES] \in Words
  BY WordFacts DEF CircuitOK, ObjectType
<1>2. c.stage \in [Stages -> Words] /\ c.req_src \in Words /\ before.req_src \in Words
  BY DEF ObjectType
<1>3. \A a \in Words : Shift(c.stage, a) \in [Stages -> Words]
  BY <1>2, ShiftTyped
<1>4. CASE ~dst
  BY <1>4 DEF SimDestination
<1>5. CASE dst /\ kind = "ff"
  <2>1. o = [c EXCEPT !.stage = Shift(@, data_in)]
    BY <1>5 DEF SimDestination
  <2>2. Shift(c.stage, data_in) \in [Stages -> Words]
    BY <1>1, <1>3
  <2>3. o \in ObjectType
    BY <2>1, <2>2 DEF ObjectType
  <2>4. /\ o.clk_prev = c.clk_prev /\ o.req_src = c.req_src /\ o.data_reg = c.data_reg
        /\ o.ack_sync = c.ack_sync /\ o.ack_src = c.ack_src /\ o.stage = Shift(c.stage, data_in)
    BY <2>1 DEF ObjectType
  <2> QED BY <1>5, <2>3, <2>4
<1>6. CASE dst /\ kind = "gray"
  <2>1. o = [c EXCEPT !.stage = Shift(@, bin_to_gray(data_in))]
    BY <1>6 DEF SimDestination
  <2>2. Shift(c.stage, bin_to_gray(data_in)) \in [Stages -> Words]
    BY <1>1, <1>3
  <2>3. o \in ObjectType
    BY <2>1, <2>2 DEF ObjectType
  <2>4. /\ o.clk_prev = c.clk_prev /\ o.req_src = c.req_src /\ o.data_reg = c.data_reg
        /\ o.ack_sync = c.ack_sync /\ o.ack_src = c.ack_src /\ o.stage = Shift(c.stage, bin_to_gray(data_in))
    BY <2>1 DEF ObjectType
  <2> QED BY <1>6, <2>3, <2>4
<1>7. CASE dst /\ kind = "pulse"
  <2>1. o = [c EXCEPT !.sync_prev = c.stage[STAGES], !.stage = Shift(@, c.req_src)]
    BY <1>7 DEF SimDestination, PrevBeforeShift
  <2>2. Shift(c.stage, c.req_src) \in [Stages -> Words]
    BY <1>2, <1>3
  <2>3. o \in ObjectType
    BY <1>1, <2>1, <2>2 DEF ObjectType
  <2>4. /\ o.clk_prev = c.clk_prev /\ o.req_src = c.req_src /\ o.data_reg = c.data_reg
        /\ o.ack_sync = c.ack_sync /\ o.ack_src = c.ack_src
        /\ o.stage = Shift(c.stage, c.req_src) /\ o.sync_prev = c.stage[STAGES]
    BY <2>1 DEF ObjectType
  <2> QED BY <1>7, <2>3, <2>4
<1>8. CASE dst /\ kind = "handshake"
  <2>1. o = [c EXCEPT !.data_out_reg = IF c.stage[STAGES] # c.ack_dst THEN before.data_reg ELSE @,
                      !.ack_dst = c.stage[STAGES], !.stage = Shift(@, before.req_src)]
    BY <1>8 DEF SimDestination, BeforeHandshake
  <2>2. /\ c.data_out_reg \in Words /\ before.data_reg \in Words
        /\ Shift(c.stage, before.req_src) \in [Stages -> Words]
    BY <1>2, <1>3 DEF ObjectType
  <2>3. o \in ObjectType
    BY <1>1, <2>1, <2>2 DEF ObjectType
  <2>4. /\ o.clk_prev = c.clk_prev /\ o.req_src = c.req_src /\ o.data_reg = c.data_reg
        /\ o.ack_sync = c.ack_sync /\ o.ack_src = c.ack_src
        /\ o.stage = Shift(c.stage, before.req_src) /\ o.ack_dst = c.stage[STAGES]
        /\ o.data_out_reg = IF c.stage[STAGES] # c.ack_dst
                             THEN before.data_reg ELSE c.data_out_reg
    BY <2>1 DEF ObjectType
  <2> QED BY <1>8, <2>3, <2>4
<1> QED BY <1>4, <1>5, <1>6, <1>7, <1>8 DEF CircuitOK, FiveKinds

(* One call of eval() without --cdc-random.                                *)
LEMMA EvalIs ==
    ASSUME CrossingSized, ~metastable, NEW level, NEW input, eval(level, input)
    PROVE  sim' = EvalComb(EvalPosedge(sim, level, input, FALSE))
BY DEF CrossingSized, eval

(* A call that follows an edge.                                            *)
LEMMA RiseObject ==
    ASSUME CrossingSized, CircuitOK, ObjectOK, SettledOK, ~metastable,
           NEW src \in BOOLEAN, NEW dst \in BOOLEAN, Rise(src, dst)
    PROVE  /\ clk' \in BOOLEAN \X BOOLEAN /\ sim' \in ObjectType
           /\ sim'.clk_prev = clk' /\ sim'.data_out = Output(sim')
           /\ kind = "reset" =>
                 sim'.stage = IF data_in = High THEN Filled(High)
                              ELSE IF dst THEN Shift(sim.stage, Low) ELSE sim.stage
           /\ kind # "reset" /\ rst => Blank(sim')
           /\ kind # "reset" /\ ~rst =>
                 \E c \in ObjectType, o \in ObjectType :
                    /\ SameRegisters(sim, c)
                    /\ \E d \in ObjectType : /\ d = SimSource(c, src)
                                             /\ o = SimDestination(c, d, dst)
                    /\ SameRegisters(o, sim')
<1> DEFINE level == <<clk[1] \/ src, clk[2] \/ dst>>
           c == [sim EXCEPT !.clk_prev = level]
           e == EvalPosedge(sim, level, data_in, FALSE)
           rising == <<level[1] /\ ~sim.clk_prev[1], level[2] /\ ~sim.clk_prev[2]>>
<1>1. /\ clk' = level /\ eval(level, data_in) /\ (src => ~clk[1]) /\ (dst => ~clk[2])
      /\ src \/ dst
  BY DEF Rise, Edges
<1>2. level \in BOOLEAN \X BOOLEAN
  BY DEF ObjectOK
<1>3. rising[1] = src /\ rising[2] = dst
  <2>1. sim.clk_prev = clk
    BY DEF SettledOK
  <2>2. clk[1] \in BOOLEAN /\ clk[2] \in BOOLEAN
    BY DEF ObjectOK
  <2>3. level[1] = (clk[1] \/ src) /\ level[2] = (clk[2] \/ dst)
    OBVIOUS
  <2>4. (level[1] /\ ~clk[1]) = src /\ (level[2] /\ ~clk[2]) = dst
    BY <1>1, <2>2, <2>3
  <2> QED BY <2>1, <2>4
<1>4. sim' = EvalComb(e)
  BY <1>1, EvalIs
<1>5. c \in ObjectType /\ c.clk_prev = level /\ SameRegisters(sim, c)
  BY <1>2 DEF ObjectOK, ObjectType, SameRegisters
<1>6. e = IF kind = "reset"
          THEN IF data_in = High THEN [c EXCEPT !.stage = Filled(High)]
               ELSE IF dst THEN [c EXCEPT !.stage = Shift(@, Low)] ELSE c
          ELSE IF rst THEN SimReset(c)
          ELSE SimDestination(c, SimSource(c, src), dst)
  <2> HIDE DEF level
  <2>1. e = IF kind = "reset"
            THEN IF data_in = High THEN [c EXCEPT !.stage = Filled(High)]
                 ELSE IF rising[2] /\ ~FALSE THEN [c EXCEPT !.stage = Shift(@, Low)] ELSE c
            ELSE IF ~rising[1] /\ ~rising[2] THEN c
            ELSE IF rst THEN SimReset(c)
            ELSE SimDestination(c, SimSource(c, rising[1]), rising[2] /\ ~FALSE)
    BY DEF EvalPosedge
  <2> HIDE DEF rising, e, c
  <2>2. (rising[2] /\ ~FALSE) = dst
    BY <1>3
  <2> QED BY <1>1, <1>3, <2>1, <2>2
<1> HIDE DEF level, c, e, rising
<1>7. Sized
  BY DEF CrossingSized
<1>8. CASE kind = "reset"
  <2> DEFINE st == IF data_in = High THEN Filled(High)
                   ELSE IF dst THEN Shift(sim.stage, Low) ELSE sim.stage
  <2>1. e = [c EXCEPT !.stage = st]
    BY <1>5, <1>6, <1>8 DEF SameRegisters, ObjectType
  <2>2. st \in [Stages -> Words]
    <3>1. sim.stage \in [Stages -> Words]
      BY DEF ObjectOK, ObjectType
    <3> QED BY <1>7, <3>1, ShiftTyped, FilledTyped, WordFacts
  <2> HIDE DEF st
  <2>3. e \in ObjectType /\ e.stage = st /\ e.clk_prev = level
    BY <1>5, <2>1, <2>2 DEF ObjectType
  <2>4. sim' \in ObjectType /\ sim'.clk_prev = level /\ SameRegisters(e, sim')
        /\ sim'.data_out = Output(sim')
    BY <1>4, <1>7, <2>3, CombFacts
  <2>5. sim'.stage = st
    BY <2>3, <2>4 DEF SameRegisters
  <2> QED BY <1>1, <1>2, <1>8, <2>4, <2>5 DEF st
<1>9. CASE kind # "reset" /\ rst
  <2>1. e = SimReset(c)
    BY <1>6, <1>9
  <2>2. e \in ObjectType /\ e.clk_prev = level /\ Blank(e)
    BY <1>5, <1>7, <2>1, ResetFacts
  <2>3. sim' \in ObjectType /\ sim'.clk_prev = level /\ SameRegisters(e, sim')
        /\ sim'.data_out = Output(sim')
    BY <1>4, <1>7, <2>2, CombFacts
  <2>4. Blank(sim')
    BY <2>2, <2>3 DEF Blank, SameRegisters
  <2> QED BY <1>1, <1>2, <1>9, <2>3, <2>4
<1>10. CASE kind # "reset" /\ ~rst
  <2> DEFINE d == SimSource(c, src)
  <2>1. d \in ObjectType /\ d.clk_prev = level
    BY <1>5, <1>7, SourceFacts DEF SourceDone
  <2>2. e = SimDestination(c, d, dst)
    BY <1>6, <1>10
  <2>5. d = SimSource(c, src)
    OBVIOUS
  <2> HIDE DEF d
  <2>3. e \in ObjectType /\ e.clk_prev = level
    BY <1>5, <1>7, <1>10, <2>1, <2>2, DestinationFacts DEF DestinationDone
  <2>4. sim' \in ObjectType /\ sim'.clk_prev = level /\ SameRegisters(e, sim')
        /\ sim'.data_out = Output(sim')
    BY <1>4, <1>7, <2>3, CombFacts
  <2> QED BY <1>1, <1>2, <1>5, <1>10, <2>1, <2>2, <2>3, <2>4, <2>5
<1> QED BY <1>8, <1>9, <1>10

(* A call without an edge settles the output; only the asynchronous input  *)
(* of kind reset is acted on.                                              *)
LEMMA QuietObject ==
    ASSUME CrossingSized, ObjectOK, SettledOK, ~metastable,
           NEW level \in BOOLEAN \X BOOLEAN, NEW input, eval(level, input),
           level[1] => clk[1], level[2] => clk[2]
    PROVE  /\ sim' \in ObjectType /\ sim'.clk_prev = level /\ sim'.data_out = Output(sim')
           /\ kind = "reset" => sim'.stage = IF input = High THEN Filled(High) ELSE sim.stage
           /\ kind # "reset" => SameRegisters(sim, sim')
<1> DEFINE c == [sim EXCEPT !.clk_prev = level]
           e == EvalPosedge(sim, level, input, FALSE)
           rising == <<level[1] /\ ~sim.clk_prev[1], level[2] /\ ~sim.clk_prev[2]>>
<1>1. rising[1] = FALSE /\ rising[2] = FALSE
  BY DEF SettledOK
<1>2. sim' = EvalComb(e)
  BY EvalIs
<1>3. c \in ObjectType /\ c.clk_prev = level /\ SameRegisters(sim, c)
  BY DEF ObjectOK, ObjectType, SameRegisters
<1>4. e = IF kind = "reset" /\ input = High THEN [c EXCEPT !.stage = Filled(High)] ELSE c
  <2>1. e = IF kind = "reset"
            THEN IF input = High THEN [c EXCEPT !.stage = Filled(High)]
                 ELSE IF rising[2] /\ ~FALSE THEN [c EXCEPT !.stage = Shift(@, Low)] ELSE c
            ELSE IF ~rising[1] /\ ~rising[2] THEN c
            ELSE IF rst THEN SimReset(c)
            ELSE SimDestination(c, SimSource(c, rising[1]), rising[2] /\ ~FALSE)
    BY DEF EvalPosedge
  <2> HIDE DEF rising, e, c
  <2> QED BY <1>1, <2>1
<1> HIDE DEF c, e, rising
<1>5. Sized
  BY DEF CrossingSized
<1>6. e \in ObjectType /\ e.clk_prev = level
      /\ (kind # "reset" => SameRegisters(sim, e))
      /\ (kind = "reset" => e.stage = IF input = High THEN Filled(High) ELSE sim.stage)
  <2>1. Filled(High) \in [Stages -> Words]
    BY <1>5, FilledTyped, WordFacts
  <2> QED BY <1>3, <1>4, <2>1 DEF ObjectType, SameRegisters
<1>7. sim' \in ObjectType /\ sim'.clk_prev = level /\ SameRegisters(e, sim')
      /\ sim'.data_out = Output(sim')
  BY <1>2, <1>5, <1>6, CombFacts
<1> QED BY <1>6, <1>7 DEF SameRegisters

(* The object after an edge out of reset, kind by kind.                    *)
LEMMA EdgeObject ==
    ASSUME CrossingSized, CircuitOK, ObjectOK, SettledOK, ~metastable, kind # "reset", ~rst,
           NEW src \in BOOLEAN, NEW dst \in BOOLEAN, Rise(src, dst)
    PROVE  /\ kind = "ff" => sim'.stage = IF dst THEN Shift(sim.stage, data_in) ELSE sim.stage
           /\ kind = "gray" =>
                 sim'.stage = IF dst THEN Shift(sim.stage, bin_to_gray(data_in)) ELSE sim.stage
           /\ kind = "pulse" =>
                 /\ sim'.req_src = IF src /\ data_in = High THEN Invert(sim.req_src) ELSE sim.req_src
                 /\ sim'.stage = IF dst THEN Shift(sim.stage, sim'.req_src) ELSE sim.stage
                 /\ sim'.sync_prev = IF dst THEN sim.stage[STAGES] ELSE sim.sync_prev
           /\ kind = "handshake" =>
                 LET latch == src /\ data_in # sim.data_reg /\ sim.req_src = sim.ack_src
                 IN  /\ sim'.data_reg = IF latch THEN data_in ELSE sim.data_reg
                     /\ sim'.req_src = IF latch THEN Invert(sim.req_src) ELSE sim.req_src
                     /\ sim'.ack_sync = IF src THEN Shift(sim.ack_sync, sim.ack_dst) ELSE sim.ack_sync
                     /\ sim'.ack_src = IF src THEN sim'.ack_sync[STAGES] ELSE sim.ack_src
                     /\ sim'.stage = IF dst THEN Shift(sim.stage, sim.req_src) ELSE sim.stage
                     /\ sim'.ack_dst = IF dst THEN sim.stage[STAGES] ELSE sim.ack_dst
                     /\ sim'.data_out_reg = IF dst /\ sim.stage[STAGES] # sim.ack_dst
                                            THEN sim.data_reg ELSE sim.data_out_reg
<1>1. Sized
  BY DEF CrossingSized
<1>2. PICK c \in ObjectType, o \in ObjectType :
           /\ SameRegisters(sim, c)
           /\ \E d \in ObjectType : d = SimSource(c, src) /\ o = SimDestination(c, d, dst)
           /\ SameRegisters(o, sim')
  BY RiseObject
<1>3. PICK d \in ObjectType : d = SimSource(c, src) /\ o = SimDestination(c, d, dst)
  BY <1>2
<1>4. SourceDone(c, src, d) /\ DestinationDone(c, d, dst, o)
  BY <1>1, <1>3, SourceFacts, DestinationFacts
<1>5. CASE kind = "ff"
  BY <1>2, <1>4, <1>5 DEF SourceDone, DestinationDone, SameRegisters
<1>6. CASE kind = "gray"
  BY <1>2, <1>4, <1>6 DEF SourceDone, DestinationDone, SameRegisters
<1>7. CASE kind = "pulse"
  BY <1>2, <1>4, <1>7 DEF SourceDone, DestinationDone, SameRegisters
<1>8. CASE kind = "handshake"
  BY <1>2, <1>4, <1>8 DEF SourceDone, DestinationDone, SameRegisters
<1> QED BY <1>5, <1>6, <1>7, <1>8 DEF CircuitOK, FiveKinds

(* Sampling a word gives a word.                                           *)
LEMMA SampledWord ==
    ASSUME NEW a \in Words, NEW b \in Words, NEW x \in Sampled(a, b)
    PROVE  x \in Words
<1>1. CASE metastable
  <2>1. PICK m \in SUBSET Xor(a, b) : x = (a \cap b) \cup m
    BY <1>1 DEF Sampled, Mixed
  <2> QED BY <2>1 DEF Xor, Words
<1>2. CASE ~metastable
  BY <1>2 DEF Sampled
<1> QED BY <1>1, <1>2

(* The registers of the circuit keep their types.                          *)
LEMMA CircuitStep ==
    ASSUME Sized, CircuitOK, [Next]_vars
    PROVE  CircuitOK'
<1>0. /\ Low \in Level /\ High \in Level /\ Low \in Words /\ Level \subseteq Words
      /\ Filled(Low) \in [Stages -> Level] /\ Filled(High) \in [Stages -> Level]
      /\ Filled(Low) \in [Stages -> Words]
      /\ STAGES \in Stages /\ Word \subseteq Words
  BY WordFacts, FilledTyped
<1>1. ASSUME NEW src \in BOOLEAN, NEW dst \in BOOLEAN, Edges(src, dst) PROVE CircuitOK'
  <2>1. kind' = kind /\ metastable' = metastable /\ rst' = rst
    BY <1>1 DEF Edges, design
  <2>2. data_in' \in Word /\ data_in \in Word /\ Word' = Word
    <3>1. data_in \in Word /\ Word' = Word
      BY <2>1 DEF CircuitOK, Word
    <3>2. kind = "gray" => {data_in, Increment(data_in)} \subseteq Word
      BY <3>1, GrayStep DEF Word
    <3>3. Driven \subseteq Word
      BY <3>1, <3>2 DEF Driven
    <3> QED BY <1>1, <3>1, <3>3 DEF Edges
  <2>3. req_src' \in Level /\ data_reg' \in Words
    <3>1. src => /\ req_src' \in {req_src, Invert(req_src), Low}
                 /\ data_reg' \in {data_reg, data_in, Low}
      BY <1>1 DEF Edges, SourceRegisters
    <3>2. ~src => req_src' = req_src /\ data_reg' = data_reg
      BY <1>1 DEF Edges
    <3>3. data_in \in Words
      BY <1>0, <2>2
    <3> QED BY <1>0, <3>1, <3>2, <3>3, TwoLevels DEF CircuitOK
  <2>4. /\ ack_dst' \in Level /\ data_out_reg' \in Words
        /\ chain' \in [Stages -> IF kind = "gray" THEN Words ELSE Level]
    <3>1. CASE ~dst
      BY <1>1, <3>1 DEF Edges, destination, CircuitOK
    <3>2. CASE dst /\ kind = "reset"
      <4>1. chain' \in {Filled(High), Shift(chain, Low)} /\ UNCHANGED <<ack_dst, data_out_reg>>
        BY <1>1, <3>2 DEF Edges, DestinationRegisters, ReleaseStep
      <4>2. chain \in [Stages -> Level]
        BY <3>2 DEF CircuitOK
      <4>3. Shift(chain, Low) \in [Stages -> Level]
        BY <1>0, <4>2, ShiftTyped
      <4> QED BY <1>0, <3>2, <4>1, <4>3 DEF CircuitOK
    <3>3. CASE dst /\ kind # "reset" /\ rst
      <4>1. chain' = Filled(Low) /\ ack_dst' = Low /\ data_out_reg' = Low
        BY <1>1, <3>3 DEF Edges, DestinationRegisters
      <4> QED BY <1>0, <4>1
    <3>4. CASE dst /\ kind # "reset" /\ ~rst
      <4>1. PICK first \in Sampled(Crossing, Crossing'), word \in Sampled(data_reg, data_reg') :
               /\ chain' = Shift(chain, first)
               /\ ack_dst' = (IF kind = "handshake" THEN last ELSE ack_dst)
               /\ data_out_reg' \in {word, data_out_reg}
        BY <1>1, <3>4 DEF Edges, DestinationRegisters
      <4>2. word \in Words
        BY <2>3, SampledWord DEF CircuitOK
      <4>3. kind = "handshake" => last \in Level
        BY <1>0 DEF CircuitOK, last
      <4>4. first \in IF kind = "gray" THEN Words ELSE Level
        <5>1. CASE kind = "gray"
          <6>1. Crossing = bin_to_gray(data_in) /\ Crossing' = bin_to_gray(data_in')
            BY <2>1, <5>1 DEF Crossing
          <6>2. Crossing \in Words /\ Crossing' \in Words
            BY <1>0, <2>2, <6>1, WordFacts
          <6> QED BY <5>1, <6>2, SampledWord
        <5>2. CASE kind # "gray"
          <6>1. Crossing \in Level /\ Crossing' \in Level
            BY <2>1, <2>2, <2>3, <5>2 DEF Crossing, Word, CircuitOK
          <6> QED BY <5>2, <6>1, SampledLevel
        <5> QED BY <5>1, <5>2
      <4>5. Shift(chain, first) \in [Stages -> IF kind = "gray" THEN Words ELSE Level]
        BY <4>4, ShiftTyped DEF CircuitOK
      <4> QED BY <4>1, <4>2, <4>3, <4>5 DEF CircuitOK
    <3> QED BY <3>1, <3>2, <3>3, <3>4
  <2>5. ack_sync' \in [Stages -> Level]
    <3>1. CASE ~src
      BY <1>1, <3>1 DEF Edges, CircuitOK
    <3>2. CASE src /\ rst
      BY <1>0, <1>1, <3>2 DEF Edges, AcknowledgeChain
    <3>3. CASE src /\ ~rst
      <4>1. PICK first \in Sampled(ack_dst, ack_dst') : ack_sync' = Shift(ack_sync, first)
        BY <1>1, <3>3 DEF Edges, AcknowledgeChain
      <4>2. first \in Level
        BY <2>4, SampledLevel DEF CircuitOK
      <4> QED BY <4>1, <4>2, ShiftTyped DEF CircuitOK
    <3> QED BY <3>1, <3>2, <3>3
  <2> QED BY <2>1, <2>2, <2>3, <2>4, <2>5 DEF CircuitOK
<1>2. CASE AssertReset
  <2>1. /\ UNCHANGED <<kind, metastable, data_in>> /\ rst'
        /\ \/ /\ data_reg' = Low /\ req_src' = Low /\ ack_sync' = Filled(Low)
              /\ chain' = Filled(Low) /\ ack_dst' = Low /\ data_out_reg' = Low
           \/ UNCHANGED <<data_reg, req_src, ack_sync, chain, ack_dst, data_out_reg>>
    BY <1>2 DEF AssertReset, design, source, destination
  <2> QED BY <1>0, <2>1 DEF CircuitOK, Word
<1>3. CASE ReleaseReset
  BY <1>3 DEF ReleaseReset, design, source, destination, CircuitOK, Word
<1>4. CASE AsyncInput
  <2>1. /\ UNCHANGED <<kind, metastable, rst, data_reg, req_src, ack_sync, ack_dst, data_out_reg>>
        /\ kind = "reset" /\ data_in' \in Level /\ chain' \in {Filled(High), chain}
    BY <1>4 DEF AsyncInput, design, source
  <2> QED BY <1>0, <2>1 DEF CircuitOK, Word
<1>5. CASE UNCHANGED vars
  BY <1>5 DEF vars, design, source, destination, CircuitOK, Word
<1> QED BY <1>1, <1>2, <1>3, <1>4, <1>5 DEF Next

(* A step of the circuit and its C++ object is a step of the circuit.      *)
LEMMA SimIsNext == ASSUME [SimNext]_simVars PROVE [Next]_vars
<1>1. ASSUME NEW src \in BOOLEAN, NEW dst \in BOOLEAN, Rise(src, dst) PROVE Next
  BY <1>1 DEF Rise, Next
<1>2. CASE Settle
  BY <1>2 DEF Settle
<1>3. CASE Asynchronous
  BY <1>3 DEF Asynchronous, Next
<1>4. CASE UNCHANGED simVars
  BY <1>4 DEF simVars
<1> QED BY <1>1, <1>2, <1>3, <1>4 DEF SimNext

(* The object keeps its type, sees the levels of the clocks and settles.   *)
LEMMA ObjectKept ==
    ASSUME CrossingSized, CircuitOK, ObjectOK, SettledOK, [SimNext]_simVars
    PROVE  ObjectOK' /\ SettledOK'
<1>1. kind' = kind /\ metastable' = metastable
  <2>1. [Next]_vars
    BY SimIsNext
  <2> QED BY <2>1 DEF Next, Edges, AssertReset, ReleaseReset, AsyncInput, vars, design
<1>2. Shown' = Output(sim')
  BY <1>1 DEF Shown, Output
<1>3. ASSUME NEW src \in BOOLEAN, NEW dst \in BOOLEAN, Rise(src, dst) PROVE ObjectOK' /\ SettledOK'
  <2>1. CASE metastable
    <3>1. sim' = sim
      BY <1>3, <2>1 DEF Rise, eval
    <3>2. clk' \in BOOLEAN \X BOOLEAN
      BY <1>3 DEF Rise, ObjectOK
    <3> QED BY <1>1, <2>1, <3>1, <3>2 DEF ObjectOK, SettledOK
  <2>2. CASE ~metastable
    <3>1. /\ clk' \in BOOLEAN \X BOOLEAN /\ sim' \in ObjectType
          /\ sim'.clk_prev = clk' /\ sim'.data_out = Output(sim')
      BY <1>3, <2>2, RiseObject
    <3> QED BY <1>2, <3>1 DEF ObjectOK, SettledOK
  <2> QED BY <2>1, <2>2
<1>4. ASSUME NEW input, eval(clk', input), clk' \in BOOLEAN \X BOOLEAN,
             clk'[1] => clk[1], clk'[2] => clk[2]
      PROVE  ObjectOK' /\ SettledOK'
  <2>1. CASE metastable
    <3>1. sim' = sim
      BY <1>4, <2>1 DEF eval
    <3> QED BY <1>1, <1>4, <2>1, <3>1 DEF ObjectOK, SettledOK
  <2>2. CASE ~metastable
    <3>1. sim' \in ObjectType /\ sim'.clk_prev = clk' /\ sim'.data_out = Output(sim')
      BY <1>4, <2>2, QuietObject
    <3> QED BY <1>2, <1>4, <3>1 DEF ObjectOK, SettledOK
  <2> QED BY <2>1, <2>2
<1>5. CASE Settle
  <2>1. PICK s \in BOOLEAN, d \in BOOLEAN : clk' = <<clk[1] /\ s, clk[2] /\ d>> /\ eval(clk', data_in)
    BY <1>5 DEF Settle
  <2>2. clk' \in BOOLEAN \X BOOLEAN /\ (clk'[1] => clk[1]) /\ (clk'[2] => clk[2])
    BY <2>1 DEF ObjectOK
  <2> QED BY <1>4, <2>1, <2>2
<1>6. CASE Asynchronous
  <2>1. clk' = clk /\ eval(clk, data_in')
    BY <1>6 DEF Asynchronous
  <2>2. eval(clk', data_in')
    BY <2>1 DEF eval
  <2> QED BY <1>4, <2>1, <2>2 DEF ObjectOK
<1>7. CASE UNCHANGED simVars
  BY <1>7 DEF simVars, vars, design, ObjectOK, SettledOK, Shown
<1> QED BY <1>3, <1>5, <1>6, <1>7 DEF SimNext

(* A call without an edge leaves the registers of the object alone.        *)
LEMMA QuietStep ==
    ASSUME CrossingSized, ObjectOK, SettledOK, ~metastable,
           Settle \/ Asynchronous \/ UNCHANGED simVars
    PROVE  /\ kind # "reset" => SameRegisters(sim, sim')
           /\ Settle \/ Asynchronous =>
                (kind = "reset" => sim'.stage = IF data_in' = High THEN Filled(High) ELSE sim.stage)
<1>1. CASE Settle
  <2>1. PICK s \in BOOLEAN, d \in BOOLEAN : clk' = <<clk[1] /\ s, clk[2] /\ d>> /\ eval(clk', data_in)
    BY <1>1 DEF Settle
  <2>2. clk' \in BOOLEAN \X BOOLEAN /\ (clk'[1] => clk[1]) /\ (clk'[2] => clk[2])
    BY <2>1 DEF ObjectOK
  <2>3. data_in' = data_in
    BY <1>1 DEF Settle, vars
  <2> QED BY <2>1, <2>2, <2>3, QuietObject
<1>2. CASE Asynchronous
  <2>1. eval(clk, data_in') /\ clk \in BOOLEAN \X BOOLEAN
    BY <1>2 DEF Asynchronous, ObjectOK
  <2> QED BY <2>1, QuietObject
<1>3. CASE UNCHANGED simVars /\ ~Settle /\ ~Asynchronous
  BY <1>3 DEF simVars, SameRegisters
<1> QED BY <1>1, <1>2, <1>3

(* Domains that the reset has reached stay at their reset values.          *)
LEMMA ResetKept ==
    ASSUME CrossingSized, CircuitOK, ObjectOK, SettledOK, ResetOK, [SimNext]_simVars
    PROVE  ResetOK'
<1> SUFFICES ASSUME rst', kind' # "reset" PROVE ResetOK'
  BY DEF ResetOK
<1>1. ASSUME NEW src \in BOOLEAN, NEW dst \in BOOLEAN, Rise(src, dst) PROVE ResetOK'
  <2>1. rst /\ kind # "reset" /\ metastable' = metastable /\ Edges(src, dst)
    BY <1>1 DEF Rise, Edges, design
  <2>2. /\ src => data_reg' = Low /\ req_src' = Low /\ ack_sync' = Filled(Low)
        /\ ~src => UNCHANGED <<data_reg, req_src, ack_sync>>
    BY <2>1 DEF Edges, SourceRegisters, AcknowledgeChain
  <2>3. /\ dst => chain' = Filled(Low) /\ ack_dst' = Low /\ data_out_reg' = Low
        /\ ~dst => UNCHANGED <<chain, ack_dst, data_out_reg>>
    BY <2>1 DEF Edges, DestinationRegisters, destination
  <2>4. cleared' = cleared \cup (IF src THEN {"src"} ELSE {}) \cup (IF dst THEN {"dst"} ELSE {})
    BY <2>1 DEF Edges
  <2>5. gap'
    BY <2>1 DEF Edges, ResetOK
  <2>6. ~metastable => Blank(sim')
    BY <1>1, <2>1, RiseObject
  <2> QED BY <2>1, <2>2, <2>3, <2>4, <2>5, <2>6 DEF ResetOK
<1>2. CASE AssertReset /\ Asynchronous
  BY <1>2 DEF AssertReset, ResetOK
<1>3. CASE (Settle \/ Asynchronous \/ UNCHANGED simVars) /\ ~AssertReset
  <2>1. UNCHANGED vars
    BY <1>3 DEF Settle, Asynchronous, ReleaseReset, AsyncInput, simVars, design
  <2>2. ~metastable /\ kind # "reset" => SameRegisters(sim, sim')
    BY <1>3, QuietStep
  <2>3. ~metastable /\ kind # "reset" /\ Blank(sim) => Blank(sim')
    BY <2>2 DEF SameRegisters, Blank
  <2>4. UNCHANGED <<kind, metastable, rst, cleared, data_reg, req_src, ack_sync, chain, ack_dst,
                    data_out_reg, gap>>
    BY <2>1 DEF vars, design, source, destination
  <2> QED BY <2>3, <2>4 DEF ResetOK
<1>4. CASE AssertReset /\ ~Asynchronous /\ (Settle \/ UNCHANGED simVars)
  BY <1>4 DEF AssertReset, Settle, simVars, vars
<1> QED BY <1>1, <1>2, <1>3, <1>4 DEF SimNext

(* What a step that is not a clock edge does to the circuit.               *)
LEMMA CalmStep ==
    ASSUME Settle \/ Asynchronous \/ UNCHANGED simVars
    PROVE  \/ UNCHANGED vars
           \/ Asynchronous /\ AssertReset
           \/ Asynchronous /\ ReleaseReset
           \/ Asynchronous /\ AsyncInput
BY DEF Settle, Asynchronous, simVars

(* kind reset: a stage that is low has seen as many edges without input.   *)
LEMMA ReleaseKept ==
    ASSUME CrossingSized, CircuitOK, ReleaseOK, [SimNext]_simVars
    PROVE  ReleaseOK'
<1> SUFFICES ASSUME kind' = "reset" PROVE ReleaseOK'
  BY DEF ReleaseOK
<1>0. /\ Sized /\ STAGES \in Nat /\ STAGES >= 2 /\ Low # High /\ Low \in Level
      /\ \A i \in Stages : i \in Int /\ 1 <= i /\ i <= STAGES
  BY WordFacts DEF CrossingSized, Sized, Stages
<1>1. \A i \in Stages : Filled(High)[i] = High
  BY FilledTyped
<1>2. ASSUME NEW src \in BOOLEAN, NEW dst \in BOOLEAN, Rise(src, dst) PROVE ReleaseOK'
  <2>1. kind = "reset" /\ Edges(src, dst)
    BY <1>2 DEF Rise, Edges, design
  <2>2. data_in' = data_in /\ data_in \in Level /\ chain \in [Stages -> Level]
    BY <2>1 DEF Edges, Driven, CircuitOK, Word
  <2>3. CASE ~dst
    <3>1. chain' = chain /\ quiet' = quiet
      BY <1>2, <2>1, <2>3 DEF Rise, Edges, destination
    <3> QED BY <2>1, <2>2, <3>1 DEF ReleaseOK
  <2>4. CASE dst /\ data_in = High
    <3>1. chain' = Filled(High) /\ quiet' = quiet
      BY <1>0, <1>2, <2>1, <2>4 DEF Rise, Edges, DestinationRegisters
    <3> QED BY <1>0, <1>1, <2>1, <2>2, <2>4, <3>1 DEF ReleaseOK
  <2>5. CASE dst /\ data_in # High
    <3>1. chain' = Shift(chain, Low) /\ data_in = Low
      BY <2>1, <2>2, <2>5 DEF Edges, DestinationRegisters, ReleaseStep, Level
    <3>2. quiet' = IF quiet < STAGES THEN quiet + 1 ELSE quiet
      BY <1>2, <2>1, <2>5, <3>1 DEF Rise
    <3>3. quiet \in 0..STAGES /\ \A i \in Stages : chain[i] = Low => i <= quiet
      BY <2>1 DEF ReleaseOK
    <3>4. \A i \in Stages : i # 1 => i - 1 \in Stages /\ chain'[i] = chain[i - 1]
      BY <1>0, <2>2, <3>1, ShiftTyped
    <3>5. quiet' \in 0..STAGES /\ quiet' >= 1
      BY <1>0, <3>2, <3>3
    <3>6. ASSUME NEW i \in Stages, chain'[i] = Low PROVE i <= quiet'
      <4>1. CASE i = 1
        BY <3>5, <4>1
      <4>2. CASE i # 1
        <5>1. i - 1 <= quiet
          BY <3>3, <3>4, <3>6, <4>2
        <5> QED BY <1>0, <3>2, <3>3, <5>1
      <4> QED BY <4>1, <4>2
    <3> QED BY <1>0, <2>2, <2>5, <3>5, <3>6 DEF ReleaseOK
  <2> QED BY <2>3, <2>4, <2>5
<1>3. CASE Settle \/ Asynchronous \/ UNCHANGED simVars
  <2>1. CASE UNCHANGED vars
    <3>1. kind = "reset" /\ data_in' = data_in /\ chain' = chain
      BY <2>1 DEF vars, design, destination
    <3>2. quiet' = quiet \/ (data_in = High /\ quiet' = 0)
      BY <1>3, <3>1 DEF Settle, Asynchronous, simVars
    <3> QED BY <1>0, <1>1, <3>1, <3>2 DEF ReleaseOK
  <2>2. CASE Asynchronous /\ AssertReset
    BY <2>2 DEF AssertReset, design
  <2>3. CASE Asynchronous /\ ReleaseReset
    <3>1. kind = "reset" /\ data_in' = data_in /\ chain' = chain
      BY <2>3 DEF ReleaseReset, design, destination
    <3>2. quiet' = IF data_in = High THEN 0 ELSE quiet
      BY <2>3, <3>1 DEF Asynchronous
    <3> QED BY <1>0, <1>1, <3>1, <3>2 DEF ReleaseOK
  <2>4. CASE Asynchronous /\ AsyncInput
    <3>1. kind = "reset" /\ chain' = IF data_in' = High THEN Filled(High) ELSE chain
      BY <2>4 DEF AsyncInput
    <3>2. quiet' = IF data_in' = High THEN 0 ELSE quiet
      BY <2>4 DEF Asynchronous
    <3> QED BY <1>0, <1>1, <3>1, <3>2 DEF ReleaseOK
  <2> QED BY <1>3, <2>1, <2>2, <2>3, <2>4, CalmStep
<1> QED BY <1>2, <1>3 DEF SimNext

(* The object goes on holding the circuit's registers.                     *)
LEMMA FollowsKept ==
    ASSUME CrossingSized, CircuitOK, ObjectOK, SettledOK, ResetOK, ReleaseOK, FollowsOK,
           [SimNext]_simVars
    PROVE  FollowsOK'
<1> SUFFICES ASSUME ~metastable', kind' # "pulse", rst' => kind' = "reset" PROVE FollowsOK'
  BY DEF FollowsOK
<1>1. kind' = kind /\ ~metastable
  <2>1. [Next]_vars
    BY SimIsNext
  <2> QED BY <2>1 DEF Next, Edges, AssertReset, ReleaseReset, AsyncInput, vars, design
<1>0. Sized /\ STAGES \in Stages
  BY WordFacts DEF CrossingSized
<1>2. ASSUME NEW src \in BOOLEAN, NEW dst \in BOOLEAN, Rise(src, dst) PROVE FollowsOK'
  <2>1. rst' = rst /\ Edges(src, dst)
    BY <1>2 DEF Rise, Edges
  <2>2. sim.stage = chain
    BY <1>1, <2>1 DEF FollowsOK
  <2>3. \A a, b : Sampled(a, b) = {a}
    BY <1>1 DEF Sampled
  <2>4. CASE kind = "reset"
    <3>1. sim'.stage = IF data_in = High THEN Filled(High)
                       ELSE IF dst THEN Shift(sim.stage, Low) ELSE sim.stage
      BY <1>1, <1>2, <2>4, RiseObject
    <3>2. chain' = IF ~dst THEN chain
                   ELSE IF data_in = High THEN Filled(High) ELSE Shift(chain, Low)
      BY <2>1, <2>4 DEF Edges, DestinationRegisters, ReleaseStep, destination
    <3>3. data_in = High => chain = Filled(High)
      BY <2>4 DEF ReleaseOK
    <3> QED BY <1>1, <2>2, <2>4, <3>1, <3>2, <3>3 DEF FollowsOK
  <2>5. CASE kind \in {"ff", "gray"}
    <3>1. ~rst
      BY <1>1, <2>1, <2>5
    <3>2. chain' = IF dst THEN Shift(chain, Crossing) ELSE chain
      BY <2>1, <2>3, <2>5, <3>1 DEF Edges, DestinationRegisters, destination
    <3>3. sim'.stage = IF dst THEN Shift(sim.stage, Crossing) ELSE sim.stage
      BY <1>1, <1>2, <2>5, <3>1, EdgeObject DEF Crossing
    <3> QED BY <1>1, <2>2, <2>5, <3>2, <3>3 DEF FollowsOK
  <2>6. CASE kind = "handshake"
    <3>1. ~rst
      BY <1>1, <2>1, <2>6
    <3>2. /\ sim.data_reg = data_reg /\ sim.req_src = req_src /\ sim.ack_sync = ack_sync
          /\ sim.ack_dst = ack_dst /\ sim.data_out_reg = data_out_reg /\ sim.ack_src = ack_src
      BY <1>1, <2>6, <3>1 DEF FollowsOK
    <3> DEFINE latch == src /\ data_in # data_reg /\ req_src = ack_src
    <3>3. /\ data_reg' = IF latch THEN data_in ELSE data_reg
          /\ req_src' = IF latch THEN Invert(req_src) ELSE req_src
      BY <2>1, <2>6, <3>1 DEF Edges, SourceRegisters, MayLatch
    <3>4. Crossing = req_src
      BY <2>6 DEF Crossing
    <3>5. /\ chain' = IF dst THEN Shift(chain, req_src) ELSE chain
          /\ ack_dst' = IF dst THEN last ELSE ack_dst
          /\ data_out_reg' = IF dst /\ last # ack_dst THEN data_reg ELSE data_out_reg
      BY <2>1, <2>3, <2>6, <3>1, <3>4 DEF Edges, DestinationRegisters, destination, Captures
    <3>6. ack_sync' = IF src THEN Shift(ack_sync, ack_dst) ELSE ack_sync
      BY <2>1, <2>3, <3>1 DEF Edges, AcknowledgeChain
    <3>7. /\ sim'.data_reg = IF latch THEN data_in ELSE data_reg
          /\ sim'.req_src = IF latch THEN Invert(req_src) ELSE req_src
          /\ sim'.ack_sync = IF src THEN Shift(ack_sync, ack_dst) ELSE ack_sync
          /\ sim'.ack_src = IF src THEN sim'.ack_sync[STAGES] ELSE ack_src
      BY <1>1, <1>2, <2>6, <3>1, <3>2, EdgeObject
    <3>8. /\ sim'.stage = IF dst THEN Shift(chain, req_src) ELSE chain
          /\ sim'.ack_dst = IF dst THEN last ELSE ack_dst
          /\ sim'.data_out_reg = IF dst /\ last # ack_dst THEN data_reg ELSE data_out_reg
      BY <1>1, <1>2, <2>2, <2>6, <3>1, <3>2, EdgeObject DEF last
    <3>9. ack_src' = IF src THEN ack_sync'[STAGES] ELSE ack_src
      BY <3>6 DEF ack_src
    <3> HIDE DEF latch
    <3> QED BY <2>6, <3>3, <3>5, <3>6, <3>7, <3>8, <3>9 DEF FollowsOK
  <2> QED BY <1>1, <2>4, <2>5, <2>6 DEF CircuitOK, FiveKinds
<1>3. CASE Settle \/ Asynchronous \/ UNCHANGED simVars
  <2>1. kind # "reset" => SameRegisters(sim, sim')
    BY <1>1, <1>3, QuietStep
  <2>2. Settle \/ Asynchronous =>
           (kind = "reset" => sim'.stage = IF data_in' = High THEN Filled(High) ELSE sim.stage)
    BY <1>1, <1>3, QuietStep
  <2>3. CASE UNCHANGED vars
    <3>1. UNCHANGED <<kind, metastable, rst, data_in, data_reg, req_src, ack_sync, chain, ack_dst, data_out_reg>>
      BY <2>3 DEF vars, design, source, destination
    <3>2. ack_src' = ack_src
      BY <3>1 DEF ack_src
    <3>3. CASE kind = "reset"
      <4>1. (data_in = High => chain = Filled(High)) /\ sim.stage = chain
        BY <1>1, <3>3 DEF ReleaseOK, FollowsOK
      <4>2. sim'.stage = chain
        BY <1>3, <2>2, <3>1, <3>3, <4>1 DEF simVars
      <4> QED BY <3>1, <3>3, <4>2 DEF FollowsOK
    <3>4. CASE kind # "reset"
      BY <1>1, <2>1, <3>1, <3>2, <3>4 DEF FollowsOK, SameRegisters
    <3> QED BY <3>3, <3>4
  <2>4. CASE Asynchronous /\ AssertReset
    BY <1>1, <2>4 DEF AssertReset
  <2>5. CASE Asynchronous /\ ReleaseReset
    <3>1. /\ rst /\ "src" \in cleared /\ "dst" \in cleared
          /\ UNCHANGED <<data_in, data_reg, req_src, ack_sync, chain, ack_dst, data_out_reg>>
      BY <2>5 DEF ReleaseReset, source, destination
    <3>2. CASE kind = "reset"
      <4>1. (data_in = High => chain = Filled(High)) /\ sim.stage = chain
        BY <1>1, <3>2 DEF ReleaseOK, FollowsOK
      <4> QED BY <1>1, <2>2, <2>5, <3>1, <3>2, <4>1 DEF FollowsOK
    <3>3. CASE kind # "reset"
      <4>1. /\ data_reg = Low /\ req_src = Low /\ ack_sync = Filled(Low)
            /\ chain = Filled(Low) /\ ack_dst = Low /\ data_out_reg = Low /\ Blank(sim)
        BY <1>1, <3>1, <3>3 DEF ResetOK
      <4>2. ack_src' = Low
        BY <1>0, <3>1, <4>1, FilledTyped DEF ack_src
      <4> QED BY <1>1, <2>1, <3>1, <3>3, <4>1, <4>2 DEF FollowsOK, SameRegisters, Blank
    <3> QED BY <3>2, <3>3
  <2>6. CASE Asynchronous /\ AsyncInput
    <3>1. kind = "reset" /\ chain' = IF data_in' = High THEN Filled(High) ELSE chain
      BY <2>6 DEF AsyncInput
    <3>2. sim.stage = chain
      BY <1>1, <3>1 DEF FollowsOK
    <3> QED BY <1>1, <2>2, <2>6, <3>1, <3>2 DEF FollowsOK
  <2> QED BY <1>3, <2>3, <2>4, <2>5, <2>6, CalmStep
<1> QED BY <1>2, <1>3 DEF SimNext

(* kind gray: what a stage decodes to is what the counter was when sampled. *)
LEMMA GrayKept ==
    ASSUME CrossingSized, CircuitOK, ResetOK, GrayOK, [SimNext]_simVars
    PROVE  GrayOK'
<1> SUFFICES ASSUME kind' = "gray" PROVE GrayOK'
  BY DEF GrayOK, GrayIsCoherent
<1>0. Sized
  BY DEF CrossingSized
<1>1. ASSUME NEW src \in BOOLEAN, NEW dst \in BOOLEAN, Rise(src, dst) PROVE GrayOK'
  <2>1. kind = "gray" /\ rst' = rst /\ Edges(src, dst) /\ data_in \in SUBSET Bits
    BY <1>1 DEF Rise, Edges, design, CircuitOK, Word
  <2>2. CASE rst
    <3>1. window' = Filled({Low})
      BY <1>1, <2>1, <2>2 DEF Rise, GrayOK
    <3> QED BY <2>1, <2>2, <3>1 DEF GrayOK, GrayIsCoherent
  <2>3. CASE ~rst /\ ~dst
    <3>1. window' = window /\ chain' = chain
      BY <1>1, <2>1, <2>3 DEF Rise, Edges, destination
    <3> QED BY <2>1, <2>3, <3>1 DEF GrayOK, GrayIsCoherent
  <2>4. CASE ~rst /\ dst
    <3>1. window' = Shift(window, {data_in, data_in'})
      BY <1>1, <2>1, <2>4 DEF Rise
    <3>2. Crossing = bin_to_gray(data_in) /\ Crossing' = bin_to_gray(data_in')
      BY <2>1 DEF Crossing
    <3>3. PICK first \in Sampled(Crossing, Crossing') : chain' = Shift(chain, first)
      BY <2>1, <2>4 DEF Edges, DestinationRegisters
    <3>4. data_in' \in {data_in, Increment(data_in)}
      BY <2>1 DEF Edges, Driven
    <3>5. gray_to_bin(first) \in {data_in, data_in'}
      BY <1>0, <2>1, <3>2, <3>3, <3>4, GraySampled
    <3>6. ASSUME NEW i \in 1..STAGES PROVE gray_to_bin(chain'[i]) \in window'[i]
      <4>1. CASE i = 1
        <5>1. chain'[i] = first /\ window'[i] = {data_in, data_in'}
          BY <3>1, <3>3, <4>1 DEF Shift
        <5> QED BY <3>5, <5>1
      <4>2. CASE i # 1
        <5>1. chain'[i] = chain[i - 1] /\ window'[i] = window[i - 1] /\ i - 1 \in 1..STAGES
          BY <1>0, <3>1, <3>3, <4>2 DEF Shift, Sized
        <5>2. gray_to_bin(chain[i - 1]) \in window[i - 1]
          BY <2>1, <2>4, <5>1 DEF GrayOK, GrayIsCoherent
        <5> QED BY <5>1, <5>2
      <4> QED BY <4>1, <4>2
    <3> QED BY <2>1, <2>4, <3>6 DEF GrayOK, GrayIsCoherent
  <2> QED BY <2>2, <2>3, <2>4
<1>2. CASE Settle \/ Asynchronous \/ UNCHANGED simVars
  <2>1. CASE UNCHANGED vars
    <3>1. UNCHANGED <<kind, rst, chain>>
      BY <2>1 DEF vars, design, destination
    <3>2. window' = window \/ (rst /\ window' = Filled({Low}))
      BY <1>2, <3>1 DEF Settle, Asynchronous, simVars
    <3> QED BY <3>1, <3>2 DEF GrayOK, GrayIsCoherent
  <2>2. CASE Asynchronous /\ AssertReset
    <3>1. rst' /\ window' = Filled({Low})
      BY <2>2 DEF AssertReset, Asynchronous
    <3> QED BY <3>1 DEF GrayOK, GrayIsCoherent
  <2>3. CASE Asynchronous /\ ReleaseReset
    <3>1. kind = "gray" /\ rst /\ ~rst' /\ "dst" \in cleared /\ chain' = chain /\ window' = window
      BY <2>3 DEF ReleaseReset, Asynchronous, design, destination
    <3>2. chain' = Filled(Low) /\ window' = Filled({Low})
      BY <3>1 DEF ResetOK, GrayOK
    <3>3. gray_to_bin(Low) = Low
      <4>1. \A b \in Bits : {c \in {} : c >= b} = {}
        OBVIOUS
      <4> QED BY <4>1, FS_EmptySet DEF gray_to_bin, Low
    <3>4. \A i \in 1..STAGES : chain'[i] = Low /\ window'[i] = {Low}
      BY <3>2 DEF Filled
    <3> QED BY <3>1, <3>3, <3>4 DEF GrayOK, GrayIsCoherent
  <2>4. CASE Asynchronous /\ AsyncInput
    BY <2>4 DEF AsyncInput, design
  <2> QED BY <1>2, <2>1, <2>2, <2>3, <2>4, CalmStep
<1> QED BY <1>1, <1>2 DEF SimNext

(* A line of one level has no turns.                                       *)
LEMMA NoTurns ==
    ASSUME NEW n \in Nat, NEW x, NEW level, \A i \in 0..n : x[i] = level
    PROVE  Cardinality(Turns(x, n)) = 0
<1>1. Turns(x, n) = {}
  BY DEF Turns
<1> QED BY <1>1, FS_EmptySet

(* kind pulse: a pulse owed is a turn of the line, in the circuit          *)
LEMMA PulseKept ==
    ASSUME CrossingSized, CircuitOK, ResetOK, PulseOK, [SimNext]_simVars
    PROVE  PulseOK'
<1> SUFFICES ASSUME kind' = "pulse" PROVE PulseOK'
  BY DEF PulseOK
<1>0. Sized /\ STAGES \in Nat /\ STAGES >= 2 /\ Stages = 1..STAGES /\ Low \in Level
  BY WordFacts DEF CrossingSized, Sized, Stages
<1>1. ASSUME NEW src \in BOOLEAN, NEW dst \in BOOLEAN, Rise(src, dst) PROVE PulseOK'
  <2>1. kind = "pulse" /\ rst' = rst /\ Edges(src, dst)
    BY <1>1 DEF Rise, Edges, design
  <2>2. CASE rst
    <3>1. owed' = 0
      BY <1>1, <2>2 DEF Rise
    <3> QED BY <2>1, <2>2, <3>1 DEF PulseOK
  <2>3. CASE ~rst
    <3> DEFINE toggle == src /\ data_in = High
    <3>1. owed' = Due(owed, toggle, dst, data_out) /\ toggle \in BOOLEAN
      BY <1>1, <2>1, <2>3 DEF Rise
    <3>2. /\ req_src' = (IF toggle THEN Invert(req_src) ELSE req_src)
          /\ toggle => gap
          /\ gap' = (~toggle /\ (gap \/ dst))
      BY <2>1, <2>3 DEF Edges, SourceRegisters
    <3>3. req_src \in Level /\ req_src' \in Level /\ chain \in [Stages -> Level]
      BY <2>1, <3>2, TwoLevels DEF CircuitOK
    <3>4. toggle => chain[1] = req_src
      BY <2>1, <2>3, <3>2 DEF PulseOK
    <3>5. /\ chain' \in [Stages -> Level]
          /\ dst => /\ chain'[1] \in {req_src, req_src'}
                    /\ \A i \in Stages : i # 1 => i - 1 \in Stages /\ chain'[i] = chain[i - 1]
          /\ ~dst => chain' = chain
      <4>1. CASE dst
        <5>1. Crossing = req_src /\ Crossing' = req_src'
          BY <2>1 DEF Crossing
        <5>2. PICK first \in Sampled(Crossing, Crossing') : chain' = Shift(chain, first)
          BY <2>1, <2>3, <4>1 DEF Edges, DestinationRegisters
        <5>3. first \in {req_src, req_src'} /\ first \in Level
          BY <3>3, <5>1, <5>2, SampledLevel
        <5>4. /\ Shift(chain, first) \in [Stages -> Level]
              /\ Shift(chain, first)[1] = first
              /\ \A i \in Stages : i # 1 => i - 1 \in Stages /\ Shift(chain, first)[i] = chain[i - 1]
          <6>1. Sized
            BY <1>0
          <6> QED BY <3>3, <5>3, <6>1, ShiftTyped
        <5> QED BY <4>1, <5>2, <5>3, <5>4
      <4>2. CASE ~dst
        BY <2>1, <3>3, <4>2 DEF Edges, destination
      <4> QED BY <4>1, <4>2
    <3>6. Line \in [0..STAGES -> Level] /\ Line' \in [0..STAGES -> Level]
      BY <1>0, <3>3, <3>5 DEF Line
    <3>7. /\ Line[0] = req_src /\ Line'[0] = req_src'
          /\ \A i \in 1..STAGES : Line[i] = chain[i] /\ Line'[i] = chain'[i]
      BY <1>0 DEF Line
    <3>8. data_out = High <=> Line[STAGES] # Line[STAGES - 1]
      <4>1. data_out = Xor(chain[STAGES], chain[STAGES - 1])
        BY <2>1 DEF data_out, EdgeOfLastTwo
      <4>2. Line[STAGES] = chain[STAGES] /\ Line[STAGES - 1] = chain[STAGES - 1]
        BY <1>0, <3>7
      <4>3. chain[STAGES] \in Level /\ chain[STAGES - 1] \in Level
        BY <1>0, <3>3
      <4> QED BY <4>1, <4>2, <4>3 DEF Xor, Level, Low, High
    <3>9. /\ toggle => Line[1] = Line[0]
          /\ Line'[0] = (IF toggle THEN Invert(Line[0]) ELSE Line[0])
          /\ ~dst => \A i \in 1..STAGES : Line'[i] = Line[i]
          /\ dst => Line'[1] \in {Line[0], Line'[0]}
      BY <1>0, <3>2, <3>4, <3>5, <3>7
    <3>10. dst => \A i \in 2..STAGES : Line'[i] = Line[i - 1]
      <4> SUFFICES ASSUME dst, NEW i \in 2..STAGES PROVE Line'[i] = Line[i - 1]
        OBVIOUS
      <4>1. i \in Stages /\ i # 1 /\ i \in 1..STAGES /\ i - 1 \in 1..STAGES
        BY <1>0
      <4> QED BY <3>5, <3>7, <4>1
    <3> HIDE DEF toggle
    <3>11. Cardinality(Turns(Line', STAGES)) = Due(Cardinality(Turns(Line, STAGES)), toggle, dst, data_out)
      BY <1>0, <3>1, <3>6, <3>8, <3>9, <3>10, LineStep
    <3>12. owed' = Cardinality(Turns(Line', STAGES))
      BY <2>1, <2>3, <3>1, <3>11 DEF PulseOK
    <3>13. gap' => chain'[1] = req_src'
      <4>1. CASE dst
        BY <3>2, <3>5, <4>1
      <4>2. CASE ~dst
        BY <2>1, <2>3, <3>2, <3>5, <4>2 DEF PulseOK
      <4> QED BY <4>1, <4>2
    <3> QED BY <2>1, <2>3, <3>12, <3>13 DEF PulseOK
  <2> QED BY <2>2, <2>3
<1>2. CASE Settle \/ Asynchronous \/ UNCHANGED simVars
  <2>1. CASE UNCHANGED vars
    <3>1. UNCHANGED <<kind, rst, req_src, chain, gap>>
      BY <2>1 DEF vars, design, source, destination
    <3>2. owed' = owed \/ (rst /\ owed' = 0)
      BY <1>2, <3>1 DEF Settle, Asynchronous, simVars
    <3>3. Line' = Line
      BY <3>1 DEF Line
    <3> QED BY <3>1, <3>2, <3>3 DEF PulseOK
  <2>2. CASE Asynchronous /\ AssertReset
    <3>1. rst' /\ owed' = 0
      BY <2>2 DEF AssertReset, Asynchronous
    <3> QED BY <3>1 DEF PulseOK
  <2>3. CASE Asynchronous /\ ReleaseReset
    <3>1. /\ kind = "pulse" /\ rst /\ ~rst' /\ "src" \in cleared /\ "dst" \in cleared
          /\ UNCHANGED <<chain, req_src, owed>>
      BY <2>3 DEF ReleaseReset, Asynchronous, design, source, destination
    <3>2. chain' = Filled(Low) /\ req_src' = Low /\ owed' = 0
      BY <3>1 DEF ResetOK, PulseOK
    <3>3. \A i \in 1..STAGES : chain'[i] = Low
      BY <3>2 DEF Filled
    <3>4. \A i \in 0..STAGES : Line'[i] = Low
      BY <1>0, <3>2, <3>3 DEF Line
    <3>5. Cardinality(Turns(Line', STAGES)) = 0
      BY <1>0, <3>4, NoTurns
    <3>6. chain'[1] = req_src'
      BY <1>0, <3>2, <3>3
    <3> QED BY <3>1, <3>2, <3>5, <3>6 DEF PulseOK
  <2>4. CASE Asynchronous /\ AsyncInput
    BY <2>4 DEF AsyncInput, design
  <2> QED BY <1>2, <2>1, <2>2, <2>3, <2>4, CalmStep
<1> QED BY <1>1, <1>2 DEF SimNext

(* and in the C++ object, which keeps one level more.                      *)
LEMMA SimPulseKept ==
    ASSUME CrossingSized, CircuitOK, ObjectOK, SettledOK, ResetOK, SimPulseOK, [SimNext]_simVars
    PROVE  SimPulseOK'
<1> SUFFICES ASSUME kind' = "pulse", ~metastable' PROVE SimPulseOK'
  BY DEF SimPulseOK
<1> DEFINE n == STAGES + 1
<1>0. /\ STAGES \in Nat /\ STAGES >= 2 /\ Stages = 1..STAGES /\ Low \in Level
      /\ n \in Nat /\ n >= 2
  BY WordFacts DEF CrossingSized, Sized, Stages
<1>1. kind = "pulse" /\ ~metastable
  <2>1. [Next]_vars
    BY SimIsNext
  <2> QED BY <2>1 DEF Next, Edges, AssertReset, ReleaseReset, AsyncInput, vars, design
<1>2. SimLine \in [0..n -> Level]
  BY <1>1 DEF SimPulseOK
<1>3. /\ SimLine[0] = sim.req_src /\ SimLine'[0] = sim'.req_src
      /\ \A i \in 1..STAGES : SimLine[i] = sim.stage[i] /\ SimLine'[i] = sim'.stage[i]
      /\ SimLine[n] = sim.sync_prev /\ SimLine'[n] = sim'.sync_prev
  BY <1>0 DEF SimLine
<1>4. ASSUME Blank(sim') PROVE /\ SimLine' \in [0..n -> Level] /\ sim'.stage[1] = sim'.req_src
                               /\ Cardinality(Turns(SimLine', n)) = 0
  <2>1. sim'.stage = Filled(Low) /\ sim'.req_src = Low /\ sim'.sync_prev = Low
    BY <1>4 DEF Blank
  <2>2. \A i \in 1..STAGES : sim'.stage[i] = Low
    BY <2>1 DEF Filled
  <2>3. \A i \in 0..n : SimLine'[i] = Low
    BY <1>0, <2>1, <2>2 DEF SimLine
  <2>4. SimLine' \in [0..n -> Level]
    BY <1>0, <2>1, <2>2 DEF SimLine
  <2>5. Cardinality(Turns(SimLine', n)) = 0
    BY <1>0, <2>3, NoTurns
  <2> QED BY <1>0, <2>1, <2>2, <2>4, <2>5
<1>5. ASSUME NEW src \in BOOLEAN, NEW dst \in BOOLEAN, Rise(src, dst) PROVE SimPulseOK'
  <2>1. rst' = rst /\ Edges(src, dst)
    BY <1>5 DEF Rise, Edges, design
  <2>2. CASE rst
    <3>1. sim_owed' = 0
      BY <1>5, <2>2 DEF Rise
    <3>2. Blank(sim')
      BY <1>1, <1>5, <2>2, RiseObject
    <3> QED BY <1>4, <2>1, <2>2, <3>1, <3>2 DEF SimPulseOK
  <2>3. CASE ~rst
    <3> DEFINE toggle == src /\ data_in = High
    <3>1. sim_owed' = Due(sim_owed, toggle, dst, sim.data_out) /\ toggle \in BOOLEAN
      BY <1>1, <1>5, <2>3 DEF Rise
    <3>2. (toggle => gap) /\ gap' = (~toggle /\ (gap \/ dst))
      BY <1>1, <2>1, <2>3 DEF Edges
    <3>3. /\ sim'.req_src = (IF toggle THEN Invert(sim.req_src) ELSE sim.req_src)
          /\ sim'.stage = IF dst THEN Shift(sim.stage, sim'.req_src) ELSE sim.stage
          /\ sim'.sync_prev = IF dst THEN sim.stage[STAGES] ELSE sim.sync_prev
      BY <1>1, <1>5, <2>3, EdgeObject
    <3>4. toggle => SimLine[1] = SimLine[0]
      <4>1. gap => sim.stage[1] = sim.req_src
        BY <1>1, <2>3 DEF SimPulseOK
      <4> QED BY <1>0, <1>3, <3>2, <4>1
    <3>5. SimLine'[0] = (IF toggle THEN Invert(SimLine[0]) ELSE SimLine[0])
      BY <1>3, <3>3
    <3>6. ~dst => \A i \in 1..n : SimLine'[i] = SimLine[i]
      <4> SUFFICES ASSUME ~dst, NEW i \in 1..n PROVE SimLine'[i] = SimLine[i]
        OBVIOUS
      <4>1. i \in 1..STAGES \/ i = n
        BY <1>0
      <4> QED BY <1>3, <3>3, <4>1
    <3>7. dst => \A i \in 1..STAGES : sim'.stage[i] = IF i = 1 THEN sim'.req_src ELSE sim.stage[i - 1]
      BY <3>3 DEF Shift
    <3>8. dst => SimLine'[1] = SimLine'[0]
      BY <1>0, <1>3, <3>7
    <3>9. dst => \A i \in 2..n : SimLine'[i] = SimLine[i - 1]
      <4> SUFFICES ASSUME dst, NEW i \in 2..n PROVE SimLine'[i] = SimLine[i - 1]
        OBVIOUS
      <4>1. CASE i = n
        <5>1. i - 1 = STAGES /\ STAGES \in 1..STAGES
          BY <1>0, <4>1
        <5> QED BY <1>3, <3>3, <4>1, <5>1
      <4>2. CASE i # n
        <5>1. i \in 1..STAGES /\ i - 1 \in 1..STAGES /\ i # 1
          BY <1>0, <4>2
        <5> QED BY <1>3, <3>7, <5>1
      <4> QED BY <4>1, <4>2
    <3>10. SimLine'[0] \in Level
      <4>1. SimLine[0] \in Level
        BY <1>0, <1>2
      <4> QED BY <3>5, <4>1, TwoLevels
    <3>11. SimLine' \in [0..n -> Level]
      <4>1. \A i \in 1..n : SimLine'[i] \in Level
        <5>1. CASE ~dst
          BY <1>0, <1>2, <3>6, <5>1
        <5>2. CASE dst
          <6>1. \A i \in 1..n : i = 1 \/ (i \in 2..n /\ i - 1 \in 0..n)
            BY <1>0
          <6> QED BY <1>2, <3>8, <3>9, <3>10, <5>2, <6>1
        <5> QED BY <5>1, <5>2
      <4>2. SimLine' = [i \in 0..n |-> SimLine'[i]]
        BY DEF SimLine
      <4>3. \A i \in 0..n : i = 0 \/ i \in 1..n
        BY <1>0
      <4> QED BY <3>10, <4>1, <4>2, <4>3
    <3>12. sim.data_out = High <=> SimLine[n] # SimLine[n - 1]
      <4>1. sim.data_out = Xor(sim.stage[STAGES], sim.sync_prev)
        BY <1>1 DEF SettledOK, Shown
      <4>2. n - 1 = STAGES /\ STAGES \in 1..STAGES /\ n \in 0..n /\ STAGES \in 0..n
        BY <1>0
      <4>3. SimLine[n - 1] = sim.stage[STAGES] /\ SimLine[n] = sim.sync_prev
        BY <1>3, <4>2
      <4>4. sim.stage[STAGES] \in Level /\ sim.sync_prev \in Level
        BY <1>2, <4>2, <4>3
      <4> QED BY <4>1, <4>3, <4>4 DEF Xor, Level, Low, High
    <3> HIDE DEF toggle, n
    <3>13. Cardinality(Turns(SimLine', n))
              = Due(Cardinality(Turns(SimLine, n)), toggle, dst, sim.data_out)
      <4>1. dst => /\ SimLine'[1] \in {SimLine[0], SimLine'[0]}
                   /\ \A i \in 2..n : SimLine'[i] = SimLine[i - 1]
        BY <3>8, <3>9
      <4>2. n \in Nat /\ n >= 2
        BY <1>0
      <4> QED BY <1>2, <3>1, <3>4, <3>5, <3>6, <3>11, <3>12, <4>1, <4>2, LineStep
    <3>14. sim_owed = Cardinality(Turns(SimLine, n))
      BY <1>1, <2>3 DEF SimPulseOK, n
    <3>15. gap' => sim'.stage[1] = sim'.req_src
      <4>1. CASE dst
        BY <1>0, <3>7, <4>1
      <4>2. CASE ~dst
        BY <1>1, <2>3, <3>2, <3>3, <4>2 DEF SimPulseOK
      <4> QED BY <4>1, <4>2
    <3> QED BY <2>1, <2>3, <3>1, <3>11, <3>13, <3>14, <3>15 DEF SimPulseOK, n
  <2> QED BY <2>2, <2>3
<1>6. CASE Settle \/ Asynchronous \/ UNCHANGED simVars
  <2>1. SameRegisters(sim, sim')
    BY <1>1, <1>6, QuietStep
  <2>2. SimLine' = SimLine /\ sim'.stage = sim.stage /\ sim'.req_src = sim.req_src
    BY <2>1 DEF SimLine, SameRegisters
  <2>3. CASE UNCHANGED vars
    <3>1. UNCHANGED <<kind, metastable, rst, gap>>
      BY <2>3 DEF vars, design
    <3>2. sim_owed' = sim_owed \/ (rst /\ sim_owed' = 0)
      BY <1>6, <3>1 DEF Settle, Asynchronous, simVars
    <3> QED BY <1>1, <2>2, <3>1, <3>2 DEF SimPulseOK
  <2>4. CASE Asynchronous /\ AssertReset
    <3>1. rst' /\ sim_owed' = 0
      BY <2>4 DEF AssertReset, Asynchronous
    <3> QED BY <1>2, <2>2, <3>1 DEF SimPulseOK
  <2>5. CASE Asynchronous /\ ReleaseReset
    <3>1. rst /\ ~rst' /\ cleared # {} /\ sim_owed' = sim_owed
      BY <2>5 DEF ReleaseReset, Asynchronous
    <3>2. Blank(sim) /\ sim_owed = 0
      BY <1>1, <3>1 DEF ResetOK, SimPulseOK
    <3>3. Blank(sim')
      BY <2>1, <3>2 DEF SameRegisters, Blank
    <3> QED BY <1>4, <3>1, <3>2, <3>3 DEF SimPulseOK
  <2>6. CASE Asynchronous /\ AsyncInput
    BY <1>1, <2>6 DEF AsyncInput
  <2> QED BY <1>6, <2>3, <2>4, <2>5, <2>6, CalmStep
<1> QED BY <1>5, <1>6 DEF SimNext

(* Power-up: the first call of eval() settles an object of zeros.          *)
LEMMA CrossingInit ==
    ASSUME CrossingSized, SimInit
    PROVE  CrossingInv
<1>0. /\ Sized /\ STAGES \in Nat /\ Low \in Level /\ High \in Level /\ Low # High
      /\ Low \in Words /\ Level \subseteq Words
  BY WordFacts DEF CrossingSized, Sized
<1>1. /\ Filled(Low) \in [Stages -> Level] /\ Filled(High) \in [Stages -> Level]
      /\ Filled(Low) \in [Stages -> Words] /\ Filled(High) \in [Stages -> Words]
      /\ \A i \in Stages : Filled(Low)[i] = Low /\ Filled(High)[i] = High
  BY <1>0, FilledTyped
<1>2. /\ kind \in FiveKinds /\ metastable \in BOOLEAN /\ rst = TRUE /\ cleared = {"src", "dst"}
      /\ data_in = IF kind = "reset" THEN High ELSE Low
      /\ data_reg = Low /\ req_src = Low /\ ack_sync = Filled(Low)
      /\ chain = Filled(data_in) /\ ack_dst = Low /\ data_out_reg = Low /\ gap = TRUE
  BY DEF SimInit, Init, CrossingSized
<1>3. CircuitOK
  BY <1>0, <1>1, <1>2 DEF CircuitOK, Word, Words, Low
<1> DEFINE still == <<FALSE, FALSE>>
           first == [Object EXCEPT !.clk_prev = still]
           e == EvalPosedge(Object, still, data_in, FALSE)
<1>4. Object \in ObjectType /\ Object.clk_prev = still /\ Blank(Object)
  BY <1>0, <1>1 DEF Object, ObjectType, Blank
<1>5. e = IF kind = "reset" THEN [first EXCEPT !.stage = Filled(High)] ELSE first
  <2>1. data_in # High => kind # "reset"
    BY <1>2
  <2>2. kind = "reset" => data_in = High
    BY <1>2
  <2>3. still[1] = FALSE /\ still[2] = FALSE
    OBVIOUS
  <2> HIDE DEF still
  <2> QED BY <2>2, <2>3 DEF EvalPosedge
<1>6. first \in ObjectType /\ first.clk_prev = still /\ SameRegisters(Object, first)
  BY <1>4 DEF ObjectType, SameRegisters
<1> HIDE DEF still, first, e
<1>7. /\ e \in ObjectType /\ e.clk_prev = still
      /\ kind # "reset" => Blank(e)
      /\ kind = "reset" => e.stage = Filled(High)
  BY <1>1, <1>4, <1>5, <1>6 DEF ObjectType, SameRegisters, Blank
<1>8. clk = still /\ still \in BOOLEAN \X BOOLEAN /\ sim = IF metastable THEN Object ELSE EvalComb(e)
  BY DEF SimInit, still, e
<1>9. ~metastable => /\ sim \in ObjectType /\ sim.clk_prev = still /\ SameRegisters(e, sim)
                     /\ sim.data_out = Output(sim)
  BY <1>0, <1>7, <1>8, CombFacts
<1>10. ObjectOK
  BY <1>4, <1>8, <1>9 DEF ObjectOK
<1>11. ~metastable => /\ kind # "reset" => Blank(sim)
                      /\ kind = "reset" => sim.stage = Filled(High)
  BY <1>7, <1>9 DEF SameRegisters, Blank
<1>12. ResetOK
  BY <1>2, <1>11 DEF ResetOK
<1>13. SettledOK
  BY <1>8, <1>9 DEF SettledOK, Shown, Output
<1>14. FollowsOK
  BY <1>2, <1>11 DEF FollowsOK
<1>15. PulseOK
  BY <1>2 DEF PulseOK, SimInit
<1>16. SimPulseOK
  <2>1. ASSUME kind = "pulse", ~metastable PROVE SimLine \in [0..(STAGES + 1) -> Level]
    <3>1. sim.stage = Filled(Low) /\ sim.req_src = Low /\ sim.sync_prev = Low
      BY <1>11, <2>1 DEF Blank
    <3> QED BY <1>0, <1>1, <3>1 DEF SimLine
  <2> QED BY <1>2, <2>1 DEF SimPulseOK, SimInit
<1>17. GrayOK
  BY <1>2 DEF GrayOK, GrayIsCoherent, SimInit
<1>18. ReleaseOK
  BY <1>0, <1>1, <1>2 DEF ReleaseOK, SimInit
<1> QED BY <1>3, <1>10, <1>12, <1>13, <1>14, <1>15, <1>16, <1>17, <1>18 DEF CrossingInv

(* Every step of circuit and object keeps the invariant.                   *)
LEMMA CrossingStep ==
    ASSUME CrossingSized, CrossingInv, [SimNext]_simVars
    PROVE  CrossingInv'
<1>1. CircuitOK'
  BY SimIsNext, CircuitStep DEF CrossingInv, CrossingSized
<1>2. ObjectOK' /\ SettledOK' /\ ResetOK' /\ FollowsOK'
  BY ObjectKept, ResetKept, FollowsKept DEF CrossingInv
<1>3. PulseOK' /\ SimPulseOK' /\ GrayOK' /\ ReleaseOK'
  BY PulseKept, SimPulseKept, GrayKept, ReleaseKept DEF CrossingInv
<1> QED BY <1>1, <1>2, <1>3 DEF CrossingInv

(* The invariant gives the three promises.                                 *)
LEMMA CrossingClean ==
    ASSUME CrossingSized, CrossingInv
    PROVE  CrossingsAreClean
<1>0. /\ Sized /\ STAGES \in Nat /\ STAGES >= 2 /\ Stages = 1..STAGES /\ Low # High
  BY WordFacts DEF CrossingSized, Sized, Stages
<1>1. ASSUME NEW x, NEW n \in Nat, NEW i \in 1..n, x[i] # x[i - 1]
      PROVE  Cardinality(Turns(x, n)) > 0
  <2>1. IsFiniteSet(Turns(x, n)) /\ Turns(x, n) # {}
    <3>1. Turns(x, n) \subseteq 1..n /\ IsFiniteSet(1..n) /\ i \in Turns(x, n)
      BY <1>1, FS_Interval DEF Turns
    <3> QED BY <3>1, FS_Subset
  <2> QED BY <2>1, FS_EmptySet, FS_CardinalityType
<1>2. PulsesConserved
  <2> SUFFICES ASSUME kind = "pulse", ~rst
               PROVE  /\ data_out = High => owed > 0
                      /\ (\A i \in 1..STAGES : chain[i] = req_src) => owed = 0
    BY DEF PulsesConserved
  <2>1. owed = Cardinality(Turns(Line, STAGES))
    BY DEF CrossingInv, PulseOK
  <2>2. data_out = Xor(chain[STAGES], chain[STAGES - 1])
    BY DEF data_out, EdgeOfLastTwo
  <2>3. data_out = High => chain[STAGES] # chain[STAGES - 1]
    BY <2>2 DEF Xor, High
  <2>4. Line[STAGES] = chain[STAGES] /\ Line[STAGES - 1] = chain[STAGES - 1] /\ STAGES \in 1..STAGES
    BY <1>0 DEF Line
  <2>5. ASSUME \A i \in 1..STAGES : chain[i] = req_src PROVE owed = 0
    <3>1. \A i \in 0..STAGES : Line[i] = req_src
      BY <1>0, <2>5 DEF Line
    <3> QED BY <1>0, <2>1, <3>1, NoTurns
  <2> QED BY <1>0, <1>1, <2>1, <2>3, <2>4, <2>5
<1>3. SimPulsesConserved
  <2> SUFFICES ASSUME kind = "pulse", ~metastable, ~rst
               PROVE  /\ sim.data_out = High => sim_owed > 0
                      /\ (\A i \in 1..STAGES : sim.stage[i] = sim.req_src) /\ sim.sync_prev = sim.req_src
                            => sim_owed = 0
    BY DEF SimPulsesConserved, SimPulsesNotDoubled
  <2>1. sim_owed = Cardinality(Turns(SimLine, STAGES + 1))
    BY DEF CrossingInv, SimPulseOK
  <2>2. sim.data_out = Xor(sim.stage[STAGES], sim.sync_prev)
    BY DEF CrossingInv, SettledOK, Shown
  <2>3. sim.data_out = High => sim.stage[STAGES] # sim.sync_prev
    BY <2>2 DEF Xor, High
  <2>4. /\ SimLine[STAGES + 1] = sim.sync_prev /\ SimLine[(STAGES + 1) - 1] = sim.stage[STAGES]
        /\ STAGES + 1 \in 1..(STAGES + 1) /\ STAGES + 1 \in Nat
    BY <1>0 DEF SimLine
  <2>5. ASSUME \A i \in 1..STAGES : sim.stage[i] = sim.req_src, sim.sync_prev = sim.req_src
        PROVE  sim_owed = 0
    <3>1. \A i \in 0..(STAGES + 1) : SimLine[i] = sim.req_src
      BY <1>0, <2>5 DEF SimLine
    <3> QED BY <2>1, <2>4, <3>1, NoTurns
  <2> QED BY <1>1, <2>1, <2>3, <2>4, <2>5
<1>4. ReleaseIsSynchronous
  <2> SUFFICES ASSUME kind = "reset"
               PROVE  (data_in = High => data_out = High) /\ (data_out = Low => quiet = STAGES)
    BY DEF ReleaseIsSynchronous
  <2>1. data_out = chain[STAGES] /\ STAGES \in Stages
    BY <1>0 DEF data_out, last
  <2>2. /\ quiet \in 0..STAGES /\ (data_in = High => chain = Filled(High))
        /\ (chain[STAGES] = Low => STAGES <= quiet)
    BY <2>1 DEF CrossingInv, ReleaseOK
  <2>3. chain = Filled(High) => chain[STAGES] = High
    BY <2>1, FilledTyped
  <2> QED BY <1>0, <2>1, <2>2, <2>3
<1>5. GrayIsCoherent
  BY DEF CrossingInv, GrayOK
<1> QED BY <1>2, <1>3, <1>4, <1>5 DEF CrossingsAreClean

(* kind gray: although its bits are sampled one by one, the output is a    *)
(* value the counter had at one sampling edge.  kind pulse, circuit and    *)
(* C++ class: spaced pulses are neither lost nor doubled.  kind reset: the *)
(* release takes STAGES quiet edges.  For every number of stages and every *)
(* width, whether or not coincident edges sample old or new.               *)
THEOREM SynchronizerClean == ASSUME CrossingSized PROVE SimSpec => []CrossingsAreClean
BY CrossingInit, CrossingStep, CrossingClean, PTL DEF SimSpec

(* The invariant gives the promise about the class, too.                   *)
LEMMA CrossingAgrees ==
    ASSUME CrossingSized, CrossingInv
    PROVE  SimAgrees
<1> SUFFICES ASSUME ~metastable, ~rst, kind # "pulse" PROVE sim.data_out = data_out
  BY DEF SimAgrees
<1>0. Sized /\ STAGES \in Stages
  BY WordFacts DEF CrossingSized
<1>1. sim.data_out = Shown /\ sim.stage = chain
  BY DEF CrossingInv, SettledOK, FollowsOK
<1>2. CASE kind = "gray"
  <2>1. chain[STAGES] \in SUBSET Bits
    BY <1>0, <1>2 DEF CrossingInv, CircuitOK, Words
  <2>2. Doubling(chain[STAGES]) = gray_to_bin(chain[STAGES])
    BY <1>0, <2>1, DoublingDecodes
  <2> QED BY <1>1, <1>2, <2>2 DEF Shown, data_out, last
<1>3. CASE kind = "handshake"
  BY <1>1, <1>3 DEF CrossingInv, FollowsOK, Shown, data_out
<1>4. CASE kind # "gray" /\ kind # "handshake"
  BY <1>1, <1>4 DEF Shown, data_out, last
<1> QED BY <1>2, <1>3, <1>4

(* Out of reset the C++ class shows the circuit's output after every call: *)
(* the doubling shifts of eval_comb() undo the gray code as the prefix XOR *)
(* of the circuit does, and the order of the blocks of eval_posedge()      *)
(* makes coincident edges read the registers as nonblocking assignments    *)
(* do.                                                                     *)
THEOREM SynchronizerClassAgrees == ASSUME CrossingSized PROVE SimSpec => []SimAgrees
BY CrossingInit, CrossingStep, CrossingAgrees, PTL DEF SimSpec
=============================================================================
