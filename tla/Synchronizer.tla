---------------------------- MODULE Synchronizer ----------------------------
(***************************************************************************)
(* The SystemVerilog clock-domain crossings of codegen/synchronizer.rs.    *)
(* One step is an edge of the source clock, of the destination clock or of *)
(* both, or a change of the reset or of an asynchronous input.  A word is  *)
(* the set of its one bits.  A signal sampled by one clock while the other *)
(* one changes it reads, bit by bit, as its old or its new value.          *)
(***************************************************************************)
EXTENDS Naturals, Sequences, FiniteSets

CONSTANTS
    STAGES,     \* flip-flops of every chain (typecheck demands at least 2)
    WIDTH,      \* bits of the gray and handshake data
    Kinds,      \* kinds of synchronizer under test
    Samplings,  \* {TRUE}: coincident edges read old or new; {FALSE}: old
    NoData

VARIABLES
    kind, async, metastable,    \* the declaration, and how edges coincide
    rst, cleared,               \* reset level, domains it has reached
    data_in,
    data_reg, req_src, ack_sync,        \* source domain; toggle_src is req_src
    chain, ack_dst, data_out_reg,       \* destination domain
    gap,                        \* a destination edge followed the last toggle
    pushed, popped              \* words latched and captured by this step

design == <<kind, async, metastable>>
source == <<data_reg, req_src, ack_sync>>
destination == <<chain, ack_dst, data_out_reg>>
vars == <<design, rst, cleared, data_in, source, destination, gap, pushed, popped>>

Bits  == 0..(WIDTH - 1)
Low   == {}
High  == {0}
Level == {Low, High}
Word  == IF kind \in {"gray", "handshake"} THEN SUBSET Bits ELSE Level

Xor(a, b) == (a \ b) \cup (b \ a)
Invert(level) == Xor(level, High)
ShiftRight(w, n) == {b \in Bits : b + n \in w}
Mixed(old, new) == {(old \cap new) \cup m : m \in SUBSET Xor(old, new)}

(* The gray code and its prefix-XOR decoder.                               *)
uncoded(w) == w
bin_to_gray(w) == Xor(w, ShiftRight(w, 1))
gray_to_bin(g) == {b \in Bits : Cardinality({c \in g : c >= b}) % 2 = 1}

last == chain[STAGES]
ack_src == ack_sync[STAGES]

(* The signal that enters the first flip-flop of the chain.                *)
Crossing ==
    CASE kind = "ff"   -> data_in
      [] kind = "gray" -> bin_to_gray(data_in)
      [] OTHER         -> req_src

LevelOfLast == chain[STAGES]
EdgeOfLastTwo == Xor(chain[STAGES], chain[STAGES - 1])
data_out ==
    CASE kind = "gray"      -> gray_to_bin(last)
      [] kind = "handshake" -> data_out_reg
      [] kind = "pulse"     -> EdgeOfLastTwo
      [] OTHER              -> last

Shift(c, first) == [i \in 1..STAGES |-> IF i = 1 THEN first ELSE c[i - 1]]
Filled(level) == [i \in 1..STAGES |-> level]

(* What a flip-flop may read of a signal at a clock edge.                  *)
Sampled(old, new) == IF metastable THEN Mixed(old, new) ELSE {old}

Init ==
    /\ kind \in Kinds /\ async \in BOOLEAN /\ metastable \in Samplings
    /\ rst = TRUE /\ cleared = {"src", "dst"}
    /\ data_in = IF kind = "reset" THEN High ELSE Low
    /\ data_reg = Low /\ req_src = Low /\ ack_sync = Filled(Low)
    /\ chain = Filled(data_in) /\ ack_dst = Low /\ data_out_reg = Low
    /\ gap = TRUE /\ pushed = NoData /\ popped = NoData
-----------------------------------------------------------------------------
(* The driver is a register of the source domain: a counter for gray, free *)
(* otherwise.  The input of kind reset belongs to no clock.                *)
Increment(w) ==
    LET zeros == Bits \ w
    IN  IF zeros = {} THEN {}
        ELSE LET z == CHOOSE b \in zeros : \A c \in zeros : b <= c
             IN  {z} \cup {b \in w : b > z}
Driven ==
    CASE kind = "gray"  -> {data_in, Increment(data_in)}
      [] kind = "reset" -> {data_in}
      [] OTHER          -> Word

(* A new word is latched only when the previous request is acknowledged.   *)
MayLatchAlways == data_in # data_reg
MayLatchFromLow == data_in # data_reg /\ req_src = Low /\ ack_src = Low
MayLatch == data_in # data_reg /\ req_src = ack_src

(* data_reg and req_src (handshake), toggle_src (pulse).                   *)
SourceRegisters ==
    IF rst
    THEN data_reg' = Low /\ req_src' = Low /\ pushed' = NoData
    ELSE LET latch  == kind = "handshake" /\ MayLatch
             toggle == kind = "pulse" /\ data_in = High
         IN  /\ data_reg' = IF latch THEN data_in ELSE data_reg
             /\ req_src'  = IF latch \/ toggle THEN Invert(req_src) ELSE req_src
             /\ pushed'   = IF latch THEN data_in ELSE NoData

(* The chain, and for handshake the capture of the word and the ack.  The  *)
(* reset kind has no reset port; it shifts zeros unless data_in sets it.   *)
CapturesEarly == chain[1] # ack_dst
Captures == last # ack_dst
ReleaseAtOnce == Filled(Low)
ReleaseStep == Shift(chain, Low)
DestinationRegisters ==
    IF kind = "reset"
    THEN /\ chain' = IF data_in = High THEN Filled(High) ELSE ReleaseStep
         /\ UNCHANGED <<ack_dst, data_out_reg>> /\ popped' = NoData
    ELSE IF rst
    THEN chain' = Filled(Low) /\ ack_dst' = Low /\ data_out_reg' = Low /\ popped' = NoData
    ELSE \E first \in Sampled(Crossing, Crossing'), word \in Sampled(data_reg, data_reg') :
            LET capture == kind = "handshake" /\ Captures
            IN  /\ chain' = Shift(chain, first)
                /\ ack_dst' = IF kind = "handshake" THEN last ELSE ack_dst
                /\ data_out_reg' = IF capture THEN word ELSE data_out_reg
                /\ popped' = IF capture THEN word ELSE NoData

AcknowledgeChain ==
    IF rst THEN ack_sync' = Filled(Low)
    ELSE \E first \in Sampled(ack_dst, ack_dst') : ack_sync' = Shift(ack_sync, first)

(* Clock edges.  Pulses are spaced: between two of them the destination    *)
(* clock ticks (the emitted circuit relies on it and does not enforce it). *)
Edges(src, dst) ==
    LET toggles == src /\ ~rst /\ kind = "pulse" /\ data_in = High
    IN  /\ src \/ dst
        /\ toggles => gap
        /\ UNCHANGED <<design, rst>>
        /\ IF src THEN data_in' \in Driven ELSE UNCHANGED data_in
        /\ IF src THEN SourceRegisters ELSE UNCHANGED <<data_reg, req_src>> /\ pushed' = NoData
        /\ IF dst THEN DestinationRegisters ELSE UNCHANGED destination /\ popped' = NoData
        /\ IF src THEN AcknowledgeChain ELSE UNCHANGED ack_sync
        /\ gap' = (~toggles /\ (gap \/ dst))
        /\ cleared' = cleared \cup (IF src THEN {"src"} ELSE {})
                              \cup (IF dst THEN {"dst"} ELSE {})

(* The reset port rises; in the sensitivity list (async) it acts at once.  *)
AssertReset ==
    /\ ~rst /\ kind # "reset"
    /\ rst' = TRUE /\ cleared' = {} /\ gap' = TRUE
    /\ pushed' = NoData /\ popped' = NoData
    /\ IF async
       THEN /\ data_reg' = Low /\ req_src' = Low /\ ack_sync' = Filled(Low)
            /\ chain' = Filled(Low) /\ ack_dst' = Low /\ data_out_reg' = Low
       ELSE UNCHANGED <<source, destination>>
    /\ UNCHANGED <<design, data_in>>

(* It is held until both clocks have ticked.                               *)
ReleaseReset ==
    /\ rst /\ cleared = {"src", "dst"}
    /\ rst' = FALSE /\ pushed' = NoData /\ popped' = NoData
    /\ UNCHANGED <<design, cleared, data_in, source, destination, gap>>

(* kind reset: posedge data_in sets the chain, its fall waits for a clock. *)
AsyncInput ==
    /\ kind = "reset" /\ ~rst
    /\ data_in' \in Level
    /\ chain' = IF data_in' = High THEN Filled(High) ELSE chain
    /\ pushed' = NoData /\ popped' = NoData
    /\ UNCHANGED <<design, rst, cleared, source, ack_dst, data_out_reg, gap>>

Next ==
    \/ \E src, dst \in BOOLEAN : Edges(src, dst)
    \/ AssertReset \/ ReleaseReset \/ AsyncInput

Spec == Init /\ [][Next]_vars
FairSpec ==
    /\ Spec
    /\ WF_vars(\E dst \in BOOLEAN : Edges(TRUE, dst))
    /\ WF_vars(\E src \in BOOLEAN : Edges(src, TRUE))
    /\ WF_vars(ReleaseReset)
-----------------------------------------------------------------------------
(* handshake: every word latched in the source domain is captured in the   *)
(* destination domain once and in order; one word is in flight at a time.  *)
InFlight == IF kind = "handshake" /\ ~rst /\ req_src # ack_dst THEN <<data_reg>> ELSE <<>>
Channel == INSTANCE ElasticFifoSpec WITH DEPTH <- 1, Data <- SUBSET Bits, queue <- InFlight
HandshakeIsChannel == Channel!Spec

(* handshake: the multi-bit word is never sampled while it changes, which  *)
(* is what makes sampling it without a chain safe.                         *)
StableWhenSampled ==
    [][popped' # NoData => data_reg' = data_reg]_vars

(* Whatever the levels of the input were before, an input that stays put   *)
(* appears at the output of every kind but pulse, and stays there.         *)
InputArrives ==
    \A w \in SUBSET Bits :
        kind # "pulse" /\ <>[](data_in = w /\ ~rst) => <>[](data_out = w)
=============================================================================
