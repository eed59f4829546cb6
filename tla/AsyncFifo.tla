------------------------------ MODULE AsyncFifo ------------------------------
(***************************************************************************)
(* The dual-clock SystemVerilog FIFO: emit_fifo_async_body of              *)
(* codegen/fifo.rs.  The write side owns wr_ptr_bin and mem, the read side *)
(* rd_ptr_bin and, with latency 1, the prefetched head; each pointer       *)
(* crosses to the other side Gray-coded through two flip-flops.            *)
(*                                                                         *)
(* A step is a rising edge of wr_clk, of rd_clk, of both together, or a    *)
(* pulse of the (always asynchronous) reset.  When the edges coincide, a   *)
(* first synchronizer flip-flop samples a pointer that is changing: every  *)
(* bit that changes may be captured old or new, independently.             *)
(***************************************************************************)
EXTENDS Integers, FiniteSets

CONSTANTS
    DEPTH,      \* words in mem
    OVERFLOW,   \* param OVERFLOW != 0: push_ready is tied high
    Data, NoData

ASSUME AsyncFifoAssumption ==
    /\ DEPTH \in Nat \ {0, 1}
    /\ OVERFLOW \in BOOLEAN
    /\ NoData \notin Data

(* PTR_W = $clog2(DEPTH) + 1; pointers are PTR_W bits wide.                *)
Pow2[n \in 0..DEPTH] == IF n = 0 THEN 1 ELSE 2 * Pow2[n - 1]
PTR_W == (CHOOSE w \in 1..DEPTH : Pow2[w] >= DEPTH /\ Pow2[w - 1] < DEPTH) + 1
Half == Pow2[PTR_W - 1]
Ptr == 0..(2 * Half - 1)
Address == 0..(DEPTH - 1)

NextPtr(p) == (p + 1) % (2 * Half)
Idx(p) == p % Half
ReadMem(m, i) == IF i \in Address THEN m[i] ELSE NoData
WriteMem(m, i, d) == IF i \in Address THEN [m EXCEPT ![i] = d] ELSE m

(* A Gray-coded pointer is a vector of bits.  ShiftRight(p)[i] is p >> i.  *)
BitIndex == 0..(PTR_W - 1)
Gray == [BitIndex -> {0, 1}]
ShiftRight(p) == LET shifted[i \in 0..PTR_W] == IF i = 0 THEN p ELSE shifted[i - 1] \div 2
                 IN  shifted
Bit(p, i) == ShiftRight(p)[i] % 2

(* bin2gray and gray2bin, tabulated over all pointers: b ^ (b >> 1), and   *)
(* its inverse, bit i of which is the parity of the Gray bits from i up.   *)
GrayOf == [b \in Ptr |-> [i \in BitIndex |-> (Bit(b, i) + Bit(b, i + 1)) % 2]]
BinOf ==
    LET parity(g, i) == Cardinality({j \in i..(PTR_W - 1) : g[j] = 1}) % 2
    IN  [g \in Gray |-> CHOOSE b \in Ptr : \A i \in BitIndex : Bit(b, i) = parity(g, i)]

uncoded(b) == [i \in BitIndex |-> Bit(b, i)]
bin2gray(b) == GrayOf[b]
gray2bin(g) == BinOf[g]

VARIABLES
    latency,    \* of the declaration: 0 combinational, 1 registered read port
    mem, wr_ptr_bin,
    rd_ptr_gray_s1, rd_ptr_gray_sync,   \* rd pointer as seen by the write side
    pushed,                             \* word accepted by the last step
    rd_ptr_bin,
    wr_ptr_gray_s1, wr_ptr_gray_sync,   \* wr pointer as seen by the read side
    head_valid, pop_data_r,             \* latency 1 only
    popped,                             \* word delivered by the last step
    edges                               \* the clocks that rose in the last step

writeSide == <<mem, wr_ptr_bin, rd_ptr_gray_s1, rd_ptr_gray_sync>>
readSide  == <<rd_ptr_bin, wr_ptr_gray_s1, wr_ptr_gray_sync, head_valid, pop_data_r>>
vars == <<latency, writeSide, readSide, pushed, popped, edges>>

wr_ptr_gray   == bin2gray(wr_ptr_bin)
rd_ptr_gray   == bin2gray(rd_ptr_bin)
rd_ptr_bin_wr == gray2bin(rd_ptr_gray_sync)
wr_ptr_bin_rd == gray2bin(wr_ptr_gray_sync)

full_r      == wr_ptr_bin # rd_ptr_bin_wr /\ Idx(wr_ptr_bin) = Idx(rd_ptr_bin_wr)
push_ready  == OVERFLOW \/ ~full_r
raw_empty_r == rd_ptr_bin = wr_ptr_bin_rd
rd_ptr_next == NextPtr(rd_ptr_bin)
next_empty_r == rd_ptr_next = wr_ptr_bin_rd
pop_valid   == IF latency = 1 THEN head_valid ELSE ~raw_empty_r
pop_data    == IF latency = 1 THEN pop_data_r ELSE ReadMem(mem, Idx(rd_ptr_bin))

Init ==
    /\ latency \in {0, 1}
    /\ mem = [i \in Address |-> NoData]
    /\ wr_ptr_bin = 0 /\ rd_ptr_bin = 0
    /\ rd_ptr_gray_s1 = bin2gray(0) /\ rd_ptr_gray_sync = bin2gray(0)
    /\ wr_ptr_gray_s1 = bin2gray(0) /\ wr_ptr_gray_sync = bin2gray(0)
    /\ head_valid = FALSE /\ pop_data_r = NoData
    /\ pushed = NoData /\ popped = NoData /\ edges = {}

(* What a flip-flop may capture while its input goes from old to new.      *)
Sampled(old, new) ==
    {[i \in BitIndex |-> IF i \in late THEN old[i] ELSE new[i]] :
         late \in SUBSET {i \in BitIndex : old[i] # new[i]}}

(* posedge wr_clk: the write port, and the read pointer's synchronizer.    *)
(* push_data is NoData while push_valid is low.                            *)
Push(push_data) ==
    LET push == push_data # NoData /\ push_ready
    IN  /\ mem' = IF push THEN WriteMem(mem, Idx(wr_ptr_bin), push_data) ELSE mem
        /\ wr_ptr_bin' = IF push THEN NextPtr(wr_ptr_bin) ELSE wr_ptr_bin
        /\ pushed' = IF push THEN push_data ELSE NoData

SyncReadPointerOnce ==
    UNCHANGED rd_ptr_gray_sync /\ rd_ptr_gray_s1' \in Sampled(rd_ptr_gray, rd_ptr_gray')
SyncReadPointer ==
    /\ rd_ptr_gray_s1' \in Sampled(rd_ptr_gray, rd_ptr_gray')
    /\ rd_ptr_gray_sync' = rd_ptr_gray_s1

(* The registered read port: fetch the head when none is held, or the      *)
(* following word when the held one is popped.                             *)
PrefetchSameWord(pop_ready) ==
    /\ rd_ptr_bin' = IF head_valid /\ pop_ready THEN rd_ptr_next ELSE rd_ptr_bin
    /\ head_valid' = (~raw_empty_r \/ (head_valid /\ ~pop_ready))
    /\ pop_data_r' = IF raw_empty_r THEN pop_data_r ELSE ReadMem(mem, Idx(rd_ptr_bin))

Prefetch(pop_ready) ==
    /\ rd_ptr_bin' = IF head_valid /\ pop_ready THEN rd_ptr_next ELSE rd_ptr_bin
    /\ head_valid' = CASE ~head_valid              -> ~raw_empty_r
                       [] head_valid /\ pop_ready  -> ~next_empty_r
                       [] head_valid /\ ~pop_ready -> TRUE
    /\ pop_data_r' =
         CASE ~head_valid /\ ~raw_empty_r -> ReadMem(mem, Idx(rd_ptr_bin))
           [] head_valid /\ pop_ready /\ ~next_empty_r -> ReadMem(mem, Idx(rd_ptr_next))
           [] OTHER -> pop_data_r

CombinationalRead(pop_ready) ==
    /\ rd_ptr_bin' = IF pop_valid /\ pop_ready THEN rd_ptr_next ELSE rd_ptr_bin
    /\ UNCHANGED <<head_valid, pop_data_r>>

(* posedge rd_clk: the read port, and the write pointer's synchronizer.    *)
Pop(pop_ready) ==
    /\ IF latency = 1 THEN Prefetch(pop_ready) ELSE CombinationalRead(pop_ready)
    /\ popped' = IF pop_valid /\ pop_ready THEN pop_data ELSE NoData

SyncWritePointerOnce ==
    UNCHANGED wr_ptr_gray_sync /\ wr_ptr_gray_s1' \in Sampled(wr_ptr_gray, wr_ptr_gray')
SyncWritePointer ==
    /\ wr_ptr_gray_s1' \in Sampled(wr_ptr_gray, wr_ptr_gray')
    /\ wr_ptr_gray_sync' = wr_ptr_gray_s1

WriteClock(push_data) ==
    /\ Push(push_data) /\ UNCHANGED <<latency, readSide>> /\ popped' = NoData
    /\ SyncReadPointer /\ edges' = {"wr_clk"}
ReadClock(pop_ready) ==
    /\ Pop(pop_ready) /\ UNCHANGED <<latency, writeSide>> /\ pushed' = NoData
    /\ SyncWritePointer /\ edges' = {"rd_clk"}
BothClocks(push_data, pop_ready) ==
    /\ Push(push_data) /\ Pop(pop_ready)
    /\ SyncReadPointer /\ SyncWritePointer /\ edges' = {"wr_clk", "rd_clk"}
    /\ UNCHANGED latency

(* A reset pulse.  The write port has no reset: edges of wr_clk during the *)
(* pulse still write the slot of pointer 0.                                *)
Reset ==
    /\ mem' \in {mem} \cup {WriteMem(mem, Idx(0), d) : d \in Data}
    /\ wr_ptr_bin' = 0 /\ rd_ptr_bin' = 0
    /\ rd_ptr_gray_s1' = bin2gray(0) /\ rd_ptr_gray_sync' = bin2gray(0)
    /\ wr_ptr_gray_s1' = bin2gray(0) /\ wr_ptr_gray_sync' = bin2gray(0)
    /\ head_valid' = FALSE
    /\ pushed' = NoData /\ popped' = NoData /\ edges' = {}
    /\ UNCHANGED <<latency, pop_data_r>>

Next ==
    \/ \E push_data \in Data \cup {NoData} : WriteClock(push_data)
    \/ \E pop_ready \in BOOLEAN : ReadClock(pop_ready)
    \/ \E push_data \in Data \cup {NoData}, pop_ready \in BOOLEAN :
           BothClocks(push_data, pop_ready)
    \/ Reset

Spec == Init /\ [][Next]_vars

(* Both clocks keep running.  Nothing is assumed of push_valid, pop_ready  *)
(* or the reset.                                                           *)
FairSpec ==
    /\ Spec
    /\ []<><<"wr_clk" \in edges'>>_vars
    /\ []<><<"rd_clk" \in edges'>>_vars
-----------------------------------------------------------------------------
Distance(wr, rd) == (wr - rd) % (2 * Half)
Count == Distance(wr_ptr_bin, rd_ptr_bin)
Stored == [i \in 1..Count |-> ReadMem(mem, Idx((rd_ptr_bin + i - 1) % (2 * Half)))]

(* Each side sees the other's pointer late but never wrong: the views are  *)
(* ordered in age, never pass the real pointer and never fall more than    *)
(* DEPTH behind the other one.  So full_r and empty_r err only on the safe *)
(* side, whatever the two clocks do.                                       *)
ViewsAreLate ==
    LET rd_s1 == gray2bin(rd_ptr_gray_s1)
        wr_s1 == gray2bin(wr_ptr_gray_s1)
    IN  /\ Count <= Distance(wr_ptr_bin, rd_s1)
        /\ Distance(wr_ptr_bin, rd_s1) <= Distance(wr_ptr_bin, rd_ptr_bin_wr)
        /\ Distance(wr_ptr_bin, rd_ptr_bin_wr) <= DEPTH
        /\ Distance(wr_ptr_bin_rd, rd_ptr_bin) <= Distance(wr_s1, rd_ptr_bin)
        /\ Distance(wr_s1, rd_ptr_bin) <= Count

(* The circuit carries words across the clock domains in order, each once, *)
(* for every interleaving of the clocks and every sampling outcome.        *)
Elastic == INSTANCE ElasticFifoSpec WITH queue <- Stored
ImplementsElasticQueue == Elastic!Spec

(* A stored word is eventually offered to the reader, and room eventually  *)
(* seen by the writer: no pointer update is lost between the domains.      *)
PointersArrive ==
    /\ (Count > 0) ~> (pop_valid \/ Count = 0)
    /\ (Count < DEPTH) ~> (push_ready \/ Count = DEPTH)
=============================================================================
