---------------------------- MODULE FifoPointers ----------------------------
(***************************************************************************)
(* Pointer arithmetic shared by the synchronous SystemVerilog FIFO bodies  *)
(* of codegen/fifo.rs.                                                     *)
(*                                                                         *)
(* The compiler looks at the DEPTH literal of the *declaration*            *)
(* (DECL_DEPTH) to choose a body, and the emitted module is elaborated     *)
(* with the DEPTH of the *instance*.  The power-of-two body lets pointers  *)
(* overflow at 2^PTR_W and indexes memory with their low bits; the general *)
(* body wraps at 2*DEPTH and subtracts DEPTH.  Both are the same circuit   *)
(* over a ring of 2*Half pointers, Half being 2^$clog2(DEPTH) in the first *)
(* body and DEPTH in the second.                                           *)
(***************************************************************************)
EXTENDS Integers

CONSTANTS
    DEPTH,       \* DEPTH of the instance: size of mem
    DECL_DEPTH,  \* the literal default of `param DEPTH` in the declaration
    OVERFLOW,    \* param OVERFLOW != 0
    Data,        \* payload words
    NoData       \* the unknown word X, and "no word"

IsPowerOfTwo(n) == \E k \in 0..n : n = 2^k

(* Which body emit_fifo selects.                                           *)
use_general_depth == ~ (DECL_DEPTH >= 2 /\ IsPowerOfTwo(DECL_DEPTH))

(* $clog2(1) = 0 gives the power-of-two body an empty part-select, so an   *)
(* instance of it has DEPTH >= 2.                                          *)
ASSUME FifoAssumption ==
    /\ DEPTH \in Nat \ {0}
    /\ DECL_DEPTH \in Nat \ {0}
    /\ OVERFLOW \in BOOLEAN
    /\ NoData \notin Data
    /\ use_general_depth \/ DEPTH >= 2

(* 2^$clog2(DEPTH): the least power of two that is at least DEPTH.         *)
IsCeilPow2(h) ==
    /\ IsPowerOfTwo(h)
    /\ \A g \in DEPTH..(2 * DEPTH) : IsPowerOfTwo(g) => h <= g

CeilPow2 == CHOOSE h \in DEPTH..(2 * DEPTH) : IsCeilPow2(h)

Half == IF use_general_depth THEN DEPTH ELSE CeilPow2

Ptr == 0..(2 * Half - 1)
Address == 0..(DEPTH - 1)

(* ptr + 1, truncated to PTR_W bits or reset after PTR_LAST.               *)
NextPtr(p) == IF p = 2 * Half - 1 THEN 0 ELSE p + 1

(* ptr[PTR_W-2:0], or wr_idx / rd_idx: the memory index of a pointer.      *)
Idx(p) == IF p >= Half THEN p - Half ELSE p

IsFullLowBitsOnly(wr, rd) == Idx(wr) = Idx(rd)
IsFull(wr, rd) == wr # rd /\ Idx(wr) = Idx(rd)

(* Number of pointer steps from rd to wr, and the pointer i steps after p. *)
Distance(wr, rd) == IF wr >= rd THEN wr - rd ELSE wr + 2 * Half - rd
PtrFrom(p, i) == IF p + i >= 2 * Half THEN p + i - 2 * Half ELSE p + i

(* Array accesses: an index outside the array reads X and writes nothing.  *)
ReadMem(m, i) == IF i \in Address THEN m[i] ELSE NoData
WriteMem(m, i, d) == IF i \in Address THEN [m EXCEPT ![i] = d] ELSE m

(* The words between two pointers, oldest first.                           *)
Words(m, wr, rd) ==
    [i \in 1..Distance(wr, rd) |-> ReadMem(m, Idx(PtrFrom(rd, i - 1)))]
=============================================================================
