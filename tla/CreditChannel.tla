--------------------------- MODULE CreditChannel ---------------------------
(***************************************************************************)
(* A `credit_channel` of a bus: the sender's credit counter                *)
(* (emit_credit_channel_state), the receiver's buffer                      *)
(* (emit_credit_channel_receiver_state) and the two wires between them.    *)
(* A design may put pipeline registers on the wires: words and returned    *)
(* credits take any time to arrive, none at all included.                  *)
(*                                                                         *)
(* The user sends only with can_send and returns a credit only with valid, *)
(* which the emitted assertions send_requires_credit and                   *)
(* credit_return_requires_buffered demand.  A step is a clock edge.        *)
(***************************************************************************)
EXTENDS Naturals, Sequences

CONSTANTS
    DEPTH,
    RANGE,          \* 2^$clog2(DEPTH + 1): the counters are that wide
    Data, NoData

ASSUME CreditChannelAssumption ==
    /\ DEPTH \in Nat \ {0}
    /\ RANGE \in Nat /\ RANGE > DEPTH
    /\ NoData \notin Data

VARIABLES
    registered,             \* CAN_SEND_REGISTERED # 0
    credit, can_send_r,     \* sender
    link,                   \* words sent, not yet at the receiver
    buf, head, tail, occ,   \* receiver
    returning,              \* credits returned, not yet at the sender
    pushed, popped          \* words sent and consumed by the last edge

sender == <<credit, can_send_r>>
receiver == <<buf, head, tail, occ>>
vars == <<registered, sender, link, receiver, returning, pushed, popped>>

can_send == IF registered THEN can_send_r ELSE credit # 0
valid == occ # 0
data == buf[head]

Init ==
    /\ registered \in BOOLEAN
    /\ credit = DEPTH /\ can_send_r = TRUE
    /\ link = <<>> /\ returning = 0
    /\ buf = [i \in 0..(DEPTH - 1) |-> NoData]
    /\ head = 0 /\ tail = 0 /\ occ = 0
    /\ pushed = NoData /\ popped = NoData

(* The flop holds whether the counter will be nonzero after this edge.     *)
CanSendStale(send_valid, credit_return) == credit # 0
CanSendNext(send_valid, credit_return) ==
    IF credit_return /\ ~send_valid THEN TRUE
    ELSE IF send_valid /\ ~credit_return THEN credit > 1
    ELSE credit # 0

CreditIgnoringBoth(send_valid, credit_return) ==
    IF send_valid THEN (credit + RANGE - 1) % RANGE
    ELSE IF credit_return THEN (credit + 1) % RANGE
    ELSE credit
CreditNext(send_valid, credit_return) ==
    IF send_valid /\ ~credit_return THEN (credit + RANGE - 1) % RANGE
    ELSE IF credit_return /\ ~send_valid THEN (credit + 1) % RANGE
    ELSE credit

Sender(send_valid, credit_return) ==
    /\ credit' = CreditNext(send_valid, credit_return)
    /\ can_send_r' = IF registered THEN CanSendNext(send_valid, credit_return) ELSE can_send_r

Step(ptr) == (ptr + 1) % DEPTH

OccPushFirst(push, pop_fire) ==
    IF push THEN (occ + 1) % RANGE ELSE IF pop_fire THEN (occ + RANGE - 1) % RANGE ELSE occ
OccNext(push, pop_fire) ==
    IF push /\ ~pop_fire THEN (occ + 1) % RANGE
    ELSE IF ~push /\ pop_fire THEN (occ + RANGE - 1) % RANGE
    ELSE occ

Receiver(push, word, pop) ==
    LET pop_fire == pop /\ valid
    IN  /\ buf' = IF push THEN [buf EXCEPT ![tail] = word] ELSE buf
        /\ tail' = IF push THEN Step(tail) ELSE tail
        /\ head' = IF pop_fire THEN Step(head) ELSE head
        /\ occ' = OccNext(push, pop_fire)
        /\ popped' = IF pop_fire THEN data ELSE NoData

(* send: the word driven with send_valid, NoData for none; arrive: a word  *)
(* leaves the link; pop: the receiver drives credit_return; back: a credit *)
(* reaches the sender.                                                     *)
Edge(send, arrive, pop, back) ==
    LET sent == IF send = NoData THEN link ELSE Append(link, send)
        owed == IF pop THEN returning + 1 ELSE returning
    IN  /\ send # NoData => can_send
        /\ arrive => sent # <<>>
        /\ pop => valid
        /\ back => owed > 0
        /\ Sender(send # NoData, back)
        /\ Receiver(arrive, IF arrive THEN Head(sent) ELSE NoData, pop)
        /\ link' = IF arrive THEN Tail(sent) ELSE sent
        /\ returning' = IF back THEN owed - 1 ELSE owed
        /\ pushed' = send
        /\ UNCHANGED registered

(* Both modules and the registers between them share the reset.            *)
Reset ==
    /\ credit' = DEPTH
    /\ can_send_r' = IF registered THEN DEPTH # 0 ELSE can_send_r
    /\ head' = 0 /\ tail' = 0 /\ occ' = 0
    /\ link' = <<>> /\ returning' = 0
    /\ pushed' = NoData /\ popped' = NoData
    /\ UNCHANGED <<registered, buf>>

Words == Data \cup {NoData}
Next ==
    \/ \E send \in Words, arrive, pop, back \in BOOLEAN : Edge(send, arrive, pop, back)
    \/ Reset

Spec == Init /\ [][Next]_vars

(* Wires deliver what is on them and the receiver keeps consuming; nothing *)
(* is assumed of the sender.                                               *)
Arrive == \E send \in Words, pop, back \in BOOLEAN : Edge(send, TRUE, pop, back)
Pop == \E send \in Words, arrive, back \in BOOLEAN : Edge(send, arrive, TRUE, back)
Back == \E send \in Words, arrive, pop \in BOOLEAN : Edge(send, arrive, pop, TRUE)
FairSpec == Spec /\ WF_vars(Arrive) /\ WF_vars(Pop) /\ WF_vars(Back)
-----------------------------------------------------------------------------
(* Registers keep their ranges; the counters never wrap.                   *)
TypeOK ==
    /\ registered \in BOOLEAN
    /\ credit \in 0..DEPTH /\ can_send_r \in BOOLEAN
    /\ link \in Seq(Data) /\ returning \in Nat
    /\ buf \in [0..(DEPTH - 1) -> Words]
    /\ head \in 0..(DEPTH - 1) /\ tail \in 0..(DEPTH - 1) /\ occ \in 0..DEPTH
    /\ pushed \in Words /\ popped \in Words

(* Every credit is at the sender, on a wire or stands for a word: none is  *)
(* lost or made up when send and return coincide, so the buffer has room   *)
(* for every word on its way.                                              *)
CreditsConserved == credit + Len(link) + occ + returning = DEPTH

(* can_send, flopped or not, is true exactly when a credit is left: a send *)
(* gated on it never meets an empty counter and no cycle is wasted.        *)
CanSendExact == can_send <=> credit # 0

(* Words reach the consumer in order and once, at most DEPTH of them are   *)
(* under way, and a full buffer is never written.                          *)
Buffered == [i \in 1..occ |-> buf[(head + (i - 1)) % DEPTH]]
Elastic == INSTANCE ElasticFifoSpec WITH queue <- Buffered \o link
ImplementsElasticQueue == Elastic!Spec

(* A sender out of credit gets one back.                                   *)
CreditReturns == ~can_send ~> can_send
=============================================================================
