--------------------------------- MODULE Vyukov -------------------------------
(***************************************************************************)
(* The baseline queue the channels are measured against: a bounded ring in *)
(* which producers claim a ticket with a compare-and-swap on `tail` after  *)
(* the cell's sequence number has told them that its slot is free.         *)
(* Steps are the atomic accesses, taken one at a time.                     *)
(***************************************************************************)
EXTENDS Cursors, Sequences

CONSTANTS Producers, MaxMsgs,   \* bound: pushes by one producer
          NoData

VARIABLES cells,     \* per slot: sequence number and data
          tail, head,
          prod,      \* per producer: where its push is, the ticket it looks at
          pop,       \* the consumer: the value it has read, or nothing
          ring,      \* "live", or "dropped"
          delivered, \* the value handed to the program last
          took,      \* history: per value, how often it was handed over or dropped
          accepted,  \* history: values whose push ended with Ok
          moves      \* history: tickets claimed since each producer loaded its `pos`

refVars == <<cells, tail, head, prod, pop, ring, delivered, took, accepted, moves>>

Msg(p, k) == <<p, k>>
Pushed == Producers \X (1 .. MaxMsgs)

RefInit ==
    /\ cells = [s \in Slots |-> [seq |-> s, data |-> NoData]]
    /\ tail = 0 /\ head = 0
    /\ prod = [p \in Producers |-> [pc |-> "idle", pos |-> 0, n |-> 0, full |-> 0]]
    /\ pop = <<>> /\ ring = "live" /\ delivered = NoData
    /\ took = [v \in Pushed \cup {NoData} |-> 0]
    /\ accepted = {} /\ moves = [p \in Producers |-> 0]

Stage(p, label) == ring = "live" /\ prod[p].pc = label
Set(p, label) == prod' = [prod EXCEPT ![p].pc = label]

\* A producer with a ticket in its hand that it has not claimed.
Looking(p) == prod[p].pc \in {"test", "cas"}

----------------------------------------------------------------------------
(* Producer::push                                                          *)

LoadTail(p) ==
    /\ \/ Stage(p, "idle") /\ prod[p].n < MaxMsgs
          /\ prod' = [prod EXCEPT ![p].pc = "test", ![p].pos = tail, ![p].n = @ + 1]
       \/ Stage(p, "load") /\ prod' = [prod EXCEPT ![p].pc = "test", ![p].pos = tail]
    /\ moves' = [moves EXCEPT ![p] = 0]
    /\ UNCHANGED <<cells, tail, head, pop, ring, delivered, took, accepted>>

\* The difference as isize: the upper half of its values is negative.
Diff(p) == WSub(cells[Slot(prod[p].pos)].seq, prod[p].pos)
Negative(d) == d >= W \div 2

\* Broken: a slot that is not free is full, also when only the ticket is stale.
TestSeqTwoWay(p) ==
    /\ Stage(p, "test")
    /\ \/ Diff(p) = 0 /\ Set(p, "cas")
       \/ Diff(p) # 0 /\ prod' = [prod EXCEPT ![p].pc = "idle", ![p].full = @ + 1]
    /\ UNCHANGED <<cells, tail, head, pop, ring, delivered, took, accepted, moves>>

TestSeq(p) ==
    /\ Stage(p, "test")
    /\ \/ Diff(p) = 0 /\ Set(p, "cas")
       \/ Negative(Diff(p)) /\ prod' = [prod EXCEPT ![p].pc = "idle", ![p].full = @ + 1]
       \/ Diff(p) # 0 /\ ~Negative(Diff(p)) /\ Set(p, "load")
    /\ UNCHANGED <<cells, tail, head, pop, ring, delivered, took, accepted, moves>>

\* compare_exchange_weak may fail for no reason.  Between a load and its use the tail does
\* not move by half the range of a 64-bit counter, the sign of which TestSeq relies on.
CasTail(p) ==
    /\ Stage(p, "cas")
    /\ \/ /\ tail = prod[p].pos /\ tail' = WAdd(tail, 1) /\ Set(p, "write")
          /\ \A q \in Producers : Looking(q) => moves[q] < W \div 2 - N
          /\ moves' = [q \in Producers |-> IF Looking(q) THEN moves[q] + 1 ELSE moves[q]]
       \/ /\ prod' = [prod EXCEPT ![p].pc = "test", ![p].pos = tail] /\ UNCHANGED tail
          /\ moves' = [moves EXCEPT ![p] = 0]
    /\ UNCHANGED <<cells, head, pop, ring, delivered, took, accepted>>

WriteData(p) ==
    /\ Stage(p, "write") /\ Set(p, "publish")
    /\ cells' = [cells EXCEPT ![Slot(prod[p].pos)].data = Msg(p, prod[p].n)]
    /\ UNCHANGED <<tail, head, pop, ring, delivered, took, accepted, moves>>

StoreSeq(p) ==
    /\ Stage(p, "publish") /\ Set(p, "idle")
    /\ cells' = [cells EXCEPT ![Slot(prod[p].pos)].seq = WAdd(prod[p].pos, 1)]
    /\ accepted' = accepted \cup {Msg(p, prod[p].n)}
    /\ UNCHANGED <<tail, head, pop, ring, delivered, took, moves>>

PushSteps(p) == LoadTail(p) \/ TestSeq(p) \/ CasTail(p) \/ WriteData(p) \/ StoreSeq(p)

----------------------------------------------------------------------------
(* Consumer::pop                                                           *)

ReadHead ==
    /\ ring = "live" /\ pop = <<>>
    /\ cells[Slot(head)].seq = WAdd(head, 1)
    /\ pop' = <<cells[Slot(head)].data>>
    /\ UNCHANGED <<cells, tail, head, prod, ring, delivered, took, accepted, moves>>

ReleaseHead ==
    /\ ring = "live" /\ pop # <<>>
    /\ cells' = [cells EXCEPT ![Slot(head)].seq = WAdd(head, N)]
    /\ head' = WAdd(head, 1) /\ pop' = <<>>
    /\ delivered' = pop[1] /\ took' = [took EXCEPT ![pop[1]] = @ + 1]
    /\ UNCHANGED <<tail, prod, ring, accepted, moves>>

----------------------------------------------------------------------------

\* Ring::drop: of the last N tickets, those whose cell holds an unread value.
Unread == {idx \in Window(WSub(tail, N), tail) : cells[Slot(idx)].seq = WAdd(idx, 1)}

DropQueue ==
    /\ ring = "live" /\ pop = <<>> /\ \A p \in Producers : prod[p].pc = "idle"
    /\ ring' = "dropped"
    /\ took' = [v \in DOMAIN took |->
                    took[v] + Cardinality({idx \in Unread : cells[Slot(idx)].data = v})]
    /\ UNCHANGED <<cells, tail, head, prod, pop, delivered, accepted, moves>>

RefNext == (\E p \in Producers : PushSteps(p)) \/ ReadHead \/ ReleaseHead \/ DropQueue

RefSpec == RefInit /\ [][RefNext]_refVars

----------------------------------------------------------------------------
(* Properties                                                              *)

RefTypeOK ==
    /\ cells \in [Slots -> [seq : Cursor, data : Pushed \cup {NoData}]]
    /\ tail \in Cursor /\ head \in Cursor /\ WSub(tail, head) <= N
    /\ \A p \in Producers : prod[p].pos \in Cursor

\* No value is lost, duplicated or made up, from the first push to the ring's drop.
EachValueOnce ==
    ring = "dropped" => \A v \in DOMAIN took : took[v] = IF v \in accepted THEN 1 ELSE 0

\* The queue of tickets between head and tail.
Claimant(idx) == CHOOSE p \in Producers : prod[p].pos = idx /\ prod[p].pc \in {"write", "publish"}
Entry(idx) ==
    IF cells[Slot(idx)].seq = WAdd(idx, 1)
    THEN [state |-> "item", value |-> cells[Slot(idx)].data]
    ELSE [state |-> "open", by |-> Claimant(idx)]
Waiting == [i \in 1 .. WSub(tail, head) |-> Entry(WAdd(head, i - 1))]
Fifo == INSTANCE TicketFifo WITH
    Values <- Pushed, Uninit <- NoData, live <- ring = "live",
    queue <- IF ring = "dropped" THEN <<>> ELSE Waiting

IsTicketFifo == Fifo!Spec

\* A push is refused only while N tickets are taken (ref_vyukov.rs:111-112), also when
\* the ticket it looked at is no longer the tail.
FullIsFull ==
    [][\A p \in Producers : prod'[p].full # prod[p].full => WSub(tail, head) = N]_refVars

\* The queue loses, repeats and makes up no value, takes the steps of a FIFO of tickets, and
\* refuses a push only while N tickets are taken.
ReferenceIsFifo == [](RefTypeOK /\ EachValueOnce) /\ IsTicketFifo /\ FullIsFull
==============================================================================
