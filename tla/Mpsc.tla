--------------------------------- MODULE Mpsc --------------------------------
(***************************************************************************)
(* The MPSC channel (crates/channel/src/mpsc/queue.rs): a ring of N cells, *)
(* each with a sequence number, a global ticket counter `tail`, and a      *)
(* signed counter `tickets` of free credits.  A producer takes a credit,   *)
(* then a ticket, then writes the cell of that ticket; the only consumer   *)
(* pops in ticket order, recycles the cell and returns the credit.         *)
(*                                                                         *)
(* One action is one atomic access to shared memory, with the private      *)
(* computation that surrounds it.  Producers are threads; a thread runs    *)
(* one call at a time on the handle it owns.                               *)
(*                                                                         *)
(* Memory order.  `tickets` and `tail` are Relaxed, so a producer may be   *)
(* granted a credit before it can see the store that recycled the cell:    *)
(* a recycle store is issued by PopCell into `recycling` and becomes       *)
(* visible later, in any order (RecycleVisible).  Publications need no     *)
(* such delay: nobody acts on a ticket before its `seq` is seen.           *)
(***************************************************************************)
EXTENDS Cursors, Integers

CONSTANTS Producers,      \* threads that may hold a Producer handle
          Values,         \* payloads
          Uninit,         \* content of a cell that holds no value
          ExplicitClose   \* TRUE if the program may call close() on a handle

ASSUME MpscAssumption ==
    /\ IsFiniteSet(Producers)
    /\ Uninit \notin Values
    /\ ExplicitClose \in BOOLEAN

VARIABLES
    \* Ring
    seq, data,            \* per cell: sequence number, content
    tail, tickets, closed, producers_count,
    recycling,            \* tickets whose recycle store is not visible yet
    \* per producer thread
    handle,               \* the threads that own a Producer
    ppc, kind,            \* program counter; the call in progress
    owed, grant,          \* credits over-taken / held, before the ticket
    pos, left,            \* ReservedRun: next ticket to fill, how many left
    \* Consumer
    head, cached_tail,
    cpc, op, remaining,   \* program counter; call in progress; Drain.remaining
    item,                 \* the value handed to the program last
    outcome,              \* why the last call returned no value
    sawClosed             \* is_closed() returned true

ring     == <<seq, data, tail, tickets, closed, producers_count, recycling>>
producer == <<handle, ppc, kind, owed, grant, pos, left>>
consumer == <<head, cached_tail, cpc, op, remaining, item, outcome, sawClosed>>
vars     == <<ring, producer, consumer>>

ProducerPC == {"idle", "load", "take", "refund", "ticket", "fill", "write",
               "abandon", "closing"}
ConsumerPC == {"idle", "check", "look", "read", "credit", "skip", "drain",
               "gone", "freed"}

TypeOK ==
    /\ seq \in [Slots -> Cursor]
    /\ data \in [Slots -> Values \cup {Uninit}]
    /\ tail \in Cursor /\ tickets \in Int
    /\ closed \in BOOLEAN /\ producers_count \in Nat
    /\ recycling \in SUBSET Cursor
    /\ handle \in SUBSET Producers
    /\ ppc \in [Producers -> ProducerPC]
    /\ kind \in [Producers -> {"push", "iter"}]
    /\ owed \in [Producers -> 0 .. N]
    /\ grant \in [Producers -> 0 .. N]
    /\ pos \in [Producers -> Cursor]
    /\ left \in [Producers -> 0 .. N]
    /\ head \in Cursor /\ cached_tail \in Cursor
    /\ cpc \in ConsumerPC /\ op \in {"pop", "peek", "drain"}
    /\ remaining \in Cursor
    /\ item \in Values \cup {Uninit}
    /\ outcome \in {"none", "Empty", "Busy", "Done"}
    /\ sawClosed \in BOOLEAN

\* channel(): one producer handle, one consumer, cell i starts at seq i.
Init ==
    /\ seq = [s \in Slots |-> s]
    /\ data = [s \in Slots |-> Uninit]
    /\ tail = 0 /\ tickets = N
    /\ closed = FALSE /\ producers_count = 1
    /\ recycling = {}
    /\ \E p \in Producers : handle = {p}
    /\ ppc = [p \in Producers |-> "idle"]
    /\ kind = [p \in Producers |-> "push"]
    /\ owed = [p \in Producers |-> 0]
    /\ grant = [p \in Producers |-> 0]
    /\ pos = [p \in Producers |-> 0]
    /\ left = [p \in Producers |-> 0]
    /\ head = 0 /\ cached_tail = 0
    /\ cpc = "idle" /\ op = "pop" /\ remaining = 0
    /\ item = Uninit /\ outcome = "none" /\ sawClosed = FALSE

------------------------------------------------------------------------------
(* Producer: push and push_iter.                                           *)

\* is_closed() at the start of push / push_iter: a closed channel returns the
\* value to the caller and changes nothing, so only the open case is a step.
StartCall(p, k) ==
    /\ ppc[p] = "idle" /\ p \in handle
    /\ ~closed
    /\ kind' = [kind EXCEPT ![p] = k]
    /\ ppc' = [ppc EXCEPT ![p] = IF k = "push" THEN "load" ELSE "take"]
    /\ UNCHANGED <<ring, handle, owed, grant, pos, left, consumer>>

Idle(p) == ppc' = [ppc EXCEPT ![p] = "idle"] /\ kind' = [kind EXCEPT ![p] = "push"]

\* try_reserve, the plain load: no credit means ChannelFull at once.
LoadTickets(p) ==
    /\ ppc[p] = "load"
    /\ IF tickets <= 0
       THEN Idle(p)
       ELSE ppc' = [ppc EXCEPT ![p] = "take"] /\ UNCHANGED kind
    /\ UNCHANGED <<ring, handle, owed, grant, pos, left, consumer>>

\* Broken: nothing keeps a negative counter out, or the grant is not limited.
ClampAbove(x, lo, hi) == IF x > hi THEN hi ELSE x
GrantAll(x, lo, hi) == hi

\* try_reserve / push_iter: credits granted out of the previous value.
Clamp(x, lo, hi) == IF x < lo THEN lo ELSE IF x > hi THEN hi ELSE x

\* tickets.fetch_sub(wanted): 1 for push, min(iter.len(), N) for push_iter.
\* What the previous value could not cover is refunded by a second access.
TakeCredits(p, wanted) ==
    /\ ppc[p] = "take"
    /\ kind[p] = "push" => wanted = 1
    /\ tickets' = tickets - wanted
    /\ LET granted == Clamp(tickets, 0, wanted)
       IN /\ grant' = [grant EXCEPT ![p] = granted]
          /\ owed' = [owed EXCEPT ![p] = wanted - granted]
          /\ ppc' = [ppc EXCEPT ![p] = IF granted < wanted THEN "refund" ELSE "ticket"]
    /\ UNCHANGED <<seq, data, tail, closed, producers_count, recycling,
                   handle, kind, pos, left, consumer>>

\* tickets.fetch_add(wanted - granted); a call granted nothing ends here
\* (ChannelFull, or Ok(0) for a batch).
Refund(p) ==
    /\ ppc[p] = "refund"
    /\ tickets' = tickets + owed[p]
    /\ owed' = [owed EXCEPT ![p] = 0]
    /\ IF grant[p] = 0
       THEN Idle(p)
       ELSE ppc' = [ppc EXCEPT ![p] = "ticket"] /\ UNCHANGED kind
    /\ UNCHANGED <<seq, data, tail, closed, producers_count, recycling,
                   handle, grant, pos, left, consumer>>

\* tail.fetch_add(granted): the run of tickets is contiguous.
TakeTickets(p) ==
    /\ ppc[p] = "ticket"
    /\ tail' = WAdd(tail, grant[p])
    /\ pos' = [pos EXCEPT ![p] = tail]
    /\ left' = [left EXCEPT ![p] = grant[p]]
    /\ grant' = [grant EXCEPT ![p] = 0]
    /\ ppc' = [ppc EXCEPT ![p] = "fill"]
    /\ UNCHANGED <<seq, data, tickets, closed, producers_count, recycling,
                   handle, kind, owed, consumer>>

\* Broken: the cell is written at once.
WriteWithoutSpin(p) ==
    /\ ppc[p] = "fill"
    /\ ppc' = [ppc EXCEPT ![p] = "write"]
    /\ UNCHANGED <<ring, handle, kind, owed, grant, pos, left, consumer>>

\* write_cell, the spin: until the recycle of the previous lap is visible.
AwaitSlot(p) ==
    /\ ppc[p] = "fill"
    /\ seq[Slot(pos[p])] = pos[p]
    /\ ppc' = [ppc EXCEPT ![p] = "write"]
    /\ UNCHANGED <<ring, handle, kind, owed, grant, pos, left, consumer>>

\* One ticket of the run is settled; the call returns after the last one.
NextTicket(p, again) ==
    /\ pos' = [pos EXCEPT ![p] = IF left[p] = 1 THEN 0 ELSE WAdd(pos[p], 1)]
    /\ left' = [left EXCEPT ![p] = left[p] - 1]
    /\ IF left[p] = 1
       THEN Idle(p)
       ELSE ppc' = [ppc EXCEPT ![p] = again] /\ UNCHANGED kind

\* write_cell, the value and the Release store that publishes it.
Publish(p, v) ==
    /\ ppc[p] = "write"
    /\ data' = [data EXCEPT ![Slot(pos[p])] = v]
    /\ seq' = [seq EXCEPT ![Slot(pos[p])] = WAdd(pos[p], 1)]
    /\ NextTicket(p, "fill")
    /\ UNCHANGED <<tail, tickets, closed, producers_count, recycling,
                   handle, owed, grant, consumer>>

\* push_iter: iter.next() yields None before len() said so, or panics; either
\* way ReservedRun is dropped with tickets left.
EndEarly(p) ==
    /\ ppc[p] = "fill" /\ kind[p] = "iter"
    /\ ppc' = [ppc EXCEPT ![p] = "abandon"]
    /\ UNCHANGED <<ring, handle, kind, owed, grant, pos, left, consumer>>

\* abandon_cell for one ticket of ReservedRun::drop: once the recycle of the
\* previous lap is seen, the cell goes straight to the recycled state.
Abandon(p) ==
    /\ ppc[p] = "abandon"
    /\ seq[Slot(pos[p])] = pos[p]
    /\ seq' = [seq EXCEPT ![Slot(pos[p])] = WAdd(pos[p], N)]
    /\ NextTicket(p, "abandon")
    /\ UNCHANGED <<data, tail, tickets, closed, producers_count, recycling,
                   handle, owed, grant, consumer>>

------------------------------------------------------------------------------
(* Producer handles.                                                       *)

\* Clone: p's thread adds a producer and hands the new handle to thread q.
Clone(p, q) ==
    /\ ppc[p] = "idle" /\ p \in handle
    /\ ppc[q] = "idle" /\ q \notin handle
    /\ producers_count' = producers_count + 1
    /\ handle' = handle \cup {q}
    /\ UNCHANGED <<seq, data, tail, tickets, closed, recycling,
                   ppc, kind, owed, grant, pos, left, consumer>>

\* Broken: fetch_sub taken for the new count; every drop closes.
CountIsZero == producers_count = 0
EveryHandle == TRUE

\* fetch_sub returns the previous count.
LastHandle == producers_count = 1

\* drop_producer, the fetch_sub; the last handle still has to close.
DropProducer(p) ==
    /\ ppc[p] = "idle" /\ p \in handle
    /\ producers_count' = producers_count - 1
    /\ handle' = handle \ {p}
    /\ ppc' = [ppc EXCEPT ![p] = IF LastHandle THEN "closing" ELSE "idle"]
    /\ UNCHANGED <<seq, data, tail, tickets, closed, recycling,
                   kind, owed, grant, pos, left, consumer>>

\* drop_producer, the closed store of the last producer.
CloseLast(p) ==
    /\ ppc[p] = "closing"
    /\ closed' = TRUE
    /\ Idle(p)
    /\ UNCHANGED <<seq, data, tail, tickets, producers_count, recycling,
                   handle, owed, grant, pos, left, consumer>>

\* Producer::close or Consumer::close, called by the program.
Close ==
    /\ ExplicitClose
    /\ \/ \E p \in handle : ppc[p] = "idle"
       \/ cpc = "idle"
    /\ closed' = TRUE
    /\ UNCHANGED <<seq, data, tail, tickets, producers_count, recycling,
                   producer, consumer>>

------------------------------------------------------------------------------
(* Consumer: try_pop / pop, peek, drain (and skip, clear, which drain).     *)

\* Broken: the cell is put back to its old ticket, not to the next lap's.
RecycleSameLap(t) ==
    /\ t \in recycling
    /\ seq' = [seq EXCEPT ![Slot(t)] = t]
    /\ recycling' = recycling \ {t}
    /\ UNCHANGED <<data, tail, tickets, closed, producers_count,
                   producer, consumer>>

\* The recycle store of ticket t reaches the other threads.
RecycleVisible(t) ==
    /\ t \in recycling
    /\ seq' = [seq EXCEPT ![Slot(t)] = WAdd(t, N)]
    /\ recycling' = recycling \ {t}
    /\ UNCHANGED <<data, tail, tickets, closed, producers_count,
                   producer, consumer>>

Return(result) == cpc' = "idle" /\ op' = "pop" /\ outcome' = result

\* Broken: the cached tail is never refreshed.
TailCached == cached_tail

\* check_if_empty: the tail is reloaded only when the cached one says empty.
TailSeen == IF head = cached_tail THEN tail ELSE cached_tail

\* check_if_empty in pop_inner or peek.
CheckIfEmpty(o) ==
    /\ cached_tail' = TailSeen
    /\ IF head = cached_tail'
       THEN Return("Empty")
       ELSE cpc' = "look" /\ op' = o /\ outcome' = "none"
    /\ UNCHANGED <<ring, producer, head, remaining, item, sawClosed>>

\* The call is entered ...
CallPop(o) == cpc = "idle" /\ CheckIfEmpty(o)

\* ... and loops after a run of holes was skipped.
Recheck == cpc = "check" /\ CheckIfEmpty(op)

\* drain(): snapshot of the tail.
CallDrain ==
    /\ cpc = "idle"
    /\ op' = "drain" /\ cpc' = "drain" /\ outcome' = "none"
    /\ cached_tail' = tail
    /\ remaining' = WSub(tail, head)
    /\ UNCHANGED <<ring, producer, head, item, sawClosed>>

\* Drain::next, the test of `remaining`.
DrainNext ==
    /\ cpc = "drain"
    /\ IF remaining = 0
       THEN Return("Done")
       ELSE cpc' = "look" /\ UNCHANGED <<op, outcome>>
    /\ UNCHANGED <<ring, producer, head, cached_tail, remaining, item, sawClosed>>

\* The caller drops the Drain with items left in it (skip(n), for instance).
DropDrain ==
    /\ cpc = "drain"
    /\ Return("none")
    /\ remaining' = 0
    /\ UNCHANGED <<ring, producer, head, cached_tail, item, sawClosed>>

HeadSeq       == seq[Slot(head)]

\* Broken: any sequence number but the free one is taken for a publication.
HeadNotFree   == HeadSeq # head

\* head_state, Ready and Abandoned.
HeadPublished == HeadSeq = WAdd(head, 1)
HeadAbandoned == HeadSeq = WAdd(head, N)

\* head_state from pop_inner, peek and Drain::next.  The spin is bounded, so
\* a head that is neither published nor abandoned is Pending: Busy / None.
LookAtHead ==
    /\ cpc = "look"
    /\ \/ HeadPublished /\ cpc' = "read" /\ UNCHANGED <<op, remaining, outcome>>
       \/ HeadAbandoned /\ cpc' = "skip" /\ UNCHANGED <<op, remaining, outcome>>
       \/ /\ ~HeadPublished /\ ~HeadAbandoned
          /\ Return("Busy") /\ remaining' = 0
    /\ UNCHANGED <<ring, producer, head, cached_tail, item, sawClosed>>

\* peek returns a reference: the cell is read in place and stays.
Peek ==
    /\ cpc = "read" /\ op = "peek"
    /\ item' = data[Slot(head)]
    /\ Return("none")
    /\ UNCHANGED <<ring, producer, head, cached_tail, remaining, sawClosed>>

\* pop_cell moves the value out; the recycle store is issued.
PopCell ==
    /\ cpc = "read" /\ op # "peek"
    /\ item' = data[Slot(head)]
    /\ data' = [data EXCEPT ![Slot(head)] = Uninit]
    /\ recycling' = recycling \cup {head}
    /\ cpc' = "credit"
    /\ UNCHANGED <<seq, tail, tickets, closed, producers_count, producer,
                   head, cached_tail, op, remaining, outcome, sawClosed>>

\* update_state_after_pop: head moves, the credit goes back.
ReturnCredit ==
    /\ cpc = "credit"
    /\ head' = WAdd(head, 1)
    /\ tickets' = tickets + 1
    /\ IF op = "drain"
       THEN cpc' = "drain" /\ remaining' = remaining - 1 /\ UNCHANGED <<op, outcome>>
       ELSE Return("none") /\ UNCHANGED remaining
    /\ UNCHANGED <<seq, data, tail, closed, producers_count, recycling, producer,
                   cached_tail, item, sawClosed>>

\* Broken: a skipped hole takes its credit with it.
SkipKeepsCredit ==
    /\ cpc = "skip" /\ HeadAbandoned
    /\ head' = WAdd(head, 1)
    /\ remaining' = IF remaining = 0 THEN 0 ELSE remaining - 1
    /\ UNCHANGED <<seq, data, tail, tickets, closed, producers_count, recycling,
                   producer, cached_tail, cpc, op, item, outcome, sawClosed>>

\* One iteration of skip_abandoned.  Drain subtracts the skipped slots from
\* `remaining`, saturating.
SkipAbandoned ==
    /\ cpc = "skip" /\ HeadAbandoned
    /\ head' = WAdd(head, 1)
    /\ tickets' = tickets + 1
    /\ remaining' = IF remaining = 0 THEN 0 ELSE remaining - 1
    /\ UNCHANGED <<seq, data, tail, closed, producers_count, recycling, producer,
                   cached_tail, cpc, op, item, outcome, sawClosed>>

\* skip_abandoned ends at the first slot that is not a hole.
SkipEnds ==
    /\ cpc = "skip" /\ ~HeadAbandoned
    /\ cpc' = IF op = "drain" THEN "drain" ELSE "check"
    /\ UNCHANGED <<ring, producer, head, cached_tail, op, remaining, item,
                   outcome, sawClosed>>

\* Consumer::is_closed returns true to the program.
SeeClosed ==
    /\ cpc = "idle" /\ closed
    /\ sawClosed' = TRUE
    /\ outcome' = "none"
    /\ UNCHANGED <<ring, producer, head, cached_tail, cpc, op, remaining, item>>

\* Consumer::drop.
DropConsumer ==
    /\ cpc = "idle"
    /\ cpc' = "gone" /\ outcome' = "none"
    /\ closed' = TRUE
    /\ UNCHANGED <<seq, data, tail, tickets, producers_count, recycling, producer,
                   head, cached_tail, op, remaining, item, sawClosed>>

\* Broken: the scan of Ring::drop starts one ticket late.
ResidueShort ==
    {Slot(idx) : idx \in {i \in Window(WSub(tail, N - 1), tail) :
                              seq[Slot(i)] = WAdd(i, 1)}}

\* The cells Ring::drop finds published among the last N tickets.
Residue ==
    {Slot(idx) : idx \in {i \in Window(WSub(tail, N), tail) :
                              seq[Slot(i)] = WAdd(i, 1)}}

\* The last Arc is dropped: Ring::drop drops the values left.  Dropping the
\* Arc synchronises, so every recycle store is visible.
DropRing ==
    /\ cpc = "gone" /\ handle = {} /\ \A p \in Producers : ppc[p] = "idle"
    /\ recycling = {}
    /\ cpc' = "freed"
    /\ data' = [s \in Slots |-> IF s \in Residue THEN Uninit ELSE data[s]]
    /\ UNCHANGED <<seq, tail, tickets, closed, producers_count, recycling, producer,
                   head, cached_tail, op, remaining, item, outcome, sawClosed>>

------------------------------------------------------------------------------
\* A call in progress goes on.
ProducerStep(p) ==
    \/ LoadTickets(p)
    \/ \E k \in 1 .. N : TakeCredits(p, k)
    \/ Refund(p)
    \/ TakeTickets(p)
    \/ AwaitSlot(p)
    \/ \E v \in Values : Publish(p, v)
    \/ Abandon(p)
    \/ CloseLast(p)

ConsumerStep ==
    \/ Recheck
    \/ LookAtHead
    \/ Peek
    \/ PopCell
    \/ ReturnCredit
    \/ SkipAbandoned
    \/ SkipEnds
    \/ DrainNext

\* The program makes a call, ends an iterator or drops a handle.
ProgramStep ==
    \/ \E p \in Producers :
          \/ \E k \in {"push", "iter"} : StartCall(p, k)
          \/ EndEarly(p)
          \/ DropProducer(p)
          \/ \E q \in Producers : Clone(p, q)
    \/ Close
    \/ \E o \in {"pop", "peek"} : CallPop(o)
    \/ CallDrain
    \/ DropDrain
    \/ SeeClosed
    \/ DropConsumer
    \/ DropRing

Next ==
    \/ \E p \in Producers : ProducerStep(p)
    \/ ConsumerStep
    \/ \E t \in Cursor : RecycleVisible(t)
    \/ ProgramStep

Spec == Init /\ [][Next]_vars

------------------------------------------------------------------------------
(* Safety.                                                                 *)

\* The sum of a per-producer count, as the size of a set of pairs.
Total(f) == Cardinality({x \in Producers \X (1 .. N) : x[2] <= f[x[1]]})

\* Tickets taken and not yet popped or skipped.
InRing == WSub(tail, head)

\* The credit counter may go below zero, but only by what racing calls are
\* about to refund: a credit is never granted twice.
NoOvercommit == tickets + Total(owed) >= 0

\* No credit is lost or made up by refunds, batches, abandoned runs or
\* skipped holes: free, over-taken, granted and occupied add up to N, so
\* `tail` never laps `head` and no capacity leaks.
CreditsAddUp == tickets + Total(owed) + Total(grant) + InRing = N

\* What the program counters say of the locals of a call.
CallState ==
    /\ \A p \in Producers :
          /\ ppc[p] # "refund" => owed[p] = 0
          /\ ppc[p] = "ticket" => grant[p] > 0
          /\ ppc[p] \in {"fill", "write", "abandon"} => left[p] > 0
    /\ cpc = "drain" => op = "drain"
    /\ cpc = "check" => op # "drain"
    /\ op = "drain" /\ cpc \in {"look", "read", "credit"} => remaining > 0

\* The count of handles is exact in spite of clones and drops on different
\* threads, so exactly the last drop closes: once no producer is left, the
\* channel is closed or its last producer is about to close it.
LastDropCloses ==
    /\ producers_count = Cardinality(handle)
    /\ handle = {} => closed \/ \E p \in Producers : ppc[p] = "closing"

\* The tickets p holds and has not settled.
Holds(p) == Window(pos[p], WAdd(pos[p], left[p]))

\* Exclusive access to a cell (invariant 2 of the source): a cell being
\* written is empty and is written by one producer only, the cell being read
\* holds a value and no producer is writing it.
CellExclusive ==
    /\ \A p \in Producers : ppc[p] = "write" =>
          /\ data[Slot(pos[p])] = Uninit
          /\ \A q \in Producers \ {p} :
                 ppc[q] = "write" => Slot(pos[q]) # Slot(pos[p])
    /\ cpc = "read" =>
          /\ data[Slot(head)] # Uninit
          /\ \A p \in Producers : ppc[p] = "write" => Slot(pos[p]) # Slot(head)

\* No call is running on any handle.
Quiescent ==
    /\ \A p \in Producers : ppc[p] = "idle"
    /\ cpc \in {"idle", "gone"} /\ recycling = {}

\* What Ring::drop would drop is exactly the set of live values: nothing
\* leaks, nothing is dropped twice, no empty cell is dropped.
ResidueExact ==
    Quiescent => Residue = {s \in Slots : data[s] # Uninit}

\* A call after is_closed() returned true found nothing more to return.
FoundNothing == sawClosed /\ outcome \in {"Empty", "Busy", "Done"}

\* No value is left, and no call that could still push one is running.
NothingToCome ==
    /\ InRing = 0 /\ \A s \in Slots : data[s] = Uninit
    /\ \A p \in Producers : ppc[p] \in {"idle", "closing"}

\* The shutdown protocol of the module docs, when handles are only dropped:
\* a pop or a drain that comes back empty-handed after is_closed() is final.
FinalNone == FoundNothing => NothingToCome

\* The docs of is_closed (queue.rs:556-561, mod.rs:52-57) say it of a close()
\* too: once is_closed() is true there is no future push, the None is final.
FinalNoneAsDocumented == [][FoundNothing => data' = data]_vars

\* The docs of PopOutcome::Busy (queue.rs:374-376): the head slot is reserved.
BusyMeansReserved ==
    [][cpc = "look" /\ op = "pop" /\ outcome' = "Busy" => head # tail]_vars

------------------------------------------------------------------------------
(* Refinement: the ring implements the bounded queue of TicketFifo.        *)

\* A value read by PopCell has left the queue although `head` moves later.
FirstTicket == IF cpc = "credit" THEN WAdd(head, 1) ELSE head

\* The state of ticket t, as a queue entry.
Entry(t) ==
    CASE seq[Slot(t)] = WAdd(t, 1) -> [state |-> "item", value |-> data[Slot(t)]]
      [] seq[Slot(t)] = WAdd(t, N) -> [state |-> "hole"]
      [] OTHER -> [state |-> "open",
                   by |-> CHOOSE p \in Producers : t \in Holds(p)]

F == INSTANCE TicketFifo WITH
        queue <- IF cpc = "freed" THEN << >>
                 ELSE [i \in 1 .. WSub(tail, FirstTicket) |->
                          Entry(WAdd(FirstTicket, i - 1))],
        delivered <- item, live <- cpc # "freed"

\* Fifo: every step of the ring is a step of the bounded queue, or none.
\* Values come out once, in the order of the tickets, runs are contiguous,
\* holes are skipped, and nothing is delivered before it is published.
Fifo == F!Spec

------------------------------------------------------------------------------
(* Liveness.                                                               *)

\* The scheduler runs every producer that is inside a call (an iterator
\* passed to push_iter returns from next()), and stores become visible.
ProducerFairness ==
    /\ \A p \in Producers : WF_vars(ProducerStep(p))
    /\ \A t \in Cursor : WF_vars(RecycleVisible(t))

\* A steady program: handles are cloned but not dropped, nobody closes the
\* channel, and the consumer does nothing but pop, again and again.
SteadyNext ==
    /\ Next
    /\ handle \subseteq handle' /\ cpc' # "gone" /\ op' = "pop"

\* push, push_iter and drop return, even when the consumer stops anywhere:
\* no producer waits for another one, or for the consumer to move.
CallsReturn == \A p \in Producers : ppc[p] # "idle" ~> ppc[p] = "idle"
==============================================================================
