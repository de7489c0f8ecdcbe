--------------------------------- MODULE Spsc --------------------------------
(***************************************************************************)
(* The SPSC channel (crates/channel/src/spsc/queue.rs): a ring of N slots, *)
(* `tail` stored by the producer only, `head` stored by the consumer only. *)
(* Each side works on a private copy of its own cursor, equal to the       *)
(* shared one whenever the other side can look, and on the last value it   *)
(* loaded of the other's cursor, reloaded by some calls only when the copy *)
(* says full or empty.                                                     *)
(*                                                                         *)
(* One action is one atomic access or one access to a slot.  A call that   *)
(* moves several items writes or reads them one by one, then publishes or  *)
(* releases them with a single store.                                      *)
(***************************************************************************)
EXTENDS Cursors

CONSTANTS Values,          \* payloads
          Uninit,          \* content of a slot that holds no live value
          ConsumerCloses   \* TRUE if the program may call Consumer::close

ASSUME SpscAssumption == Uninit \notin Values /\ ConsumerCloses \in BOOLEAN

VARIABLES
    buf, head, tail, closed,   \* Ring
    cached_head,               \* Producer: the last head it loaded
    ppc, kind,                 \* program counter; the call in progress
    room, pushed,              \* slots the call may fill; slots written so far
    cached_tail,               \* Consumer: the last tail it loaded
    cpc, op,                   \* program counter; the call in progress
    avail, taken,              \* items the call may take; items read so far
    item,                      \* the value read last
    foundNone, sawClosed       \* the last call found nothing; is_closed()

producer == <<cached_head, ppc, kind, room, pushed>>
consumer == <<cached_tail, cpc, op, avail, taken, item, foundNone, sawClosed>>
vars     == <<buf, head, tail, closed, producer, consumer>>

TypeOK ==
    /\ buf \in [Slots -> Values \cup {Uninit}]
    /\ head \in Cursor /\ tail \in Cursor /\ closed \in BOOLEAN
    /\ cached_head \in Cursor
    /\ ppc \in {"idle", "room", "write", "gone"}
    /\ kind \in {"push", "batch", "iter"}
    /\ room \in 0 .. N /\ pushed \in 0 .. N
    /\ cached_tail \in Cursor
    /\ cpc \in {"idle", "read", "advance", "drain", "chunk", "gone", "freed"}
    /\ op \in {"pop", "peek", "drain", "batch", "chunk"}
    /\ avail \in 0 .. N /\ taken \in 0 .. N
    /\ item \in Values \cup {Uninit}
    /\ foundNone \in BOOLEAN /\ sawClosed \in BOOLEAN

Init ==
    /\ buf = [s \in Slots |-> Uninit]
    /\ head = 0 /\ tail = 0 /\ closed = FALSE
    /\ cached_head = 0 /\ ppc = "idle" /\ kind = "push" /\ room = 0 /\ pushed = 0
    /\ cached_tail = 0 /\ cpc = "idle" /\ op = "pop" /\ avail = 0 /\ taken = 0
    /\ item = Uninit /\ foundNone = FALSE /\ sawClosed = FALSE

------------------------------------------------------------------------------
(* Producer: push, push_batch, push_iter.                                  *)

\* is_closed() on entry; a closed channel hands the values back.
StartPush(k) ==
    /\ ppc = "idle" /\ ~closed
    /\ ppc' = "room" /\ kind' = k
    /\ UNCHANGED <<buf, head, tail, closed, cached_head, room, pushed, consumer>>

PushReturns == ppc' = "idle" /\ kind' = "push" /\ room' = 0 /\ pushed' = 0

\* Broken: one slot too many.
FreePlusOne(h) == N + 1 - WSub(tail, h)

FreeSeen(h) == N - WSub(tail, h)

\* Broken: a push never looks at the shared cursor again.
HeadCached == IF kind = "push" THEN cached_head ELSE head

\* push reloads `head` only when the cached one says full, the batch calls
\* always.
HeadSeen == IF kind = "push" /\ FreeSeen(cached_head) # 0 THEN cached_head ELSE head

\* push_batch takes no more than the batch has.
FindRoom ==
    /\ ppc = "room"
    /\ cached_head' = HeadSeen
    /\ \/ /\ FreeSeen(cached_head') = 0
          /\ PushReturns
       \/ /\ FreeSeen(cached_head') > 0
          /\ ppc' = "write"
          /\ room' \in CASE kind = "push"  -> {1}
                         [] kind = "batch" -> 1 .. FreeSeen(cached_head')
                         [] kind = "iter"  -> {FreeSeen(cached_head')}
          /\ UNCHANGED <<kind, pushed>>
    /\ UNCHANGED <<buf, head, tail, closed, consumer>>

\* Broken: every item of a run goes to the same slot.
WriteAtTail(v) ==
    /\ ppc = "write" /\ pushed < room
    /\ buf' = [buf EXCEPT ![Slot(tail)] = v]
    /\ pushed' = pushed + 1
    /\ UNCHANGED <<head, tail, closed, cached_head, ppc, kind, room, consumer>>

\* write_cell, or one element of the two copies of push_batch.
WriteCell(v) ==
    /\ ppc = "write" /\ pushed < room
    /\ buf' = [buf EXCEPT ![Slot(WAdd(tail, pushed))] = v]
    /\ pushed' = pushed + 1
    /\ UNCHANGED <<head, tail, closed, cached_head, ppc, kind, room, consumer>>

\* Broken: the run that was reserved is published, not what was written.
PublishRoom ==
    /\ ppc = "write"
    /\ pushed = room \/ kind = "iter"
    /\ tail' = WAdd(tail, room)
    /\ PushReturns
    /\ UNCHANGED <<buf, head, closed, cached_head, consumer>>

\* increment_tail.  push_iter gets here early when the iterator ends or
\* panics (PublishRun::drop); it stores nothing if nothing was written.
Publish ==
    /\ ppc = "write"
    /\ pushed = room \/ kind = "iter"
    /\ tail' = WAdd(tail, pushed)
    /\ PushReturns
    /\ UNCHANGED <<buf, head, closed, cached_head, consumer>>

\* Producer::close; it borrows the producer exclusively.
CloseProducer ==
    /\ ppc = "idle"
    /\ closed' = TRUE
    /\ UNCHANGED <<buf, head, tail, producer, consumer>>

DropProducer ==
    /\ ppc = "idle"
    /\ closed' = TRUE /\ ppc' = "gone"
    /\ UNCHANGED <<buf, head, tail, cached_head, kind, room, pushed, consumer>>

------------------------------------------------------------------------------
(* Consumer: pop, peek, drain, pop_batch, read_chunk.                       *)

\* The call ends; `none` tells whether it came back with nothing.
PopReturns(none) ==
    /\ cpc' = "idle" /\ op' = "pop"
    /\ avail' = 0 /\ taken' = 0
    /\ foundNone' = none

\* Broken: the cached tail is never refreshed.
TailCached == cached_tail

\* check_if_empty: `tail` is reloaded only when the cached one says empty.
TailSeen == IF head = cached_tail THEN tail ELSE cached_tail

\* pop and peek.
CallPop(o) ==
    /\ cpc = "idle"
    /\ cached_tail' = TailSeen
    /\ IF head = cached_tail'
       THEN PopReturns(TRUE)
       ELSE /\ cpc' = "read" /\ op' = o /\ avail' = 1
            /\ foundNone' = FALSE
            /\ UNCHANGED taken
    /\ UNCHANGED <<buf, head, tail, closed, producer, item, sawClosed>>

\* drain, pop_batch and read_chunk always load `tail`; pop_batch takes no more
\* than `out` has room for.
CallBatch(o) ==
    /\ cpc = "idle"
    /\ cached_tail' = tail
    /\ IF head = tail
       THEN PopReturns(TRUE)
       ELSE /\ cpc' = CASE o = "drain" -> "drain" [] o = "chunk" -> "chunk"
                        [] o = "batch" -> "read"
            /\ op' = o
            /\ avail' \in IF o = "batch" THEN 1 .. WSub(tail, head)
                                         ELSE {WSub(tail, head)}
            /\ foundNone' = FALSE
            /\ UNCHANGED taken
    /\ UNCHANGED <<buf, head, tail, closed, producer, item, sawClosed>>

\* Drain::next: the next item, or the end of the snapshot.
DrainNext ==
    /\ cpc = "drain"
    /\ IF avail = 0
       THEN PopReturns(TRUE)
       ELSE /\ cpc' = "read"
            /\ UNCHANGED <<op, avail, taken, foundNone>>
    /\ UNCHANGED <<buf, head, tail, closed, producer, cached_tail, item, sawClosed>>

\* pop_cell, or one element of the two copies of pop_batch.
ReadCell ==
    /\ cpc = "read"
    /\ item' = buf[Slot(WAdd(head, taken))]
    /\ IF op = "peek"
       THEN PopReturns(FALSE)
       ELSE /\ taken' = taken + 1
            /\ cpc' = IF op = "batch" /\ taken + 1 < avail THEN "read" ELSE "advance"
            /\ UNCHANGED <<op, avail, foundNone>>
    /\ UNCHANGED <<buf, head, tail, closed, producer, cached_tail, sawClosed>>

\* The program reads on through the slices of an open ReadChunk.
ReadChunk ==
    /\ cpc = "chunk" /\ taken < avail
    /\ item' = buf[Slot(WAdd(head, taken))]
    /\ taken' = taken + 1
    /\ UNCHANGED <<buf, head, tail, closed, producer, cached_tail, cpc, op,
                   avail, foundNone, sawClosed>>

\* update_state_after_pop(by): the slots go back to the producer.
Advance(by) ==
    /\ head' = WAdd(head, by)
    /\ buf' = [s \in Slots |->
                  IF s \in {Slot(t) : t \in Window(head, WAdd(head, by))}
                  THEN Uninit ELSE buf[s]]

\* pop, pop_batch and Drain::next end with the release store.
FinishRead ==
    /\ cpc = "advance"
    /\ Advance(taken)
    /\ IF op = "drain"
       THEN /\ cpc' = "drain" /\ avail' = avail - 1 /\ taken' = 0
            /\ UNCHANGED <<op, foundNone>>
       ELSE PopReturns(FALSE)
    /\ UNCHANGED <<tail, closed, producer, cached_tail, item, sawClosed>>

\* Broken: n is not clamped to the view.
CommitUnclamped(n) ==
    /\ cpc = "chunk"
    /\ Advance(n)
    /\ PopReturns(FALSE)
    /\ UNCHANGED <<tail, closed, producer, cached_tail, item, sawClosed>>

\* ReadChunk::commit(n), n clamped to the view.
Commit(n) ==
    /\ cpc = "chunk" /\ n <= avail
    /\ Advance(n)
    /\ PopReturns(FALSE)
    /\ UNCHANGED <<tail, closed, producer, cached_tail, item, sawClosed>>

\* A Drain or a ReadChunk is dropped: what was not taken stays.
DropView ==
    /\ cpc \in {"drain", "chunk"}
    /\ PopReturns(FALSE)
    /\ UNCHANGED <<buf, head, tail, closed, producer, cached_tail, item, sawClosed>>

\* is_closed() returned true.
SeeClosed ==
    /\ cpc = "idle" /\ closed
    /\ sawClosed' = TRUE /\ foundNone' = FALSE
    /\ UNCHANGED <<buf, head, tail, closed, producer, cached_tail, cpc, op,
                   avail, taken, item>>

CloseConsumer ==
    /\ ConsumerCloses /\ cpc = "idle"
    /\ closed' = TRUE
    /\ UNCHANGED <<buf, head, tail, producer, consumer>>

DropConsumer ==
    /\ cpc = "idle"
    /\ closed' = TRUE /\ cpc' = "gone" /\ foundNone' = FALSE
    /\ UNCHANGED <<buf, head, tail, producer, cached_tail, op, avail, taken,
                   item, sawClosed>>

\* Ring::drop, once both handles are gone: drops what is in [head, tail).
DropRing ==
    /\ ppc = "gone" /\ cpc = "gone"
    /\ cpc' = "freed"
    /\ buf' = [s \in Slots |-> IF s \in {Slot(t) : t \in Window(head, tail)}
                               THEN Uninit ELSE buf[s]]
    /\ UNCHANGED <<head, tail, closed, producer, cached_tail, op, avail, taken,
                   item, foundNone, sawClosed>>

------------------------------------------------------------------------------
ProducerStep == FindRoom \/ (\E v \in Values : WriteCell(v)) \/ Publish

ConsumerStep == DrainNext \/ ReadCell \/ FinishRead

ProgramStep ==
    \/ \E k \in {"push", "batch", "iter"} : StartPush(k)
    \/ CloseProducer \/ DropProducer
    \/ \E o \in {"pop", "peek"} : CallPop(o)
    \/ \E o \in {"drain", "batch", "chunk"} : CallBatch(o)
    \/ ReadChunk
    \/ \E n \in 0 .. N : Commit(n)
    \/ DropView
    \/ SeeClosed \/ CloseConsumer \/ DropConsumer \/ DropRing

Next == ProducerStep \/ ConsumerStep \/ ProgramStep

Spec == Init /\ [][Next]_vars

------------------------------------------------------------------------------
(* Safety.                                                                 *)

InRing == WSub(tail, head)

\* The cached cursors are stale in the safe direction only: the producer sees
\* at most the free slots there are, the consumer at most the items there are.
CachesLag ==
    /\ InRing <= WSub(tail, cached_head) /\ WSub(tail, cached_head) <= N
    /\ WSub(cached_tail, head) <= InRing

\* What a call is about to touch fits in what its handle saw when it began.
CallsFit ==
    /\ pushed <= room /\ room <= FreeSeen(cached_head)
    /\ taken <= avail /\ avail <= WSub(cached_tail, head)
    /\ ppc # "write" => room = 0
    /\ cpc \in {"idle", "gone", "freed"} => avail = 0
    /\ cpc = "read" => taken < avail
    /\ cpc \in {"drain", "chunk"} => op = cpc
    /\ op = "drain" => taken = IF cpc = "advance" THEN 1 ELSE 0

\* Together: `tail` never laps `head`, and no call writes a slot the consumer
\* may still read or reads one the producer may still write, however stale the
\* cursors they decided on.
CursorInv == CachesLag /\ CallsFit

\* Invariant 2 of the source: a slot holds a live value exactly when it is in
\* [head, tail), or written by the run the producer has not published yet.
Ownership ==
    {s \in Slots : buf[s] # Uninit} =
        IF cpc = "freed" THEN {}
        ELSE {Slot(t) : t \in Window(head, WAdd(tail, pushed))}

\* Shutdown: unless the consumer itself closed the channel, a call that finds
\* nothing after is_closed() returned true is final.
FinalNone ==
    (~ConsumerCloses /\ sawClosed /\ foundNone) =>
        /\ InRing = 0
        /\ ppc \in {"idle", "gone"}

------------------------------------------------------------------------------
(* Refinement: the ring implements the queue of BatchFifo.                 *)

F == INSTANCE BatchFifo WITH
        queue <- IF cpc = "freed" THEN << >>
                 ELSE [i \in 1 .. InRing |-> buf[Slot(WAdd(head, i - 1))]],
        delivered <- item, viewing <- cpc = "chunk", live <- cpc # "freed"

\* Batches appear at once and in order, values come out once, oldest first,
\* and a view that is dropped consumes nothing.
Fifo == F!Spec

------------------------------------------------------------------------------
(* Liveness.                                                               *)

\* A steady program: nobody closes or leaves, the producer pushes and the
\* consumer pops, again and again, one item at a time.
SteadyNext ==
    /\ Next
    /\ ~closed' /\ op' = "pop" /\ kind' = "push"
==============================================================================
