----------------------------- MODULE RingBuffer ------------------------------
(***************************************************************************)
(* A fixed-capacity double-ended ring: a RingCursor and a boxed slice of   *)
(* MaybeUninit<T>.  One owner, so an action is one whole call; a drain is  *)
(* an iterator that borrows the ring, so its steps are actions of their    *)
(* own and nothing else may run until it is dropped.  Moving a value out   *)
(* of a slot leaves the slot Uninit; a value that needs no drop may be     *)
(* left behind by `skip`.                                                  *)
(***************************************************************************)
EXTENDS RingCursor, Sequences

CONSTANTS Values, None, Uninit,
          NeedsDrop   \* std::mem::needs_drop::<T>()

BufferAssumption ==
    /\ NeedsDrop \in BOOLEAN
    /\ None \notin Values /\ Uninit \notin Values

ASSUME BufferAssumed == BufferAssumption

VARIABLES cursor,
          storage,  \* ring slots -> a value or Uninit
          drain,    \* the two raw slices a DrainRingFront has still to read
          out,      \* what the last call handed back
          live      \* FALSE once the ring was dropped

vars == <<cursor, storage, drain, out, live>>

NoDrain == [on |-> FALSE, first |-> 0, firstLen |-> 0, second |-> 0, secondLen |-> 0]

TypeOK ==
    /\ cursor \in Cursors
    /\ storage \in [RingSlots -> Values \cup {Uninit}]
    /\ drain \in [on : BOOLEAN, first : 0 .. Cap, firstLen : 0 .. Cap,
                  second : 0 .. Cap, secondLen : 0 .. Cap]
    /\ out \in Values \cup {None}
    /\ live \in BOOLEAN

Init ==
    /\ cursor = NewCursor
    /\ storage = [s \in RingSlots |-> Uninit]
    /\ drain = NoDrain /\ out = None /\ live = TRUE

Owned == live /\ ~drain.on

----------------------------------------------------------------------------
(* Pushes                                                                  *)

TryPushHead(v) ==
    /\ Owned /\ UNCHANGED <<drain, live>>
    /\ \/ IsFull(cursor) /\ out' = v /\ UNCHANGED <<cursor, storage>>
       \/ /\ ~IsFull(cursor) /\ out' = None
          /\ cursor' = PushHead(cursor)
          /\ storage' = [storage EXCEPT ![cursor'.head] = v]

TryPushTail(v) ==
    /\ Owned /\ UNCHANGED <<drain, live>>
    /\ \/ IsFull(cursor) /\ out' = v /\ UNCHANGED <<cursor, storage>>
       \/ /\ ~IsFull(cursor) /\ out' = None
          /\ cursor' = PushTail(cursor)
          /\ storage' = [storage EXCEPT ![TailOf(cursor)] = v]

\* Read the slot that falls out of the window, move the cursor, write.
Evicting(evicted, c, pushed, v) ==
    /\ Owned /\ UNCHANGED <<drain, live>>
    /\ cursor' = c
    /\ \/ /\ IsFull(cursor) /\ out' = storage[evicted]
          /\ storage' = [[storage EXCEPT ![evicted] = Uninit] EXCEPT ![pushed] = v]
       \/ ~IsFull(cursor) /\ out' = None /\ storage' = [storage EXCEPT ![pushed] = v]

\* Broken: the slot after the tail is taken for the tail element.
LastSlotPastTail(c) == TailOf(c)

LastSlot(c) == At(c, c.n - 1)

PushHeadInner(v) ==
    Evicting(LastSlot(cursor), PushHead(cursor), PushHead(cursor).head, v)
PushTailInner(v) ==
    Evicting(cursor.head, PushTail(cursor), TailOf(cursor), v)

----------------------------------------------------------------------------
(* Pops, looks and drops                                                   *)

\* The slots of the first k elements, moved out.
Emptied(k) == [s \in RingSlots |-> IF s \in Live([cursor EXCEPT !.n = k]) THEN Uninit
                                   ELSE storage[s]]

PopHeadCall ==
    /\ Owned /\ UNCHANGED <<drain, live>>
    /\ \/ cursor.n = 0 /\ out' = None /\ UNCHANGED <<cursor, storage>>
       \/ /\ cursor.n > 0
          /\ out' = storage[cursor.head]
          /\ cursor' = Skip(cursor, 1)
          /\ storage' = [storage EXCEPT ![cursor.head] = Uninit]

PopTailCall ==
    /\ Owned /\ UNCHANGED <<drain, live>>
    /\ \/ cursor.n = 0 /\ out' = None /\ UNCHANGED <<cursor, storage>>
       \/ /\ cursor.n > 0
          /\ cursor' = PopTail(cursor)
          /\ out' = storage[TailOf(cursor')]
          /\ storage' = [storage EXCEPT ![TailOf(cursor')] = Uninit]

\* peek and get; peek_mut may write through the reference.
Peek(i) ==
    /\ Owned
    /\ out' = IF i < cursor.n THEN storage[At(cursor, i)] ELSE None
    /\ UNCHANGED <<cursor, storage, drain, live>>

PeekMut(i, v) ==
    /\ Owned /\ i < cursor.n
    /\ storage' = [storage EXCEPT ![At(cursor, i)] = v]
    /\ UNCHANGED <<cursor, drain, out, live>>

\* Broken: the cursor jumps although the values need to be dropped.
SkipWithoutDrop(by) ==
    LET k == Lesser(cursor.n, by)
    IN  /\ Owned
        /\ cursor' = Skip(cursor, k) /\ out' = None
        /\ UNCHANGED <<storage, drain, live>>

\* skip: pops one by one only when there is something to drop.
SkipCall(by) ==
    LET k == Lesser(cursor.n, by)
    IN  /\ Owned
        /\ cursor' = Skip(cursor, k) /\ out' = None
        /\ storage' = IF NeedsDrop THEN Emptied(k) ELSE storage
        /\ UNCHANGED <<drain, live>>

Clear ==
    /\ Owned
    /\ cursor' = Skip(cursor, cursor.n) /\ out' = None
    /\ storage' = Emptied(cursor.n)
    /\ UNCHANGED <<drain, live>>

DropRing ==
    /\ Owned /\ live' = FALSE /\ out' = None
    /\ cursor' = IF NeedsDrop THEN Skip(cursor, cursor.n) ELSE NewCursor
    /\ storage' = IF NeedsDrop THEN Emptied(cursor.n) ELSE [s \in RingSlots |-> Uninit]
    /\ UNCHANGED drain

\* The program goes on with the clone: a head at 0 and the elements in the order
\* of the iterator, which chains the two slices.
CloneRing ==
    /\ Owned
    /\ cursor' = [head |-> 0, n |-> cursor.n]
    /\ storage' = [s \in RingSlots |-> IF s < cursor.n THEN storage[ChainSlot(cursor, s)]
                                       ELSE Uninit]
    /\ UNCHANGED <<drain, out, live>>

----------------------------------------------------------------------------
(* drain_from_head                                                         *)

StartDrain ==
    /\ Owned
    /\ drain' = [on |-> TRUE, first |-> cursor.head, firstLen |-> FirstLen(cursor),
                 second |-> 0, secondLen |-> SecondLen(cursor)]
    /\ UNCHANGED <<cursor, storage, out, live>>

\* One element is read through a raw pointer and released by skip(1).
Release(s) ==
    /\ out' = storage[s]
    /\ storage' = [storage EXCEPT ![s] = Uninit]
    /\ cursor' = Skip(cursor, Lesser(cursor.n, 1))

\* Broken: the wrapped part is read first.
DrainNextSecondFirst ==
    /\ drain.on /\ UNCHANGED live
    /\ \/ /\ drain.secondLen # 0
          /\ Release(drain.second)
          /\ drain' = [drain EXCEPT !.second = @ + 1, !.secondLen = @ - 1]
       \/ /\ drain.secondLen = 0 /\ drain.firstLen # 0
          /\ Release(drain.first)
          /\ drain' = [drain EXCEPT !.first = @ + 1, !.firstLen = @ - 1]

DrainNext ==
    /\ drain.on /\ UNCHANGED live
    /\ \/ /\ drain.firstLen # 0
          /\ Release(drain.first)
          /\ drain' = [drain EXCEPT !.first = @ + 1, !.firstLen = @ - 1]
       \/ /\ drain.firstLen = 0 /\ drain.secondLen # 0
          /\ Release(drain.second)
          /\ drain' = [drain EXCEPT !.second = @ + 1, !.secondLen = @ - 1]
       \/ /\ drain.firstLen = 0 /\ drain.secondLen = 0
          /\ out' = None /\ UNCHANGED <<cursor, storage, drain>>

\* The iterator may be dropped before its end: the rest stays in the ring.
DropDrain ==
    /\ drain.on /\ drain' = NoDrain
    /\ UNCHANGED <<cursor, storage, out, live>>

----------------------------------------------------------------------------
Next ==
    \/ \E v \in Values : \/ TryPushHead(v) \/ PushHeadInner(v)
                         \/ TryPushTail(v) \/ PushTailInner(v)
                         \/ \E i \in 0 .. Asked - 1 : PeekMut(i, v)
    \/ PopHeadCall \/ PopTailCall \/ Clear \/ CloneRing \/ DropRing
    \/ \E i \in 0 .. Asked : Peek(i) \/ SkipCall(i)
    \/ StartDrain \/ DrainNext \/ DropDrain

Spec == Init /\ [][Next]_vars

----------------------------------------------------------------------------
(* Properties                                                              *)

\* The file's safety invariant 2, on which every `unsafe` block rests: exactly the
\* slots of the live window are initialised (ring_buffer.rs:8-13).  A value without a
\* drop may be left behind outside the window, never the other way round.
ExactlyWindow ==
    \A s \in RingSlots : /\ s \in Live(cursor) => storage[s] # Uninit
                         /\ NeedsDrop /\ s \notin Live(cursor) => storage[s] = Uninit

\* The two slices of as_slices chained are the window in logical order: the iterator,
\* clone and drain see the elements peek sees, whether or not the window wraps.
SlicesChain ==
    \A k \in 0 .. cursor.n - 1 : ChainSlot(cursor, k) = At(cursor, k)

\* A drain reads through raw pointers while it moves the head: what is left of its two
\* slices is the window that is left in the ring, and its next read is at the head.
DrainTracksHead ==
    drain.on =>
        /\ drain.firstLen + drain.secondLen = cursor.n
        /\ drain.firstLen > 0 => drain.first = cursor.head
        /\ drain.firstLen = 0 /\ drain.secondLen > 0 => drain.second = cursor.head

\* The two ways to walk the window agree with the cursor.
WalksFollow == SlicesChain /\ DrainTracksHead

\* The iterator, clone and drain walk the window in logical order, wrapped or not, and a
\* drain reads at the head it moves (ring_buffer.rs:226-241, :311-340).
WindowWalks == TypeOK /\ WalksFollow

\* The elements, head first, as `peek` finds them.
Content == [i \in 1 .. cursor.n |-> storage[At(cursor, i - 1)]]

D == INSTANCE Deque WITH q <- Content

\* Any mix of pushes and pops at both ends, evictions, skips, clones and partly
\* consumed drains behaves as a double-ended queue of Asked elements: every value comes
\* back once, from the end it is expected at, in order.
IsDeque == D!Spec
==============================================================================
