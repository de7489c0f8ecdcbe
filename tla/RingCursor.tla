----------------------------- MODULE RingCursor ------------------------------
(***************************************************************************)
(* The index arithmetic of a ring without its storage: a cursor is a head  *)
(* and a number of elements, and every operation hands out one physical    *)
(* index.  The storage length Cap is the requested capacity rounded up to  *)
(* a power of two; the ring is full at the capacity that was asked for.    *)
(***************************************************************************)
EXTENDS Integers

CONSTANTS Asked,  \* requested_cap
          Cap     \* real_size()

RingAssumption ==
    /\ Asked \in Nat /\ Asked >= 1
    /\ Cap \in Nat /\ Cap >= Asked /\ Cap < 2 * Asked
    /\ \E k \in 0 .. Cap : Cap = 2^k

ASSUME RingAssumed == RingAssumption

RingSlots == 0 .. Cap - 1
Cursors   == [head : RingSlots, n : 0 .. Asked]

\* try_new; a zero or overflowing request is refused and makes no cursor.
NewCursor == [head |-> 0, n |-> 0]

IsFull(c) == c.n = Asked
Lesser(a, b) == IF a <= b THEN a ELSE b

\* The physical index of a logical one: `(head + i) & mask`.
At(c, i)  == (c.head + i) % Cap
TailOf(c) == At(c, c.n)
Live(c)   == {At(c, i) : i \in 0 .. c.n - 1}

\* Each push and pop returns an index: PushHead's is the new head, PushTail's the
\* tail before it, PopHead's the head before it, PopTail's the tail after it.
PushHead(c) ==
    [head |-> At(c, Cap - 1), n |-> IF IsFull(c) THEN c.n ELSE c.n + 1]

PushTail(c) ==
    IF IsFull(c) THEN [c EXCEPT !.head = At(c, 1)] ELSE [c EXCEPT !.n = @ + 1]

PopTail(c) == [c EXCEPT !.n = @ - 1]

\* skip(k), with k already clamped to the length; pop_head_index is Skip(c, 1).
Skip(c, k) == [head |-> At(c, k), n |-> c.n - k]

\* as_slices: the first slice starts at the head and stops at the end of the
\* storage or of the window, the second starts at slot 0.
FirstLen(c)  == IF c.n = 0 THEN 0 ELSE Lesser(Cap - c.head, c.n)
SecondLen(c) == c.n - FirstLen(c)

\* The slot of the k-th element when the two slices are chained.
ChainSlot(c, k) == IF k < FirstLen(c) THEN c.head + k ELSE k - FirstLen(c)
==============================================================================
