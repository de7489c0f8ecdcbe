------------------------------- MODULE Cursors -------------------------------
(***************************************************************************)
(* Ring cursors shared by the two bounded channels.                        *)
(*                                                                         *)
(* `head` and `tail` are free-running `usize` counters that wrap; the slot *)
(* of a cursor is its low bits.  `usize` is 0 .. W-1 here: W stands for    *)
(* 2^64, a power of two like N, so N divides W, and the compile-time       *)
(* assertions of Ring::new give 2 <= N <= W/2.                             *)
(***************************************************************************)
EXTENDS Naturals, FiniteSets

CONSTANTS N,   \* capacity of the ring, the const generic of the channel
          W    \* number of values of a cursor (usize::MAX + 1)

ASSUME CursorAssumption ==
    /\ N \in Nat /\ N >= 2
    /\ W \in Nat /\ W >= 2 * N
    /\ W % N = 0

Cursor == 0 .. W-1
Slots  == 0 .. N-1

\* a.wrapping_add(k), for k in 0 .. W
WAdd(a, k) == IF a + k >= W THEN a + k - W ELSE a + k

\* a.wrapping_sub(b)
WSub(a, b) == IF a >= b THEN a - b ELSE a + W - b

\* idx & (N - 1), N being a power of two
Slot(idx) == idx % N

\* The tickets of the half-open window [from, to) of the ring.
Window(from, to) == {WAdd(from, i) : i \in {j \in 0 .. W-1 : j < WSub(to, from)}}

==============================================================================
