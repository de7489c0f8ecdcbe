------------------------------ MODULE MCBuffers -------------------------------
(***************************************************************************)
(* Model-checking instances of the small buffers: the ring buffer with     *)
(* slots to spare and values that are dropped, the latest-value list, the  *)
(* reference queue, whose eight pushes wrap its tickets, and the           *)
(* statistics over a window and over samples tracked by hand.  A behaviour *)
(* is one of `part`; the others stay in their initial state.               *)
(***************************************************************************)
EXTENDS RingBuffer, Snapshot, Vyukov, RingStatistics, TLC

CONSTANTS p1, p2

VARIABLE part

all == <<part, vars, snapshotVars, refVars, statVars>>

\* 12-bit accumulators, and samples whose squares fill a 14th, most, and more than all of
\* the range.
FewSamples == {-12, 0, 42, 48}
LeastValue == -2048

\* A significand of four bits, to the nearest and to the even one of two: 42 becomes 40.
Abs(x) == IF x < 0 THEN -x ELSE x
Rounded(x) ==
    LET step == CHOOSE s \in {1, 2, 4, 8, 16, 32, 64, 128, 256} :
                    Abs(x) <= 16 * s /\ (s = 1 \/ Abs(x) > 8 * s)
        low  == (x \div step) * step
        up   == 2 * (x - low) > step \/ (2 * (x - low) = step /\ (x \div step) % 2 = 1)
    IN  IF up THEN low + step ELSE low

ASSUME SnapshotAssumption /\ StatisticsAssumption

PartInit ==
    /\ part \in {"ring", "list", "queue", "window", "tracked"}
    /\ Init /\ SnapshotInit /\ RefInit /\ StatInit

PartNext ==
    \/ part = "ring"    /\ Next         /\ UNCHANGED <<part, snapshotVars, refVars, statVars>>
    \/ part = "list"    /\ SnapshotNext /\ UNCHANGED <<part, vars, refVars, statVars>>
    \/ part = "queue"   /\ RefNext      /\ UNCHANGED <<part, vars, snapshotVars, statVars>>
    \/ part = "window"  /\ StatNext     /\ UNCHANGED <<part, vars, snapshotVars, refVars>>
    \/ part = "tracked" /\ DirectNext   /\ UNCHANGED <<part, vars, snapshotVars, refVars>>

PartSpec == PartInit /\ [][PartNext]_all

\* Each of these sets is used whole, or not at all, by a part.
BufferSymmetry ==
    Permutations(Addr) \cup Permutations({p1, p2}) \cup Permutations(Values)
==============================================================================
