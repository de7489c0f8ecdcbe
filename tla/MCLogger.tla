------------------------------ MODULE MCLogger --------------------------------
(***************************************************************************)
(* The model-checking instance of Logger: two producers of two messages    *)
(* and two builders, on threads that may not start and a disk that may     *)
(* stop answering.  The bound is on how much of it happens at once.        *)
(*                                                                         *)
(* Beside it, the rings without a slot to spare: TLC evaluates a constant  *)
(* definition once for a module that a model EXTENDS and all its           *)
(* instances, so they need a model that extends neither ring.  A behaviour *)
(* is one of `part`; the others stay in their initial state.               *)
(***************************************************************************)
EXTENDS Logger, TLC

CONSTANTS v1, v2, Uninit

VARIABLES part,
          buf, head, tail, shut, cached_head, ppc, kind, room, pushed,
          cached_tail, cpc, op, avail, taken, item, foundNone, sawClosed,
          cursor, storage, drain, popped, live

cursors == <<buf, head, tail, shut, cached_head, ppc, kind, room, pushed,
             cached_tail, cpc, op, avail, taken, item, foundNone, sawClosed>>
buffer  == <<cursor, storage, drain, popped, live>>
all     == <<part, vars, cursors, buffer>>

\* A cursor ring in which runs can wrap, whose consumer may close it.
Wide == INSTANCE Spsc WITH
    N <- 4, W <- 8, Values <- {v1}, ConsumerCloses <- TRUE, closed <- shut

\* A ring buffer that keeps as many values as it has slots; they need no drop.
Four == INSTANCE RingBuffer WITH
    Asked <- 4, Cap <- 4, NeedsDrop <- FALSE, Values <- {v1, v2}, out <- popped

ASSUME Four!RingAssumption /\ Four!BufferAssumption

Once(p) == sent[p] + (IF pc[p] = "idle" THEN 0 ELSE 1) <= 1

Alone == \E b \in Builders : \A c \in Builders \ {b} : pc[c] = "idle"

\* Bound: each producer logs once while builders race and disks stop; or one builder
\* comes alone, the disk answers, and each producer may log MaxMsgs times.
Few == (\A p \in Producers : Once(p)) \/ (Alone /\ ~frozen /\ \E p \in Producers : Once(p))

PartInit == part \in {"logger", "wide", "four"} /\ Init /\ Wide!Init /\ Four!Init

PartNext ==
    \/ part = "logger" /\ Next /\ Few' /\ UNCHANGED <<part, cursors, buffer>>
    \/ part = "wide" /\ Wide!Next /\ UNCHANGED <<part, vars, buffer>>
    \/ part = "four" /\ Four!Next /\ UNCHANGED <<part, vars, cursors>>

BoundedSpec == PartInit /\ [][PartNext]_all

\* No slot to spare.  The cursors of a channel in which runs wrap never lap, a slot is
\* owned by one side, and batches come out once, in order, also when the consumer may
\* close it; a ring buffer that keeps no more than it was asked for has the properties of
\* one with slots left over.
TightRings ==
    /\ [](Wide!TypeOK /\ Wide!CursorInv /\ Wide!Ownership /\ Wide!FinalNone)
    /\ Wide!Fifo
    /\ [](Four!WindowWalks /\ Four!ExactlyWindow)
    /\ Four!IsDeque

ThreadSymmetry == Permutations(Producers) \cup Permutations(Builders)
==============================================================================
