------------------------------ MODULE BatchFifo ------------------------------
(***************************************************************************)
(* What the SPSC channel promises: a bounded queue of values.  A batch is  *)
(* appended at once.  The consumer looks at the items, oldest first, and   *)
(* removes from the front exactly those it looked at; with a view open it  *)
(* may remove any number of them.                                          *)
(***************************************************************************)
EXTENDS Naturals, Sequences

CONSTANTS N, Values, Uninit

VARIABLES queue,
          taken,      \* items looked at and not removed yet
          delivered,  \* the item looked at last
          viewing,    \* a view is open
          live        \* FALSE once both ends are gone

vars == <<queue, taken, delivered, viewing, live>>

Init ==
    /\ queue = <<>> /\ taken = 0 /\ delivered = Uninit
    /\ viewing = FALSE /\ live = TRUE

Push(batch) ==
    /\ Len(queue) + Len(batch) <= N
    /\ queue' = queue \o batch
    /\ UNCHANGED <<taken, delivered, viewing, live>>

Peek ==
    /\ queue # <<>> /\ taken = 0 /\ ~viewing
    /\ delivered' = Head(queue)
    /\ UNCHANGED <<queue, taken, viewing, live>>

Look ==
    /\ taken < Len(queue)
    /\ delivered' = queue[taken + 1]
    /\ taken' = taken + 1
    /\ UNCHANGED <<queue, viewing, live>>

OpenView ==
    /\ queue # <<>> /\ taken = 0 /\ ~viewing
    /\ viewing' = TRUE
    /\ UNCHANGED <<queue, taken, delivered, live>>

Remove(k) ==
    /\ IF viewing THEN k <= Len(queue) ELSE k = taken
    /\ queue' = SubSeq(queue, k + 1, Len(queue))
    /\ taken' = 0 /\ viewing' = FALSE
    /\ UNCHANGED <<delivered, live>>

Discard ==
    /\ queue' = <<>> /\ live' = FALSE
    /\ UNCHANGED <<taken, delivered, viewing>>

Next ==
    /\ live
    /\ \/ \E k \in 1 .. N : \E batch \in [1 .. k -> Values] : Push(batch)
       \/ Peek \/ Look \/ OpenView
       \/ \E k \in 0 .. N : Remove(k)
       \/ Discard

Spec == Init /\ [][Next]_vars
==============================================================================
