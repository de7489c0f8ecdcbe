------------------------------ MODULE TicketFifo -----------------------------
(***************************************************************************)
(* What the MPSC channel promises, without cells, cursors or credits: one  *)
(* global bounded queue.  A call reserves a contiguous run of entries at   *)
(* the tail; each entry is later filled by its own producer or abandoned,  *)
(* in order within the run; the consumer takes the head once it is filled  *)
(* and skips it once it is abandoned.                                      *)
(***************************************************************************)
EXTENDS Naturals, Sequences

CONSTANTS N, Producers, Values, Uninit

VARIABLES queue,      \* the reserved entries, oldest first
          delivered,  \* the value handed to the program last
          live        \* FALSE once both ends are gone

Open(p) == [state |-> "open", by |-> p]
Item(v) == [state |-> "item", value |-> v]
Hole    == [state |-> "hole"]

vars == <<queue, delivered, live>>

Init == queue = <<>> /\ delivered = Uninit /\ live = TRUE

OpenAt(p) == {i \in DOMAIN queue : queue[i] = Open(p)}

\* A producer has at most one run with open entries.
Reserve(p, k) ==
    /\ OpenAt(p) = {}
    /\ Len(queue) + k <= N
    /\ queue' = queue \o [i \in 1 .. k |-> Open(p)]
    /\ UNCHANGED <<delivered, live>>

Settle(p, entry) ==
    /\ \E i \in OpenAt(p) :
          /\ \A j \in OpenAt(p) : i <= j
          /\ queue' = [queue EXCEPT ![i] = entry]
    /\ UNCHANGED <<delivered, live>>

Deliver ==
    /\ queue # <<>> /\ Head(queue).state = "item"
    /\ delivered' = Head(queue).value
    /\ UNCHANGED live

Pop  == Deliver /\ queue' = Tail(queue)
Peek == Deliver /\ UNCHANGED queue

Skip ==
    /\ queue # <<>> /\ Head(queue) = Hole
    /\ queue' = Tail(queue)
    /\ UNCHANGED <<delivered, live>>

\* Both ends are gone: what is left is dropped.
Discard ==
    /\ \A p \in Producers : OpenAt(p) = {}
    /\ queue' = <<>> /\ live' = FALSE
    /\ UNCHANGED delivered

Next ==
    /\ live
    /\ \/ \E p \in Producers :
             \/ \E k \in 1 .. N : Reserve(p, k)
             \/ \E v \in Values : Settle(p, Item(v))
             \/ Settle(p, Hole)
       \/ Pop \/ Peek \/ Skip \/ Discard

Spec == Init /\ [][Next]_vars
==============================================================================
