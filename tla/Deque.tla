-------------------------------- MODULE Deque --------------------------------
(***************************************************************************)
(* What a RingBuffer promises: a double-ended queue of at most Asked       *)
(* elements.  `out` is the value the last call handed back to the program  *)
(* (popped, evicted, refused or looked at), or None.                       *)
(***************************************************************************)
EXTENDS Integers, Sequences

CONSTANTS Asked, Values, None

VARIABLES q, out

vars == <<q, out>>

Init == q = <<>> /\ out = None

Full == Len(q) = Asked
Front(s) == SubSeq(s, 1, Len(s) - 1)

TryPush(v) ==
    \/ Full /\ out' = v /\ UNCHANGED q
    \/ ~Full /\ out' = None /\ (q' = <<v>> \o q \/ q' = Append(q, v))

\* A push on a full queue evicts the element at the other end.
PushHead(v) ==
    \/ ~Full /\ out' = None /\ q' = <<v>> \o q
    \/ Full /\ out' = q[Len(q)] /\ q' = <<v>> \o Front(q)

PushTail(v) ==
    \/ ~Full /\ out' = None /\ q' = Append(q, v)
    \/ Full /\ out' = q[1] /\ q' = Append(Tail(q), v)

PopHead == q # <<>> /\ out' = q[1] /\ q' = Tail(q)
PopTail == q # <<>> /\ out' = q[Len(q)] /\ q' = Front(q)
Nothing == q = <<>> /\ out' = None /\ UNCHANGED q

Look      == \E i \in 1 .. Len(q) : out' = q[i] /\ UNCHANGED q
LookPast  == out' = None /\ UNCHANGED q
Change(v) == \E i \in 1 .. Len(q) : q' = [q EXCEPT ![i] = v] /\ UNCHANGED out

\* skip, clear and the drop of the ring remove a prefix and hand nothing back.
Drop == \E k \in 0 .. Len(q) : q' = SubSeq(q, k + 1, Len(q)) /\ out' = None

Next ==
    \/ \E v \in Values : TryPush(v) \/ PushHead(v) \/ PushTail(v) \/ Change(v)
    \/ PopHead \/ PopTail \/ Nothing \/ Look \/ LookPast \/ Drop

Spec == Init /\ [][Next]_vars
==============================================================================
