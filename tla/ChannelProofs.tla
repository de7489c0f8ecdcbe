---------------------------- MODULE ChannelProofs -----------------------------
(* The latest-value channel, for every set of addresses and every number of   *)
(* publications: nobody touches a node that was freed, none leaks, an update  *)
(* ends at the newest publication, and a close is final.  The reference       *)
(* queue, for every number of slots that divides the range of its cursors and *)
(* for every set of producers: it is a FIFO of tickets.                       *)
EXTENDS Snapshot, Vyukov, CursorProofs, FiniteSetTheorems, SequenceTheorems

------------------------------------------------------------------------------
(* The latest-value channel: its inductive invariant.                         *)

Leaving == {"release", "free", "gone"}
Left    == {"free", "gone"}

\* The heap: finite, clean where there is no node, one node per publication.
Nodes ==
    /\ IsFiniteSet(Allocated)
    /\ \A a \in Addr \ Allocated : next[a] = Null /\ ~released[a]
    /\ \A a, b \in Allocated : data[a] = data[b] => a = b
    /\ \A a \in Allocated : data[a] < published => next[a] \in Allocated
    /\ newest <= published

\* The end of the channel: the last node alone is released, by the ends that
\* have left, and it is closed before an end leaves.
Ends ==
    /\ \A a \in Allocated :
          /\ released[a] <=> data[a] = published /\ (wpc \in Left \/ rpc \in Left)
          /\ data[a] = published /\ (wpc # "idle" \/ rpc \in Leaving) => next[a] = a
    /\ wpc = "free" => rpc = "gone"
    /\ rpc = "free" => wpc = "gone"
    /\ rpc \in Leaving => seen = published

\* What the reader has loaded is still the next of its node.
Ahead == rpc \in {"check", "walk"} => ahead = next[current] /\ ahead # Null

SnapInv == SnapshotTypeOK /\ ListInv /\ Nodes /\ Ends /\ Ahead

\* Somebody is left.
Alive == wpc # "gone" \/ rpc # "gone"

\* The list, while somebody is left.
LEMMA ListIs ==
    ASSUME SnapInv, Alive
    PROVE  /\ published \in Nat /\ seen \in Nat /\ newest \in Nat
           /\ seen <= published /\ seen >= 1
           /\ data \in [Addr -> Nat] /\ next \in [Addr -> Addr \cup {Null}]
           /\ wtail \in Addr /\ current \in Addr
           /\ wpc # "gone" => wtail \in Allocated /\ data[wtail] = published
           /\ rpc # "gone" => current \in Allocated /\ data[current] = seen
           /\ {data[a] : a \in Allocated} = seen .. published
           /\ Cardinality(Allocated) = published - seen + 1
           /\ \A a \in Allocated :
                 /\ a \in Addr /\ data[a] \in seen .. published
                 /\ data[a] < published => next[a] \in Allocated /\ data[next[a]] = data[a] + 1
                 /\ data[a] = published => next[a] \in {Null, a}
  <1>1. /\ published \in Nat /\ published >= 1 /\ seen \in Nat /\ newest \in Nat /\ seen >= 1
        /\ data \in [Addr -> Nat] /\ next \in [Addr -> Addr \cup {Null}]
        /\ wtail \in Addr /\ current \in Addr
    BY DEF SnapInv, SnapshotTypeOK, Version
  <1>2. /\ {data[a] : a \in Allocated} = seen .. published
        /\ Cardinality(Allocated) = published - seen + 1
        /\ \A a \in Allocated :
              \/ data[a] < published /\ data[next[a]] = data[a] + 1
              \/ data[a] = published /\ next[a] \in {Null, a}
    BY DEF SnapInv, ListInv, HeapExact, Alive
  <1>3. /\ wpc # "gone" => wtail \in Allocated /\ data[wtail] = published
        /\ rpc # "gone" => current \in Allocated /\ data[current] = seen
    BY <1>1 DEF SnapInv, ListInv, NoUseAfterFree, Allocated
  <1>4. seen <= published
    <2>1. CASE rpc = "gone"
      BY <1>1, <2>1 DEF SnapInv, Ends, Leaving
    <2>2. CASE rpc # "gone"
      <3>1. seen \in {data[a] : a \in Allocated}
        BY <1>3, <2>2
      <3> QED BY <1>1, <1>2, <3>1
    <2> QED BY <2>1, <2>2
  <1>5. ASSUME NEW a \in Allocated
        PROVE  /\ a \in Addr /\ data[a] \in seen .. published
               /\ data[a] < published => next[a] \in Allocated /\ data[next[a]] = data[a] + 1
               /\ data[a] = published => next[a] \in {Null, a}
    <2>1. a \in Addr /\ data[a] \in Nat
      BY <1>1 DEF Allocated
    <2>2. data[a] \in seen .. published
      BY <1>2
    <2>3. data[a] < published => next[a] \in Allocated /\ data[next[a]] = data[a] + 1
      BY <1>1, <1>2, <2>1 DEF SnapInv, Nodes
    <2> QED BY <1>1, <1>2, <2>1, <2>2, <2>3
  <1> QED BY <1>1, <1>2, <1>3, <1>4, <1>5

------------------------------------------------------------------------------
(* The steps.                                                                 *)

\* The node both ends are on, once the list is down to it.
LEMMA SameNode ==
    ASSUME SnapInv, wpc # "gone", rpc # "gone", seen = published
    PROVE  wtail = current
  BY ListIs DEF Alive, SnapInv, Nodes

LEMMA InitSnap == ASSUME SnapshotAssumption PROVE SnapshotInit => SnapInv
  <1> SUFFICES ASSUME SnapshotInit PROVE SnapInv
    OBVIOUS
  <1>1. PICK a \in Addr : /\ data = [b \in Addr |-> IF b = a THEN 1 ELSE 0]
                          /\ wtail = a /\ current = a
    BY DEF SnapshotInit
  <1>2. /\ Allocated = {a} /\ data[a] = 1 /\ next = [b \in Addr |-> Null]
        /\ released = [b \in Addr |-> FALSE] /\ next[a] = Null
        /\ published = 1 /\ seen = 1 /\ newest = 1 /\ wpc = "idle" /\ rpc = "idle"
    BY <1>1 DEF SnapshotInit, Allocated
  <1>3. 1 \in Version
    BY DEF SnapshotAssumption, Version
  <1>4. SnapshotTypeOK
    BY <1>1, <1>2, <1>3 DEF SnapshotInit, SnapshotTypeOK
  <1>5. IsFiniteSet(Allocated) /\ Cardinality(Allocated) = 1
    BY <1>2, FS_Singleton
  <1>6. HeapExact
    <2>1. {data[b] : b \in Allocated} = seen .. published
      BY <1>2
    <2> QED BY <1>2, <1>5, <2>1 DEF HeapExact
  <1>7. NoUseAfterFree /\ UpdateReachesNewest
    BY <1>1, <1>2 DEF NoUseAfterFree, UpdateReachesNewest
  <1>8. Nodes /\ Ends /\ Ahead
    BY <1>2, <1>5 DEF Nodes, Ends, Ahead, Leaving, Left
  <1> QED BY <1>4, <1>6, <1>7, <1>8 DEF SnapInv, ListInv

\* A publication is linked behind the tail.
LEMMA PublishKeeps == ASSUME SnapshotAssumption, SnapInv, Publish PROVE SnapInv'
  <1>1. PICK a \in Addr \ Allocated :
            /\ data' = [data EXCEPT ![a] = published + 1]
            /\ next' = [next EXCEPT ![wtail] = a]
            /\ wtail' = a
    BY DEF Publish
  <1>2. /\ wpc = "idle" /\ published < MaxVersion /\ next[wtail] = Null
        /\ published' = published + 1
        /\ UNCHANGED <<released, wpc, current, rpc, call, ahead, seen, newest>>
        /\ SnapshotTypeOK /\ Nodes /\ Ends /\ Ahead /\ NoUseAfterFree /\ UpdateReachesNewest /\ Alive
    BY DEF Publish, reader, SnapInv, ListInv, Alive
  <1>3. SnapshotTypeOK'
    BY <1>1, <1>2 DEF SnapshotAssumption, SnapshotTypeOK, Version
  <1> DEFINE old == Allocated
  <1>4. /\ published \in Nat /\ seen \in Nat /\ newest \in Nat /\ seen <= published
        /\ wtail \in old /\ data[wtail] = published /\ a \in Addr /\ a \notin old /\ a # wtail
        /\ Allocated' = old \cup {a} /\ data'[a] = published + 1 /\ next'[wtail] = a
        /\ next'[a] = Null /\ ~released'[a]
        /\ \A b \in old : data'[b] = data[b] /\ (b # wtail => next'[b] = next[b])
    BY <1>1, <1>2, ListIs DEF Allocated, Nodes, SnapshotTypeOK
  <1>5. \A b \in old : /\ data[b] \in seen .. published /\ (data[b] = published => b = wtail)
                       /\ b # wtail => next[b] \in old /\ data[next[b]] = data[b] + 1
    BY <1>2, <1>4, ListIs DEF Nodes
  <1>6. HeapExact'
    <2>1. {data'[b] : b \in old \cup {a}} = seen .. published + 1
      <3>1. {data[b] : b \in old} = seen .. published
        BY <1>2, ListIs
      <3>2. {data'[b] : b \in old \cup {a}} = {data[b] : b \in old} \cup {published + 1}
        BY <1>4
      <3> QED BY <1>4, <3>1, <3>2
    <2>2. Cardinality(old \cup {a}) = (published + 1) - seen + 1
      <3>1. Cardinality(old \cup {a}) = Cardinality(old) + 1
        BY <1>2, <1>4, FS_AddElement DEF Nodes
      <3> QED BY <1>2, <1>4, <3>1, ListIs
    <2>3. \A b \in old \cup {a} :
             \/ data'[b] < published + 1 /\ data'[next'[b]] = data'[b] + 1
             \/ data'[b] = published + 1 /\ next'[b] \in {Null, b}
      <3> SUFFICES ASSUME NEW b \in old \cup {a}
                   PROVE  \/ data'[b] < published + 1 /\ data'[next'[b]] = data'[b] + 1
                          \/ data'[b] = published + 1 /\ next'[b] \in {Null, b}
        OBVIOUS
      <3>1. CASE b = a
        BY <1>4, <3>1
      <3>2. CASE b = wtail
        BY <1>4, <3>2
      <3>3. CASE b \in old /\ b # wtail
        BY <1>4, <1>5, <3>3
      <3> QED BY <3>1, <3>2, <3>3
    <2> QED BY <1>2, <1>4, <2>1, <2>2, <2>3 DEF HeapExact
  <1>7. Nodes'
    <2>1. IsFiniteSet(old \cup {a})
      BY <1>2, <1>4, FS_AddElement DEF Nodes
    <2>2. \A b \in Addr \ (old \cup {a}) : next'[b] = Null /\ ~released'[b]
      BY <1>1, <1>2, <1>4 DEF Nodes, SnapshotTypeOK
    <2>3. \A b, c \in old \cup {a} : data'[b] = data'[c] => b = c
      BY <1>2, <1>4, <1>5 DEF Nodes
    <2>4. \A b \in old \cup {a} : data'[b] < published + 1 => next'[b] \in old \cup {a}
      BY <1>4, <1>5
    <2> QED BY <1>2, <1>4, <2>1, <2>2, <2>3, <2>4 DEF Nodes
  <1>8. rpc \notin Leaving
    BY <1>2, <1>4 DEF Ends, SnapshotTypeOK, SnapshotAssumption
  <1>9. Ends'
    BY <1>2, <1>4, <1>5, <1>8 DEF Ends, Leaving, Left
  <1>10. rpc # "gone" => current \in old /\ data[current] = seen
    BY <1>2, ListIs
  <1>11. NoUseAfterFree' /\ UpdateReachesNewest'
    BY <1>1, <1>2, <1>4, <1>10 DEF NoUseAfterFree, UpdateReachesNewest, SnapshotTypeOK
  <1>12. Ahead'
    BY <1>2, <1>4, <1>10 DEF Ahead
  <1> QED BY <1>3, <1>6, <1>7, <1>9, <1>11, <1>12 DEF SnapInv, ListInv

\* The last node is closed, by the writer or by a reader that finds it last.
LEMMA NodeCloses ==
    ASSUME SnapInv, Alive, NEW c \in Allocated, data[c] = published,
           next' = [next EXCEPT ![c] = c],
           UNCHANGED <<data, released, published, seen, newest>>
    PROVE  /\ Alive' => HeapExact'
           /\ Nodes' /\ next' \in [Addr -> Addr \cup {Null}]
           /\ \A a \in Allocated : data[a] = published => a = c /\ next'[a] = a
           /\ \A a \in Addr : next'[a] # next[a] => a = c /\ next[a] = Null
  <1>1. /\ Allocated' = Allocated /\ c \in Addr /\ next[c] \in {Null, c}
        /\ next \in [Addr -> Addr \cup {Null}] /\ published \in Nat
    BY ListIs DEF Allocated
  <1>2. next'[c] = c /\ \A a \in Addr : a # c => next'[a] = next[a]
    BY <1>1
  <1>3. \A a \in Allocated : data[a] = published => a = c
    BY DEF SnapInv, Nodes
  <1>4. Alive' => HeapExact'
    <2>1. {data[a] : a \in Allocated} = seen .. published
      BY ListIs
    <2>2. Cardinality(Allocated) = published - seen + 1
      BY ListIs
    <2>3. \A a \in Allocated :
             \/ data[a] < published /\ data[next'[a]] = data[a] + 1
             \/ data[a] = published /\ next'[a] \in {Null, a}
      <3> SUFFICES ASSUME NEW a \in Allocated
                   PROVE  \/ data[a] < published /\ data[next'[a]] = data[a] + 1
                          \/ data[a] = published /\ next'[a] \in {Null, a}
        OBVIOUS
      <3>1. CASE a = c
        BY <1>2, <3>1
      <3>2. CASE a # c
        <4>1. a \in Addr /\ data[a] \in seen .. published /\ seen \in Nat
          BY ListIs
        <4>2. data[a] < published /\ data[next[a]] = data[a] + 1
          BY <1>1, <1>3, <3>2, <4>1, ListIs
        <4> QED BY <1>2, <3>2, <4>1, <4>2
      <3> QED BY <3>1, <3>2
    <2> QED BY <1>1, <2>1, <2>2, <2>3 DEF HeapExact, Alive
  <1>5. Nodes'
    <2>1. c \in Addr /\ \A a \in Allocated : a \in Addr
      BY <1>1 DEF Allocated
    <2> QED BY <1>1, <1>2, <2>1 DEF SnapInv, Nodes
  <1>6. next' \in [Addr -> Addr \cup {Null}]
    BY <1>1
  <1> QED BY <1>1, <1>2, <1>3, <1>4, <1>5, <1>6

LEMMA WriterCloses ==
    ASSUME SnapshotAssumption, SnapInv, CloseWriter \/ DropWriter
    PROVE  SnapInv'
  <1>1. /\ wpc = "idle" /\ wpc' \in {"idle", "release"} /\ next' = [next EXCEPT ![wtail] = wtail]
        /\ UNCHANGED <<data, released, wtail, published, current, rpc, call, ahead, seen, newest>>
        /\ Alive /\ Alive'
    BY DEF CloseWriter, DropWriter, writer, reader, Alive
  <1>2. SnapshotTypeOK /\ NoUseAfterFree /\ UpdateReachesNewest /\ Nodes /\ Ends /\ Ahead
    BY DEF SnapInv, ListInv
  <1>3. wtail \in Allocated /\ data[wtail] = published
    BY <1>1, ListIs
  <1>4. /\ HeapExact' /\ Nodes' /\ next' \in [Addr -> Addr \cup {Null}]
        /\ \A a \in Allocated : data[a] = published => a = wtail /\ next'[a] = a
        /\ \A a \in Addr : next'[a] # next[a] => a = wtail /\ next[a] = Null
    BY <1>1, <1>3, NodeCloses
  <1>5. SnapshotTypeOK'
    BY <1>1, <1>2, <1>4 DEF SnapshotTypeOK
  <1>6. NoUseAfterFree' /\ UpdateReachesNewest'
    BY <1>1, <1>2 DEF NoUseAfterFree, UpdateReachesNewest
  <1>7. Ends'
    BY <1>1, <1>2, <1>4 DEF Ends, Allocated, Left, Leaving
  <1>8. Ahead'
    BY <1>1, <1>2, <1>4 DEF Ahead, SnapshotTypeOK
  <1> QED BY <1>4, <1>5, <1>6, <1>7, <1>8 DEF SnapInv, ListInv

LEMMA ReaderCloses ==
    ASSUME SnapshotAssumption, SnapInv, CasClose
    PROVE  SnapInv'
  <1>1. /\ rpc = "cas" /\ Alive /\ Alive' /\ rpc' \in {"closed?", "release", "idle"}
        /\ call' \in {call, "update"} /\ ahead' \in {ahead, Null}
        /\ UNCHANGED <<data, released, wtail, wpc, published, current, seen, newest>>
        /\ \/ /\ next[current] = Null /\ next' = [next EXCEPT ![current] = current]
           \/ /\ next[current] # Null /\ next' = next /\ rpc' = "closed?"
    BY DEF CasClose, CloseReturns, writer, Alive
  <1>2. SnapshotTypeOK /\ HeapExact /\ NoUseAfterFree /\ UpdateReachesNewest /\ Nodes /\ Ends /\ Ahead
    BY DEF SnapInv, ListInv
  <1>3. /\ current \in Allocated /\ data[current] = seen /\ newest <= published
        /\ next[current] = Null => seen = published
    <2>1. Null \notin Allocated
      BY DEF SnapshotAssumption, Allocated
    <2> QED BY <1>1, <1>2, <2>1, ListIs DEF Nodes
  <1>4. CASE next[current] = Null
    <2>1. /\ HeapExact' /\ Nodes' /\ next' \in [Addr -> Addr \cup {Null}]
          /\ \A a \in Allocated : data[a] = published => a = current /\ next'[a] = a
      BY <1>1, <1>3, <1>4, NodeCloses
    <2>2. SnapshotTypeOK'
      BY <1>1, <1>2, <2>1 DEF SnapshotTypeOK
    <2>3. NoUseAfterFree' /\ UpdateReachesNewest'
      BY <1>1, <1>2, <1>3, <1>4 DEF NoUseAfterFree, UpdateReachesNewest
    <2>4. Ends' /\ Ahead'
      BY <1>1, <1>2, <1>3, <1>4, <2>1 DEF Ends, Ahead, Allocated, Left, Leaving
    <2> QED BY <2>1, <2>2, <2>3, <2>4 DEF SnapInv, ListInv
  <1>5. CASE next[current] # Null
    <2>1. SnapshotTypeOK'
      BY <1>1, <1>2, <1>5 DEF SnapshotTypeOK
    <2>2. NoUseAfterFree' /\ UpdateReachesNewest' /\ HeapExact'
      BY <1>1, <1>2, <1>5 DEF NoUseAfterFree, UpdateReachesNewest, HeapExact, Allocated
    <2>3. Ends' /\ Ahead' /\ Nodes'
      BY <1>1, <1>2, <1>5 DEF Ends, Ahead, Nodes, Allocated, Left, Leaving
    <2> QED BY <2>1, <2>2, <2>3 DEF SnapInv, ListInv
  <1> QED BY <1>4, <1>5

\* Steps of the reader that look at its node and change nothing but the call.
LEMMA ReaderLooks ==
    ASSUME SnapshotAssumption, SnapInv,
           \/ \E c \in {"update", "close", "drop"} : StartReader(c)
           \/ LoadNext \/ CheckClosed \/ ReloadNext \/ IsClosed
    PROVE  SnapInv'
  <1>1. /\ rpc \in {"idle", "load", "check", "reload", "closed?"}
        /\ UNCHANGED <<data, next, released, wtail, wpc, published, current, seen>>
        /\ newest' \in {newest, published} /\ Alive
    BY DEF StartReader, LoadNext, CheckClosed, ReloadNext, IsClosed, heap, writer, Alive
  <1>2. /\ SnapshotTypeOK /\ HeapExact /\ NoUseAfterFree /\ UpdateReachesNewest
        /\ Nodes /\ Ends /\ Ahead
    BY DEF SnapInv, ListInv
  <1>3. /\ current \in Allocated /\ data[current] = seen /\ newest <= published
        /\ newest \in Nat /\ published \in Nat
        /\ next[current] \in {Null, current} => seen = published
        /\ next[current] # Null => next[current] \in Allocated
        /\ rpc = "check" => ahead = next[current]
    <2>1. Null \notin Allocated
      BY DEF SnapshotAssumption, Allocated
    <2> QED BY <1>1, <1>2, <2>1, ListIs DEF Nodes, Ahead
  <1>4. /\ rpc' \in {"idle", "load", "check", "walk", "reload", "cas", "closed?", "release"}
        /\ rpc' \in {"idle", "release"} => seen = published
        /\ rpc' = "release" => next[current] = current
        /\ rpc' \in {"check", "walk"} => ahead' = next[current] /\ ahead' # Null
        /\ ahead' \in Addr \cup {Null} /\ call' \in {"update", "close", "drop"}
    BY <1>1, <1>2, <1>3
    DEF StartReader, LoadNext, CheckClosed, ReloadNext, IsClosed, UpdateReturns, CloseReturns,
        SnapshotTypeOK, Ahead
  <1>5. SnapshotTypeOK'
    BY <1>1, <1>2, <1>4 DEF SnapshotTypeOK
  <1>6. Nodes' /\ HeapExact'
    BY <1>1, <1>2, <1>3, <1>4 DEF Nodes, HeapExact, Allocated
  <1>7. NoUseAfterFree' /\ UpdateReachesNewest' /\ Ahead'
    BY <1>1, <1>2, <1>3, <1>4 DEF NoUseAfterFree, UpdateReachesNewest, Ahead, Allocated
  <1>8. Ends'
    BY <1>1, <1>2, <1>3, <1>4 DEF Ends, Nodes, Allocated, Left, Leaving
  <1> QED BY <1>5, <1>6, <1>7, <1>8 DEF SnapInv, ListInv

\* The reader moves to the next node and frees the one it leaves.
LEMMA WalkKeeps ==
    ASSUME SnapshotAssumption, SnapInv, Walk
    PROVE  SnapInv'
  <1>1. /\ rpc = "walk" /\ Alive /\ Alive'
        /\ UNCHANGED <<wtail, wpc, published, call, newest>>
    BY DEF Walk, writer, UpdateReturns, Alive
  <1>2. /\ SnapshotTypeOK /\ HeapExact /\ NoUseAfterFree /\ UpdateReachesNewest
        /\ Nodes /\ Ends /\ Ahead /\ ahead = next[current] /\ ahead # Null
    BY <1>1 DEF SnapInv, ListInv, Ahead
  <1>3. /\ current \in Allocated /\ data[current] = seen /\ newest <= published
        /\ newest \in Nat /\ published \in Nat /\ seen \in Nat /\ seen <= published
        /\ current \in Addr /\ data \in [Addr -> Nat]
        /\ wpc # "gone" => wtail \in Allocated /\ data[wtail] = published
    BY <1>1, <1>2, ListIs DEF Nodes
  <1>4. CASE ahead = current
    <2>1. /\ UNCHANGED <<data, next, released, current, seen>>
          /\ rpc' \in {"idle", "cas"} /\ ahead' = Null /\ seen = published
      <3>1. data[current] < published => data[next[current]] = data[current] + 1
        BY <1>1, <1>3, ListIs
      <3>2. seen = published
        BY <1>2, <1>3, <1>4, <3>1
      <3> QED BY <1>4, <3>2 DEF Walk, UpdateReturns, heap
    <2>2. SnapshotTypeOK' /\ Ahead' /\ NoUseAfterFree' /\ UpdateReachesNewest'
      BY <1>1, <1>2, <1>3, <2>1 DEF SnapshotTypeOK, Ahead, NoUseAfterFree, UpdateReachesNewest
    <2>3. Nodes' /\ HeapExact' /\ Ends'
      BY <1>1, <1>2, <1>3, <2>1 DEF Nodes, HeapExact, Ends, Allocated, Left, Leaving
    <2> QED BY <2>2, <2>3 DEF SnapInv, ListInv
  <1>5. CASE ahead # current
    <2> DEFINE old == Allocated
               new == Allocated \ {current}
    <2>1. /\ current' = ahead /\ seen' = data[ahead] /\ rpc' = "reload" /\ ahead' = ahead
          /\ data' = [data EXCEPT ![current] = 0] /\ next' = [next EXCEPT ![current] = Null]
          /\ released' = [released EXCEPT ![current] = FALSE]
      BY <1>5 DEF Walk, Free
    <2>2. /\ seen < published /\ ahead \in new /\ data[ahead] = seen + 1 /\ seen' = seen + 1
          /\ ahead \in Addr
      BY <1>1, <1>2, <1>3, <1>5, <2>1, ListIs
    <2>3. /\ Allocated' = new /\ data'[current] = 0 /\ next'[current] = Null
          /\ ~released'[current]
          /\ \A a \in Addr \ {current} :
                data'[a] = data[a] /\ next'[a] = next[a] /\ released'[a] = released[a]
      BY <1>2, <1>3, <2>1 DEF SnapshotTypeOK, Allocated
    <2>4. \A a \in new : /\ a \in Addr \ {current} /\ data[a] \in seen + 1 .. published
                         /\ data[a] < published =>
                               next[a] \in new /\ data[next[a]] = data[a] + 1
                         /\ data[a] = published => next[a] \in {Null, a}
      <3> SUFFICES ASSUME NEW a \in new
                   PROVE  /\ a \in Addr \ {current} /\ data[a] \in seen + 1 .. published
                          /\ data[a] < published =>
                                next[a] \in new /\ data[next[a]] = data[a] + 1
                          /\ data[a] = published => next[a] \in {Null, a}
        OBVIOUS
      <3>1. /\ a \in Addr \ {current} /\ data[a] \in seen .. published
            /\ data[a] < published => next[a] \in old /\ data[next[a]] = data[a] + 1
            /\ data[a] = published => next[a] \in {Null, a}
        BY <1>1, ListIs
      <3>2. data[a] # seen
        BY <1>2, <1>3 DEF Nodes
      <3>3. data[a] < published => next[a] # current
        BY <1>3, <3>1, <3>2
      <3> QED BY <1>3, <3>1, <3>2, <3>3
    <2>5. HeapExact'
      <3>1. {data'[a] : a \in new} = seen + 1 .. published
        <4>1. {data[a] : a \in old} = seen .. published
          BY <1>1, ListIs
        <4>2. ASSUME NEW v \in seen + 1 .. published
              PROVE  \E a \in new : data'[a] = v
          <5>1. PICK a \in old : data[a] = v
            BY <1>3, <4>1
          <5>2. a \in new
            BY <1>3, <5>1
          <5> QED BY <2>3, <2>4, <5>1, <5>2
        <4>3. \A a \in new : data'[a] \in seen + 1 .. published
          BY <2>3, <2>4
        <4> QED BY <4>2, <4>3
      <3>2. Cardinality(new) = published - (seen + 1) + 1
        <4>1. Cardinality(new) = Cardinality(old) - 1
          BY <1>2, <1>3, FS_RemoveElement DEF Nodes
        <4> QED BY <1>1, <1>3, <4>1, ListIs
      <3>3. \A a \in new :
               \/ data'[a] < published /\ data'[next'[a]] = data'[a] + 1
               \/ data'[a] = published /\ next'[a] \in {Null, a}
        <4> HIDE DEF new
        <4> QED BY <1>3, <2>3, <2>4
      <3> QED BY <1>1, <2>2, <2>3, <3>1, <3>2, <3>3 DEF HeapExact, Alive
    <2>6. Nodes'
      <3>1. IsFiniteSet(new)
        BY <1>2, FS_RemoveElement DEF Nodes
      <3>2. \A a \in Addr \ new : next'[a] = Null /\ ~released'[a]
        BY <1>2, <2>3 DEF Nodes
      <3>3. \A a, b \in new : data'[a] = data'[b] => a = b
        BY <1>2, <2>3, <2>4 DEF Nodes
      <3>4. \A a \in new : data'[a] < published => next'[a] \in new
        BY <2>3, <2>4
      <3> QED BY <1>1, <1>3, <2>3, <3>1, <3>2, <3>3, <3>4 DEF Nodes
    <2>7. SnapshotTypeOK'
      <3>1. seen + 1 \in Version
        BY <1>2, <1>3, <2>2 DEF SnapshotTypeOK, Version, SnapshotAssumption
      <3> QED BY <1>1, <1>2, <2>1, <2>2, <3>1 DEF SnapshotTypeOK
    <2>8. NoUseAfterFree' /\ UpdateReachesNewest' /\ Ahead'
      <3>1. wpc # "gone" => wtail \in new
        BY <1>3, <2>2
      <3> QED BY <1>1, <2>1, <2>2, <2>3, <2>4, <1>3, <3>1
              DEF NoUseAfterFree, UpdateReachesNewest, Ahead
    <2>9. Ends'
      <3>1. \A a \in new : a \in old /\ data'[a] = data[a] /\ released'[a] = released[a]
                           /\ next'[a] = next[a]
        BY <2>3, <2>4
      <3> QED BY <1>1, <1>2, <2>1, <2>3, <3>1 DEF Ends, Left, Leaving
    <2> QED BY <2>5, <2>6, <2>7, <2>8, <2>9 DEF SnapInv, ListInv
  <1> QED BY <1>4, <1>5

\* An end releases its node, which is the last one.
LEMMA ReleaseKeeps ==
    ASSUME SnapshotAssumption, SnapInv, ReleaseWriter \/ ReleaseReader
    PROVE  SnapInv'
  <1>1. /\ SnapshotTypeOK /\ HeapExact /\ NoUseAfterFree /\ UpdateReachesNewest
        /\ Nodes /\ Ends /\ Ahead
    BY DEF SnapInv, ListInv
  <1>2. PICK c \in Allocated : /\ data[c] = published
                               /\ released' = [released EXCEPT ![c] = TRUE]
                               /\ \/ /\ wpc = "release" /\ wpc' = AfterRelease(c) /\ rpc' = rpc
                                  \/ /\ rpc = "release" /\ rpc' = AfterRelease(c) /\ wpc' = wpc
    <2>1. CASE ReleaseWriter
      BY <2>1, ListIs DEF ReleaseWriter, reader, Alive
    <2>2. CASE ReleaseReader
      BY <1>1, <2>2, ListIs DEF ReleaseReader, writer, Alive, Ends, Leaving
    <2> QED BY <2>1, <2>2
  <1>3. /\ UNCHANGED <<data, next, wtail, published, current, call, ahead, seen, newest>>
        /\ c \in Addr /\ published \in Nat
        /\ \A a \in Allocated : data[a] = published => a = c
    BY <1>1, <1>2 DEF ReleaseWriter, ReleaseReader, writer, reader, Nodes, Allocated, SnapshotTypeOK,
                      Version
  <1>4. released[c] <=> wpc \in Left \/ rpc \in Left
    BY <1>1, <1>2 DEF Ends
  <1>5. /\ Alive /\ Alive' /\ wpc' \in {"idle", "release", "free", "gone"}
        /\ rpc' \in Left => rpc \in Leaving
        /\ rpc' \in {rpc, "free", "gone"}
        /\ wpc' = "free" => rpc' = "gone"
        /\ rpc' = "free" => wpc' = "gone"
        /\ wpc' \in Left \/ rpc' \in Left
        /\ wpc' # "idle" \/ rpc' \in Leaving => wpc # "idle" \/ rpc \in Leaving
        /\ wpc' # "gone" => wpc # "gone"
        /\ rpc' # "gone" => rpc # "gone"
    BY <1>1, <1>2, <1>4 DEF Alive, AfterRelease, Left, Leaving, Ends, SnapshotTypeOK
  <1>6. SnapshotTypeOK'
    BY <1>1, <1>2, <1>3, <1>5 DEF SnapshotTypeOK
  <1>7. HeapExact' /\ Nodes'
    <2>1. \A a \in Addr \ Allocated : released'[a] = released[a]
      BY <1>1, <1>2 DEF SnapshotTypeOK
    <2> QED BY <1>1, <1>3, <1>5, <2>1 DEF HeapExact, Alive, Nodes, Allocated
  <1>8. NoUseAfterFree' /\ UpdateReachesNewest' /\ Ahead'
    <2>1. rpc' \in Left => seen >= newest
      BY <1>1, <1>3, <1>5 DEF Ends, Nodes, SnapshotTypeOK, Version
    <2>2. rpc' \in {"check", "walk"} => rpc = rpc'
      BY <1>5
    <2> QED BY <1>1, <1>3, <1>5, <2>1, <2>2
            DEF NoUseAfterFree, UpdateReachesNewest, Ahead, Left
  <1>9. Ends'
    <2>1. \A a \in Allocated : /\ a \in Addr
                               /\ released'[a] <=> data[a] = published
      BY <1>1, <1>2, <1>3 DEF Ends, SnapshotTypeOK, Allocated
    <2>2. rpc' \in Leaving => seen = published
      BY <1>1, <1>5 DEF Ends, Left, Leaving
    <2> QED BY <1>1, <1>3, <1>5, <2>1, <2>2 DEF Ends, Allocated
  <1> QED BY <1>6, <1>7, <1>8, <1>9 DEF SnapInv, ListInv

\* The end that left second frees the last node, and the heap is empty.
LEMMA FreeKeeps ==
    ASSUME SnapshotAssumption, SnapInv, FreeWriter \/ FreeReader
    PROVE  SnapInv'
  <1>1. /\ SnapshotTypeOK /\ HeapExact /\ NoUseAfterFree /\ UpdateReachesNewest
        /\ Nodes /\ Ends /\ Ahead
    BY DEF SnapInv, ListInv
  <1>2. /\ Alive /\ seen = published /\ wpc' = "gone" /\ rpc' = "gone"
        /\ UNCHANGED <<wtail, published, current, call, ahead, seen, newest>>
    BY <1>1 DEF FreeWriter, FreeReader, writer, reader, Alive, Ends, Leaving
  <1>3. PICK c \in Allocated : data[c] = published /\ Free(c)
    BY <1>1, <1>2, ListIs DEF FreeWriter, FreeReader
  <1>4. c \in Addr /\ published \in Nat /\ Allocated = {c}
    <2>1. \A a \in Allocated : data[a] = published
      BY <1>2, ListIs
    <2> QED BY <1>1, <1>3, <2>1 DEF Nodes, Allocated, SnapshotTypeOK, Version
  <1>5. /\ Allocated' = {} /\ data' = [data EXCEPT ![c] = 0]
        /\ \A a \in Addr : next'[a] = Null /\ ~released'[a]
    BY <1>1, <1>3, <1>4 DEF Free, Nodes, SnapshotTypeOK, Allocated
  <1>6. SnapshotTypeOK'
    BY <1>1, <1>2, <1>3, <1>4 DEF SnapshotTypeOK, Free
  <1>7. HeapExact' /\ Nodes' /\ Ends' /\ Ahead' /\ NoUseAfterFree'
    BY <1>1, <1>2, <1>5, FS_EmptySet DEF HeapExact, Nodes, Ends, Ahead, NoUseAfterFree
  <1>8. UpdateReachesNewest'
    BY <1>1, <1>2, <1>4 DEF UpdateReachesNewest, Nodes, SnapshotTypeOK, Version
  <1> QED BY <1>6, <1>7, <1>8 DEF SnapInv, ListInv

LEMMA NextSnap ==
    ASSUME SnapshotAssumption, SnapInv, [SnapshotNext]_snapshotVars
    PROVE  SnapInv'
  <1>1. CASE Publish
    BY <1>1, PublishKeeps
  <1>2. CASE CloseWriter \/ DropWriter
    BY <1>2, WriterCloses
  <1>3. CASE WriterStep
    BY <1>3, ReleaseKeeps, FreeKeeps DEF WriterStep
  <1>4. CASE \E c \in {"update", "close", "drop"} : StartReader(c)
    BY <1>4, ReaderLooks
  <1>5. CASE ReaderStep
    BY <1>5, ReaderLooks, ReaderCloses, WalkKeeps, ReleaseKeeps, FreeKeeps DEF ReaderStep
  <1>6. CASE UNCHANGED snapshotVars
    BY <1>6 DEF snapshotVars, heap, writer, reader, SnapInv, SnapshotTypeOK, ListInv, NoUseAfterFree, HeapExact,
                UpdateReachesNewest, Nodes, Ends, Ahead, Allocated
  <1> QED BY <1>1, <1>2, <1>3, <1>4, <1>5, <1>6 DEF SnapshotNext

LEMMA AlwaysSnap == ASSUME SnapshotAssumption PROVE SnapshotSpec => []SnapInv
  BY InitSnap, NextSnap, PTL DEF SnapshotSpec

------------------------------------------------------------------------------
(* Theorems.                                                                  *)

\* publish, update, close and drop of both ends, in any order: no end follows
\* a pointer to a freed node, the list holds the publications the reader has
\* not left behind and nothing else, and the reader is never sent back.
THEOREM SnapshotListSound ==
    ASSUME SnapshotAssumption
    PROVE  SnapshotSpec => [](SnapshotTypeOK /\ ListInv)
  <1>1. SnapInv => SnapshotTypeOK /\ ListInv
    BY DEF SnapInv
  <1> QED BY <1>1, AlwaysSnap, PTL

\* The next of a living node is written once, by the publication or by the
\* close that wins it: the stores of the writer's close and the CAS of the
\* reader's never undo a link, nor a close.
THEOREM SnapshotNextWrittenOnce ==
    ASSUME SnapshotAssumption
    PROVE  SnapshotSpec => NextWrittenOnce
  <1> DEFINE Once(a) == next[a] # Null /\ data'[a] = data[a] => next'[a] = next[a]
  <1>1. ASSUME SnapInv, [SnapshotNext]_snapshotVars, NEW a \in Allocated
        PROVE  Once(a)
    <2>1. /\ a \in Addr /\ data[a] # 0 /\ wtail \in Addr /\ current \in Addr
          /\ data \in [Addr -> Version \cup {0}] /\ next \in [Addr -> Addr \cup {Null}]
      BY <1>1 DEF SnapInv, SnapshotTypeOK, Allocated
    <2>2. CASE Publish
      BY <2>1, <2>2 DEF Publish
    <2>3. CASE CloseWriter \/ DropWriter
      <3>1. wtail \in Allocated /\ data[wtail] = published
        BY <1>1, <2>3, ListIs DEF CloseWriter, DropWriter, Alive
      <3>2. next[wtail] \in {Null, wtail}
        BY <1>1, <2>3, <3>1, ListIs DEF CloseWriter, DropWriter, Alive
      <3> QED BY <2>1, <2>3, <3>2 DEF CloseWriter, DropWriter
    <2>4. CASE FreeWriter \/ FreeReader \/ Walk
      BY <2>1, <2>4 DEF FreeWriter, FreeReader, Walk, Free, heap
    <2>5. CASE CasClose
      BY <2>1, <2>5 DEF CasClose
    <2>6. CASE \/ ReleaseWriter \/ ReleaseReader
               \/ \E c \in {"update", "close", "drop"} : StartReader(c)
               \/ LoadNext \/ CheckClosed \/ ReloadNext \/ IsClosed \/ UNCHANGED snapshotVars
      <3>1. next' = next
        BY <2>6 DEF ReleaseWriter, ReleaseReader, StartReader, LoadNext, CheckClosed, ReloadNext,
                    IsClosed, snapshotVars, heap
      <3> QED BY <3>1
    <2> QED BY <1>1, <2>2, <2>3, <2>4, <2>5, <2>6 DEF SnapshotNext, WriterStep, ReaderStep
  <1>2. SnapInv /\ [SnapshotNext]_snapshotVars => [\A a \in Allocated : Once(a)]_snapshotVars
    BY <1>1
  <1> QED BY <1>2, AlwaysSnap, PTL DEF SnapshotSpec, NextWrittenOnce

\* Once the reader's node points to itself, is_closed is true and update fails:
\* nothing was published behind it and nothing ever is, whichever end closed.
THEOREM SnapshotClosedIsFinal ==
    ASSUME SnapshotAssumption
    PROVE  SnapshotSpec => ClosedIsFinal
  <1> DEFINE Final == next[current] = current /\ rpc # "gone" =>
                         seen = published /\ UNCHANGED <<published, seen>>
  <1>1. ASSUME SnapInv, [SnapshotNext]_snapshotVars, next[current] = current, rpc # "gone"
        PROVE  seen = published /\ UNCHANGED <<published, seen>>
    <2>1. /\ Alive /\ current \in Allocated /\ data[current] = seen /\ current # Null
          /\ seen \in Nat /\ published \in Nat /\ seen <= published
          /\ data[current] < published => data[next[current]] = data[current] + 1
      <3>1. Alive
        BY <1>1 DEF Alive
      <3>2. /\ current \in Allocated /\ data[current] = seen
            /\ seen \in Nat /\ published \in Nat /\ seen <= published
        BY <1>1, <3>1, ListIs
      <3>3. data[current] < published => data[next[current]] = data[current] + 1
        BY <1>1, <3>1, <3>2, ListIs
      <3>4. current # Null
        BY SnapshotAssumption, <3>2 DEF SnapshotAssumption, Allocated
      <3> QED BY <3>1, <3>2, <3>3, <3>4
    <2>2. seen = published
      BY <1>1, <2>1
    <2>3. ~Publish
      <3>1. wpc = "idle" => wtail = current
        BY <1>1, <2>2, SameNode
      <3> QED BY <1>1, <2>1, <3>1 DEF Publish
    <2>4. ~(Walk /\ ahead # current)
      BY <1>1 DEF Walk, SnapInv, Ahead
    <2>5. UNCHANGED <<published, seen>>
      BY <1>1, <2>3, <2>4
      DEF SnapshotNext, WriterStep, ReaderStep, CloseWriter, DropWriter, ReleaseWriter, FreeWriter,
          StartReader, LoadNext, CheckClosed, Walk, ReloadNext, CasClose, IsClosed,
          ReleaseReader, FreeReader, snapshotVars, writer, reader
    <2> QED BY <2>2, <2>5
  <1>2. SnapInv /\ [SnapshotNext]_snapshotVars => [Final]_snapshotVars
    BY <1>1
  <1> QED BY <1>2, AlwaysSnap, PTL DEF SnapshotSpec, ClosedIsFinal

\* All of it: for every heap and every number of publications.
THEOREM SnapshotIsSound ==
    ASSUME SnapshotAssumption
    PROVE  SnapshotSpec => SnapshotSound
  <1>1. SnapshotSpec => [](SnapshotTypeOK /\ ListInv)
    BY SnapshotListSound
  <1>2. SnapshotSpec => NextWrittenOnce
    BY SnapshotNextWrittenOnce
  <1>3. SnapshotSpec => ClosedIsFinal
    BY SnapshotClosedIsFinal
  <1> QED BY <1>1, <1>2, <1>3 DEF SnapshotSound

------------------------------------------------------------------------------
(* The reference queue: its inductive invariant.                              *)

Taken     == WSub(tail, head)
Ticket(i) == WAdd(head, i)
Cell(idx) == cells[Slot(idx)]

Claimed(p) == prod[p].pc \in {"write", "publish"}

PushTyped ==
    /\ RefTypeOK /\ Taken \in Nat
    /\ prod \in [Producers -> [pc : {"idle", "load", "test", "cas", "write", "publish"},
                               pos : Cursor, n : Nat, full : Nat]]
    /\ moves \in [Producers -> Nat]
    /\ ring \in {"live", "dropped"}
    /\ took \in [Pushed \cup {NoData} -> Nat]
    /\ accepted \subseteq Pushed

\* The tickets from head on: those that were taken are published or being written, the
\* slots of the others wait for them.
Published(i) == Cell(Ticket(i)).seq = WAdd(Ticket(i), 1)

TicketState ==
    \A i \in 0 .. N - 1 :
        /\ i >= Taken => Cell(Ticket(i)).seq = Ticket(i)
        /\ i < Taken => \/ Published(i) /\ Cell(Ticket(i)).data \in accepted
                        \/ /\ Cell(Ticket(i)).seq = Ticket(i)
                           /\ \E p \in Producers : Claimed(p) /\ prod[p].pos = Ticket(i)

\* A producer past its compare-and-swap owns its ticket.
ClaimState ==
    \A p \in Producers : Claimed(p) =>
        /\ \E i \in 0 .. N - 1 : i < Taken /\ prod[p].pos = Ticket(i)
        /\ Cell(prod[p].pos).seq = prod[p].pos
        /\ prod[p].pc = "publish" => Cell(prod[p].pos).data = Msg(p, prod[p].n)
        /\ \A q \in Producers : Claimed(q) /\ prod[q].pos = prod[p].pos => q = p

\* A producer before it looks at a tail that was less than half the range ago.
LookState ==
    \A p \in Producers : Looking(p) =>
        /\ moves[p] = WSub(tail, prod[p].pos) /\ moves[p] <= W \div 2 - N
        /\ prod[p].pc = "cas" /\ tail = prod[p].pos => Taken < N

\* Every message is pushed once ...
MessageState ==
    /\ \A p \in Producers :
          /\ prod[p].n \in 0 .. MaxMsgs /\ (prod[p].pc # "idle" => prod[p].n # 0)
          /\ \A k \in 1 .. MaxMsgs : Msg(p, k) \in accepted =>
                k <= prod[p].n /\ (k = prod[p].n => prod[p].pc = "idle")
    /\ \A i, j \in 0 .. N - 1 :
          /\ i < Taken /\ Published(i) /\ j < Taken /\ Published(j)
          /\ Cell(Ticket(i)).data = Cell(Ticket(j)).data
          => i = j

\* ... and is in the ring or was handed over.
InRing(v) == \E i \in 0 .. N - 1 : i < Taken /\ Published(i) /\ Cell(Ticket(i)).data = v

TookState ==
    \A v \in Pushed \cup {NoData} :
        took[v] = IF v \in accepted /\ ~(ring = "live" /\ InRing(v)) THEN 1 ELSE 0

PopState == pop = <<>> \/ (ring = "live" /\ 0 < Taken /\ Published(0) /\ pop = <<Cell(head).data>>)

RefInv ==
    /\ PushTyped /\ TicketState /\ ClaimState /\ LookState /\ MessageState /\ TookState
    /\ PopState

\* The tickets of the ring and their slots.
LEMMA Places ==
    ASSUME PushTyped
    PROVE  /\ N \in Nat /\ N >= 2 /\ W \in Nat /\ W >= 2 * N
           /\ head \in Cursor /\ tail \in Cursor /\ Taken \in 0 .. N
           /\ Ticket(0) = head /\ Ticket(Taken) = tail
           /\ \A i \in 0 .. N : Ticket(i) \in Cursor /\ Slot(Ticket(i)) \in Slots
           /\ \A i \in 0 .. N : WAdd(Ticket(i), 1) \in Cursor /\ WAdd(Ticket(i), 1) # Ticket(i)
           /\ \A i, j \in 0 .. N : Ticket(i) = Ticket(j) => i = j
           /\ \A i, j \in 0 .. N - 1 : Slot(Ticket(i)) = Slot(Ticket(j)) => i = j
           /\ Slot(Ticket(N)) = Slot(head)
  <1>1. /\ N \in Nat /\ N >= 2 /\ W \in Nat /\ W >= 2 * N
        /\ head \in Cursor /\ tail \in Cursor /\ Taken \in 0 .. N
    BY Bounds DEF PushTyped, RefTypeOK, Taken
  <1>2. Ticket(0) = head /\ Ticket(Taken) = tail
    BY <1>1 DEF Ticket, Taken, Cursor, WAdd, WSub
  <1>3. ASSUME NEW i \in 0 .. N
        PROVE  /\ Ticket(i) \in Cursor /\ Slot(Ticket(i)) \in Slots
               /\ WAdd(Ticket(i), 1) \in Cursor /\ WAdd(Ticket(i), 1) # Ticket(i)
    <2>1. Ticket(i) \in Cursor
      BY <1>1 DEF Ticket, Cursor, WAdd
    <2> QED BY <1>1, <2>1, SlotType DEF Cursor, WAdd
  <1>4. \A i, j \in 0 .. N : Ticket(i) = Ticket(j) => i = j
    BY <1>1 DEF Ticket, Cursor, WAdd
  <1>5. \A i, j \in 0 .. N - 1 : Slot(Ticket(i)) = Slot(Ticket(j)) => i = j
    BY <1>1, SlotsApart DEF Ticket
  <1>6. Slot(Ticket(N)) = Slot(head)
    BY <1>1, SlotLap DEF Ticket
  <1> QED BY <1>1, <1>2, <1>3, <1>4, <1>5, <1>6

\* What a step of a producer that owns no ticket leaves as it is.
LEMMA QuietKeeps ==
    ASSUME RefInv, NEW p \in Producers, ~Claimed(p), ~Claimed(p)',
           UNCHANGED <<cells, tail, head, ring, took, accepted, pop>>,
           \A q \in Producers : q # p => prod'[q] = prod[q]
    PROVE  TicketState' /\ ClaimState' /\ TookState' /\ PopState'
  <1>1. /\ UNCHANGED Taken /\ \A i : Ticket(i)' = Ticket(i) /\ (Published(i)' <=> Published(i))
        /\ \A idx : Cell(idx)' = Cell(idx)
    BY DEF Taken, Ticket, Published, Cell
  <1>2. \A q \in Producers : /\ Claimed(q)' <=> Claimed(q)
                             /\ Claimed(q) => prod'[q] = prod[q]
    BY DEF Claimed
  <1>3. TicketState'
    BY <1>1, <1>2 DEF RefInv, TicketState
  <1>4. ClaimState'
    BY <1>1, <1>2 DEF RefInv, ClaimState
  <1>5. TookState' /\ PopState'
    BY <1>1 DEF RefInv, TookState, PopState, InRing
  <1> QED BY <1>3, <1>4, <1>5

LEMMA LoadKeeps ==
    ASSUME RefInv, MaxMsgs \in Nat, NEW p \in Producers, LoadTail(p)
    PROVE  RefInv'
  <1>1. /\ UNCHANGED <<cells, tail, head, pop, ring, delivered, took, accepted>>
        /\ moves' = [moves EXCEPT ![p] = 0]
        /\ prod[p].pc \in {"idle", "load"}
    BY DEF LoadTail, Stage
  <1>t. PushTyped /\ prod[p].n \in 0 .. MaxMsgs /\ (prod[p].pc # "idle" => prod[p].n # 0)
    BY DEF RefInv, MessageState
  <1>3. /\ \A q \in Producers : q # p => prod'[q] = prod[q] /\ moves'[q] = moves[q]
        /\ prod'[p].pc = "test" /\ prod'[p].pos = tail /\ moves'[p] = 0
        /\ prod' \in [Producers -> [pc : {"idle", "load", "test", "cas", "write", "publish"},
                                    pos : Cursor, n : Nat, full : Nat]]
    BY <1>t DEF LoadTail, Stage, PushTyped, RefTypeOK
  <1>2. /\ prod'[p].n = prod[p].n \/ (prod'[p].n = prod[p].n + 1 /\ prod[p].pc = "idle")
        /\ prod'[p].n # 0 /\ prod'[p].n <= MaxMsgs
        /\ prod'[p].n = prod[p].n => prod[p].pc # "idle"
    BY <1>t DEF LoadTail, Stage, PushTyped
  <1>4. ~Claimed(p) /\ ~Claimed(p)'
    BY <1>1, <1>3 DEF Claimed
  <1>5. TicketState' /\ ClaimState' /\ TookState' /\ PopState'
    BY <1>1, <1>3, <1>4, QuietKeeps
  <1>6. PushTyped'
    BY <1>1, <1>3, <1>t DEF PushTyped, RefTypeOK, Taken
  <1>7. LookState'
    <2>1. WSub(tail, tail) = 0 /\ 0 <= W \div 2 - N
      BY <1>t, Places DEF WSub, Cursor
    <2> QED BY <1>1, <1>3, <2>1 DEF RefInv, LookState, Looking, Taken
  <1>8. MessageState'
    <2>1. \A i : Ticket(i)' = Ticket(i) /\ (Published(i)' <=> Published(i)) /\ UNCHANGED Taken
                 /\ Cell(Ticket(i))' = Cell(Ticket(i))
      BY <1>1 DEF Taken, Ticket, Published, Cell
    <2>2. ASSUME NEW q \in Producers
          PROVE  /\ prod'[q].n \in 0 .. MaxMsgs /\ (prod'[q].pc # "idle" => prod'[q].n # 0)
                 /\ \A k \in 1 .. MaxMsgs : Msg(q, k) \in accepted' =>
                      k <= prod'[q].n /\ (k = prod'[q].n => prod'[q].pc = "idle")
      <3>1. CASE q = p
        BY <1>1, <1>2, <1>3, <3>1, <1>t DEF RefInv, MessageState, PushTyped
      <3>2. CASE q # p
        BY <1>1, <1>3, <3>2 DEF RefInv, MessageState
      <3> QED BY <3>1, <3>2
    <2> QED BY <2>1, <2>2 DEF RefInv, MessageState
  <1> QED BY <1>5, <1>6, <1>7, <1>8 DEF RefInv

\* A free ticket is told by the cell of the tail.
LEMMA FreeTail ==
    ASSUME RefInv, cells[Slot(tail)].seq = tail
    PROVE  Taken < N
  <1>1. PushTyped /\ TicketState
    BY DEF RefInv
  <1> USE Places, <1>1
  <1>2. SUFFICES ASSUME Taken = N PROVE FALSE
    OBVIOUS
  <1>3. Slot(tail) = Slot(head) /\ tail = Ticket(N) /\ head = Ticket(0)
    BY <1>2
  <1>4. 0 < Taken /\ 0 \in 0 .. N - 1 /\ WAdd(Ticket(0), 1) = Ticket(1)
    BY <1>2 DEF Ticket
  <1>5. Cell(Ticket(0)).seq = WAdd(Ticket(0), 1) \/ Cell(Ticket(0)).seq = Ticket(0)
    BY <1>1, <1>4 DEF TicketState, Published
  <1>6. Ticket(N) = Ticket(1) \/ Ticket(N) = Ticket(0)
    BY <1>3, <1>4, <1>5 DEF Cell
  <1> QED BY <1>6

LEMMA TestKeeps ==
    ASSUME RefInv, NEW p \in Producers, TestSeq(p)
    PROVE  RefInv'
  <1>1. /\ UNCHANGED <<cells, tail, head, pop, ring, delivered, took, accepted, moves>>
        /\ prod[p].pc = "test"
    BY DEF TestSeq, Stage
  <1>t. PushTyped
    BY DEF RefInv
  <1>2. /\ \A q \in Producers : q # p => prod'[q] = prod[q]
        /\ prod'[p].pc \in {"cas", "idle", "load"}
        /\ prod'[p].pos = prod[p].pos /\ prod'[p].n = prod[p].n
        /\ prod'[p].pc = "cas" => Diff(p) = 0
        /\ prod' \in [Producers -> [pc : {"idle", "load", "test", "cas", "write", "publish"},
                                    pos : Cursor, n : Nat, full : Nat]]
    BY <1>t DEF TestSeq, Stage, Set, PushTyped
  <1>3. ~Claimed(p) /\ ~Claimed(p)'
    BY <1>1, <1>2 DEF Claimed
  <1>4. TicketState' /\ ClaimState' /\ TookState' /\ PopState'
    BY <1>1, <1>2, <1>3, QuietKeeps
  <1>5. PushTyped'
    BY <1>1, <1>2, <1>t DEF PushTyped, RefTypeOK, Taken
  <1>6. LookState'
    <2>1. Diff(p) = 0 /\ tail = prod[p].pos => cells[Slot(tail)].seq = tail
      <3>1. /\ tail \in Cursor /\ Slot(tail) \in Slots /\ cells[Slot(tail)].seq \in Cursor
            /\ W \in Nat
        BY <1>t, Places, SlotType DEF PushTyped, RefTypeOK, Cursor
      <3> QED BY <3>1 DEF Diff, WSub, Cursor
    <2> QED BY <1>1, <1>2, <2>1, FreeTail DEF RefInv, LookState, Looking, Taken
  <1>7. MessageState'
    <2>1. \A i : Ticket(i)' = Ticket(i) /\ (Published(i)' <=> Published(i)) /\ UNCHANGED Taken
                 /\ Cell(Ticket(i))' = Cell(Ticket(i))
      BY <1>1 DEF Taken, Ticket, Published, Cell
    <2>2. \A q \in Producers :
             prod'[q].n = prod[q].n /\ (prod'[q].pc # "idle" => prod[q].pc # "idle")
             /\ (prod[q].pc = "idle" => prod'[q].pc = "idle")
      BY <1>1, <1>2
    <2>3. \A k \in 1 .. MaxMsgs : Msg(p, k) \in accepted => k < prod[p].n
      BY <1>1, <1>t DEF RefInv, MessageState, PushTyped
    <2>4. \A q \in Producers : \A k \in 1 .. MaxMsgs : Msg(q, k) \in accepted' =>
             k <= prod'[q].n /\ (k = prod'[q].n => prod'[q].pc = "idle")
      BY <1>1, <1>2, <1>t, <2>2, <2>3 DEF RefInv, MessageState, PushTyped
    <2> QED BY <1>1, <2>1, <2>2, <2>4 DEF RefInv, MessageState
  <1> QED BY <1>4, <1>5, <1>6, <1>7 DEF RefInv

\* A compare-and-swap that fails looks at the tail again.
LEMMA CasFails ==
    ASSUME RefInv, NEW p \in Producers, CasTail(p), UNCHANGED tail
    PROVE  RefInv'
  <1>t. PushTyped
    BY DEF RefInv
  <1>0. /\ UNCHANGED <<cells, head, pop, ring, delivered, took, accepted>>
        /\ prod[p].pc = "cas"
        /\ prod' = [prod EXCEPT ![p].pc = "test", ![p].pos = tail]
        /\ moves' = [moves EXCEPT ![p] = 0]
    <2>1. WAdd(tail, 1) # tail
      BY <1>t, Places DEF Cursor, WAdd
    <2> QED BY <2>1 DEF CasTail, Stage
  <1>1. /\ UNCHANGED <<cells, tail, head, pop, ring, delivered, took, accepted>>
        /\ prod[p].pc = "cas"
    BY <1>0
  <1>2. /\ \A q \in Producers : q # p => prod'[q] = prod[q] /\ moves'[q] = moves[q]
        /\ prod'[p].pc = "test" /\ prod'[p].pos = tail /\ prod'[p].n = prod[p].n
        /\ moves'[p] = 0
        /\ prod' \in [Producers -> [pc : {"idle", "load", "test", "cas", "write", "publish"},
                                    pos : Cursor, n : Nat, full : Nat]]
    <2>1. /\ prod \in [Producers -> [pc : {"idle", "load", "test", "cas", "write", "publish"},
                                     pos : Cursor, n : Nat, full : Nat]]
          /\ moves \in [Producers -> Nat] /\ tail \in Cursor
      BY <1>t DEF PushTyped, RefTypeOK
    <2>2. moves'[p] = 0 /\ \A q \in Producers : q # p => moves'[q] = moves[q]
      BY <1>0, <2>1
    <2>3. prod' = [prod EXCEPT ![p] = [prod[p] EXCEPT !.pc = "test", !.pos = tail]]
      BY <1>0, <2>1
    <2>4. /\ \A q \in Producers : q # p => prod'[q] = prod[q]
          /\ prod'[p] = [prod[p] EXCEPT !.pc = "test", !.pos = tail]
      BY <2>1, <2>3
    <2>5. prod'[p].pc = "test" /\ prod'[p].pos = tail /\ prod'[p].n = prod[p].n
      BY <2>1, <2>4
    <2>6. prod' \in [Producers -> [pc : {"idle", "load", "test", "cas", "write", "publish"},
                                   pos : Cursor, n : Nat, full : Nat]]
      BY <2>1, <2>3
    <2> QED BY <2>2, <2>4, <2>5, <2>6
  <1>3. ~Claimed(p) /\ ~Claimed(p)'
    BY <1>1, <1>2 DEF Claimed
  <1>4. TicketState' /\ ClaimState' /\ TookState' /\ PopState'
    BY <1>1, <1>2, <1>3, QuietKeeps
  <1>5. PushTyped'
    BY <1>0, <1>1, <1>2, <1>t DEF PushTyped, RefTypeOK, Taken
  <1>6. LookState'
    <2>1. WSub(tail, tail) = 0 /\ 0 <= W \div 2 - N
      BY <1>t, Places DEF WSub, Cursor
    <2> QED BY <1>1, <1>2, <2>1 DEF RefInv, LookState, Looking, Taken
  <1>7. MessageState'
    <2>1. \A i : Ticket(i)' = Ticket(i) /\ (Published(i)' <=> Published(i)) /\ UNCHANGED Taken
                 /\ Cell(Ticket(i))' = Cell(Ticket(i))
      BY <1>1 DEF Taken, Ticket, Published, Cell
    <2>2. \A q \in Producers :
             prod'[q].n = prod[q].n /\ (prod'[q].pc = "idle" <=> prod[q].pc = "idle")
      BY <1>1, <1>2
    <2> QED BY <1>1, <2>1, <2>2 DEF RefInv, MessageState
  <1> QED BY <1>4, <1>5, <1>6, <1>7 DEF RefInv

\* A compare-and-swap that wins takes the ticket at the tail.
LEMMA CasWins ==
    ASSUME RefInv, NEW p \in Producers, CasTail(p), tail' # tail
    PROVE  /\ RefInv' /\ UNCHANGED <<cells, head, pop, ring, delivered>>
           /\ ring = "live" /\ ~Claimed(p) /\ Claimed(p)'
           /\ prod'[p].pos = tail
           /\ \A q \in Producers : q # p => prod'[q] = prod[q]
           /\ Taken < N /\ Taken' = Taken + 1
  <1>t. PushTyped
    BY DEF RefInv
  <1>1. /\ UNCHANGED <<cells, head, pop, ring, delivered, took, accepted>>
        /\ prod[p].pc = "cas" /\ ring = "live"
        /\ tail = prod[p].pos /\ tail' = WAdd(tail, 1)
        /\ prod' = [prod EXCEPT ![p].pc = "write"]
        /\ \A q \in Producers : Looking(q) => moves[q] < W \div 2 - N
        /\ moves' = [q \in Producers |-> IF Looking(q) THEN moves[q] + 1 ELSE moves[q]]
    BY DEF CasTail, Stage, Set
  <1>2. /\ \A q \in Producers : q # p => prod'[q] = prod[q]
        /\ prod'[p].pc = "write" /\ prod'[p].pos = tail /\ prod'[p].n = prod[p].n
        /\ prod' \in [Producers -> [pc : {"idle", "load", "test", "cas", "write", "publish"},
                                    pos : Cursor, n : Nat, full : Nat]]
    BY <1>1, <1>t DEF PushTyped, RefTypeOK
  <1>3. ~Claimed(p) /\ Claimed(p)' /\ \A q \in Producers : q # p => (Claimed(q)' <=> Claimed(q))
    BY <1>1, <1>2 DEF Claimed
  <1> USE Places, <1>t
  <1>4. Taken < N
    BY <1>1 DEF RefInv, LookState, Looking
  <1>5. Taken' = Taken + 1
    BY <1>1, <1>4, AdvanceBack DEF Taken
  <1>6. /\ \A i : Ticket(i)' = Ticket(i) /\ (Published(i)' <=> Published(i))
        /\ \A idx : Cell(idx)' = Cell(idx)
    BY <1>1 DEF Ticket, Published, Cell
  <1>7. tail = Ticket(Taken) /\ Taken \in 0 .. N - 1 /\ Cell(Ticket(Taken)).seq = Ticket(Taken)
        /\ ~Published(Taken)
    BY <1>4 DEF RefInv, TicketState, Published
  <1>8. PushTyped'
    <2>1. tail' \in Cursor /\ Taken' \in 0 .. N
      BY <1>1, <1>4, <1>5 DEF Cursor, WAdd
    <2>2. moves' \in [Producers -> Nat]
      BY <1>1 DEF PushTyped
    <2> QED BY <1>1, <1>2, <2>1, <2>2 DEF PushTyped, RefTypeOK, Taken
  <1>9. TicketState'
    <2> SUFFICES ASSUME NEW i \in 0 .. N - 1
                 PROVE  /\ i >= Taken' => Cell(Ticket(i)).seq = Ticket(i)
                        /\ i < Taken' =>
                             \/ Published(i) /\ Cell(Ticket(i)).data \in accepted
                             \/ /\ Cell(Ticket(i)).seq = Ticket(i)
                                /\ \E q \in Producers : Claimed(q)' /\ prod'[q].pos = Ticket(i)
      BY <1>1, <1>6 DEF TicketState
    <2>1. CASE i = Taken
      BY <1>2, <1>3, <1>5, <1>7, <2>1
    <2>2. CASE i # Taken
      BY <1>2, <1>3, <1>5, <2>2 DEF RefInv, TicketState
    <2> QED BY <2>1, <2>2
  <1>10. ClaimState'
    <2>1. \A q \in Producers : Claimed(q) => prod[q].pos # tail
      BY <1>7 DEF RefInv, ClaimState
    <2> SUFFICES ASSUME NEW q \in Producers, Claimed(q)'
                 PROVE  /\ \E i \in 0 .. N - 1 : i < Taken' /\ prod'[q].pos = Ticket(i)
                        /\ Cell(prod'[q].pos).seq = prod'[q].pos
                        /\ prod'[q].pc = "publish" => Cell(prod'[q].pos).data = Msg(q, prod'[q].n)
                        /\ \A r \in Producers : Claimed(r)' /\ prod'[r].pos = prod'[q].pos => r = q
      BY <1>1, <1>6 DEF ClaimState
    <2>2. CASE q = p
      BY <1>2, <1>3, <1>5, <1>7, <2>1, <2>2
    <2>3. CASE q # p
      BY <1>2, <1>3, <1>5, <2>1, <2>3 DEF RefInv, ClaimState
    <2> QED BY <2>2, <2>3
  <1>11. LookState'
    <2> SUFFICES ASSUME NEW q \in Producers, Looking(q)'
                 PROVE  /\ moves'[q] = WSub(tail', prod'[q].pos) /\ moves'[q] <= W \div 2 - N
                        /\ tail' # prod'[q].pos
      BY DEF LookState
    <2>1. q # p /\ prod'[q] = prod[q] /\ Looking(q) /\ prod[q].pos \in Cursor
      BY <1>2 DEF Looking, PushTyped
    <2>2. moves[q] = WSub(tail, prod[q].pos) /\ moves[q] + 1 <= W \div 2 - N /\ moves[q] \in Nat
      BY <1>1, <2>1 DEF RefInv, LookState, PushTyped
    <2>3. moves'[q] = moves[q] + 1
      BY <1>1, <2>1
    <2>4. WSub(tail', prod[q].pos) = moves[q] + 1
      BY <1>1, <2>1, <2>2, AdvanceBack
    <2>5. WSub(prod[q].pos, prod[q].pos) = 0
      BY <2>1 DEF WSub, Cursor
    <2> QED BY <2>1, <2>2, <2>3, <2>4, <2>5
  <1>12. MessageState'
    <2>1. \A q \in Producers :
             prod'[q].n = prod[q].n /\ (prod'[q].pc = "idle" <=> prod[q].pc = "idle")
      BY <1>1, <1>2
    <2>2. \A i \in 0 .. N - 1 : i < Taken' /\ Published(i) => i < Taken
      BY <1>5, <1>7
    <2> QED BY <1>1, <1>6, <2>1, <2>2 DEF RefInv, MessageState
  <1>13. TookState' /\ PopState'
    <2>1. \A v : InRing(v)' <=> InRing(v)
      BY <1>5, <1>6, <1>7 DEF InRing
    <2>2. TookState'
      BY <1>1, <2>1 DEF RefInv, TookState
    <2>3. PopState'
      BY <1>1, <1>5, <1>6 DEF RefInv, PopState
    <2> QED BY <2>2, <2>3
  <1> QED BY <1>1, <1>2, <1>3, <1>4, <1>5, <1>8, <1>9, <1>10, <1>11, <1>12, <1>13 DEF RefInv

\* The owner of a ticket writes its slot: the others are left alone.
LEMMA OwnSlot ==
    ASSUME RefInv, NEW p \in Producers, Claimed(p)
    PROVE  \E k \in 0 .. N - 1 :
              /\ k < Taken /\ prod[p].pos = Ticket(k) /\ Slot(prod[p].pos) \in Slots
              /\ ~Published(k)
              /\ \A i \in 0 .. N - 1 : i # k => Slot(Ticket(i)) # Slot(prod[p].pos)
  <1>1. PushTyped
    BY DEF RefInv
  <1>2. PICK k \in 0 .. N - 1 : k < Taken /\ prod[p].pos = Ticket(k)
    BY DEF RefInv, ClaimState
  <1>3. Cell(Ticket(k)).seq = Ticket(k)
    BY <1>2 DEF RefInv, ClaimState
  <1> QED BY <1>1, <1>2, <1>3, Places DEF Published

LEMMA WriteKeeps ==
    ASSUME RefInv, NEW p \in Producers, WriteData(p)
    PROVE  /\ RefInv' /\ UNCHANGED <<tail, head, ring, delivered>>
           /\ \A i \in 0 .. N - 1 : /\ Published(i)' <=> Published(i)
                                    /\ Published(i) => cells'[Slot(Ticket(i))] = cells[Slot(Ticket(i))]
           /\ \A q \in Producers : prod'[q].pos = prod[q].pos /\ (Claimed(q)' <=> Claimed(q))
  <1>t. PushTyped
    BY DEF RefInv
  <1>1. /\ UNCHANGED <<tail, head, pop, ring, delivered, took, accepted, moves>>
        /\ prod[p].pc = "write" /\ prod' = [prod EXCEPT ![p].pc = "publish"]
        /\ cells' = [cells EXCEPT ![Slot(prod[p].pos)].data = Msg(p, prod[p].n)]
    BY DEF WriteData, Stage, Set
  <1>2. /\ \A q \in Producers : q # p => prod'[q] = prod[q]
        /\ prod'[p].pc = "publish" /\ prod'[p].pos = prod[p].pos /\ prod'[p].n = prod[p].n
        /\ prod' \in [Producers -> [pc : {"idle", "load", "test", "cas", "write", "publish"},
                                    pos : Cursor, n : Nat, full : Nat]]
    BY <1>1, <1>t DEF PushTyped, RefTypeOK
  <1>3. /\ Claimed(p) /\ Claimed(p)'
        /\ \A q \in Producers : prod'[q].pos = prod[q].pos /\ (Claimed(q)' <=> Claimed(q))
    BY <1>1, <1>2 DEF Claimed
  <1> USE Places, <1>t
  <1>4. PICK k \in 0 .. N - 1 :
              /\ k < Taken /\ prod[p].pos = Ticket(k) /\ Slot(prod[p].pos) \in Slots
              /\ ~Published(k)
              /\ \A i \in 0 .. N - 1 : i # k => Slot(Ticket(i)) # Slot(prod[p].pos)
    BY <1>3, OwnSlot
  <1>5. /\ \A s \in Slots : cells'[s].seq = cells[s].seq
        /\ \A s \in Slots : s # Slot(prod[p].pos) => cells'[s] = cells[s]
        /\ cells'[Slot(prod[p].pos)].data = Msg(p, prod[p].n)
        /\ cells' \in [Slots -> [seq : Cursor, data : Pushed \cup {NoData}]]
    <2>1. Msg(p, prod[p].n) \in Pushed
      BY <1>1 DEF RefInv, MessageState, Msg, Pushed
    <2> QED BY <1>1, <1>4, <2>1 DEF PushTyped, RefTypeOK
  <1>6. /\ \A i : Ticket(i)' = Ticket(i)
        /\ Taken' = Taken
        /\ \A i \in 0 .. N - 1 : /\ Published(i)' <=> Published(i)
                                 /\ cells'[Slot(Ticket(i))].seq = cells[Slot(Ticket(i))].seq
                                 /\ i # k => cells'[Slot(Ticket(i))] = cells[Slot(Ticket(i))]
    BY <1>1, <1>4, <1>5 DEF Ticket, Published, Cell, Taken
  <1>7. PushTyped'
    BY <1>1, <1>2, <1>5 DEF PushTyped, RefTypeOK, Taken
  <1>8. TicketState'
    BY <1>1, <1>2, <1>3, <1>4, <1>6 DEF RefInv, TicketState, Cell
  <1>9. ClaimState'
    <2> SUFFICES ASSUME NEW q \in Producers, Claimed(q)'
                 PROVE  /\ \E i \in 0 .. N - 1 : i < Taken /\ prod'[q].pos = Ticket(i)
                        /\ cells'[Slot(prod'[q].pos)].seq = prod'[q].pos
                        /\ prod'[q].pc = "publish" =>
                              cells'[Slot(prod'[q].pos)].data = Msg(q, prod'[q].n)
                        /\ \A r \in Producers : Claimed(r)' /\ prod'[r].pos = prod'[q].pos => r = q
      BY <1>1, <1>6 DEF ClaimState, Cell
    <2>1. PICK i \in 0 .. N - 1 : i < Taken /\ prod[q].pos = Ticket(i)
      BY <1>3 DEF RefInv, ClaimState
    <2>2. \A r \in Producers : Claimed(r)' /\ prod'[r].pos = prod'[q].pos => r = q
      BY <1>3 DEF RefInv, ClaimState
    <2>3. cells'[Slot(prod'[q].pos)].seq = prod'[q].pos
      BY <1>3, <1>5, <2>1 DEF RefInv, ClaimState, Cell
    <2>4. CASE q = p
      BY <1>2, <1>5, <2>1, <2>2, <2>3, <2>4
    <2>5. CASE q # p
      <3>1. i # k
        BY <1>3, <1>4, <2>1, <2>5 DEF RefInv, ClaimState
      <3>2. cells'[Slot(prod[q].pos)] = cells[Slot(prod[q].pos)]
        BY <1>6, <2>1, <3>1
      <3> QED BY <1>2, <1>3, <2>1, <2>2, <2>3, <2>5, <3>2 DEF RefInv, ClaimState, Cell
    <2> QED BY <2>4, <2>5
  <1>10. LookState'
    BY <1>1, <1>2, <1>6 DEF RefInv, LookState, Looking
  <1>11. MessageState'
    <2>1. \A q \in Producers :
             prod'[q].n = prod[q].n /\ (prod'[q].pc = "idle" <=> prod[q].pc = "idle")
      BY <1>1, <1>2
    <2> QED BY <1>1, <1>4, <1>6, <2>1 DEF RefInv, MessageState, Cell
  <1>12. TookState' /\ PopState'
    <2>1. \A v : InRing(v)' <=> InRing(v)
      BY <1>4, <1>6 DEF InRing, Cell
    <2>2. TookState'
      BY <1>1, <2>1 DEF RefInv, TookState
    <2>3. PopState'
      BY <1>1, <1>4, <1>6 DEF RefInv, PopState, Cell
    <2> QED BY <2>2, <2>3
  <1> QED BY <1>1, <1>3, <1>4, <1>6, <1>7, <1>8, <1>9, <1>10, <1>11, <1>12 DEF RefInv

LEMMA StoreKeeps ==
    ASSUME RefInv, NEW p \in Producers, StoreSeq(p)
    PROVE  /\ RefInv' /\ UNCHANGED <<tail, head, ring, delivered>>
           /\ ring = "live" /\ Claimed(p) /\ ~Claimed(p)'
           /\ Msg(p, prod[p].n) \in Pushed
           /\ \A q \in Producers : q # p => prod'[q] = prod[q]
           /\ \E k \in 0 .. N - 1 :
                 /\ k < Taken /\ prod[p].pos = Ticket(k) /\ ~Published(k)
                 /\ Published(k)' /\ cells'[Slot(Ticket(k))].data = Msg(p, prod[p].n)
                 /\ \A i \in 0 .. N - 1 : i # k =>
                       /\ Published(i)' <=> Published(i)
                       /\ cells'[Slot(Ticket(i))] = cells[Slot(Ticket(i))]
  <1>t. PushTyped
    BY DEF RefInv
  <1>1. /\ UNCHANGED <<tail, head, pop, ring, delivered, took, moves>>
        /\ prod[p].pc = "publish" /\ prod' = [prod EXCEPT ![p].pc = "idle"] /\ ring = "live"
        /\ cells' = [cells EXCEPT ![Slot(prod[p].pos)].seq = WAdd(prod[p].pos, 1)]
        /\ accepted' = accepted \cup {Msg(p, prod[p].n)}
    BY DEF StoreSeq, Stage, Set
  <1>2. /\ \A q \in Producers : q # p => prod'[q] = prod[q]
        /\ prod'[p].pc = "idle" /\ prod'[p].n = prod[p].n
        /\ prod' \in [Producers -> [pc : {"idle", "load", "test", "cas", "write", "publish"},
                                    pos : Cursor, n : Nat, full : Nat]]
    BY <1>1, <1>t DEF PushTyped, RefTypeOK
  <1>3. /\ Claimed(p) /\ ~Claimed(p)'
        /\ \A q \in Producers : q # p => (Claimed(q)' <=> Claimed(q))
    BY <1>1, <1>2 DEF Claimed
  <1> USE Places, <1>t
  <1>4. PICK k \in 0 .. N - 1 :
              /\ k < Taken /\ prod[p].pos = Ticket(k) /\ Slot(prod[p].pos) \in Slots
              /\ ~Published(k)
              /\ \A i \in 0 .. N - 1 : i # k => Slot(Ticket(i)) # Slot(prod[p].pos)
    BY <1>3, OwnSlot
  <1> DEFINE v == Msg(p, prod[p].n)
  <1>5. v \in Pushed /\ v \notin accepted
    BY <1>1 DEF RefInv, MessageState, Msg, Pushed
  <1>6. /\ \A s \in Slots : s # Slot(Ticket(k)) => cells'[s] = cells[s]
        /\ cells'[Slot(Ticket(k))].data = v
        /\ cells'[Slot(Ticket(k))].seq = WAdd(Ticket(k), 1)
        /\ cells' \in [Slots -> [seq : Cursor, data : Pushed \cup {NoData}]]
    <2>1. cells[Slot(prod[p].pos)].data = v
      BY <1>1, <1>3 DEF RefInv, ClaimState, Cell
    <2>2. WAdd(prod[p].pos, 1) \in Cursor
      BY <1>4
    <2> QED BY <1>1, <1>4, <2>1, <2>2 DEF PushTyped, RefTypeOK
  <1>7. /\ \A i : Ticket(i)' = Ticket(i)
        /\ Taken' = Taken /\ Published(k)'
        /\ \A i \in 0 .. N - 1 : i # k => /\ Published(i)' <=> Published(i)
                                         /\ cells'[Slot(Ticket(i))] = cells[Slot(Ticket(i))]
    BY <1>1, <1>4, <1>6 DEF Ticket, Published, Cell, Taken
  <1>8. PushTyped'
    BY <1>1, <1>2, <1>5, <1>6 DEF PushTyped, RefTypeOK, Taken
  <1>9. TicketState'
    <2> SUFFICES ASSUME NEW i \in 0 .. N - 1
                 PROVE  /\ i >= Taken => cells'[Slot(Ticket(i))].seq = Ticket(i)
                        /\ i < Taken =>
                             \/ Published(i)' /\ cells'[Slot(Ticket(i))].data \in accepted'
                             \/ /\ cells'[Slot(Ticket(i))].seq = Ticket(i)
                                /\ \E q \in Producers : Claimed(q)' /\ prod'[q].pos = Ticket(i)
      BY <1>7 DEF TicketState, Cell
    <2>1. CASE i = k
      BY <1>1, <1>4, <1>6, <1>7, <2>1
    <2>2. CASE i # k
      BY <1>1, <1>2, <1>3, <1>4, <1>7, <2>2 DEF RefInv, TicketState, Cell
    <2> QED BY <2>1, <2>2
  <1>10. ClaimState'
    <2> SUFFICES ASSUME NEW q \in Producers, Claimed(q)'
                 PROVE  /\ \E i \in 0 .. N - 1 : i < Taken /\ prod[q].pos = Ticket(i)
                        /\ cells'[Slot(prod[q].pos)].seq = prod[q].pos
                        /\ prod[q].pc = "publish" =>
                              cells'[Slot(prod[q].pos)].data = Msg(q, prod[q].n)
                        /\ \A r \in Producers : Claimed(r)' /\ prod'[r].pos = prod[q].pos => r = q
      <3>1. \A q \in Producers : Claimed(q)' => prod'[q] = prod[q]
        BY <1>2, <1>3
      <3> QED BY <1>7, <3>1 DEF ClaimState, Cell
    <2>1. q # p /\ Claimed(q)
      BY <1>3
    <2>2. PICK i \in 0 .. N - 1 : i < Taken /\ prod[q].pos = Ticket(i)
      BY <2>1 DEF RefInv, ClaimState
    <2>3. i # k
      BY <1>3, <1>4, <2>1, <2>2 DEF RefInv, ClaimState
    <2>4. cells'[Slot(prod[q].pos)] = cells[Slot(prod[q].pos)]
      BY <1>7, <2>2, <2>3
    <2> QED BY <1>2, <1>3, <2>1, <2>2, <2>4 DEF RefInv, ClaimState, Cell
  <1>11. LookState'
    BY <1>1, <1>2, <1>7 DEF RefInv, LookState, Looking
  <1>12. MessageState'
    <2>1. \A q \in Producers :
             prod'[q].n = prod[q].n /\ (prod[q].pc = "idle" => prod'[q].pc = "idle")
             /\ (prod'[q].pc # "idle" => prod[q].pc # "idle")
      BY <1>1, <1>2
    <2>2. \A q \in Producers : \A n \in 1 .. MaxMsgs : Msg(q, n) \in accepted' =>
             Msg(q, n) \in accepted \/ (q = p /\ n = prod[p].n)
      BY <1>1 DEF Msg
    <2>3. ASSUME NEW q \in Producers
          PROVE  /\ prod'[q].n \in 0 .. MaxMsgs /\ (prod'[q].pc # "idle" => prod'[q].n # 0)
                 /\ \A n \in 1 .. MaxMsgs : Msg(q, n) \in accepted' =>
                      n <= prod'[q].n /\ (n = prod'[q].n => prod'[q].pc = "idle")
      BY <1>2, <2>1, <2>2 DEF RefInv, MessageState
    <2>4. \A i \in 0 .. N - 1 : i # k /\ i < Taken /\ Published(i) =>
             cells'[Slot(Ticket(i))].data # v
      BY <1>5, <1>7 DEF RefInv, TicketState, Published, Cell
    <2>5. ASSUME NEW i \in 0 .. N - 1, NEW j \in 0 .. N - 1,
                 i < Taken, Published(i)', j < Taken, Published(j)',
                 cells'[Slot(Ticket(i))].data = cells'[Slot(Ticket(j))].data
          PROVE  i = j
      <3>1. CASE i = k \/ j = k
        BY <1>6, <1>7, <2>4, <2>5, <3>1
      <3>2. CASE i # k /\ j # k
        BY <1>7, <2>5, <3>2 DEF RefInv, MessageState, Cell
      <3> QED BY <3>1, <3>2
    <2> QED BY <1>7, <2>3, <2>5 DEF MessageState, Cell
  <1>13. TookState'
    <2>1. \A u : InRing(u)' <=> InRing(u) \/ u = v
      BY <1>4, <1>6, <1>7 DEF InRing, Cell
    <2>2. ~InRing(v)
      BY <1>5 DEF InRing, RefInv, TicketState, Published, Cell
    <2> QED BY <1>1, <1>5, <2>1, <2>2 DEF RefInv, TookState
  <1>14. PopState'
    BY <1>1, <1>4, <1>7 DEF RefInv, PopState, Cell
  <1> QED BY <1>1, <1>2, <1>3, <1>4, <1>5, <1>6, <1>7, <1>8, <1>9, <1>10, <1>11, <1>12, <1>13,
             <1>14 DEF RefInv

LEMMA ReadKeeps ==
    ASSUME RefInv, ReadHead
    PROVE  RefInv' /\ UNCHANGED <<cells, tail, head, prod, ring, delivered>>
  <1>t. PushTyped
    BY DEF RefInv
  <1>1. /\ UNCHANGED <<cells, tail, head, prod, ring, delivered, took, accepted, moves>>
        /\ cells[Slot(head)].seq = WAdd(head, 1) /\ pop' = <<cells[Slot(head)].data>>
        /\ ring = "live"
    BY DEF ReadHead
  <1> USE Places, <1>t
  <1>2. Published(0) /\ 0 < Taken
    <2>1. Published(0)
      BY <1>1 DEF Published, Cell
    <2>2. Cell(Ticket(0)).seq # Ticket(0)
      BY <2>1 DEF Published
    <2> QED BY <2>1, <2>2 DEF RefInv, TicketState
  <1>3. /\ \A i : Ticket(i)' = Ticket(i) /\ (Published(i)' <=> Published(i))
        /\ \A idx : Cell(idx)' = Cell(idx)
        /\ Taken' = Taken
    BY <1>1 DEF Ticket, Published, Cell, Taken
  <1>4. PushTyped'
    BY <1>1, <1>3 DEF PushTyped, RefTypeOK
  <1>5. TicketState' /\ ClaimState' /\ LookState' /\ MessageState'
    BY <1>1, <1>3 DEF RefInv, TicketState, ClaimState, LookState, MessageState, Claimed, Looking
  <1>6. TookState'
    <2>1. \A v : InRing(v)' <=> InRing(v)
      BY <1>3 DEF InRing
    <2> QED BY <1>1, <2>1 DEF RefInv, TookState
  <1>7. PopState'
    BY <1>1, <1>2, <1>3 DEF PopState, Cell
  <1> QED BY <1>1, <1>4, <1>5, <1>6, <1>7 DEF RefInv

LEMMA HeadKeeps ==
    ASSUME RefInv, ReleaseHead
    PROVE  /\ RefInv' /\ UNCHANGED <<tail, prod, ring>>
           /\ ring = "live" /\ 0 < Taken /\ Published(0) /\ Taken' = Taken - 1
           /\ delivered' = Cell(head).data
           /\ \A i \in 0 .. N - 2 : /\ Ticket(i)' = Ticket(i + 1)
                                    /\ cells'[Slot(Ticket(i + 1))] = cells[Slot(Ticket(i + 1))]
  <1>t. PushTyped
    BY DEF RefInv
  <1> DEFINE v == Cell(head).data
  <1>1. /\ UNCHANGED <<tail, prod, ring, accepted, moves>>
        /\ cells' = [cells EXCEPT ![Slot(head)].seq = WAdd(head, N)]
        /\ head' = WAdd(head, 1) /\ pop' = <<>> /\ ring = "live"
        /\ 0 < Taken /\ Published(0)
        /\ delivered' = v /\ took' = [took EXCEPT ![v] = @ + 1]
    <2>1. pop = <<v>> /\ 0 < Taken /\ Published(0)
      BY DEF ReleaseHead, RefInv, PopState
    <2>2. pop[1] = v
      BY <2>1
    <2> HIDE DEF v
    <2> QED BY <2>1, <2>2 DEF ReleaseHead
  <1> USE Places, <1>t
  <1>2. Taken' = Taken - 1
    BY <1>1, AdvanceFront DEF Taken
  <1>3. \A i \in 0 .. N - 1 : Ticket(i)' = Ticket(i + 1)
    BY <1>1, AddTwice DEF Ticket
  <1>4. /\ \A s \in Slots : s # Slot(head) => cells'[s] = cells[s]
        /\ cells'[Slot(head)].seq = Ticket(N)
        /\ cells' \in [Slots -> [seq : Cursor, data : Pushed \cup {NoData}]]
    <2>1. Slot(head) \in Slots
      OBVIOUS
    <2>2. WAdd(head, N) = Ticket(N) /\ Ticket(N) \in Cursor
      BY DEF Ticket
    <2>3. cells \in [Slots -> [seq : Cursor, data : Pushed \cup {NoData}]]
      BY DEF PushTyped, RefTypeOK
    <2> HIDE DEF v
    <2> QED BY <1>1, <2>1, <2>2, <2>3
  <1>5. \A i \in 1 .. N - 1 : Slot(Ticket(i)) # Slot(head) /\ cells'[Slot(Ticket(i))] = cells[Slot(Ticket(i))]
    BY <1>4
  <1>6. \A i \in 0 .. N - 2 : /\ i + 1 \in 1 .. N - 1 /\ Ticket(i)' = Ticket(i + 1)
                              /\ cells'[Slot(Ticket(i + 1))] = cells[Slot(Ticket(i + 1))]
                              /\ Published(i)' <=> Published(i + 1)
    BY <1>3, <1>5 DEF Published, Cell
  <1>7. v \in accepted /\ v \in Pushed
    <2>1. PICK i \in 0 .. N - 1 : i = 0
      OBVIOUS
    <2>2. Cell(Ticket(i)).seq # Ticket(i)
      BY <1>1, <2>1 DEF Published
    <2>3. Cell(Ticket(i)).data \in accepted
      BY <1>1, <2>1, <2>2 DEF RefInv, TicketState
    <2> QED BY <2>1, <2>3 DEF PushTyped
  <1>8. PushTyped'
    <2>1. Taken' \in 0 .. N /\ head' \in Cursor
      <3>1. Ticket(1) \in Cursor /\ head' = Ticket(1)
        BY <1>1 DEF Ticket
      <3> QED BY <1>1, <1>2, <3>1
    <2>2. took' \in [Pushed \cup {NoData} -> Nat]
      BY <1>1, <1>7 DEF PushTyped
    <2> QED BY <1>1, <1>4, <2>1, <2>2 DEF PushTyped, RefTypeOK, Taken
  <1>9. TicketState'
    <2> SUFFICES ASSUME NEW i \in 0 .. N - 1
                 PROVE  /\ i >= Taken' => cells'[Slot(Ticket(i + 1))].seq = Ticket(i + 1)
                        /\ i < Taken' =>
                             \/ Published(i)' /\ cells'[Slot(Ticket(i + 1))].data \in accepted
                             \/ /\ cells'[Slot(Ticket(i + 1))].seq = Ticket(i + 1)
                                /\ \E q \in Producers : Claimed(q) /\ prod[q].pos = Ticket(i + 1)
      BY <1>1, <1>3 DEF TicketState, Cell, Claimed
    <2>1. CASE i = N - 1
      BY <1>2, <1>4, <2>1
    <2>2. CASE i # N - 1
      <3>1. i \in 0 .. N - 2
        BY <2>2
      <3>2. /\ i + 1 \in 0 .. N - 1 /\ cells'[Slot(Ticket(i + 1))] = cells[Slot(Ticket(i + 1))]
            /\ Published(i)' <=> Published(i + 1)
        BY <1>6, <3>1
      <3> QED BY <1>2, <3>2 DEF RefInv, TicketState, Cell
    <2> QED BY <2>1, <2>2
  <1>10. \A q \in Producers : Claimed(q) =>
            \E i \in 0 .. N - 2 : i < Taken' /\ prod[q].pos = Ticket(i + 1)
    <2> SUFFICES ASSUME NEW q \in Producers, Claimed(q)
                 PROVE  \E i \in 0 .. N - 2 : i < Taken' /\ prod[q].pos = Ticket(i + 1)
      OBVIOUS
    <2>1. PICK i \in 0 .. N - 1 : i < Taken /\ prod[q].pos = Ticket(i) /\ Cell(Ticket(i)).seq = Ticket(i)
      BY DEF RefInv, ClaimState
    <2>2. i # 0
      BY <1>1, <2>1 DEF Published
    <2>3. i - 1 \in 0 .. N - 2 /\ i - 1 < Taken' /\ (i - 1) + 1 = i
      BY <1>2, <2>1, <2>2
    <2> QED BY <2>1, <2>3
  <1>11. ClaimState'
    <2> SUFFICES ASSUME NEW q \in Producers, Claimed(q)
                 PROVE  /\ \E i \in 0 .. N - 1 : i < Taken' /\ prod[q].pos = Ticket(i)'
                        /\ cells'[Slot(prod[q].pos)] = cells[Slot(prod[q].pos)]
      <3>1. \A q \in Producers : Claimed(q)' <=> Claimed(q)
        BY <1>1 DEF Claimed
      <3>2. UNCHANGED prod
        BY <1>1
      <3> QED BY <3>1, <3>2 DEF RefInv, ClaimState, Cell
    <2>1. PICK i \in 0 .. N - 2 : i < Taken' /\ prod[q].pos = Ticket(i + 1)
      BY <1>10
    <2> QED BY <1>6, <2>1
  <1>12. LookState'
    BY <1>1, <1>2 DEF RefInv, LookState, Looking
  <1>13. \A i \in 0 .. N - 1 : i < Taken' =>
            /\ i \in 0 .. N - 2 /\ i + 1 \in 0 .. N - 1 /\ i + 1 < Taken
            /\ Published(i)' <=> Published(i + 1)
            /\ cells'[Slot(Ticket(i)')] = cells[Slot(Ticket(i + 1))]
    <2> SUFFICES ASSUME NEW i \in 0 .. N - 1, i < Taken'
                 PROVE  /\ i \in 0 .. N - 2 /\ i + 1 \in 0 .. N - 1 /\ i + 1 < Taken
                        /\ Published(i)' <=> Published(i + 1)
                        /\ cells'[Slot(Ticket(i)')] = cells[Slot(Ticket(i + 1))]
      OBVIOUS
    <2>1. i \in 0 .. N - 2 /\ i + 1 \in 0 .. N - 1 /\ i + 1 < Taken
      BY <1>2
    <2> QED BY <1>6, <2>1
  <1>14. MessageState'
    <2>1. ASSUME NEW i \in 0 .. N - 1, NEW j \in 0 .. N - 1,
                 i < Taken', Published(i)', j < Taken', Published(j)',
                 cells'[Slot(Ticket(i)')].data = cells'[Slot(Ticket(j)')].data
          PROVE  i = j
      <3>1. i + 1 = j + 1
        BY <1>13, <2>1 DEF RefInv, MessageState, Cell
      <3> QED BY <3>1
    <2> QED BY <1>1, <2>1 DEF RefInv, MessageState, Cell
  <1>15. TookState'
    <2>1. InRing(v)
      BY <1>1 DEF InRing
    <2>2. ASSUME NEW u, InRing(u), u # v PROVE InRing(u)'
      <3>1. PICK i \in 0 .. N - 1 : i < Taken /\ Published(i) /\ Cell(Ticket(i)).data = u
        BY <2>2 DEF InRing
      <3>2. i # 0
        BY <2>2, <3>1
      <3>3. i - 1 \in 0 .. N - 1 /\ i - 1 < Taken' /\ (i - 1) + 1 = i
        BY <1>2, <3>1, <3>2
      <3>4. Published(i - 1)' /\ cells'[Slot(Ticket(i - 1)')].data = u
        BY <1>13, <3>1, <3>3 DEF Cell
      <3> QED BY <3>3, <3>4 DEF InRing, Cell
    <2>3. ASSUME NEW u, InRing(u)' PROVE InRing(u) /\ u # v
      <3>1. PICK i \in 0 .. N - 1 : i < Taken' /\ Published(i)' /\ cells'[Slot(Ticket(i)')].data = u
        BY <2>3 DEF InRing, Cell
      <3>2. i + 1 \in 0 .. N - 1 /\ i + 1 < Taken /\ Published(i + 1) /\ Cell(Ticket(i + 1)).data = u
        BY <1>13, <3>1 DEF Cell
      <3>3. u = v => i + 1 = 0
        BY <1>1, <3>2 DEF RefInv, MessageState
      <3> QED BY <3>2, <3>3 DEF InRing
    <2>4. \A u : InRing(u)' <=> InRing(u) /\ u # v
      BY <2>2, <2>3
    <2> HIDE DEF v
    <2> QED BY <1>1, <1>7, <2>1, <2>4 DEF RefInv, TookState, PushTyped
  <1>16. PopState'
    BY <1>1 DEF PopState
  <1> QED BY <1>1, <1>2, <1>6, <1>8, <1>9, <1>11, <1>12, <1>14, <1>15, <1>16 DEF RefInv

\* What the drop of the ring finds unread are the tickets that are published.
LEMMA UnreadIs ==
    ASSUME RefInv
    PROVE  Unread = {Ticket(i) : i \in {j \in 0 .. N - 1 : j < Taken /\ Published(j)}}
  <1>t. PushTyped
    BY DEF RefInv
  <1> USE Places, <1>t
  <1> DEFINE from == WSub(tail, N)
  <1>1. from \in Cursor /\ WSub(tail, from) = N
    BY DEF Cursor, WSub
  <1>2. ASSUME NEW idx \in Unread
        PROVE  \E i \in 0 .. N - 1 : i < Taken /\ Published(i) /\ idx = Ticket(i)
    <2>1. PICK j \in 0 .. N - 1 : idx = WAdd(from, j)
      BY <1>1 DEF Unread, Window
    <2>2. idx \in Cursor /\ cells[Slot(idx)].seq = WAdd(idx, 1)
      BY <1>1, <2>1 DEF Unread, Cursor, WAdd
    <2>3. PICK i \in 0 .. N - 1 : Slot(Ticket(i)) = Slot(idx)
      BY <2>2, SlotsCovered, SlotType DEF Cursor, Ticket
    <2>4. Slot(WAdd(idx, 1)) # Slot(idx)
      <3>1. WAdd(idx, 0) = idx
        BY <2>2 DEF Cursor, WAdd
      <3> QED BY <2>2, <3>1, SlotsApart
    <2>5. Cell(Ticket(i)).seq = WAdd(idx, 1)
      BY <2>2, <2>3 DEF Cell
    <2>6. Cell(Ticket(i)).seq # Ticket(i)
      BY <2>3, <2>4, <2>5
    <2>7. i < Taken /\ Published(i)
      BY <2>6 DEF RefInv, TicketState
    <2>8. idx = Ticket(i)
      BY <2>2, <2>5, <2>7 DEF Published, Cursor, WAdd
    <2> QED BY <2>7, <2>8
  <1>3. ASSUME NEW i \in 0 .. N - 1, i < Taken, Published(i)
        PROVE  Ticket(i) \in Unread
    <2>1. Ticket(i) = WAdd(from, N - Taken + i) /\ N - Taken + i \in 0 .. N - 1
      BY <1>1, <1>3 DEF Ticket, Taken, WAdd, WSub, Cursor
    <2>2. Ticket(i) \in Window(from, tail)
      BY <1>1, <2>1 DEF Window
    <2> QED BY <1>3, <2>2 DEF Unread, Published, Cell
  <1> QED BY <1>2, <1>3

LEMMA DropKeeps ==
    ASSUME RefInv, DropQueue
    PROVE  RefInv'
  <1>t. PushTyped
    BY DEF RefInv
  <1> DEFINE found(v) == Cardinality({idx \in Unread : cells[Slot(idx)].data = v})
  <1>1. /\ UNCHANGED <<cells, tail, head, prod, pop, delivered, accepted, moves>>
        /\ ring = "live" /\ ring' = "dropped" /\ pop = <<>>
        /\ took' = [v \in DOMAIN took |-> took[v] + found(v)]
    BY DEF DropQueue
  <1> USE Places, <1>t
  <1>2. ASSUME NEW v
        PROVE  found(v) = IF InRing(v) THEN 1 ELSE 0
    <2> DEFINE S == {idx \in Unread : cells[Slot(idx)].data = v}
    <2>1. CASE ~InRing(v)
      <3>1. S = {}
        BY <2>1, UnreadIs DEF InRing, Cell
      <3> QED BY <2>1, <3>1, FS_EmptySet
    <2>2. CASE InRing(v)
      <3>1. PICK i \in 0 .. N - 1 : i < Taken /\ Published(i) /\ Cell(Ticket(i)).data = v
        BY <2>2 DEF InRing
      <3>2. S = {Ticket(i)}
        BY <3>1, UnreadIs DEF RefInv, MessageState, Cell
      <3> QED BY <2>2, <3>2, FS_Singleton
    <2> QED BY <2>1, <2>2
  <1> HIDE DEF found
  <1>3. /\ \A i : Ticket(i)' = Ticket(i) /\ (Published(i)' <=> Published(i))
        /\ \A idx : Cell(idx)' = Cell(idx)
        /\ Taken' = Taken
    BY <1>1 DEF Ticket, Published, Cell, Taken
  <1>4. PushTyped'
    <2>1. took \in [Pushed \cup {NoData} -> Nat]
      BY DEF PushTyped
    <2>2. \A v : found(v) \in Nat
      BY <1>2
    <2>3. took' \in [Pushed \cup {NoData} -> Nat]
      BY <1>1, <2>1, <2>2
    <2> QED BY <1>1, <1>3, <2>3 DEF PushTyped, RefTypeOK
  <1>5. TicketState' /\ ClaimState' /\ LookState' /\ MessageState'
    BY <1>1, <1>3 DEF RefInv, TicketState, ClaimState, LookState, MessageState, Claimed, Looking
  <1>6. TookState'
    <2>1. \A v : InRing(v) => v \in accepted
      BY DEF InRing, RefInv, TicketState, Published
    <2>2. ASSUME NEW v \in Pushed \cup {NoData}
          PROVE  took'[v] = IF v \in accepted THEN 1 ELSE 0
      <3>1. took'[v] = took[v] + (IF InRing(v) THEN 1 ELSE 0)
        BY <1>1, <1>2 DEF PushTyped
      <3>2. took[v] = IF v \in accepted /\ ~InRing(v) THEN 1 ELSE 0
        BY <1>1 DEF RefInv, TookState
      <3> QED BY <2>1, <3>1, <3>2
    <2> QED BY <1>1, <2>2 DEF TookState
  <1>7. PopState'
    BY <1>1 DEF PopState
  <1> QED BY <1>4, <1>5, <1>6, <1>7 DEF RefInv

LEMMA RefStarts == ASSUME MaxMsgs \in Nat, RefInit PROVE RefInv
  <1>1. /\ Taken = 0 /\ \A i \in 0 .. N - 1 : Ticket(i) = i /\ Cell(Ticket(i)).seq = Ticket(i)
    <2>1. \A i \in Slots : Slot(i) = i
      BY Bounds, ModIs DEF Slots
    <2>2. Taken = 0 /\ \A i \in 0 .. N - 1 : Ticket(i) = i
      BY Bounds DEF RefInit, Taken, WSub, Ticket, WAdd
    <2> QED BY <2>1, <2>2 DEF RefInit, Cell, Slots
  <1>2. PushTyped
    <2>1. 0 \in Cursor /\ \A s \in Slots : s \in Cursor
      BY Bounds DEF Cursor, Slots
    <2>2. RefTypeOK
      BY <1>1, <2>1, Bounds DEF RefInit, RefTypeOK, Taken
    <2> QED BY <1>1, <2>1, <2>2 DEF RefInit, PushTyped
  <1>3. TicketState /\ ClaimState /\ LookState /\ PopState
    BY <1>1, Bounds DEF RefInit, TicketState, ClaimState, LookState, PopState, Claimed, Looking
  <1>4. MessageState
    BY <1>1 DEF RefInit, MessageState
  <1>5. TookState
    BY <1>1 DEF RefInit, TookState
  <1> QED BY <1>2, <1>3, <1>4, <1>5 DEF RefInv

LEMMA RefStep == ASSUME MaxMsgs \in Nat, RefInv, [RefNext]_refVars PROVE RefInv'
  <1>1. ASSUME NEW p \in Producers, PushSteps(p) PROVE RefInv'
    <2>1. CASE CasTail(p)
      BY <2>1, CasFails, CasWins
    <2> QED BY <1>1, <2>1, LoadKeeps, TestKeeps, WriteKeeps, StoreKeeps DEF PushSteps
  <1>2. CASE UNCHANGED refVars
    <2>1. /\ \A i : Ticket(i)' = Ticket(i) /\ (Published(i)' <=> Published(i))
          /\ \A idx : Cell(idx)' = Cell(idx)
          /\ Taken' = Taken
      BY <1>2 DEF Ticket, Published, Cell, Taken, refVars
    <2>2. \A v : InRing(v)' <=> InRing(v)
      BY <2>1 DEF InRing
    <2>3. PushTyped' /\ TicketState' /\ ClaimState' /\ LookState'
      BY <1>2, <2>1 DEF RefInv, PushTyped, RefTypeOK, TicketState, ClaimState, LookState, Claimed,
                        Looking, refVars
    <2>4. MessageState' /\ TookState' /\ PopState'
      BY <1>2, <2>1, <2>2 DEF RefInv, MessageState, TookState, PopState, refVars
    <2> QED BY <2>3, <2>4 DEF RefInv
  <1> QED BY <1>1, <1>2, ReadKeeps, HeadKeeps, DropKeeps DEF RefNext

\* A cell behind the position that was looked at is N tickets behind: the ring is full.
LEMMA BehindIsFull ==
    ASSUME RefInv, NEW p \in Producers, Looking(p), Negative(Diff(p))
    PROVE  Taken = N
  <1>t. PushTyped
    BY DEF RefInv
  <1> USE Places, <1>t
  <1> DEFINE pos == prod[p].pos
             d   == WSub(tail, pos)
  <1>1. pos \in Cursor /\ d \in Nat /\ d <= W \div 2 - N
    BY DEF RefInv, LookState, PushTyped, WSub, Cursor
  <1>2. PICK i \in 0 .. N - 1 : Slot(Ticket(i)) = Slot(pos)
    <2>1. Slot(pos) \in Slots /\ head \in Cursor
      BY <1>1, SlotType DEF Cursor
    <2> QED BY <2>1, SlotsCovered DEF Ticket
  <1> DEFINE e == d - Taken + i
  <1>3. Diff(p) = WSub(Cell(Ticket(i)).seq, pos)
    BY <1>2 DEF Diff, Cell
  <1>4. SUFFICES ASSUME Taken # N PROVE FALSE
    OBVIOUS
  <1>5. e \in Int /\ -N < e /\ e <= d + N - 1
    BY <1>1, <1>4
  <1>6. Cell(Ticket(i)).seq = Ticket(i) \/ (i < Taken /\ Cell(Ticket(i)).seq = WAdd(Ticket(i), 1))
    BY DEF RefInv, TicketState, Published
  <1>7. CASE e < 0
    <2>1. pos = WAdd(Ticket(i), -e)
      BY <1>1, <1>7 DEF Ticket, Taken, WAdd, WSub, Cursor
    <2>2. Ticket(i) = WAdd(Ticket(i), 0)
      BY DEF Cursor, WAdd
    <2>3. -e \in 0 .. N - 1 /\ 0 \in 0 .. N - 1 /\ Ticket(i) \in Cursor
      BY <1>5, <1>7
    <2>4. -e = 0
      BY <1>2, <2>1, <2>2, <2>3, SlotsApart
    <2> QED BY <1>5, <1>7, <2>4
  <1>8. CASE e >= 0
    <2>1. WSub(Ticket(i), pos) = e
      BY <1>1, <1>5, <1>8 DEF Ticket, Taken, WAdd, WSub, Cursor
    <2>2. i < Taken => WSub(WAdd(Ticket(i), 1), pos) = e + 1 /\ e + 1 <= d
      BY <1>1, <1>5, <1>8 DEF Ticket, Taken, WAdd, WSub, Cursor
    <2>3. Diff(p) < W \div 2
      BY <1>1, <1>3, <1>5, <1>6, <2>1, <2>2
    <2> QED BY <1>1, <2>3, <1>8, <1>3, <1>6, <2>1, <2>2, <1>5 DEF Negative
  <1> QED BY <1>5, <1>7, <1>8

LEMMA FullStep ==
    ASSUME RefInv, [RefNext]_refVars, NEW p \in Producers, prod'[p].full # prod[p].full
    PROVE  WSub(tail, head) = N
  <1>t. PushTyped
    BY DEF RefInv
  <1>1. TestSeq(p)
    <2>1. ASSUME NEW q \in Producers, PushSteps(q), q # p PROVE FALSE
      BY <1>t, <2>1 DEF PushSteps, LoadTail, TestSeq, CasTail, WriteData, StoreSeq, Set, PushTyped
    <2>2. ~LoadTail(p) /\ ~CasTail(p) /\ ~WriteData(p) /\ ~StoreSeq(p)
      BY <1>t DEF LoadTail, CasTail, WriteData, StoreSeq, Set, PushTyped
    <2>3. ~ReadHead /\ ~ReleaseHead /\ ~DropQueue /\ ~UNCHANGED refVars
      BY DEF ReadHead, ReleaseHead, DropQueue, refVars
    <2> QED BY <2>1, <2>2, <2>3 DEF RefNext, PushSteps
  <1>2. Looking(p) /\ Negative(Diff(p))
    BY <1>1, <1>t DEF TestSeq, Stage, Set, Looking, PushTyped
  <1> QED BY <1>2, BehindIsFull DEF Taken

------------------------------------------------------------------------------
(* The reference queue is the queue of TicketFifo, one entry at a time.       *)

Entries == {Fifo!Open(p) : p \in Producers} \cup {Fifo!Item(v) : v \in Pushed}

\* The queue, ticket by ticket: a published one holds its value, the others are open.
QueueShape ==
    /\ Waiting \in Seq(Entries) /\ Len(Waiting) = Taken
    /\ \A i \in 0 .. N - 1 : i < Taken =>
          /\ Published(i) => Waiting[i + 1] = Fifo!Item(Cell(Ticket(i)).data)
          /\ \A p \in Producers : Claimed(p) /\ prod[p].pos = Ticket(i) =>
                Waiting[i + 1] = Fifo!Open(p)
          /\ Published(i) \/ \E p \in Producers : Claimed(p) /\ prod[p].pos = Ticket(i)

LEMMA QueueIs == RefInv => QueueShape
  <1> SUFFICES ASSUME RefInv PROVE QueueShape
    OBVIOUS
  <1>t. PushTyped
    BY DEF RefInv
  <1> USE Places, <1>t
  <1>1. ASSUME NEW i \in 0 .. N - 1, i < Taken
        PROVE  /\ Published(i) => Entry(Ticket(i)) = Fifo!Item(Cell(Ticket(i)).data)
                                  /\ Entry(Ticket(i)) \in Entries
               /\ \A p \in Producers : Claimed(p) /\ prod[p].pos = Ticket(i) =>
                     Entry(Ticket(i)) = Fifo!Open(p) /\ Entry(Ticket(i)) \in Entries
               /\ Published(i) \/ \E p \in Producers : Claimed(p) /\ prod[p].pos = Ticket(i)
    <2>1. CASE Published(i)
      <3>1. Entry(Ticket(i)) = Fifo!Item(Cell(Ticket(i)).data)
        BY <2>1 DEF Entry, Published, Cell, Fifo!Item
      <3>2. Cell(Ticket(i)).data \in Pushed
        BY <1>1, <2>1 DEF RefInv, TicketState, PushTyped, Published
      <3>3. \A p \in Producers : ~(Claimed(p) /\ prod[p].pos = Ticket(i))
        BY <1>1, <2>1 DEF RefInv, ClaimState, Published
      <3> QED BY <2>1, <3>1, <3>2, <3>3 DEF Entries
    <2>2. CASE ~Published(i)
      <3>1. \E p \in Producers : Claimed(p) /\ prod[p].pos = Ticket(i)
        BY <1>1, <2>2 DEF RefInv, TicketState
      <3>2. ASSUME NEW p \in Producers, Claimed(p), prod[p].pos = Ticket(i)
            PROVE  Entry(Ticket(i)) = Fifo!Open(p)
        <4>1. \A q \in Producers : Claimed(q) /\ prod[q].pos = Ticket(i) <=> q = p
          BY <3>2 DEF RefInv, ClaimState
        <4>2. Claimant(Ticket(i)) = p
          BY <4>1 DEF Claimant, Claimed
        <4> QED BY <2>2, <4>2 DEF Entry, Published, Cell, Fifo!Open
      <3> QED BY <2>2, <3>1, <3>2 DEF Entries
    <2> QED BY <2>1, <2>2
  <1>2. ASSUME NEW j \in 1 .. Taken
        PROVE  /\ j - 1 \in 0 .. N - 1 /\ j - 1 < Taken
               /\ Waiting[j] = Entry(Ticket(j - 1)) /\ Entry(Ticket(j - 1)) \in Entries
    <2>1. j - 1 \in 0 .. N - 1 /\ j - 1 < Taken
      OBVIOUS
    <2>2. Waiting[j] = Entry(Ticket(j - 1))
      BY DEF Waiting, Taken, Ticket
    <2>3. Entry(Ticket(j - 1)) \in Entries
      BY <1>1, <2>1
    <2> QED BY <2>1, <2>2, <2>3
  <1>3. Waiting \in Seq(Entries) /\ Len(Waiting) = Taken
    <2>1. Waiting = [j \in 1 .. Taken |-> Waiting[j]]
      BY DEF Waiting, Taken
    <2>2. Waiting \in [1 .. Taken -> Entries] /\ Taken \in Nat
      BY <1>2, <2>1
    <2> HIDE DEF Waiting, Taken
    <2> QED BY <2>2
  <1>4. ASSUME NEW i \in 0 .. N - 1, i < Taken
        PROVE  Waiting[i + 1] = Entry(Ticket(i))
    <2>1. i + 1 \in 1 .. Taken /\ (i + 1) - 1 = i
      BY <1>4
    <2> QED BY <1>2, <2>1
  <1> QED BY <1>1, <1>3, <1>4 DEF QueueShape

LEMMA Shapes ==
    ASSUME RefInv, RefInv'
    PROVE  QueueShape /\ QueueShape'
  <1>1. (RefInv => QueueShape)'
    BY QueueIs, PTL
  <1> QED BY <1>1, QueueIs

\* The open entries of a producer: the ticket it claimed, if it has one.
LEMMA OpenAtIs ==
    ASSUME RefInv, ring = "live", NEW p \in Producers
    PROVE  Fifo!OpenAt(p) = {j \in 1 .. Taken : Claimed(p) /\ prod[p].pos = Ticket(j - 1)}
  <1>t. PushTyped /\ QueueShape
    BY QueueIs DEF RefInv
  <1> USE Places, <1>t
  <1>1. Fifo!OpenAt(p) = {j \in DOMAIN Waiting : Waiting[j] = Fifo!Open(p)}
    BY DEF Fifo!OpenAt
  <1>2. DOMAIN Waiting = 1 .. Taken
    BY LenProperties DEF QueueShape
  <1>3. ASSUME NEW j \in 1 .. Taken
        PROVE  Waiting[j] = Fifo!Open(p) <=> Claimed(p) /\ prod[p].pos = Ticket(j - 1)
    <2> DEFINE i == j - 1
    <2>1. i \in 0 .. N - 1 /\ i < Taken /\ i + 1 = j
      OBVIOUS
    <2>2. CASE Published(i)
      <3>1. Waiting[j] # Fifo!Open(p)
        <4>1. Waiting[i + 1] = Fifo!Item(Cell(Ticket(i)).data)
          BY <2>1, <2>2 DEF QueueShape
        <4>2. \A v : Fifo!Item(v) # Fifo!Open(p)
          <5>1. \A v : Fifo!Item(v).state = "item" /\ Fifo!Open(p).state = "open"
            BY DEF Fifo!Item, Fifo!Open
          <5> QED BY <5>1
        <4> QED BY <2>1, <4>1, <4>2
      <3>2. ~(Claimed(p) /\ prod[p].pos = Ticket(i))
        BY <2>1, <2>2 DEF RefInv, ClaimState, Published
      <3> QED BY <3>1, <3>2
    <2>3. CASE ~Published(i)
      <3>1. PICK q \in Producers : Claimed(q) /\ prod[q].pos = Ticket(i)
        BY <2>1, <2>3 DEF QueueShape
      <3>2. Waiting[j] = Fifo!Open(q)
        BY <2>1, <3>1 DEF QueueShape
      <3>3. Fifo!Open(q) = Fifo!Open(p) <=> q = p
        BY DEF Fifo!Open
      <3>4. Claimed(p) /\ prod[p].pos = Ticket(i) => p = q
        BY <3>1 DEF RefInv, ClaimState
      <3> QED BY <3>1, <3>2, <3>3, <3>4
    <2> QED BY <2>2, <2>3
  <1> QED BY <1>1, <1>2, <1>3

\* A step that leaves every ticket's owner and published value alone leaves the queue alone.
LEMMA QueueSame ==
    ASSUME RefInv, RefInv', Taken' = Taken, \A i \in 0 .. N - 1 : Ticket(i)' = Ticket(i),
           \A i \in 0 .. N - 1 : Published(i) /\ i < Taken => Published(i)' /\ Cell(Ticket(i))' = Cell(Ticket(i)),
           \A q \in Producers : Claimed(q) => Claimed(q)' /\ prod'[q].pos = prod[q].pos
    PROVE  Waiting' = Waiting
  <1>t. PushTyped /\ QueueShape /\ QueueShape'
    BY Shapes DEF RefInv
  <1> USE Places, <1>t
  <1>1. ASSUME NEW j \in 1 .. Taken PROVE Waiting'[j] = Waiting[j]
    <2> DEFINE i == j - 1
    <2>1. i \in 0 .. N - 1 /\ i < Taken /\ i + 1 = j
      OBVIOUS
    <2>2. CASE Published(i)
      BY <2>1, <2>2 DEF QueueShape
    <2>3. CASE ~Published(i)
      <3>1. PICK q \in Producers : Claimed(q) /\ prod[q].pos = Ticket(i)
        BY <2>1, <2>3 DEF QueueShape
      <3>2. Waiting[j] = Fifo!Open(q)
        BY <2>1, <3>1 DEF QueueShape
      <3>3. Waiting'[j] = Fifo!Open(q)
        <4>1. i < Taken' /\ Claimed(q)' /\ prod'[q].pos = Ticket(i)'
          BY <2>1, <3>1
        <4>2. Waiting'[i + 1] = Fifo!Open(q)
          BY <2>1, <4>1 DEF QueueShape, Fifo!Open
        <4> QED BY <2>1, <4>2
      <3> QED BY <3>2, <3>3
    <2> QED BY <2>2, <2>3
  <1>2. /\ Waiting \in Seq(Entries) /\ Len(Waiting) = Taken
        /\ Waiting' \in Seq(Entries) /\ Len(Waiting') = Taken
    BY DEF QueueShape, Entries, Pushed, Fifo!Open, Fifo!Item
  <1> QED BY <1>1, <1>2, SeqEqual

\* A sequence with one more entry.
LEMMA OneMore ==
    ASSUME NEW S, NEW s \in Seq(S), NEW e \in Seq(S), NEW v \in S, Len(e) = Len(s) + 1,
           e[Len(s) + 1] = v, \A j \in 1 .. Len(s) : e[j] = s[j]
    PROVE  e = s \o [j \in 1 .. 1 |-> v]
  <1> DEFINE run == [j \in 1 .. 1 |-> v]
  <1>1. run \in Seq(S) /\ Len(run) = 1 /\ run[1] = v /\ Len(s) \in Nat
    OBVIOUS
  <1> HIDE DEF run
  <1>2. /\ s \o run \in Seq(S) /\ Len(s \o run) = Len(s) + Len(run)
        /\ \A j \in 1 .. Len(s) + Len(run) :
              (s \o run)[j] = IF j <= Len(s) THEN s[j] ELSE run[j - Len(s)]
    BY <1>1, ConcatProperties, Zenon
  <1>3. \A j \in 1 .. Len(e) : e[j] = (s \o run)[j]
    <2> SUFFICES ASSUME NEW j \in 1 .. Len(s) + 1 PROVE e[j] = (s \o run)[j]
      OBVIOUS
    <2>1. CASE j <= Len(s)
      <3>1. j \in 1 .. Len(s) /\ j \in 1 .. Len(s) + Len(run)
        BY <1>1, <2>1
      <3> QED BY <1>2, <2>1, <3>1
    <2>2. CASE j = Len(s) + 1
      <3>1. j \in 1 .. Len(s) + Len(run) /\ ~(j <= Len(s)) /\ j - Len(s) = 1
        BY <1>1, <2>2
      <3> QED BY <1>1, <1>2, <2>2, <3>1
    <2>3. j <= Len(s) \/ j = Len(s) + 1
      <3>1. j \in Nat /\ j <= Len(s) + 1
        BY <1>1
      <3> QED BY <1>1, <3>1
    <2> QED BY <2>1, <2>2, <2>3, Zenon
  <1> QED BY <1>1, <1>2, <1>3, SeqEqual DEF run

\* The winner's ticket is a new open entry at the tail.
LEMMA CasReserves ==
    ASSUME RefInv, NEW p \in Producers, CasTail(p), tail' # tail
    PROVE  Fifo!Next
  <1>t. /\ PushTyped /\ RefInv' /\ QueueShape /\ QueueShape' /\ ring = "live" /\ ring' = "live"
        /\ delivered' = delivered
    BY CasWins, Shapes DEF RefInv, CasTail, Stage
  <1> USE Places, <1>t
  <1>1. /\ Taken < N /\ Taken' = Taken + 1 /\ ~Claimed(p) /\ Claimed(p)' /\ prod'[p].pos = Ticket(Taken)
        /\ \A q \in Producers : q # p => prod'[q] = prod[q]
        /\ \A i \in 0 .. N - 1 : /\ Ticket(i)' = Ticket(i) /\ (Published(i)' <=> Published(i))
                                 /\ Cell(Ticket(i))' = Cell(Ticket(i))
    BY CasWins DEF Ticket, Published, Cell
  <1>2. Fifo!OpenAt(p) = {}
    BY <1>1, OpenAtIs
  <1>3. /\ Waiting \in Seq(Entries) /\ Len(Waiting) = Taken
        /\ Waiting' \in Seq(Entries) /\ Len(Waiting') = Taken + 1
    BY <1>1 DEF QueueShape, Entries, Pushed, Fifo!Open, Fifo!Item
  <1>6. ASSUME NEW j \in 1 .. Taken PROVE Waiting'[j] = Waiting[j]
    <2> DEFINE i == j - 1
    <2>1. i \in 0 .. N - 1 /\ i < Taken /\ i < Taken' /\ i + 1 = j
      BY <1>1
    <2>2. CASE Published(i)
      <3>1. Waiting[i + 1] = Fifo!Item(cells[Slot(Ticket(i))].data)
        BY <2>1, <2>2 DEF QueueShape, Cell
      <3>2. Published(i)'
        BY <1>1, <2>1, <2>2
      <3>3. Waiting'[i + 1] = Fifo!Item(cells'[Slot(Ticket(i)')].data)
        BY <2>1, <3>2 DEF QueueShape, Cell, Fifo!Item
      <3> QED BY <1>1, <2>1, <3>1, <3>3 DEF Cell
    <2>3. CASE ~Published(i)
      <3>1. PICK q \in Producers : Claimed(q) /\ prod[q].pos = Ticket(i)
        BY <2>1, <2>3 DEF QueueShape
      <3>2. Waiting[i + 1] = Fifo!Open(q)
        BY <2>1, <3>1 DEF QueueShape
      <3>3. Claimed(q)' /\ prod'[q].pos = Ticket(i)'
        BY <1>1, <2>1, <3>1 DEF Claimed
      <3>4. Waiting'[i + 1] = Fifo!Open(q)
        BY <2>1, <3>3 DEF QueueShape, Fifo!Open
      <3> QED BY <2>1, <3>2, <3>4
    <2> QED BY <2>2, <2>3
  <1>7. Waiting'[Taken + 1] = Fifo!Open(p)
    <2>1. PICK i \in 0 .. N - 1 : i = Taken /\ i < Taken'
      BY <1>1
    <2>2. prod'[p].pos = Ticket(i)'
      BY <1>1, <2>1
    <2>3. Waiting'[i + 1] = Fifo!Open(p)
      BY <1>1, <2>1, <2>2 DEF QueueShape, Fifo!Open
    <2> QED BY <2>1, <2>3
  <1>8. Waiting' = Waiting \o [j \in 1 .. 1 |-> Fifo!Open(p)]
    <2>1. Fifo!Open(p) \in Entries
      BY DEF Entries
    <2> QED BY <1>3, <1>6, <1>7, <2>1, OneMore
  <1>9. Fifo!Reserve(p, 1)
    BY <1>1, <1>2, <1>3, <1>8 DEF Fifo!Reserve
  <1>10. 1 \in 1 .. N
    OBVIOUS
  <1> QED BY <1>9, <1>10 DEF Fifo!Next

\* The publication fills the entry.
LEMMA StoreSettles ==
    ASSUME RefInv, NEW p \in Producers, StoreSeq(p)
    PROVE  Fifo!Next
  <1> DEFINE v == Msg(p, prod[p].n)
  <1>t. /\ PushTyped /\ RefInv' /\ QueueShape /\ QueueShape' /\ ring = "live" /\ ring' = "live"
        /\ delivered' = delivered /\ v \in Pushed
    BY StoreKeeps, Shapes DEF RefInv
  <1> USE Places, <1>t
  <1>1. /\ Claimed(p) /\ Taken' = Taken /\ \A i \in 0 .. N - 1 : Ticket(i)' = Ticket(i)
        /\ \A q \in Producers : q # p => prod'[q] = prod[q] /\ (Claimed(q)' <=> Claimed(q))
    BY StoreKeeps DEF Taken, Ticket, Claimed
  <1>2. PICK k \in 0 .. N - 1 :
           /\ k < Taken /\ prod[p].pos = Ticket(k) /\ ~Published(k)
           /\ Published(k)' /\ cells'[Slot(Ticket(k))].data = v
           /\ \A i \in 0 .. N - 1 : i # k =>
                 /\ Published(i)' <=> Published(i)
                 /\ cells'[Slot(Ticket(i))] = cells[Slot(Ticket(i))]
    BY StoreKeeps
  <1> HIDE DEF v
  <1>3. k + 1 \in 1 .. Taken /\ Fifo!OpenAt(p) = {k + 1}
    <2>1. k + 1 \in 1 .. Taken /\ (k + 1) - 1 = k
      BY <1>2
    <2>2. \A j \in 1 .. Taken : Ticket(j - 1) = Ticket(k) => j = k + 1
      BY <2>1
    <2> QED BY <1>1, <1>2, <2>1, <2>2, OpenAtIs
  <1>4. /\ Waiting \in Seq(Entries) /\ Len(Waiting) = Taken
        /\ Waiting' \in Seq(Entries) /\ Len(Waiting') = Taken
    BY <1>1 DEF QueueShape, Entries, Pushed, Fifo!Open, Fifo!Item
  <1>5. Waiting'[k + 1] = Fifo!Item(v)
    <2>1. Waiting'[k + 1] = Fifo!Item(Cell(Ticket(k))'.data)
      BY <1>1, <1>2 DEF QueueShape, Fifo!Item
    <2> QED BY <1>1, <1>2, <2>1 DEF Cell
  <1>6. ASSUME NEW j \in 1 .. Taken, j # k + 1 PROVE Waiting'[j] = Waiting[j]
    <2> DEFINE i == j - 1
    <2>1. i \in 0 .. N - 1 /\ i < Taken /\ i < Taken' /\ i + 1 = j /\ i # k
      BY <1>1, <1>6
    <2>2. CASE Published(i)
      <3>1. Waiting[i + 1] = Fifo!Item(cells[Slot(Ticket(i))].data)
        BY <2>1, <2>2 DEF QueueShape, Cell
      <3>2. Published(i)' /\ Ticket(i)' = Ticket(i)
        BY <1>1, <1>2, <2>1, <2>2
      <3>3. Waiting'[i + 1] = Fifo!Item(cells'[Slot(Ticket(i)')].data)
        BY <2>1, <3>2 DEF QueueShape, Cell, Fifo!Item
      <3> QED BY <1>2, <2>1, <3>1, <3>2, <3>3
    <2>3. CASE ~Published(i)
      <3>1. PICK q \in Producers : Claimed(q) /\ prod[q].pos = Ticket(i)
        BY <2>1, <2>3 DEF QueueShape
      <3>2. Waiting[i + 1] = Fifo!Open(q)
        BY <2>1, <3>1 DEF QueueShape
      <3>3. q # p
        BY <1>2, <2>1, <3>1
      <3>4. Claimed(q)' /\ prod'[q].pos = Ticket(i)'
        BY <1>1, <2>1, <3>1, <3>3
      <3>5. Waiting'[i + 1] = Fifo!Open(q)
        BY <2>1, <3>4 DEF QueueShape, Fifo!Open
      <3> QED BY <2>1, <3>2, <3>5
    <2> QED BY <2>2, <2>3
  <1>7. Waiting' = [Waiting EXCEPT ![k + 1] = Fifo!Item(v)]
    <2>1. Fifo!Item(v) \in Entries
      BY DEF Entries
    <2> DEFINE filled == [Waiting EXCEPT ![k + 1] = Fifo!Item(v)]
    <2>2. /\ filled \in Seq(Entries) /\ Len(filled) = Taken
          /\ \A j \in 1 .. Taken : filled[j] = IF j = k + 1 THEN Fifo!Item(v) ELSE Waiting[j]
      BY <1>3, <1>4, <2>1, ExceptSeq
    <2>3. \A j \in 1 .. Taken : Waiting'[j] = filled[j]
      BY <1>3, <1>5, <1>6, <2>2
    <2> HIDE DEF filled
    <2>4. Waiting' = filled
      BY <1>4, <2>2, <2>3, SeqEqual
    <2> QED BY <2>4 DEF filled
  <1>8. Fifo!Settle(p, Fifo!Item(v))
    BY <1>3, <1>7 DEF Fifo!Settle
  <1> QED BY <1>8 DEF Fifo!Next

\* The release of the head hands over the first entry.
LEMMA ReleasePops ==
    ASSUME RefInv, ReleaseHead
    PROVE  Fifo!Next
  <1>t. /\ PushTyped /\ RefInv' /\ QueueShape /\ QueueShape' /\ ring = "live" /\ ring' = "live"
        /\ 0 < Taken /\ Published(0) /\ Taken' = Taken - 1 /\ prod' = prod
        /\ delivered' = Cell(head).data
        /\ \A i \in 0 .. N - 2 : /\ Ticket(i)' = Ticket(i + 1)
                                 /\ cells'[Slot(Ticket(i + 1))] = cells[Slot(Ticket(i + 1))]
    BY HeadKeeps, Shapes DEF RefInv
  <1> USE Places, <1>t
  <1>1. /\ Waiting \in Seq(Entries) /\ Len(Waiting) = Taken
        /\ Waiting' \in Seq(Entries) /\ Len(Waiting') = Taken - 1
    BY DEF QueueShape, Entries, Pushed, Fifo!Open, Fifo!Item
  <1>2. Waiting # <<>> /\ Head(Waiting) = Fifo!Item(Cell(head).data)
    <2>1. PICK i \in 0 .. N - 1 : i = 0
      OBVIOUS
    <2>2. Waiting[i + 1] = Fifo!Item(Cell(Ticket(i)).data)
      BY <2>1 DEF QueueShape
    <2>3. Waiting # <<>> /\ Head(Waiting) = Waiting[1]
      BY <1>1
    <2> QED BY <2>1, <2>2, <2>3
  <1>3. ASSUME NEW j \in 1 .. Taken - 1 PROVE Waiting'[j] = Waiting[j + 1]
    <2> DEFINE i == j - 1
    <2>1. /\ i \in 0 .. N - 2 /\ i \in 0 .. N - 1 /\ i < Taken' /\ i + 1 = j
          /\ j \in 0 .. N - 1 /\ j < Taken
      OBVIOUS
    <2>2. Ticket(i)' = Ticket(j) /\ cells'[Slot(Ticket(j))] = cells[Slot(Ticket(j))]
      BY <2>1
    <2>3. Published(i)' <=> Published(j)
      BY <2>2 DEF Published, Cell
    <2>4. CASE Published(j)
      <3>1. Waiting[j + 1] = Fifo!Item(cells[Slot(Ticket(j))].data)
        BY <2>1, <2>4 DEF QueueShape, Cell
      <3>2. Waiting'[i + 1] = Fifo!Item(cells'[Slot(Ticket(i)')].data)
        BY <2>1, <2>3, <2>4 DEF QueueShape, Cell, Fifo!Item
      <3> QED BY <2>1, <2>2, <3>1, <3>2
    <2>5. CASE ~Published(j)
      <3>1. PICK q \in Producers : Claimed(q) /\ prod[q].pos = Ticket(j)
        BY <2>1, <2>5 DEF QueueShape
      <3>2. Waiting[j + 1] = Fifo!Open(q)
        BY <2>1, <3>1 DEF QueueShape
      <3>3. Claimed(q)' /\ prod'[q].pos = Ticket(i)'
        BY <2>2, <3>1 DEF Claimed
      <3>4. Waiting'[i + 1] = Fifo!Open(q)
        BY <2>1, <3>3 DEF QueueShape, Fifo!Open
      <3> QED BY <2>1, <3>2, <3>4
    <2> QED BY <2>4, <2>5
  <1>4. Waiting' = Tail(Waiting)
    <2>1. /\ Tail(Waiting) \in Seq(Entries) /\ Len(Tail(Waiting)) = Taken - 1
          /\ \A j \in 1 .. Taken - 1 : Tail(Waiting)[j] = Waiting[j + 1]
      BY <1>1, <1>2, HeadTailProperties
    <2>2. \A j \in 1 .. Taken - 1 : Waiting'[j] = Tail(Waiting)[j]
      BY <1>3, <2>1
    <2> QED BY <1>1, <2>1, <2>2, SeqEqual
  <1>5. \A u : Fifo!Item(u).state = "item" /\ Fifo!Item(u).value = u
    BY DEF Fifo!Item
  <1>6. Fifo!Pop
    BY <1>2, <1>4, <1>5 DEF Fifo!Pop, Fifo!Deliver
  <1> QED BY <1>6 DEF Fifo!Next

\* The drop of the ring discards what is waiting; no push is under way.
LEMMA DropDiscards ==
    ASSUME RefInv, DropQueue
    PROVE  Fifo!Next
  <1>1. /\ ring = "live" /\ ring' = "dropped" /\ delivered' = delivered
        /\ \A p \in Producers : ~Claimed(p)
    BY DEF DropQueue, Claimed
  <1>2. \A p \in Producers : Fifo!OpenAt(p) = {}
    BY <1>1, OpenAtIs
  <1>3. Fifo!Discard
    BY <1>1, <1>2 DEF Fifo!Discard
  <1> QED BY <1>1, <1>3 DEF Fifo!Next

\* The steps that change no owner, no published cell and no end of the ring.
LEMMA QuietStutters ==
    ASSUME RefInv, RefInv', UNCHANGED <<cells, tail, head, ring, delivered>>,
           \A q \in Producers : Claimed(q) => Claimed(q)' /\ prod'[q].pos = prod[q].pos
    PROVE  UNCHANGED Fifo!vars
  <1>1. /\ Taken' = Taken /\ \A i : Ticket(i)' = Ticket(i)
        /\ \A i : (Published(i)' <=> Published(i)) /\ Cell(Ticket(i))' = Cell(Ticket(i))
    BY DEF Taken, Ticket, Published, Cell
  <1>2. Waiting' = Waiting
    BY <1>1, QueueSame
  <1> QED BY <1>2 DEF Fifo!vars

\* The value is written before it is published: the entry stays open.
LEMMA WriteStutters ==
    ASSUME RefInv, NEW p \in Producers, WriteData(p)
    PROVE  UNCHANGED Fifo!vars
  <1>1. /\ RefInv' /\ UNCHANGED <<tail, head, ring, delivered>>
        /\ \A i \in 0 .. N - 1 : /\ Published(i)' <=> Published(i)
                                 /\ Published(i) => cells'[Slot(Ticket(i))] = cells[Slot(Ticket(i))]
        /\ \A q \in Producers : prod'[q].pos = prod[q].pos /\ (Claimed(q)' <=> Claimed(q))
    BY WriteKeeps
  <1>2. /\ Taken' = Taken /\ \A i \in 0 .. N - 1 : Ticket(i)' = Ticket(i)
        /\ \A i \in 0 .. N - 1 : Published(i) /\ i < Taken =>
              Published(i)' /\ Cell(Ticket(i))' = Cell(Ticket(i))
    BY <1>1 DEF Taken, Ticket, Cell
  <1>3. Waiting' = Waiting
    BY <1>1, <1>2, QueueSame
  <1> QED BY <1>1, <1>3 DEF Fifo!vars

LEMMA QueueStep ==
    ASSUME RefInv, RefInv', [RefNext]_refVars
    PROVE  [Fifo!Next]_Fifo!vars
  <1>t. PushTyped
    BY DEF RefInv
  <1>1. ASSUME NEW p \in Producers, PushSteps(p) PROVE Fifo!Next \/ UNCHANGED Fifo!vars
    <2>1. CASE LoadTail(p) \/ TestSeq(p) \/ (CasTail(p) /\ tail' = tail)
      <3>1. /\ UNCHANGED <<cells, tail, head, ring, delivered>> /\ ~Claimed(p)
            /\ \A q \in Producers : q # p => prod'[q] = prod[q]
        BY <1>t, <2>1 DEF LoadTail, TestSeq, CasTail, Stage, Set, Claimed, PushTyped
      <3> QED BY <3>1, QuietStutters DEF Claimed
    <2>2. CASE CasTail(p) /\ tail' # tail
      BY <2>2, CasReserves
    <2>3. CASE WriteData(p)
      BY <2>3, WriteStutters
    <2>4. CASE StoreSeq(p)
      BY <2>4, StoreSettles
    <2> QED BY <1>1, <2>1, <2>2, <2>3, <2>4 DEF PushSteps
  <1>2. CASE ReadHead \/ UNCHANGED refVars
    <2>1. UNCHANGED <<cells, tail, head, prod, ring, delivered>>
      BY <1>2 DEF ReadHead, refVars
    <2> QED BY <2>1, QuietStutters DEF Claimed
  <1> QED BY <1>1, <1>2, ReleasePops, DropDiscards DEF RefNext

LEMMA QueueStarts == RefInit => Fifo!Init
  <1> SUFFICES ASSUME RefInit PROVE Fifo!Init
    OBVIOUS
  <1>1. WSub(tail, head) = 0 /\ ring = "live" /\ delivered = NoData
    BY Bounds DEF RefInit, WSub
  <1>2. Waiting = [i \in 1 .. 0 |-> Entry(WAdd(head, i - 1))]
    BY <1>1 DEF Waiting
  <1>3. Waiting = <<>>
    BY <1>2
  <1> QED BY <1>1, <1>3 DEF Fifo!Init

\* The inductive invariant of the reference queue.
THEOREM ReferenceInvariant == ASSUME MaxMsgs \in Nat PROVE RefSpec => []RefInv
  <1>1. RefInit => RefInv
    BY RefStarts
  <1>2. RefInv /\ [RefNext]_refVars => RefInv'
    BY RefStep
  <1> QED BY <1>1, <1>2, PTL DEF RefSpec

\* ReferenceIsFifo: the baseline queue, with its compare-and-swap that may fail for no reason
\* and tickets that grow stale between two accesses, loses, repeats and makes up no value,
\* takes the steps of a FIFO of tickets, and refuses a push only while N tickets are taken.
THEOREM ReferenceQueueIsFifo == ASSUME MaxMsgs \in Nat PROVE RefSpec => ReferenceIsFifo
  <1>1. RefInv => RefTypeOK /\ EachValueOnce
    <2>1. RefInv => RefTypeOK
      BY DEF RefInv, PushTyped
    <2>2. RefInv => EachValueOnce
      BY DEF RefInv, PushTyped, TookState, EachValueOnce
    <2> QED BY <2>1, <2>2
  <1>2. RefSpec => [](RefTypeOK /\ EachValueOnce)
    BY <1>1, ReferenceInvariant, PTL
  <1>3. RefSpec => IsTicketFifo
    BY QueueStarts, QueueStep, ReferenceInvariant, PTL DEF RefSpec, IsTicketFifo, Fifo!Spec
  <1>4. RefSpec => FullIsFull
    <2>1. RefInv /\ [RefNext]_refVars =>
             [\A p \in Producers : prod'[p].full # prod[p].full => WSub(tail, head) = N]_refVars
      BY FullStep
    <2> QED BY <2>1, ReferenceInvariant, PTL DEF RefSpec, FullIsFull
  <1> QED BY <1>2, <1>3, <1>4 DEF ReferenceIsFifo
==============================================================================
