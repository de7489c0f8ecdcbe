------------------------------- MODULE Snapshot ------------------------------
(***************************************************************************)
(* The latest-value channel (crates/channel/src/snapshot/mod.rs): the      *)
(* writer appends heap nodes to a linked list, the reader jumps to the     *)
(* newest and frees what it walks past, and the end dropped second frees   *)
(* the final node.  `next` is null, the successor, or the node itself once *)
(* the channel is closed.                                                  *)
(*                                                                         *)
(* Addr is the heap: Box::from_raw gives an address back and the next node *)
(* may be allocated there, so a stale pointer may point to a newer node.   *)
(* A node's payload is the number of its publication; the seed is 1.       *)
(***************************************************************************)
EXTENDS Naturals, FiniteSets

CONSTANTS Addr,         \* heap addresses a node may have
          Null,         \* ptr::null_mut()
          MaxVersion    \* bound: publications in a run, the seed included

SnapshotAssumption ==
    /\ Null \notin Addr /\ Addr # {}
    /\ MaxVersion \in Nat \ {0}

VARIABLES
    data,        \* payload of the node at an address, 0 where there is none
    next, released,
    wtail, wpc,   \* Writer: its node; program counter
    current, rpc, call,  \* Reader: its node; program counter; call in progress
    ahead,       \* the local `next` of update
    published,   \* the newest publication linked into the list
    seen,        \* the publication the reader moved to last
    newest       \* the newest one when the reader's last update looked

heap   == <<data, next, released>>
writer == <<wtail, wpc, published>>
reader == <<current, rpc, call, ahead, seen, newest>>
snapshotVars   == <<heap, writer, reader>>

Version == 1 .. MaxVersion

SnapshotTypeOK ==
    /\ data \in [Addr -> Version \cup {0}]
    /\ next \in [Addr -> Addr \cup {Null}]
    /\ released \in [Addr -> BOOLEAN]
    /\ wtail \in Addr /\ wpc \in {"idle", "release", "free", "gone"}
    /\ current \in Addr
    /\ rpc \in {"idle", "load", "check", "walk", "reload", "cas", "closed?",
                "release", "free", "gone"}
    /\ call \in {"update", "close", "drop"}
    /\ ahead \in Addr \cup {Null}
    /\ published \in Version /\ seen \in Version /\ newest \in Version

SnapshotInit ==
    /\ \E a \in Addr :
          /\ data = [b \in Addr |-> IF b = a THEN 1 ELSE 0]
          /\ wtail = a /\ current = a
    /\ next = [a \in Addr |-> Null] /\ released = [a \in Addr |-> FALSE]
    /\ wpc = "idle" /\ published = 1
    /\ rpc = "idle" /\ call = "update" /\ ahead = Null /\ seen = 1 /\ newest = 1

Allocated == {a \in Addr : data[a] # 0}

\* drop(Box::from_raw(a))
Free(a) ==
    /\ data' = [data EXCEPT ![a] = 0]
    /\ next' = [next EXCEPT ![a] = Null]
    /\ released' = [released EXCEPT ![a] = FALSE]

\* release: the swap, and the end that finds the flag set frees the node.
AfterRelease(a) == IF released[a] THEN "free" ELSE "gone"

------------------------------------------------------------------------------
(* Writer.                                                                 *)

\* publish: allocate, then CAS the tail's next from null to the new node.  On
\* a closed channel the CAS fails, the node is freed and the value returned.
Publish ==
    /\ wpc = "idle" /\ published < MaxVersion
    /\ next[wtail] = Null
    /\ \E a \in Addr \ Allocated :
          /\ data' = [data EXCEPT ![a] = published + 1]
          /\ next' = [next EXCEPT ![wtail] = a]
          /\ wtail' = a
    /\ published' = published + 1
    /\ UNCHANGED <<released, wpc, reader>>

\* close: a plain store of the tail into its own next.
CloseWriter ==
    /\ wpc = "idle"
    /\ next' = [next EXCEPT ![wtail] = wtail]
    /\ UNCHANGED <<data, released, writer, reader>>

\* drop: close ...
DropWriter ==
    /\ wpc = "idle"
    /\ next' = [next EXCEPT ![wtail] = wtail]
    /\ wpc' = "release"
    /\ UNCHANGED <<data, released, wtail, published, reader>>

\* ... then release the tail.
ReleaseWriter ==
    /\ wpc = "release"
    /\ wpc' = AfterRelease(wtail)
    /\ released' = [released EXCEPT ![wtail] = TRUE]
    /\ UNCHANGED <<data, next, wtail, published, reader>>

FreeWriter ==
    /\ wpc = "free"
    /\ Free(wtail)
    /\ wpc' = "gone"
    /\ UNCHANGED <<wtail, published, reader>>

------------------------------------------------------------------------------
(* Reader.                                                                 *)

\* update returns: to the program, or to the loop of close.
UpdateReturns == /\ rpc' = IF call = "update" THEN "idle" ELSE "cas"
                 /\ ahead' = Null

\* close returns: to the program, or to drop, which releases the node.
CloseReturns == /\ rpc' = IF call = "drop" THEN "release" ELSE "idle"
                /\ call' = IF call = "drop" THEN "drop" ELSE "update"
                /\ ahead' = Null

StartReader(c) ==
    /\ rpc = "idle"
    /\ call' = c
    /\ rpc' = IF c = "update" THEN "load" ELSE "cas"
    /\ UNCHANGED <<heap, writer, current, ahead, seen, newest>>

\* update: the first load; null means the current snapshot is the newest.
LoadNext ==
    /\ rpc = "load"
    /\ newest' = published
    /\ IF next[current] = Null
       THEN UpdateReturns
       ELSE rpc' = "check" /\ ahead' = next[current]
    /\ UNCHANGED <<heap, writer, current, call, seen>>

\* update: the is_closed test.  The error ends update, and close as well.
CheckClosed ==
    /\ rpc = "check"
    /\ IF next[current] = current
       THEN CloseReturns
       ELSE rpc' = "walk" /\ UNCHANGED <<call, ahead>>
    /\ UNCHANGED <<heap, writer, current, seen, newest>>

\* update: one iteration of the walk.  A node that points to itself is the
\* last; else the reader moves on and frees the node it leaves.
Walk ==
    /\ rpc = "walk"
    /\ IF ahead = current
       THEN UpdateReturns /\ UNCHANGED <<heap, current, seen>>
       ELSE /\ current' = ahead /\ seen' = data[ahead]
            /\ Free(current)
            /\ rpc' = "reload" /\ UNCHANGED ahead
    /\ UNCHANGED <<writer, call, newest>>

ReloadNext ==
    /\ rpc = "reload"
    /\ IF next[current] = Null
       THEN UpdateReturns
       ELSE rpc' = "walk" /\ ahead' = next[current]
    /\ UNCHANGED <<heap, writer, current, call, seen, newest>>

\* Broken: a plain store, as the writer's close does.
StoreClose ==
    /\ rpc = "cas"
    /\ next' = [next EXCEPT ![current] = current]
    /\ CloseReturns
    /\ UNCHANGED <<data, released, writer, current, seen, newest>>

\* close: CAS the current node's next from null to itself ...
CasClose ==
    /\ rpc = "cas"
    /\ IF next[current] = Null
       THEN /\ next' = [next EXCEPT ![current] = current]
            /\ CloseReturns
       ELSE rpc' = "closed?" /\ UNCHANGED <<next, call, ahead>>
    /\ UNCHANGED <<data, released, writer, current, seen, newest>>

\* Broken: close tries the same node again.
RetryWithoutUpdate ==
    /\ rpc = "closed?"
    /\ rpc' = "cas"
    /\ UNCHANGED <<heap, writer, current, call, ahead, seen, newest>>

\* ... or it is closed already, or there is a newer node to move to first.
IsClosed ==
    /\ rpc = "closed?"
    /\ IF next[current] = current
       THEN CloseReturns
       ELSE rpc' = "load" /\ UNCHANGED <<call, ahead>>
    /\ UNCHANGED <<heap, writer, current, seen, newest>>

ReleaseReader ==
    /\ rpc = "release"
    /\ rpc' = AfterRelease(current)
    /\ released' = [released EXCEPT ![current] = TRUE]
    /\ UNCHANGED <<data, next, writer, current, call, ahead, seen, newest>>

FreeReader ==
    /\ rpc = "free"
    /\ Free(current)
    /\ rpc' = "gone"
    /\ UNCHANGED <<writer, current, call, ahead, seen, newest>>

------------------------------------------------------------------------------
WriterStep == ReleaseWriter \/ FreeWriter

ReaderStep ==
    \/ LoadNext \/ CheckClosed \/ Walk \/ ReloadNext
    \/ CasClose \/ IsClosed
    \/ ReleaseReader \/ FreeReader

SnapshotNext ==
    \/ Publish \/ CloseWriter \/ DropWriter \/ WriterStep
    \/ \E c \in {"update", "close", "drop"} : StartReader(c)
    \/ ReaderStep

SnapshotSpec == SnapshotInit /\ [][SnapshotNext]_snapshotVars

------------------------------------------------------------------------------
(* Safety.                                                                 *)

\* The ends still alive, and the node each may dereference with the payload it
\* must find there.
NoUseAfterFree ==
    /\ wpc # "gone" => data[wtail] = published
    /\ rpc # "gone" => data[current] = seen
    /\ rpc \in {"check", "walk"} => data[ahead] # 0

\* The list holds exactly the publications from the one the reader stands on
\* to the newest, each once, linked in order; once both ends are gone the heap
\* is empty.  Nothing leaks, whatever end is dropped first.
HeapExact ==
    IF wpc = "gone" /\ rpc = "gone"
    THEN Allocated = {}
    ELSE /\ {data[a] : a \in Allocated} = seen .. published
         /\ Cardinality(Allocated) = published - seen + 1
         /\ \A a \in Allocated :
               \/ data[a] < published /\ data[next[a]] = data[a] + 1
               \/ data[a] = published /\ next[a] \in {Null, a}

\* update leaves the reader on a publication no older than the newest one when
\* it looked; the reader never goes back.
UpdateReachesNewest == rpc \in {"idle", "release", "gone"} => seen >= newest

\* What holds of the list at every step.
ListInv == NoUseAfterFree /\ HeapExact /\ UpdateReachesNewest

\* Invariant 5: the next of a living node is written once.
NextWrittenOnce ==
    [][\A a \in Allocated :
          next[a] # Null /\ data'[a] = data[a] => next'[a] = next[a]]_snapshotVars

\* Once the reader's node points to itself, which is when is_closed() is true
\* and update() fails, it stands on the last publication for good.
ClosedIsFinal ==
    [][next[current] = current /\ rpc # "gone" =>
          /\ seen = published
          /\ UNCHANGED <<published, seen>>]_snapshotVars

\* Nobody touches a node that was freed, none leaks, an update ends at the newest
\* publication; a node is linked or closed once, and after the reader's close nothing
\* reaches it (snapshot/mod.rs).
SnapshotSound == [](SnapshotTypeOK /\ ListInv) /\ NextWrittenOnce /\ ClosedIsFinal

------------------------------------------------------------------------------
\* Calls in progress go on; the program is free to stop.
SnapshotFairSpec == SnapshotSpec /\ WF_snapshotVars(WriterStep) /\ WF_snapshotVars(ReaderStep)

\* close, update and drop of the reader return once publications stop: the
\* retries of close always meet a node they can close or a closed one.
ReaderReturns == rpc # "idle" ~> rpc \in {"idle", "gone"}

==============================================================================
