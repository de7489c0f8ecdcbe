-------------------------------- MODULE PageLock ------------------------------
(***************************************************************************)
(* Guards over values in memory: lock and lock_mut lock the pages a value  *)
(* lies on, the guard's drop unlocks them.  Windows locks pages, without   *)
(* counting, and refuses what goes past the working set's minimum.         *)
(* VirtualLock and VirtualUnlock are modelled as mem/lock.rs describes     *)
(* them; a VirtualUnlock that fails may have unlocked nothing or the pages *)
(* that were locked.                                                       *)
(***************************************************************************)
EXTENDS Integers, FiniteSets

CONSTANTS Values,   \* each value: its first byte and its size
          PageSize, Cap

PageAssumption ==
    /\ PageSize \in Nat \ {0} /\ Cap \in Nat
    /\ Values \subseteq [addr : Nat, size : Nat]

VARIABLES locked,  \* the pages that are locked
          guards,  \* live guards per value: shared ones, or a mutable one
          refused  \* history: pages of the guards whose VirtualUnlock failed

pageVars == <<locked, guards, refused>>

\* The pages [first byte, last byte] touches.
PagesOf(v) == v.addr \div PageSize .. (v.addr + v.size - 1) \div PageSize
Pages(v) == IF v.size = 0 THEN {} ELSE PagesOf(v)

PageInit ==
    /\ locked = {} /\ refused = {}
    /\ guards = [v \in Values |-> [shared |-> 0, mutable |-> FALSE, lost |-> FALSE]]

Live(v) == guards[v].shared > 0 \/ guards[v].mutable

LockRange(v) ==
    \/ v.size = 0 /\ UNCHANGED <<locked, refused>>
    \/ /\ v.size > 0 /\ Cardinality(locked \cup PagesOf(v)) <= Cap
       /\ locked' = locked \cup PagesOf(v) /\ refused' = refused \ PagesOf(v)

\* What a value's guards lost to a drop: their pages are the other guard's as well.
Lost(v, others) ==
    [u \in Values |-> IF Pages(u) \cap Pages(v) # {} /\ (u # v \/ others)
                      THEN [guards[u] EXCEPT !.lost = @ \/ Live(u)] ELSE guards[u]]

Lock(v) ==
    /\ ~guards[v].mutable /\ guards[v].shared < 2
    /\ LockRange(v)
    /\ guards' = [guards EXCEPT ![v].shared = @ + 1, ![v].lost = FALSE]

LockMut(v) ==
    /\ ~Live(v) /\ LockRange(v)
    /\ guards' = [guards EXCEPT ![v].mutable = TRUE, ![v].lost = FALSE]

\* Broken: tests the address where the size is meant.
UnlockRangeFirst(v) ==
    \/ v.addr = 0 /\ UNCHANGED <<locked, refused>>
    \/ v.addr # 0 /\ locked' = locked \ PagesOf(v) /\ UNCHANGED refused

\* The answer is ignored.
UnlockRange(v) ==
    \/ v.size = 0 /\ UNCHANGED <<locked, refused>>
    \/ /\ v.size > 0 /\ PagesOf(v) \subseteq locked
       /\ locked' = locked \ PagesOf(v) /\ refused' = refused \ PagesOf(v)
    \/ /\ v.size > 0 /\ ~(PagesOf(v) \subseteq locked)
       /\ locked' \in {locked, locked \ PagesOf(v)} /\ refused' = refused \cup PagesOf(v)

Drop(v) ==
    /\ Live(v) /\ UnlockRange(v)
    /\ LET rest == IF guards[v].mutable THEN [guards[v] EXCEPT !.mutable = FALSE]
                   ELSE [guards[v] EXCEPT !.shared = @ - 1]
       IN  guards' = [Lost(v, FALSE) EXCEPT
                         ![v] = [rest EXCEPT !.lost = Pages(v) # {} /\ rest.shared > 0]]

PageNext == \E v \in Values : Lock(v) \/ LockMut(v) \/ Drop(v)

PageSpec == PageInit /\ [][PageNext]_pageVars

----------------------------------------------------------------------------
\* Locked pages stay locked as long as a guard lives, but for guards that lost a page to
\* the drop of another one ("Windows does not reference-count it", lock.rs:19-22).
GuardedStaysLocked ==
    \A v \in Values : Live(v) /\ ~guards[v].lost => Pages(v) \subseteq locked

\* A page without a live guard is not locked any more, unless the guard that should have
\* unlocked it was refused because another one had unlocked a page of its range.
NothingLeft ==
    \A p \in locked : p \in refused \/ \E v \in Values : Live(v) /\ p \in Pages(v)

\* Pages are locked while a guard is there, and no longer.
PagesFollowGuards == GuardedStaysLocked /\ NothingLeft
==============================================================================
