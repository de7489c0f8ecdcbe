------------------------------- MODULE Registry -------------------------------
(***************************************************************************)
(* The monitor's registry of threads: watchers enrol threads through a     *)
(* duplicated handle, threads exit, an identifier is given to a new thread *)
(* once nothing refers to the old one, and a capture walks the registry    *)
(* under its lock.  Handles, identifiers and the liveness of a thread are  *)
(* the operating system's.                                                 *)
(***************************************************************************)
EXTENDS Integers, Sequences, FiniteSets, Functions

CONSTANTS Tids,      \* thread identifiers, which are numbers
          Handles,   \* values of duplicated handles
          Watchers,  \* threads inside watch or watch_current
          Configs, Nothing,
          MaxGen,    \* bound: threads that use one identifier after the other
          QueriesFail \* may is_alive answer with an error?

EntrySet   == [handle : Handles, tid : Tids, gen : 0 .. MaxGen, config : Configs]
ThreadSet  == [tid : Tids, gen : 0 .. MaxGen]
WatchSet   == [entry : EntrySet, current : Tids \cup {Nothing}]
CaptureSet == [index : Nat, before : Seq(EntrySet),
               threads : Seq([entry : EntrySet, alive : {"alive", "dead", "error"}])]

RegistryAssumption ==
    /\ Tids \subseteq Nat /\ MaxGen \in Nat /\ QueriesFail \in BOOLEAN
    /\ Nothing \notin Tids \cup ThreadSet \cup WatchSet \cup CaptureSet

VARIABLES thread,  \* per identifier: which thread has it, is it alive, is its JoinHandle held
          open,    \* per handle: the thread it was duplicated from, or Nothing
          reg,     \* REGISTRY
          watcher, \* per watcher: the entry it is about to enrol, or Nothing
          capture  \* the capture in progress, which has the lock, or Nothing

registryVars == <<thread, open, reg, watcher, capture>>

Thread(t) == [tid |-> t, gen |-> thread[t].gen]
Entry(h, t, c) == [handle |-> h, tid |-> t, gen |-> thread[t].gen, config |-> c]

RegistryInit ==
    /\ thread = [t \in Tids |-> [gen |-> 0, alive |-> FALSE, joinable |-> FALSE]]
    /\ open = [h \in Handles |-> Nothing]
    /\ reg = <<>>
    /\ watcher = [w \in Watchers |-> Nothing]
    /\ capture = Nothing

Locked == capture # Nothing

----------------------------------------------------------------------------
(* Threads                                                                 *)

\* An identifier is free once its thread is dead and no handle to it is open.
Start(t) ==
    /\ ~thread[t].alive /\ ~thread[t].joinable /\ thread[t].gen < MaxGen
    /\ \A h \in Handles : open[h] # Thread(t)
    /\ thread' = [thread EXCEPT ![t] = [gen |-> @.gen + 1, alive |-> TRUE, joinable |-> TRUE]]
    /\ UNCHANGED <<open, reg, watcher, capture>>

\* A thread inside watch_current does not exit.
Exit(t) ==
    /\ thread[t].alive
    /\ \A w \in Watchers : watcher[w] # Nothing => watcher[w].current # t
    /\ thread' = [thread EXCEPT ![t].alive = FALSE]
    /\ UNCHANGED <<open, reg, watcher, capture>>

\* The JoinHandle is joined or dropped; a watch that borrows it keeps it.
Release(t) ==
    /\ thread[t].joinable
    /\ \A w \in Watchers :
          watcher[w] # Nothing /\ watcher[w].entry.tid = t => watcher[w].current = t
    /\ thread' = [thread EXCEPT ![t].joinable = FALSE]
    /\ UNCHANGED <<open, reg, watcher, capture>>

----------------------------------------------------------------------------
(* Sequences of entries                                                    *)

Picks(I) == {f \in [1 .. Cardinality(I) -> I] : IsInjective(f)}
Pick(s, f) == [k \in DOMAIN f |-> s[f[k]]]

InOrder(f) == \A a, b \in DOMAIN f : a < b => f[a] < f[b]
Sorted(s) == \A a, b \in DOMAIN s : a < b => s[a].tid <= s[b].tid

Closed(I) == [h \in Handles |-> IF \E i \in I : reg[i].handle = h THEN Nothing ELSE open[h]]

\* Vec::retain with the entries at the places in I.
Retain(I) ==
    /\ \E f \in Picks(I) : InOrder(f) /\ reg' = Pick(reg, f)
    /\ open' = Closed(DOMAIN reg \ I)

Dead(e) == thread[e.tid].gen = e.gen => ~thread[e.tid].alive

\* is_alive answers with the state of the thread, or fails; only Ok(false) removes.
NotSeenDead ==
    LET dead == {i \in DOMAIN reg : Dead(reg[i])}
    IN  {I \in SUBSET (DOMAIN reg) :
            /\ DOMAIN reg \ dead \subseteq I
            /\ QueriesFail \/ I \cap dead = {}}

----------------------------------------------------------------------------
(* watch, watch_current                                                    *)

\* The handle is duplicated before the lock is taken.
Duplicate(w, t, c, h) ==
    /\ watcher[w] = Nothing /\ open[h] = Nothing
    /\ \/ /\ thread[t].joinable /\ thread[t].gen > 0
          /\ watcher' = [watcher EXCEPT ![w] = [entry |-> Entry(h, t, c), current |-> Nothing]]
       \/ /\ thread[t].alive
          /\ \A v \in Watchers : watcher[v] # Nothing => watcher[v].current # t
          /\ watcher' = [watcher EXCEPT ![w] = [entry |-> Entry(h, t, c), current |-> t]]
    /\ open' = [open EXCEPT ![h] = Thread(t)]
    /\ UNCHANGED <<thread, reg, capture>>

\* query::tid fails: the duplicate is dropped, which closes it.
Refuse(w) ==
    /\ QueriesFail /\ watcher[w] # Nothing
    /\ open' = [open EXCEPT ![watcher[w].entry.handle] = Nothing]
    /\ watcher' = [watcher EXCEPT ![w] = Nothing]
    /\ UNCHANGED <<thread, reg, capture>>

\* Dead entries leave; a thread that is enrolled already keeps its entry, and the new
\* one is dropped; otherwise the registry is sorted again.
Enrol(w) ==
    /\ watcher[w] # Nothing /\ ~Locked
    /\ LET e == watcher[w].entry
       IN  \E I \in NotSeenDead :
              \/ /\ \E i \in I : reg[i].tid = e.tid
                 /\ \E f \in Picks(I) : InOrder(f) /\ reg' = Pick(reg, f)
                 /\ open' = [Closed(DOMAIN reg \ I) EXCEPT ![e.handle] = Nothing]
              \/ /\ \A i \in I : reg[i].tid # e.tid
                 /\ LET all == Append(reg, e)
                    IN  \E f \in Picks(I \cup {Len(all)}) :
                           Sorted(Pick(all, f)) /\ reg' = Pick(all, f)
                 /\ open' = Closed(DOMAIN reg \ I)
    /\ watcher' = [watcher EXCEPT ![w] = Nothing]
    /\ UNCHANGED <<thread, capture>>

\* unwatch needs a JoinHandle, unwatch_current a thread that runs.
Unwatch(t) ==
    /\ ~Locked /\ (thread[t].joinable \/ thread[t].alive)
    /\ Retain({i \in DOMAIN reg : reg[i].tid # t})
    /\ UNCHANGED <<thread, watcher, capture>>

PurgeDead ==
    /\ ~Locked
    /\ \E I \in NotSeenDead : Retain(I)
    /\ UNCHANGED <<thread, watcher, capture>>

----------------------------------------------------------------------------
(* Snapshot::capture                                                       *)

BeginCapture ==
    /\ ~Locked
    /\ capture' = [index |-> Len(reg), threads |-> <<>>, before |-> reg]
    /\ UNCHANGED <<thread, open, reg, watcher>>

\* Broken: the last entry goes, not the one at i.
SwapRemoveLast(s, i) == [k \in 1 .. Len(s) - 1 |-> s[k]]

SwapRemove(s, i) ==
    [k \in 1 .. Len(s) - 1 |-> IF k = i THEN s[Len(s)] ELSE s[k]]

\* From the last entry to the first; one that is seen dead is reported and leaves.
CaptureNext ==
    /\ Locked /\ capture.index > 0
    /\ LET i == capture.index
           e == reg[i]
       IN  \E answer \in {IF Dead(e) THEN "dead" ELSE "alive"} \cup
                         (IF QueriesFail THEN {"error"} ELSE {}) :
              /\ capture' = [capture EXCEPT !.index = @ - 1,
                                !.threads = <<[entry |-> e, alive |-> answer]>> \o @]
              /\ reg' = IF answer = "dead" THEN SwapRemove(reg, i) ELSE reg
              /\ open' = IF answer = "dead" THEN Closed({i}) ELSE open
    /\ UNCHANGED <<thread, watcher>>

EndCapture ==
    /\ Locked /\ capture.index = 0 /\ capture' = Nothing
    /\ UNCHANGED <<thread, open, reg, watcher>>

----------------------------------------------------------------------------
RegistryNext ==
    \/ \E t \in Tids : Start(t) \/ Exit(t) \/ Release(t) \/ Unwatch(t)
    \/ \E w \in Watchers, t \in Tids, c \in Configs, h \in Handles : Duplicate(w, t, c, h)
    \/ \E w \in Watchers : Refuse(w) \/ Enrol(w)
    \/ PurgeDead \/ BeginCapture \/ CaptureNext \/ EndCapture

RegistrySpec == RegistryInit /\ [][RegistryNext]_registryVars

----------------------------------------------------------------------------
(* Properties                                                              *)

RegistryTypeOK ==
    /\ thread \in [Tids -> [gen : 0 .. MaxGen, alive : BOOLEAN, joinable : BOOLEAN]]
    /\ open \in [Handles -> ThreadSet \cup {Nothing}]
    /\ reg \in Seq(EntrySet)
    /\ watcher \in [Watchers -> WatchSet \cup {Nothing}]
    /\ capture \in CaptureSet \cup {Nothing}
    /\ Locked => capture.index <= Len(reg)

\* One entry per thread, however watchers of one thread race (threads.rs:103).
UniqueTids ==
    \A i, j \in DOMAIN reg : reg[i].tid = reg[j].tid => i = j

\* An entry holds a handle that is open on its own thread, and no other entry or watcher
\* holds the same handle (threads.rs:24-38).
OwnHandle ==
    /\ \A i \in DOMAIN reg : open[reg[i].handle] = [tid |-> reg[i].tid, gen |-> reg[i].gen]
    /\ \A i, j \in DOMAIN reg : reg[i].handle = reg[j].handle => i = j
    /\ \A w \in Watchers : watcher[w] # Nothing =>
          /\ open[watcher[w].entry.handle] = [tid |-> watcher[w].entry.tid,
                                              gen |-> watcher[w].entry.gen]
          /\ \A i \in DOMAIN reg : reg[i].handle # watcher[w].entry.handle
          /\ \A v \in Watchers : watcher[v] # Nothing /\ v # w =>
                watcher[v].entry.handle # watcher[w].entry.handle

\* An open handle keeps the identifier of its thread from being used again, so that an
\* entry never describes a later thread than the one enrolled (threads.rs:112-115).
EntryIsItsThread ==
    \A i \in DOMAIN reg : reg[i].gen = thread[reg[i].tid].gen

\* No handle is left open behind an entry that is gone.
NoLeak ==
    \A h \in Handles : open[h] # Nothing =>
        \/ \E i \in DOMAIN reg : reg[i].handle = h
        \/ \E w \in Watchers : watcher[w] # Nothing /\ watcher[w].entry.handle = h

\* A capture reports each entry once, in the order the registry had, though threads exit
\* and entries are swapped during the walk (snapshot.rs:28-36).
EachOnce ==
    Locked =>
        LET n == Len(capture.before)
        IN  capture.threads = [k \in 1 .. n - capture.index |->
                [entry |-> capture.before[capture.index + k], alive |-> capture.threads[k].alive]]

\* "Dead threads appear in this capture, then leave the registry" (snapshot.rs:28), and
\* no other entry leaves.
SeenDeadLeave ==
    Locked =>
        \A k \in DOMAIN capture.threads :
            (capture.threads[k].alive = "dead") <=>
                ~\E i \in DOMAIN reg : reg[i] = capture.threads[k].entry

\* What the registry, its watchers and a capture under way may rely on.
RegistryInv ==
    /\ UniqueTids /\ OwnHandle /\ EntryIsItsThread /\ NoLeak
    /\ EachOnce /\ SeenDeadLeave

SameThread(e, f) == e.tid = f.tid /\ e.gen = f.gen

\* A thread that is enrolled again while it runs keeps its first entry.
KeepsFirstAlive ==
    [][\A i \in DOMAIN reg, j \in DOMAIN reg' :
          SameThread(reg[i], reg'[j]) /\ thread[reg[i].tid].alive => reg'[j] = reg[i]]_registryVars

\* The entry of a thread that runs leaves by the unwatch of its own identifier, which takes
\* nothing else with it: never by a purge, a capture or another thread's enrolment.
LivingStay ==
    [][reg' # reg =>
          \A i \in DOMAIN reg :
             \/ \E j \in DOMAIN reg' : reg'[j] = reg[i]
             \/ Dead(reg[i])
             \/ Unwatch(reg[i].tid)]_registryVars

\* At most one entry per identifier, with a handle of its own that belongs to the thread
\* of its identifier and configuration; no duplicate leaks; a capture reports every entry
\* once and what it saw dead has left (threads.rs:26-38, :103, snapshot.rs:28-36); a
\* thread that is enrolled again while it runs keeps its first entry (threads.rs:117),
\* until it is taken out by name (threads.rs:158-169).
RegistrySound == [](RegistryTypeOK /\ RegistryInv) /\ KeepsFirstAlive /\ LivingStay
==============================================================================
