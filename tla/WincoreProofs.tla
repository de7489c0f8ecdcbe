----------------------------- MODULE WincoreProofs ----------------------------
(* What wincore promises: the monitor's registry with the handles it owns,    *)
(* the start of a thread with its settings, the guards of locked pages and    *)
(* the read-back of a priority class.  These modules  *)
(* share no state.                                                            *)
EXTENDS Registry, ThreadSpawn, PageLock, PriorityClass, FiniteSetTheorems, SequenceTheorems, TLAPS

----------------------------------------------------------------------------
(* The registry's invariant                                                *)

\* An identifier is not given away while a handle is open on its thread.
HandleCurrent ==
    \A h \in Handles : open[h] # Nothing => open[h].gen = thread[open[h].tid].gen

\* What a capture has still to visit is where it was when the capture began.
Walk ==
    Locked =>
        /\ capture.index <= Len(capture.before)
        /\ \A i \in 1 .. capture.index : reg[i] = capture.before[i]
        /\ \A i, j \in DOMAIN capture.before :
              capture.before[i].tid = capture.before[j].tid => i = j

Holding == UniqueTids /\ OwnHandle /\ NoLeak /\ HandleCurrent
Walking == Walk /\ EachOnce /\ SeenDeadLeave

IndInv == RegistryTypeOK /\ Holding /\ Walking

LEMMA Shapes ==
    ASSUME RegistryAssumption, RegistryTypeOK
    PROVE  /\ Len(reg) \in Nat /\ DOMAIN reg = 1 .. Len(reg)
           /\ \A i \in DOMAIN reg :
                 reg[i] \in EntrySet /\ reg[i].handle \in Handles /\ reg[i].tid \in Tids
           /\ \A w \in Watchers : watcher[w] # Nothing =>
                 /\ watcher[w] \in WatchSet /\ watcher[w].entry \in EntrySet
                 /\ watcher[w].entry.handle \in Handles /\ watcher[w].entry.tid \in Tids
           /\ \A e \in EntrySet : [tid |-> e.tid, gen |-> e.gen] \in ThreadSet
           /\ \A x \in ThreadSet \cup WatchSet \cup CaptureSet : x # Nothing
           /\ Locked => capture \in CaptureSet /\ capture.index \in Nat
           /\ \A t \in Tids : Thread(t) \in ThreadSet
  <1>1. reg \in Seq(EntrySet)
    BY DEF RegistryTypeOK
  <1>2. Len(reg) \in Nat /\ DOMAIN reg = 1 .. Len(reg)
    BY <1>1, LenProperties
  <1>3. \A i \in DOMAIN reg : reg[i] \in EntrySet
    BY <1>1, <1>2, ElementOfSeq
  <1>4. \A e \in EntrySet : e.handle \in Handles /\ e.tid \in Tids /\ e.gen \in 0 .. MaxGen
    BY DEF EntrySet
  <1>5. \A w \in Watchers : watcher[w] # Nothing => watcher[w] \in WatchSet
    BY DEF RegistryTypeOK
  <1>6. \A x \in WatchSet : x.entry \in EntrySet
    BY DEF WatchSet
  <1>7. \A x \in ThreadSet \cup WatchSet \cup CaptureSet : x # Nothing
    BY DEF RegistryAssumption
  <1>8. Locked => capture \in CaptureSet /\ capture.index \in Nat
    BY DEF RegistryTypeOK, Locked, CaptureSet
  <1>9. \A t \in Tids : Thread(t) \in ThreadSet
    BY DEF RegistryTypeOK, Thread, ThreadSet
  <1>10. \A e \in EntrySet : [tid |-> e.tid, gen |-> e.gen] \in ThreadSet
    BY <1>4 DEF ThreadSet
  <1> QED BY <1>2, <1>3, <1>4, <1>5, <1>6, <1>7, <1>8, <1>9, <1>10

\* A choice of the places in a finite set, one after the other, has each of them.
LEMMA PicksOnto ==
    ASSUME NEW I, IsFiniteSet(I), NEW f \in Picks(I)
    PROVE  /\ Cardinality(I) \in Nat /\ DOMAIN f = 1 .. Cardinality(I)
           /\ f \in [DOMAIN f -> I]
           /\ \A a, b \in DOMAIN f : f[a] = f[b] => a = b
           /\ \A i \in I : \E k \in DOMAIN f : f[k] = i
  <1>1. Cardinality(I) \in Nat
    BY FS_CardinalityType
  <1>2. f \in [1 .. Cardinality(I) -> I] /\ \A a, b \in DOMAIN f : f[a] = f[b] => a = b
    BY DEF Picks, IsInjective
  <1>3. f \in Injection(1 .. Cardinality(I), I)
    BY <1>2 DEF Injection, IsInjective
  <1>4. Cardinality(1 .. Cardinality(I)) = Cardinality(I)
    BY <1>1, FS_Interval
  <1>5. f \in Surjection(1 .. Cardinality(I), I)
    BY <1>3, <1>4, FS_Injection
  <1>6. \A i \in I : \E k \in 1 .. Cardinality(I) : f[k] = i
    BY <1>5 DEF Surjection
  <1> QED BY <1>1, <1>2, <1>6

\* The entries at the places in I, in some order.
Rearranged(r, s, I) ==
    \E f \in [DOMAIN r -> I] :
       /\ \A a, b \in DOMAIN r : f[a] = f[b] => a = b
       /\ \A i \in I : \E k \in DOMAIN r : f[k] = i
       /\ \A k \in DOMAIN r : r[k] = s[f[k]]

LEMMA PickRearranges ==
    ASSUME NEW S, NEW s \in Seq(S), NEW I \in SUBSET DOMAIN s, NEW f \in Picks(I)
    PROVE  Pick(s, f) \in Seq(S) /\ Rearranged(Pick(s, f), s, I)
  <1>1. Len(s) \in Nat /\ DOMAIN s = 1 .. Len(s) /\ \A i \in DOMAIN s : s[i] \in S
    BY LenProperties, ElementOfSeq
  <1>2. IsFiniteSet(I)
    <2>1. IsFiniteSet(1 .. Len(s))
      BY <1>1, FS_Interval
    <2> QED BY <1>1, <2>1, FS_Subset
  <1>3. /\ Cardinality(I) \in Nat /\ DOMAIN f = 1 .. Cardinality(I)
        /\ f \in [DOMAIN f -> I]
        /\ \A a, b \in DOMAIN f : f[a] = f[b] => a = b
        /\ \A i \in I : \E k \in DOMAIN f : f[k] = i
    BY <1>2, PicksOnto
  <1>4. DOMAIN Pick(s, f) = DOMAIN f /\ \A k \in DOMAIN f : Pick(s, f)[k] = s[f[k]]
    BY DEF Pick
  <1>5. Pick(s, f) \in [1 .. Cardinality(I) -> S]
    BY <1>1, <1>3 DEF Pick
  <1>6. Pick(s, f) \in Seq(S)
    BY <1>3, <1>5
  <1> QED BY <1>3, <1>4, <1>6 DEF Rearranged

\* Only the handles of the entries that go are closed.
StaysOpen(o, I) ==
    /\ o \in [Handles -> ThreadSet \cup {Nothing}]
    /\ \A i \in I : o[reg[i].handle] = [tid |-> reg[i].tid, gen |-> reg[i].gen]
    /\ \A w \in Watchers : watcher[w] # Nothing =>
          /\ o[watcher[w].entry.handle] = open[watcher[w].entry.handle]
          /\ \A i \in DOMAIN reg : reg[i].handle # watcher[w].entry.handle
    /\ \A h \in Handles : o[h] # Nothing =>
          /\ o[h] = open[h]
          /\ \/ \E i \in I : reg[i].handle = h
             \/ \E w \in Watchers : watcher[w] # Nothing /\ watcher[w].entry.handle = h

LEMMA ClosedIs ==
    ASSUME RegistryAssumption, IndInv, NEW I \in SUBSET DOMAIN reg
    PROVE  StaysOpen(Closed(DOMAIN reg \ I), I)
  <1> DEFINE o == Closed(DOMAIN reg \ I)
  <1>0. RegistryTypeOK /\ OwnHandle /\ NoLeak
    BY DEF IndInv, Holding
  <1>1. \A i \in DOMAIN reg : reg[i].handle \in Handles
    BY <1>0, Shapes
  <1>2. \A h \in Handles : o[h] = IF \E i \in DOMAIN reg \ I : reg[i].handle = h THEN Nothing ELSE open[h]
    BY DEF Closed
  <1>3. o \in [Handles -> ThreadSet \cup {Nothing}]
    <2>1. open \in [Handles -> ThreadSet \cup {Nothing}]
      BY <1>0 DEF RegistryTypeOK
    <2> QED BY <2>1 DEF Closed
  <1>4. ASSUME NEW i \in I PROVE o[reg[i].handle] = [tid |-> reg[i].tid, gen |-> reg[i].gen]
    <2>1. ~ \E j \in DOMAIN reg \ I : reg[j].handle = reg[i].handle
      BY <1>0 DEF OwnHandle
    <2>2. o[reg[i].handle] = open[reg[i].handle]
      BY <1>1, <1>2, <2>1
    <2>3. open[reg[i].handle] = [tid |-> reg[i].tid, gen |-> reg[i].gen]
      BY <1>0 DEF OwnHandle
    <2> QED BY <2>2, <2>3
  <1>5. ASSUME NEW w \in Watchers, watcher[w] # Nothing
        PROVE  /\ o[watcher[w].entry.handle] = open[watcher[w].entry.handle]
               /\ \A i \in DOMAIN reg : reg[i].handle # watcher[w].entry.handle
    <2>1. watcher[w].entry.handle \in Handles
      BY <1>0, <1>5, Shapes
    <2>2. \A i \in DOMAIN reg : reg[i].handle # watcher[w].entry.handle
      BY <1>0, <1>5 DEF OwnHandle
    <2> QED BY <1>2, <2>1, <2>2
  <1>6. ASSUME NEW h \in Handles, o[h] # Nothing
        PROVE  /\ o[h] = open[h]
               /\ \/ \E i \in I : reg[i].handle = h
                  \/ \E w \in Watchers : watcher[w] # Nothing /\ watcher[w].entry.handle = h
    <2>1. o[h] = open[h] /\ ~ \E j \in DOMAIN reg \ I : reg[j].handle = h
      BY <1>2, <1>6
    <2> QED BY <1>0, <1>6, <2>1 DEF NoLeak
  <1> QED BY <1>3, <1>4, <1>5, <1>6 DEF StaysOpen

\* What stays when only the entries at I are kept, and the others' handles are closed.
Kept(r, o) ==
    /\ o \in [Handles -> ThreadSet \cup {Nothing}]
    /\ \A a, b \in DOMAIN r : r[a].tid = r[b].tid => a = b
    /\ \A a, b \in DOMAIN r : r[a].handle = r[b].handle => a = b
    /\ \A k \in DOMAIN r : o[r[k].handle] = [tid |-> r[k].tid, gen |-> r[k].gen]
    /\ \A w \in Watchers : watcher[w] # Nothing =>
          /\ o[watcher[w].entry.handle] = open[watcher[w].entry.handle]
          /\ \A k \in DOMAIN r : r[k].handle # watcher[w].entry.handle
    /\ \A h \in Handles : o[h] # Nothing =>
          /\ o[h] = open[h]
          /\ \/ \E k \in DOMAIN r : r[k].handle = h
             \/ \E w \in Watchers : watcher[w] # Nothing /\ watcher[w].entry.handle = h

LEMMA Retained ==
    ASSUME RegistryAssumption, IndInv, NEW I \in SUBSET DOMAIN reg,
           NEW r, Rearranged(r, reg, I), NEW o, StaysOpen(o, I)
    PROVE  Kept(r, o)
  <1>0. RegistryTypeOK /\ UniqueTids /\ OwnHandle
    BY DEF IndInv, Holding
  <1>1. PICK f \in [DOMAIN r -> I] :
           /\ \A a, b \in DOMAIN r : f[a] = f[b] => a = b
           /\ \A i \in I : \E k \in DOMAIN r : f[k] = i
           /\ \A k \in DOMAIN r : r[k] = reg[f[k]]
    BY DEF Rearranged
  <1>2. \A k \in DOMAIN r : f[k] \in I /\ f[k] \in DOMAIN reg
    BY <1>1
  <1>3. \A a, b \in DOMAIN r : r[a].tid = r[b].tid => a = b
    BY <1>0, <1>1, <1>2 DEF UniqueTids
  <1>4. \A a, b \in DOMAIN r : r[a].handle = r[b].handle => a = b
    BY <1>0, <1>1, <1>2 DEF OwnHandle
  <1>5. /\ o \in [Handles -> ThreadSet \cup {Nothing}]
        /\ \A k \in DOMAIN r : o[r[k].handle] = [tid |-> r[k].tid, gen |-> r[k].gen]
    BY <1>1, <1>2 DEF StaysOpen
  <1>6. ASSUME NEW w \in Watchers, watcher[w] # Nothing
        PROVE  /\ o[watcher[w].entry.handle] = open[watcher[w].entry.handle]
               /\ \A k \in DOMAIN r : r[k].handle # watcher[w].entry.handle
    BY <1>1, <1>2, <1>6 DEF StaysOpen
  <1>7. ASSUME NEW h \in Handles, o[h] # Nothing
        PROVE  /\ o[h] = open[h]
               /\ \/ \E k \in DOMAIN r : r[k].handle = h
                  \/ \E w \in Watchers : watcher[w] # Nothing /\ watcher[w].entry.handle = h
    <2>1. /\ o[h] = open[h]
          /\ \/ \E i \in I : reg[i].handle = h
             \/ \E w \in Watchers : watcher[w] # Nothing /\ watcher[w].entry.handle = h
      BY <1>7 DEF StaysOpen
    <2> QED BY <1>1, <2>1
  <1> QED BY <1>3, <1>4, <1>5, <1>6, <1>7 DEF Kept

\* unwatch, purge_dead and the removal of a dead entry by a capture.
LEMMA RetainHolds ==
    ASSUME RegistryAssumption, IndInv, NEW I \in SUBSET DOMAIN reg,
           Rearranged(reg', reg, I), open' = Closed(DOMAIN reg \ I), UNCHANGED <<thread, watcher>>
    PROVE  Holding' /\ open' \in [Handles -> ThreadSet \cup {Nothing}]
  <1>0. RegistryTypeOK /\ UniqueTids /\ OwnHandle /\ NoLeak /\ HandleCurrent
    BY DEF IndInv, Holding
  <1>1. Kept(reg', open')
    BY ClosedIs, Retained
  <1>2. UniqueTids'
    BY <1>1 DEF Kept, UniqueTids
  <1>3. NoLeak'
    BY <1>1 DEF Kept, NoLeak
  <1>4. HandleCurrent'
    <2>1. \A h \in Handles : open'[h] # Nothing => open'[h] = open[h]
      BY <1>1 DEF Kept
    <2>2. thread' = thread
      OBVIOUS
    <2> QED BY <1>0, <2>1, <2>2 DEF HandleCurrent
  <1>5. OwnHandle'
    <2>0. watcher' = watcher
      OBVIOUS
    <2>1. ASSUME NEW w \in Watchers, watcher[w] # Nothing
          PROVE  /\ open'[watcher[w].entry.handle] = [tid |-> watcher[w].entry.tid,
                                                      gen |-> watcher[w].entry.gen]
                 /\ \A k \in DOMAIN reg' : reg'[k].handle # watcher[w].entry.handle
      <3>1. open[watcher[w].entry.handle] = [tid |-> watcher[w].entry.tid,
                                             gen |-> watcher[w].entry.gen]
        BY <1>0, <2>1 DEF OwnHandle
      <3>2. /\ open'[watcher[w].entry.handle] = open[watcher[w].entry.handle]
            /\ \A k \in DOMAIN reg' : reg'[k].handle # watcher[w].entry.handle
        BY <1>1, <2>1 DEF Kept
      <3> QED BY <3>1, <3>2
    <2>2. ASSUME NEW v \in Watchers, NEW w \in Watchers,
                 watcher[v] # Nothing, watcher[w] # Nothing, v # w
          PROVE  watcher[v].entry.handle # watcher[w].entry.handle
      BY <1>0, <2>2 DEF OwnHandle
    <2>3. /\ \A k \in DOMAIN reg' : open'[reg'[k].handle] = [tid |-> reg'[k].tid, gen |-> reg'[k].gen]
          /\ \A a, b \in DOMAIN reg' : reg'[a].handle = reg'[b].handle => a = b
      BY <1>1 DEF Kept
    <2>4. ASSUME NEW w \in Watchers, watcher'[w] # Nothing
          PROVE  /\ open'[watcher'[w].entry.handle] = [tid |-> watcher'[w].entry.tid,
                                                       gen |-> watcher'[w].entry.gen]
                 /\ \A k \in DOMAIN reg' : reg'[k].handle # watcher'[w].entry.handle
                 /\ \A v \in Watchers : watcher'[v] # Nothing /\ v # w =>
                       watcher'[v].entry.handle # watcher'[w].entry.handle
      BY ZenonT(30), <2>0, <2>1, <2>2, <2>4
    <2> QED BY <2>3, <2>4, Zenon DEF OwnHandle
  <1> QED BY <1>1, <1>2, <1>3, <1>4, <1>5 DEF Kept, Holding

\* A capture is not disturbed by what leaves the registry alone, and there is none while
\* the lock is free.
LEMMA WalkStays ==
    ASSUME IndInv, UNCHANGED capture, UNCHANGED reg \/ ~Locked
    PROVE  Walking'
  BY DEF IndInv, Walking, Walk, EachOnce, SeenDeadLeave, Locked

\* Threads start, exit and are joined: an identifier is given away only when no handle to
\* its thread is open.
LEMMA ThreadStepKeeps ==
    ASSUME RegistryAssumption, IndInv, NEW t \in Tids, Start(t) \/ Exit(t) \/ Release(t)
    PROVE  IndInv'
  <1>0. /\ RegistryTypeOK /\ UniqueTids /\ OwnHandle /\ NoLeak /\ HandleCurrent
        /\ UNCHANGED <<open, reg, watcher, capture>>
    BY DEF IndInv, Holding, Start, Exit, Release
  <1>1. RegistryTypeOK'
    <2>1. thread' \in [Tids -> [gen : 0 .. MaxGen, alive : BOOLEAN, joinable : BOOLEAN]]
      <3>1. thread[t] \in [gen : 0 .. MaxGen, alive : BOOLEAN, joinable : BOOLEAN]
        BY <1>0 DEF RegistryTypeOK
      <3>2. CASE Start(t)
        <4>1. thread[t].gen + 1 \in 0 .. MaxGen
          BY <3>1, <3>2 DEF Start, RegistryAssumption
        <4>2. thread' = [thread EXCEPT ![t] = [gen |-> thread[t].gen + 1, alive |-> TRUE,
                                               joinable |-> TRUE]]
          BY <3>2 DEF Start
        <4> QED BY <1>0, <4>1, <4>2 DEF RegistryTypeOK
      <3>3. CASE Exit(t)
        <4>1. thread' = [thread EXCEPT ![t] = [thread[t] EXCEPT !.alive = FALSE]]
          BY <3>3 DEF Exit
        <4> QED BY <1>0, <3>1, <4>1 DEF RegistryTypeOK
      <3>4. CASE Release(t)
        <4>1. thread' = [thread EXCEPT ![t] = [thread[t] EXCEPT !.joinable = FALSE]]
          BY <3>4 DEF Release
        <4> QED BY <1>0, <3>1, <4>1 DEF RegistryTypeOK
      <3> QED BY <3>2, <3>3, <3>4
    <2> QED BY <1>0, <2>1 DEF RegistryTypeOK, Locked
  <1>2. HandleCurrent'
    <2>1. \A u \in Tids : u # t => thread'[u] = thread[u]
      BY <1>0 DEF RegistryTypeOK, Start, Exit, Release
    <2>2. ASSUME NEW h \in Handles, open[h] # Nothing PROVE open[h].gen = thread'[open[h].tid].gen
      <3>1. open[h] \in ThreadSet /\ open[h].tid \in Tids /\ open[h].gen = thread[open[h].tid].gen
        BY <1>0, <2>2 DEF RegistryTypeOK, ThreadSet, HandleCurrent
      <3>2. CASE Start(t)
        <4>1. open[h] # [tid |-> t, gen |-> thread[t].gen]
          BY <3>2 DEF Start, Thread
        <4>2. open[h] = [tid |-> open[h].tid, gen |-> open[h].gen]
          BY <3>1 DEF ThreadSet
        <4>3. open[h].tid # t
          BY <3>1, <4>1, <4>2
        <4> QED BY <2>1, <3>1, <4>3
      <3>3. CASE Exit(t) \/ Release(t)
        <4>1. thread'[t].gen = thread[t].gen
          BY <1>0, <3>3 DEF RegistryTypeOK, Exit, Release
        <4> QED BY <2>1, <3>1, <4>1
      <3> QED BY <3>2, <3>3
    <2> QED BY <1>0, <2>2 DEF HandleCurrent
  <1>3. UniqueTids' /\ OwnHandle' /\ NoLeak'
    BY <1>0 DEF UniqueTids, OwnHandle, NoLeak
  <1>4. Walking'
    BY <1>0, WalkStays
  <1> QED BY <1>1, <1>2, <1>3, <1>4 DEF IndInv, Holding

\* watch duplicates a handle that nothing else has.
LEMMA DuplicateKeeps ==
    ASSUME RegistryAssumption, IndInv, NEW w \in Watchers, NEW t \in Tids, NEW c \in Configs,
           NEW h \in Handles, Duplicate(w, t, c, h)
    PROVE  IndInv'
  <1>0. /\ RegistryTypeOK /\ UniqueTids /\ OwnHandle /\ NoLeak /\ HandleCurrent
        /\ UNCHANGED <<thread, reg, capture>>
    BY DEF IndInv, Holding, Duplicate
  <1> DEFINE e == [handle |-> h, tid |-> t, gen |-> thread[t].gen, config |-> c]
  <1>1. /\ watcher[w] = Nothing /\ open[h] = Nothing
        /\ open' = [open EXCEPT ![h] = [tid |-> t, gen |-> thread[t].gen]]
    BY DEF Duplicate, Thread
  <1>2. PICK cur \in Tids \cup {Nothing} : watcher' = [watcher EXCEPT ![w] = [entry |-> e, current |-> cur]]
    BY DEF Duplicate, Entry
  <1>3. e \in EntrySet /\ [tid |-> t, gen |-> thread[t].gen] \in ThreadSet
    BY <1>0 DEF RegistryTypeOK, EntrySet, ThreadSet
  <1>4. [entry |-> e, current |-> cur] \in WatchSet
    BY <1>3 DEF WatchSet
  <1>5. RegistryTypeOK'
    <2>1. open' \in [Handles -> ThreadSet \cup {Nothing}]
      BY <1>0, <1>1, <1>3 DEF RegistryTypeOK
    <2>2. watcher' \in [Watchers -> WatchSet \cup {Nothing}]
      <3> HIDE DEF e
      <3> QED BY <1>0, <1>2, <1>4 DEF RegistryTypeOK
    <2> QED BY <1>0, <2>1, <2>2 DEF RegistryTypeOK, Locked
  <1>6. /\ \A g \in Handles : g # h => open'[g] = open[g]
        /\ open'[h] = [tid |-> t, gen |-> thread[t].gen]
    BY <1>0, <1>1 DEF RegistryTypeOK
  <1>7. /\ \A v \in Watchers : v # w => watcher'[v] = watcher[v]
        /\ watcher'[w] # Nothing /\ watcher'[w].entry.handle = h
        /\ watcher'[w].entry.tid = t /\ watcher'[w].entry.gen = thread[t].gen
    <2>1. watcher'[w] = [entry |-> e, current |-> cur]
      BY <1>0, <1>2 DEF RegistryTypeOK
    <2>2. watcher'[w] # Nothing
      <3> HIDE DEF e
      <3> QED BY <1>0, <1>4, <2>1, Shapes
    <2> QED BY <1>0, <1>2, <2>1, <2>2 DEF RegistryTypeOK
  <1>8. /\ \A i \in DOMAIN reg : reg[i].handle # h /\ reg[i].handle \in Handles
        /\ \A v \in Watchers : watcher[v] # Nothing =>
              watcher[v].entry.handle # h /\ watcher[v].entry.handle \in Handles
    <2>1. \A x \in EntrySet : [tid |-> x.tid, gen |-> x.gen] # Nothing
      BY <1>0, Shapes
    <2>2. ASSUME NEW i \in DOMAIN reg PROVE reg[i].handle # h /\ reg[i].handle \in Handles
      <3>1. reg[i] \in EntrySet /\ reg[i].handle \in Handles
        BY <1>0, Shapes
      <3>2. open[reg[i].handle] = [tid |-> reg[i].tid, gen |-> reg[i].gen]
        BY <1>0 DEF OwnHandle
      <3> QED BY <1>1, <2>1, <3>1, <3>2
    <2>3. ASSUME NEW v \in Watchers, watcher[v] # Nothing
          PROVE  watcher[v].entry.handle # h /\ watcher[v].entry.handle \in Handles
      <3>1. watcher[v].entry \in EntrySet /\ watcher[v].entry.handle \in Handles
        BY <1>0, <2>3, Shapes
      <3>2. open[watcher[v].entry.handle] = [tid |-> watcher[v].entry.tid,
                                             gen |-> watcher[v].entry.gen]
        BY <1>0, <2>3 DEF OwnHandle
      <3> QED BY <1>1, <2>1, <3>1, <3>2
    <2> QED BY <2>2, <2>3
  <1>9. HandleCurrent'
    <2>1. \A g \in Handles : open'[g] # Nothing => open'[g].gen = thread[open'[g].tid].gen
      BY <1>0, <1>6 DEF HandleCurrent
    <2> QED BY <1>0, <2>1 DEF HandleCurrent
  <1>10. NoLeak'
    <2>1. ASSUME NEW g \in Handles, open'[g] # Nothing
          PROVE  \/ \E i \in DOMAIN reg : reg[i].handle = g
                 \/ \E v \in Watchers : watcher'[v] # Nothing /\ watcher'[v].entry.handle = g
      <3>1. CASE g = h
        BY <1>7, <3>1
      <3>2. CASE g # h
        <4>1. \/ \E i \in DOMAIN reg : reg[i].handle = g
              \/ \E v \in Watchers : watcher[v] # Nothing /\ watcher[v].entry.handle = g
          BY <1>0, <1>6, <2>1, <3>2 DEF NoLeak
        <4> QED BY <1>1, <1>7, <4>1
      <3> QED BY <3>1, <3>2
    <2> QED BY <1>0, <2>1 DEF NoLeak
  <1>11. OwnHandle'
    <2>1. /\ \A i \in DOMAIN reg' : open'[reg'[i].handle] = [tid |-> reg'[i].tid, gen |-> reg'[i].gen]
          /\ \A i, j \in DOMAIN reg' : reg'[i].handle = reg'[j].handle => i = j
      BY <1>0, <1>6, <1>8 DEF OwnHandle
    <2>2. ASSUME NEW v \in Watchers, watcher'[v] # Nothing
          PROVE  /\ open'[watcher'[v].entry.handle] = [tid |-> watcher'[v].entry.tid,
                                                       gen |-> watcher'[v].entry.gen]
                 /\ \A i \in DOMAIN reg' : reg'[i].handle # watcher'[v].entry.handle
                 /\ \A u \in Watchers : watcher'[u] # Nothing /\ u # v =>
                       watcher'[u].entry.handle # watcher'[v].entry.handle
      <3>1. CASE v = w
        BY <1>0, <1>6, <1>7, <1>8, <3>1
      <3>2. CASE v # w
        <4>1. /\ watcher'[v] = watcher[v] /\ watcher[v] # Nothing
              /\ watcher[v].entry.handle \in Handles /\ watcher[v].entry.handle # h
          BY <1>7, <1>8, <2>2, <3>2
        <4>2. /\ open[watcher[v].entry.handle] = [tid |-> watcher[v].entry.tid,
                                                  gen |-> watcher[v].entry.gen]
              /\ \A i \in DOMAIN reg : reg[i].handle # watcher[v].entry.handle
              /\ \A u \in Watchers : watcher[u] # Nothing /\ u # v =>
                    watcher[u].entry.handle # watcher[v].entry.handle
          BY <1>0, <4>1 DEF OwnHandle
        <4> QED BY <1>0, <1>6, <1>7, <4>1, <4>2
      <3> QED BY <3>1, <3>2
    <2> QED BY <2>1, <2>2, Zenon DEF OwnHandle
  <1>12. UniqueTids' /\ Walking'
    BY <1>0, WalkStays DEF UniqueTids
  <1> QED BY <1>5, <1>9, <1>10, <1>11, <1>12 DEF IndInv, Holding

\* A watcher gives its duplicate up: it is refused, or the thread is enrolled already.
LEMMA GivenUp ==
    ASSUME RegistryAssumption, IndInv, NEW o, Kept(reg', o),
           NEW w \in Watchers, watcher[w] # Nothing,
           watcher' = [watcher EXCEPT ![w] = Nothing], thread' = thread,
           open' = [o EXCEPT ![watcher[w].entry.handle] = Nothing]
    PROVE  /\ Holding' /\ open' \in [Handles -> ThreadSet \cup {Nothing}]
           /\ watcher' \in [Watchers -> WatchSet \cup {Nothing}]
  <1>0. RegistryTypeOK /\ OwnHandle /\ HandleCurrent
    BY DEF IndInv, Holding
  <1> DEFINE g == watcher[w].entry.handle
  <1>1. g \in Handles /\ \A v \in Watchers : watcher[v] # Nothing => watcher[v].entry.handle \in Handles
    BY <1>0, Shapes
  <1>2. /\ o \in [Handles -> ThreadSet \cup {Nothing}]
        /\ open' \in [Handles -> ThreadSet \cup {Nothing}]
        /\ open'[g] = Nothing /\ \A h \in Handles : h # g => open'[h] = o[h]
    <2>1. o \in [Handles -> ThreadSet \cup {Nothing}]
      BY DEF Kept
    <2> QED BY <1>1, <2>1
  <1>3. /\ watcher' \in [Watchers -> WatchSet \cup {Nothing}] /\ watcher'[w] = Nothing
        /\ \A v \in Watchers : v # w => watcher'[v] = watcher[v]
    BY <1>0 DEF RegistryTypeOK
  <1>4. \A v \in Watchers : watcher[v] # Nothing /\ v # w => watcher[v].entry.handle # g
    BY <1>0 DEF OwnHandle
  <1>5. UniqueTids'
    BY DEF Kept, UniqueTids
  <1>6. HandleCurrent'
    <2>1. \A h \in Handles : open'[h] # Nothing => open'[h] = open[h]
      BY <1>2 DEF Kept
    <2> QED BY <1>0, <2>1 DEF HandleCurrent
  <1>7. NoLeak'
    <2>1. ASSUME NEW h \in Handles, open'[h] # Nothing
          PROVE  \/ \E k \in DOMAIN reg' : reg'[k].handle = h
                 \/ \E v \in Watchers : watcher'[v] # Nothing /\ watcher'[v].entry.handle = h
      <3>1. h # g /\ o[h] # Nothing
        BY <1>2, <2>1
      <3>2. \/ \E k \in DOMAIN reg' : reg'[k].handle = h
            \/ \E v \in Watchers : watcher[v] # Nothing /\ watcher[v].entry.handle = h
        BY <3>1 DEF Kept
      <3> QED BY <1>3, <3>1, <3>2
    <2> QED BY <2>1 DEF NoLeak
  <1>8. OwnHandle'
    <2>1. ASSUME NEW k \in DOMAIN reg'
          PROVE  open'[reg'[k].handle] = [tid |-> reg'[k].tid, gen |-> reg'[k].gen]
      <3>1. /\ o[reg'[k].handle] = [tid |-> reg'[k].tid, gen |-> reg'[k].gen]
            /\ reg'[k].handle # g
        BY DEF Kept
      <3> QED BY <3>1
    <2>2. \A a, b \in DOMAIN reg' : reg'[a].handle = reg'[b].handle => a = b
      BY DEF Kept
    <2>3. ASSUME NEW v \in Watchers, watcher'[v] # Nothing
          PROVE  /\ open'[watcher'[v].entry.handle] = [tid |-> watcher'[v].entry.tid,
                                                       gen |-> watcher'[v].entry.gen]
                 /\ \A k \in DOMAIN reg' : reg'[k].handle # watcher'[v].entry.handle
                 /\ \A u \in Watchers : watcher'[u] # Nothing /\ u # v =>
                       watcher'[u].entry.handle # watcher'[v].entry.handle
      <3>1. v # w /\ watcher'[v] = watcher[v] /\ watcher[v] # Nothing
        BY <1>3, <2>3
      <3>2. /\ o[watcher[v].entry.handle] = open[watcher[v].entry.handle]
            /\ \A k \in DOMAIN reg' : reg'[k].handle # watcher[v].entry.handle
        BY <3>1 DEF Kept
      <3>3. /\ open[watcher[v].entry.handle] = [tid |-> watcher[v].entry.tid,
                                                gen |-> watcher[v].entry.gen]
            /\ \A u \in Watchers : watcher[u] # Nothing /\ u # v =>
                  watcher[u].entry.handle # watcher[v].entry.handle
        BY <1>0, <3>1 DEF OwnHandle
      <3>4. open'[watcher[v].entry.handle] = o[watcher[v].entry.handle]
        BY <1>1, <1>2, <1>4, <3>1
      <3> QED BY <1>3, <3>1, <3>2, <3>3, <3>4
    <2> QED BY <2>1, <2>2, <2>3, Zenon DEF OwnHandle
  <1> QED BY <1>2, <1>3, <1>5, <1>6, <1>7, <1>8 DEF Holding

\* query::tid fails.
LEMMA RefuseKeeps ==
    ASSUME RegistryAssumption, IndInv, NEW w \in Watchers, Refuse(w)
    PROVE  IndInv'
  <1>0. /\ RegistryTypeOK /\ UniqueTids /\ OwnHandle /\ NoLeak
        /\ UNCHANGED <<thread, reg, capture>> /\ watcher[w] # Nothing
        /\ open' = [open EXCEPT ![watcher[w].entry.handle] = Nothing]
        /\ watcher' = [watcher EXCEPT ![w] = Nothing]
    BY DEF IndInv, Holding, Refuse
  <1>1. Kept(reg, open)
    <2>1. open \in [Handles -> ThreadSet \cup {Nothing}]
      BY <1>0 DEF RegistryTypeOK
    <2>2. \A v \in Watchers : watcher[v] # Nothing =>
             \A k \in DOMAIN reg : reg[k].handle # watcher[v].entry.handle
      BY <1>0 DEF OwnHandle
    <2>3. /\ \A k \in DOMAIN reg : open[reg[k].handle] = [tid |-> reg[k].tid, gen |-> reg[k].gen]
          /\ \A a, b \in DOMAIN reg : reg[a].handle = reg[b].handle => a = b
      BY <1>0 DEF OwnHandle
    <2> QED BY <1>0, <2>1, <2>2, <2>3 DEF Kept, UniqueTids, NoLeak
  <1>2. Kept(reg', open)
    BY <1>0, <1>1
  <1>3. /\ Holding' /\ open' \in [Handles -> ThreadSet \cup {Nothing}]
        /\ watcher' \in [Watchers -> WatchSet \cup {Nothing}]
    BY <1>0, <1>2, GivenUp
  <1>4. RegistryTypeOK'
    BY <1>0, <1>3 DEF RegistryTypeOK, Locked
  <1> QED BY <1>0, <1>3, <1>4, WalkStays DEF IndInv

\* The thread is new: its entry joins those that stay.
LEMMA JoinHolds ==
    ASSUME RegistryAssumption, IndInv, NEW w \in Watchers, watcher[w] # Nothing,
           NEW I \in SUBSET DOMAIN reg, \A i \in I : reg[i].tid # watcher[w].entry.tid,
           Rearranged(reg', Append(reg, watcher[w].entry), I \cup {Len(reg) + 1}),
           open' = Closed(DOMAIN reg \ I), thread' = thread,
           watcher' = [watcher EXCEPT ![w] = Nothing]
    PROVE  /\ Holding' /\ open' \in [Handles -> ThreadSet \cup {Nothing}]
           /\ watcher' \in [Watchers -> WatchSet \cup {Nothing}]
  <1> DEFINE e == watcher[w].entry
             n == Len(reg) + 1
             all == Append(reg, e)
  <1>0. RegistryTypeOK /\ UniqueTids /\ OwnHandle /\ HandleCurrent
    BY DEF IndInv, Holding
  <1>1. /\ Len(reg) \in Nat /\ DOMAIN reg = 1 .. Len(reg) /\ n \notin I
        /\ \A i \in I : all[i] = reg[i] /\ i \in DOMAIN reg
        /\ all[n] = e
    <2>1. reg \in Seq(EntrySet) /\ e \in EntrySet
      BY <1>0, Shapes DEF RegistryTypeOK
    <2>2. Len(reg) \in Nat /\ DOMAIN reg = 1 .. Len(reg)
      BY <1>0, Shapes
    <2> HIDE DEF e
    <2>3. all[n] = e /\ \A i \in 1 .. Len(reg) : all[i] = reg[i]
      BY <2>1, AppendProperties
    <2> QED BY <2>2, <2>3
  <1>2. PICK f \in [DOMAIN reg' -> I \cup {n}] :
           /\ \A a, b \in DOMAIN reg' : f[a] = f[b] => a = b
           /\ \A i \in I \cup {n} : \E k \in DOMAIN reg' : f[k] = i
           /\ \A k \in DOMAIN reg' : reg'[k] = all[f[k]]
    BY DEF Rearranged
  <1> HIDE DEF n, all
  <1>3. \A k \in DOMAIN reg' : \/ f[k] \in I /\ f[k] \in DOMAIN reg /\ reg'[k] = reg[f[k]]
                               \/ f[k] = n /\ reg'[k] = e
    BY <1>1, <1>2
  <1>4. StaysOpen(open', I)
    BY ClosedIs
  <1>5. /\ watcher' \in [Watchers -> WatchSet \cup {Nothing}] /\ watcher'[w] = Nothing
        /\ \A v \in Watchers : v # w => watcher'[v] = watcher[v]
    BY <1>0 DEF RegistryTypeOK
  <1>6. /\ open[e.handle] = [tid |-> e.tid, gen |-> e.gen]
        /\ \A i \in DOMAIN reg : reg[i].handle # e.handle
        /\ \A v \in Watchers : watcher[v] # Nothing /\ v # w => watcher[v].entry.handle # e.handle
    BY <1>0 DEF OwnHandle
  <1> HIDE DEF e
  <1>7. UniqueTids'
    <2>1. ASSUME NEW a \in DOMAIN reg', NEW b \in DOMAIN reg', reg'[a].tid = reg'[b].tid
          PROVE  f[a] = f[b]
      BY <1>0, <1>3, <2>1 DEF UniqueTids, e
    <2> QED BY <1>2, <2>1 DEF UniqueTids
  <1>8. HandleCurrent'
    <2>1. \A h \in Handles : open'[h] # Nothing => open'[h] = open[h]
      BY <1>4 DEF StaysOpen
    <2> QED BY <1>0, <2>1 DEF HandleCurrent
  <1>9. NoLeak'
    <2>1. ASSUME NEW h \in Handles, open'[h] # Nothing
          PROVE  \/ \E k \in DOMAIN reg' : reg'[k].handle = h
                 \/ \E v \in Watchers : watcher'[v] # Nothing /\ watcher'[v].entry.handle = h
      <3>1. \/ \E i \in I : reg[i].handle = h
            \/ \E v \in Watchers : watcher[v] # Nothing /\ watcher[v].entry.handle = h
        BY <1>4, <2>1 DEF StaysOpen
      <3>2. ASSUME NEW i \in I, reg[i].handle = h PROVE \E k \in DOMAIN reg' : reg'[k].handle = h
        <4>1. PICK k \in DOMAIN reg' : f[k] = i
          BY <1>2
        <4>2. reg'[k] = reg[i]
          BY <1>1, <1>3, <4>1
        <4> QED BY <3>2, <4>2
      <3>3. CASE e.handle = h
        <4>1. PICK k \in DOMAIN reg' : f[k] = n
          BY <1>2
        <4>2. reg'[k] = e
          BY <1>1, <1>3, <4>1
        <4> QED BY <3>3, <4>2
      <3>4. ASSUME NEW v \in Watchers, watcher[v] # Nothing, watcher[v].entry.handle = h, e.handle # h
            PROVE  watcher'[v] # Nothing /\ watcher'[v].entry.handle = h
        BY <1>5, <3>4 DEF e
      <3> QED BY <3>1, <3>2, <3>3, <3>4
    <2> QED BY <2>1 DEF NoLeak
  <1>10. OwnHandle'
    <2>1. ASSUME NEW k \in DOMAIN reg'
          PROVE  open'[reg'[k].handle] = [tid |-> reg'[k].tid, gen |-> reg'[k].gen]
      <3>1. CASE f[k] \in I /\ reg'[k] = reg[f[k]]
        <4>1. \A i \in I : open'[reg[i].handle] = [tid |-> reg[i].tid, gen |-> reg[i].gen]
          BY <1>4 DEF StaysOpen
        <4>2. open'[reg[f[k]].handle] = [tid |-> reg[f[k]].tid, gen |-> reg[f[k]].gen]
          BY <3>1, <4>1
        <4> QED BY <3>1, <4>2
      <3>2. CASE f[k] = n /\ reg'[k] = e
        <4>1. open'[e.handle] = open[e.handle]
          BY <1>4 DEF StaysOpen, e
        <4> QED BY <1>6, <3>2, <4>1
      <3> QED BY <1>3, <3>1, <3>2
    <2>2. ASSUME NEW a \in DOMAIN reg', NEW b \in DOMAIN reg', reg'[a].handle = reg'[b].handle
          PROVE  a = b
      <3>1. f[a] = f[b]
        BY <1>0, <1>3, <1>6, <2>2 DEF OwnHandle
      <3> QED BY <1>2, <3>1
    <2>3. ASSUME NEW v \in Watchers, watcher'[v] # Nothing
          PROVE  /\ open'[watcher'[v].entry.handle] = [tid |-> watcher'[v].entry.tid,
                                                       gen |-> watcher'[v].entry.gen]
                 /\ \A k \in DOMAIN reg' : reg'[k].handle # watcher'[v].entry.handle
                 /\ \A u \in Watchers : watcher'[u] # Nothing /\ u # v =>
                       watcher'[u].entry.handle # watcher'[v].entry.handle
      <3>1. v # w /\ watcher'[v] = watcher[v] /\ watcher[v] # Nothing
        BY <1>5, <2>3
      <3>2. /\ open[watcher[v].entry.handle] = [tid |-> watcher[v].entry.tid,
                                                gen |-> watcher[v].entry.gen]
            /\ \A u \in Watchers : watcher[u] # Nothing /\ u # v =>
                  watcher[u].entry.handle # watcher[v].entry.handle
            /\ \A i \in DOMAIN reg : reg[i].handle # watcher[v].entry.handle
        BY <1>0, <3>1 DEF OwnHandle
      <3>3. open'[watcher[v].entry.handle] = open[watcher[v].entry.handle]
        BY <1>4, <3>1 DEF StaysOpen
      <3>4. \A k \in DOMAIN reg' : reg'[k].handle # watcher[v].entry.handle
        BY <1>3, <1>6, <3>1, <3>2
      <3>5. \A u \in Watchers : watcher'[u] # Nothing /\ u # v =>
               watcher'[u].entry.handle # watcher[v].entry.handle
        BY <1>5, <3>2
      <3> QED BY <3>1, <3>2, <3>3, <3>4, <3>5
    <2> QED BY <2>1, <2>2, <2>3, Zenon DEF OwnHandle
  <1>11. open' \in [Handles -> ThreadSet \cup {Nothing}]
    BY <1>4 DEF StaysOpen
  <1> QED BY <1>5, <1>7, <1>8, <1>9, <1>10, <1>11 DEF Holding

\* push: the entry joins, or the thread keeps the one it has.
LEMMA EnrolKeeps ==
    ASSUME RegistryAssumption, IndInv, NEW w \in Watchers, Enrol(w)
    PROVE  IndInv'
  <1> DEFINE e == watcher[w].entry
             all == Append(reg, e)
  <1>0. /\ RegistryTypeOK /\ watcher[w] # Nothing /\ ~Locked /\ UNCHANGED <<thread, capture>>
        /\ watcher' = [watcher EXCEPT ![w] = Nothing]
    BY DEF IndInv, Enrol
  <1>1. reg \in Seq(EntrySet) /\ e \in EntrySet /\ DOMAIN reg = 1 .. Len(reg) /\ Len(reg) \in Nat
    BY <1>0, Shapes DEF RegistryTypeOK
  <1>2. PICK I \in SUBSET DOMAIN reg :
           \/ /\ \E f \in Picks(I) : reg' = Pick(reg, f)
              /\ open' = [Closed(DOMAIN reg \ I) EXCEPT ![e.handle] = Nothing]
           \/ /\ \A i \in I : reg[i].tid # e.tid
              /\ \E f \in Picks(I \cup {Len(all)}) : reg' = Pick(all, f)
              /\ open' = Closed(DOMAIN reg \ I)
    BY DEF Enrol, NotSeenDead
  <1>3. CASE /\ \E f \in Picks(I) : reg' = Pick(reg, f)
             /\ open' = [Closed(DOMAIN reg \ I) EXCEPT ![e.handle] = Nothing]
    <2>1. reg' \in Seq(EntrySet) /\ Rearranged(reg', reg, I)
      BY <1>1, <1>3, PickRearranges
    <2>2. Kept(reg', Closed(DOMAIN reg \ I))
      BY <2>1, ClosedIs, Retained
    <2>3. /\ Holding' /\ open' \in [Handles -> ThreadSet \cup {Nothing}]
          /\ watcher' \in [Watchers -> WatchSet \cup {Nothing}]
      BY <1>0, <1>3, <2>2, GivenUp
    <2>4. RegistryTypeOK'
      BY <1>0, <2>1, <2>3 DEF RegistryTypeOK, Locked
    <2> QED BY <1>0, <2>3, <2>4, WalkStays DEF IndInv
  <1>4. CASE /\ \A i \in I : reg[i].tid # e.tid
             /\ \E f \in Picks(I \cup {Len(all)}) : reg' = Pick(all, f)
             /\ open' = Closed(DOMAIN reg \ I)
    <2>1. /\ all \in Seq(EntrySet) /\ Len(all) = Len(reg) + 1
          /\ DOMAIN all = 1 .. Len(reg) + 1 /\ I \cup {Len(all)} \in SUBSET DOMAIN all
      <3> HIDE DEF e
      <3>1. all \in Seq(EntrySet) /\ Len(all) = Len(reg) + 1
        BY <1>1, AppendProperties
      <3> HIDE DEF all
      <3>2. DOMAIN all = 1 .. Len(all)
        BY <3>1, LenProperties
      <3> QED BY <1>1, <3>1, <3>2
    <2>2. reg' \in Seq(EntrySet) /\ Rearranged(reg', all, I \cup {Len(all)})
      <3> HIDE DEF all
      <3> QED BY <1>4, <2>1, PickRearranges
    <2>3. Rearranged(reg', all, I \cup {Len(reg) + 1})
      BY <2>1, <2>2
    <2>4. /\ Holding' /\ open' \in [Handles -> ThreadSet \cup {Nothing}]
          /\ watcher' \in [Watchers -> WatchSet \cup {Nothing}]
      BY <1>0, <1>4, <2>3, JoinHolds
    <2>5. RegistryTypeOK'
      BY <1>0, <2>2, <2>4 DEF RegistryTypeOK, Locked
    <2> QED BY <1>0, <2>4, <2>5, WalkStays DEF IndInv
  <1> QED BY <1>2, <1>3, <1>4

\* unwatch and purge_dead.
LEMMA RetainKeeps ==
    ASSUME RegistryAssumption, IndInv, (\E t \in Tids : Unwatch(t)) \/ PurgeDead
    PROVE  IndInv'
  <1>0. RegistryTypeOK /\ ~Locked /\ UNCHANGED <<thread, watcher, capture>> /\ reg \in Seq(EntrySet)
    BY DEF IndInv, Unwatch, PurgeDead, RegistryTypeOK
  <1>1. PICK I \in SUBSET DOMAIN reg : Retain(I)
    BY DEF Unwatch, PurgeDead, NotSeenDead
  <1>2. reg' \in Seq(EntrySet) /\ Rearranged(reg', reg, I) /\ open' = Closed(DOMAIN reg \ I)
    BY <1>0, <1>1, PickRearranges DEF Retain
  <1>3. Holding' /\ open' \in [Handles -> ThreadSet \cup {Nothing}]
    BY <1>0, <1>2, RetainHolds
  <1>4. RegistryTypeOK'
    BY <1>0, <1>2, <1>3 DEF RegistryTypeOK, Locked
  <1> QED BY <1>0, <1>3, <1>4, WalkStays DEF IndInv

\* A capture begins with the whole registry before it, and ends.
LEMMA BeginEndKeeps ==
    ASSUME RegistryAssumption, IndInv, BeginCapture \/ EndCapture
    PROVE  IndInv'
  <1>0. /\ RegistryTypeOK /\ UNCHANGED <<thread, open, reg, watcher>>
        /\ UniqueTids /\ OwnHandle /\ NoLeak /\ HandleCurrent
    BY DEF IndInv, Holding, BeginCapture, EndCapture
  <1>1. Holding'
    BY <1>0 DEF Holding, UniqueTids, OwnHandle, NoLeak, HandleCurrent
  <1>2. CASE EndCapture
    <2>1. capture' = Nothing
      BY <1>2 DEF EndCapture
    <2> QED BY <1>0, <1>1, <2>1
            DEF IndInv, RegistryTypeOK, Walking, Walk, EachOnce, SeenDeadLeave, Locked
  <1>3. CASE BeginCapture
    <2>1. capture' = [index |-> Len(reg), threads |-> <<>>, before |-> reg]
      BY <1>3 DEF BeginCapture
    <2>2. reg \in Seq(EntrySet) /\ Len(reg) \in Nat /\ DOMAIN reg = 1 .. Len(reg)
      BY <1>0, Shapes DEF RegistryTypeOK
    <2>3. capture' \in CaptureSet
      <3>1. <<>> \in Seq([entry : EntrySet, alive : {"alive", "dead", "error"}])
        BY EmptySeq
      <3> QED BY <2>1, <2>2, <3>1 DEF CaptureSet
    <2>4. RegistryTypeOK'
      BY <1>0, <2>1, <2>2, <2>3 DEF RegistryTypeOK, Locked
    <2>5. Walk'
      BY <1>0, <2>1, <2>2 DEF Walk, UniqueTids
    <2>6. EachOnce' /\ SeenDeadLeave'
      <3>1. capture'.threads = <<>> /\ Len(capture'.before) - capture'.index = 0
        BY <1>0, <2>1, <2>2
      <3>2. DOMAIN capture'.threads = {}
        BY <3>1
      <3>3. <<>> = [k \in 1 .. 0 |-> [entry |-> capture'.before[capture'.index + k],
                                      alive |-> capture'.threads[k].alive]]
        OBVIOUS
      <3> QED BY <3>1, <3>2, <3>3 DEF EachOnce, SeenDeadLeave
    <2> QED BY <1>1, <2>4, <2>5, <2>6 DEF IndInv, Walking
  <1> QED BY <1>2, <1>3

\* swap_remove takes one entry out and moves only the last one.
LEMMA SwapRemoveRearranges ==
    ASSUME NEW S, NEW s \in Seq(S), NEW i \in 1 .. Len(s)
    PROVE  /\ SwapRemove(s, i) \in Seq(S) /\ Len(SwapRemove(s, i)) = Len(s) - 1
           /\ Rearranged(SwapRemove(s, i), s, DOMAIN s \ {i})
           /\ \A j \in 1 .. i - 1 : SwapRemove(s, i)[j] = s[j]
  <1>1. Len(s) \in Nat /\ DOMAIN s = 1 .. Len(s) /\ \A j \in 1 .. Len(s) : s[j] \in S
    BY LenProperties, ElementOfSeq
  <1>len. Len(s) \in Nat
    BY <1>1
  <1> DEFINE r == SwapRemove(s, i)
             f == [k \in 1 .. Len(s) - 1 |-> IF k = i THEN Len(s) ELSE k]
  <1>2. DOMAIN r = 1 .. Len(s) - 1 /\ \A k \in 1 .. Len(s) - 1 : r[k] = IF k = i THEN s[Len(s)] ELSE s[k]
    BY DEF SwapRemove
  <1>3. r \in [1 .. Len(s) - 1 -> S]
    BY <1>1 DEF SwapRemove
  <1>4. r \in Seq(S) /\ Len(r) = Len(s) - 1
    <2> HIDE DEF r
    <2>1. Len(s) - 1 \in Nat
      BY <1>1
    <2> QED BY <1>3, <2>1
  <1> HIDE DEF r
  <1>5. f \in [DOMAIN r -> DOMAIN s \ {i}]
    <2>1. ASSUME NEW k \in 1 .. Len(s) - 1 PROVE (IF k = i THEN Len(s) ELSE k) \in DOMAIN s \ {i}
      <3>1. k \in 1 .. Len(s) /\ Len(s) \in 1 .. Len(s) /\ k # Len(s)
        BY <1>len
      <3> QED BY <1>1, <3>1
    <2> QED BY <1>2, <2>1
  <1>6. \A a, b \in DOMAIN r : f[a] = f[b] => a = b
    BY <1>1, <1>2
  <1>7. ASSUME NEW j \in DOMAIN s \ {i} PROVE \E k \in DOMAIN r : f[k] = j
    <2>1. CASE j = Len(s)
      <3>1. i \in 1 .. Len(s) - 1
        <4>1. i # Len(s)
          BY <1>7, <2>1
        <4> QED BY <1>len, <4>1
      <3>2. f[i] = j
        BY <2>1, <3>1
      <3> QED BY <1>2, <3>1, <3>2
    <2>2. CASE j # Len(s)
      <3>1. j \in DOMAIN r /\ f[j] = j
        BY <1>1, <1>2, <2>2
      <3> QED BY <3>1
    <2> QED BY <2>1, <2>2
  <1>8. \A k \in DOMAIN r : r[k] = s[f[k]]
    BY <1>1, <1>2
  <1>9. \A j \in 1 .. i - 1 : r[j] = s[j]
    BY <1>1, <1>2
  <1> HIDE DEF f
  <1>10. Rearranged(r, s, DOMAIN s \ {i})
    BY <1>5, <1>6, <1>7, <1>8 DEF Rearranged
  <1> QED BY <1>4, <1>9, <1>10 DEF r

\* What a capture adds to its report, and what then is in the registry.
Visits(i, a) ==
    /\ capture' = [index |-> i - 1, before |-> capture.before,
                   threads |-> <<[entry |-> reg[i], alive |-> a]>> \o capture.threads]
    /\ IF a = "dead" THEN reg' = SwapRemove(reg, i) /\ open' = Closed({i})
                     ELSE reg' = reg /\ open' = open

LEMMA CaptureNextIs ==
    ASSUME RegistryAssumption, IndInv, CaptureNext
    PROVE  \E a \in {"alive", "dead", "error"} : Visits(capture.index, a)
  <1>1. Locked /\ RegistryTypeOK
    BY DEF IndInv, CaptureNext
  <1>2. PICK a \in {"alive", "dead", "error"} :
           /\ capture' = [capture EXCEPT !.index = @ - 1,
                             !.threads = <<[entry |-> reg[capture.index], alive |-> a]>> \o @]
           /\ reg' = IF a = "dead" THEN SwapRemove(reg, capture.index) ELSE reg
           /\ open' = IF a = "dead" THEN Closed({capture.index}) ELSE open
    BY DEF CaptureNext
  <1>3. capture = [index |-> capture.index, before |-> capture.before, threads |-> capture.threads]
    BY <1>1, Shapes DEF CaptureSet
  <1>4. capture' = [index |-> capture.index - 1, before |-> capture.before,
                    threads |-> <<[entry |-> reg[capture.index], alive |-> a]>> \o capture.threads]
    BY <1>2, <1>3
  <1> QED BY <1>2, <1>4 DEF Visits

LEMMA VisitKeeps ==
    ASSUME RegistryAssumption, IndInv, Locked, NEW a \in {"alive", "dead", "error"},
           capture.index > 0, Visits(capture.index, a), UNCHANGED <<thread, watcher>>
    PROVE  IndInv'
  <1> DEFINE i == capture.index
             n == Len(capture.before)
             x == [entry |-> reg[i], alive |-> a]
             Answers == [entry : EntrySet, alive : {"alive", "dead", "error"}]
  <1>0. /\ RegistryTypeOK /\ UniqueTids /\ Walk /\ EachOnce /\ SeenDeadLeave
        /\ reg \in Seq(EntrySet) /\ Len(reg) \in Nat /\ DOMAIN reg = 1 .. Len(reg)
        /\ \A j \in DOMAIN reg : reg[j] \in EntrySet
    BY Shapes DEF IndInv, Holding, Walking, RegistryTypeOK
  <1>1. /\ capture \in CaptureSet /\ i \in Nat /\ i > 0 /\ i <= Len(reg) /\ i \in DOMAIN reg
        /\ capture.before \in Seq(EntrySet) /\ capture.threads \in Seq(Answers)
    <2>1. capture \in CaptureSet /\ i \in Nat
      BY <1>0, Shapes
    <2>2. i <= Len(reg)
      BY <1>0 DEF RegistryTypeOK
    <2>3. capture.before \in Seq(EntrySet) /\ capture.threads \in Seq(Answers)
      BY <2>1 DEF CaptureSet
    <2> QED BY <1>0, <2>1, <2>2, <2>3
  <1>2. n \in Nat /\ DOMAIN capture.before = 1 .. n
    BY <1>1, LenProperties
  <1>3. /\ i <= n /\ \A j \in 1 .. i : reg[j] = capture.before[j]
        /\ \A j, k \in 1 .. n : capture.before[j].tid = capture.before[k].tid => j = k
    BY <1>0, <1>2 DEF Walk
  <1>4. /\ capture.threads = [k \in 1 .. n - i |->
              [entry |-> capture.before[i + k], alive |-> capture.threads[k].alive]]
        /\ \A k \in DOMAIN capture.threads :
              capture.threads[k].alive = "dead" <=>
                 ~\E j \in DOMAIN reg : reg[j] = capture.threads[k].entry
    BY <1>0 DEF EachOnce, SeenDeadLeave
  <1>5. /\ DOMAIN capture.threads = 1 .. n - i /\ Len(capture.threads) = n - i
        /\ \A k \in 1 .. n - i : capture.threads[k] =
              [entry |-> capture.before[i + k], alive |-> capture.threads[k].alive]
    <2>1. /\ DOMAIN capture.threads = 1 .. n - i
          /\ \A k \in 1 .. n - i : capture.threads[k] =
                [entry |-> capture.before[i + k], alive |-> capture.threads[k].alive]
      BY <1>4
    <2>2. Len(capture.threads) \in Nat /\ DOMAIN capture.threads = 1 .. Len(capture.threads)
      BY <1>1, LenProperties
    <2>3. n - i \in Nat
      BY <1>1, <1>2, <1>3
    <2>4. Len(capture.threads) = n - i
      BY <2>1, <2>2, <2>3
    <2> QED BY <2>1, <2>4
  <1>num. n \in Nat /\ i \in Nat /\ i > 0 /\ i <= n
    BY <1>1, <1>2, <1>3
  <1>6. x \in Answers /\ x.entry = capture.before[i] /\ x.alive = a
    BY <1>0, <1>1, <1>3
  <1> HIDE DEF x, Answers
  <1>7. /\ capture'.threads \in Seq(Answers) /\ Len(capture'.threads) = n - i + 1
        /\ capture'.threads[1] = x
        /\ \A k \in 1 .. n - i : capture'.threads[k + 1] = capture.threads[k]
    <2>1. capture'.threads = <<x>> \o capture.threads
      BY DEF Visits, x
    <2>2. <<x>> \in Seq(Answers) /\ Len(<<x>>) = 1 /\ <<x>>[1] = x
      BY <1>6
    <2>3. /\ <<x>> \o capture.threads \in Seq(Answers)
          /\ Len(<<x>> \o capture.threads) = 1 + (n - i)
          /\ \A k \in 1 .. 1 + (n - i) : (<<x>> \o capture.threads)[k] =
                IF k <= 1 THEN <<x>>[k] ELSE capture.threads[k - 1]
      BY <1>1, <1>5, <2>2, ConcatProperties
    <2>4. 1 \in 1 .. 1 + (n - i) /\ \A k \in 1 .. n - i : k + 1 \in 1 .. 1 + (n - i) /\ (k + 1) - 1 = k
      BY <1>1, <1>2, <1>3
    <2>5. capture'.threads \in Seq(Answers)
      BY <2>1, <2>3
    <2>6. Len(capture'.threads) = n - i + 1
      BY <1>num, <2>1, <2>3
    <2>7. capture'.threads[1] = x
      BY <2>1, <2>2, <2>3, <2>4
    <2>8. ASSUME NEW k \in 1 .. n - i PROVE capture'.threads[k + 1] = capture.threads[k]
      BY <1>num, <2>1, <2>3, <2>4
    <2> QED BY <2>5, <2>6, <2>7, <2>8
  <1>8. capture'.index = i - 1 /\ capture'.before = capture.before /\ Locked' /\ capture' \in CaptureSet
    <2>1. capture' = [index |-> i - 1, before |-> capture.before, threads |-> capture'.threads]
      BY DEF Visits
    <2>2. capture' \in CaptureSet
      <3>1. i - 1 \in Nat
        BY <1>num
      <3>2. capture.before \in Seq(EntrySet)
        BY <1>1 DEF CaptureSet
      <3>3. capture'.threads \in Seq([entry : EntrySet, alive : {"alive", "dead", "error"}])
        BY <1>7 DEF Answers
      <3> QED BY <2>1, <3>1, <3>2, <3>3 DEF CaptureSet
    <2> QED BY <1>0, <2>1, <2>2, Shapes DEF Locked
  \* The entries that are left.
  <1>9. /\ Holding' /\ open' \in [Handles -> ThreadSet \cup {Nothing}] /\ reg' \in Seq(EntrySet)
        /\ i - 1 <= Len(reg') /\ \A j \in 1 .. i - 1 : reg'[j] = reg[j]
        /\ \A e : (\E j \in DOMAIN reg' : reg'[j] = e) <=>
                     (\E j \in DOMAIN reg : reg[j] = e) /\ ~(a = "dead" /\ e = reg[i])
    <2>1. CASE a = "dead"
      <3>1. reg' = SwapRemove(reg, i) /\ open' = Closed({i})
        BY <2>1 DEF Visits
      <3>2. /\ reg' \in Seq(EntrySet) /\ Len(reg') = Len(reg) - 1
            /\ Rearranged(reg', reg, DOMAIN reg \ {i})
            /\ \A j \in 1 .. i - 1 : reg'[j] = reg[j]
        BY ZenonT(30), <1>0, <1>1, <3>1, SwapRemoveRearranges
      <3>3. DOMAIN reg \ (DOMAIN reg \ {i}) = {i} /\ DOMAIN reg \ {i} \in SUBSET DOMAIN reg
        BY <1>1
      <3>4. Holding' /\ open' \in [Handles -> ThreadSet \cup {Nothing}]
        BY <3>1, <3>2, <3>3, RetainHolds
      <3>5. PICK f \in [DOMAIN reg' -> DOMAIN reg \ {i}] :
               /\ \A j \in DOMAIN reg \ {i} : \E k \in DOMAIN reg' : f[k] = j
               /\ \A k \in DOMAIN reg' : reg'[k] = reg[f[k]]
        BY <3>2 DEF Rearranged
      <3>6. ASSUME NEW k \in DOMAIN reg' PROVE f[k] \in DOMAIN reg /\ reg'[k] = reg[f[k]] /\ reg'[k] # reg[i]
        BY <1>0, <1>1, <3>5 DEF UniqueTids
      <3>7. ASSUME NEW j \in DOMAIN reg, reg[j] # reg[i] PROVE \E k \in DOMAIN reg' : reg'[k] = reg[j]
        BY <3>5, <3>7
      <3>8. ASSUME NEW e
            PROVE  (\E j \in DOMAIN reg' : reg'[j] = e) <=> (\E j \in DOMAIN reg : reg[j] = e) /\ e # reg[i]
        BY <3>6, <3>7
      <3>9. i - 1 <= Len(reg')
        BY <1>0, <1>1, <3>2
      <3> QED BY <2>1, <3>2, <3>4, <3>8, <3>9
    <2>2. CASE a # "dead"
      <3>1. reg' = reg /\ open' = open
        BY <2>2 DEF Visits
      <3>2. Holding' /\ open' \in [Handles -> ThreadSet \cup {Nothing}]
        BY <3>1 DEF IndInv, RegistryTypeOK, Holding, UniqueTids, OwnHandle, NoLeak, HandleCurrent
      <3>3. i - 1 <= Len(reg)
        BY <1>0, <1>1
      <3> QED BY <1>0, <2>2, <3>1, <3>2, <3>3
    <2> QED BY <2>1, <2>2
  <1>10. RegistryTypeOK'
    BY <1>0, <1>8, <1>9 DEF RegistryTypeOK, Locked
  <1>11. Walk'
    <2>1. i - 1 <= n /\ \A j \in 1 .. i - 1 : j \in 1 .. i
      BY <1>num
    <2>2. \A j \in 1 .. i - 1 : reg'[j] = capture.before[j]
      BY <1>3, <1>9, <2>1
    <2> QED BY <1>2, <1>3, <1>8, <2>1, <2>2 DEF Walk
  <1>12. ASSUME NEW k \in 1 .. n - (i - 1)
         PROVE  \/ k = 1 /\ capture'.threads[k] = x
                \/ /\ k - 1 \in 1 .. n - i /\ capture'.threads[k] = capture.threads[k - 1]
                   /\ i + (k - 1) = (i - 1) + k
    <2>1. CASE k = 1
      BY <1>7, <2>1
    <2>2. CASE k # 1
      <3>1. k - 1 \in 1 .. n - i /\ (k - 1) + 1 = k /\ i + (k - 1) = (i - 1) + k
        BY <1>num, <2>2
      <3>2. capture'.threads[(k - 1) + 1] = capture.threads[k - 1]
        BY <1>7, <3>1
      <3> QED BY <3>1, <3>2
    <2> QED BY <2>1, <2>2
  <1>13. /\ DOMAIN capture'.threads = 1 .. n - (i - 1)
         /\ capture'.threads = [k \in 1 .. n - (i - 1) |-> capture'.threads[k]]
    <2>1. /\ DOMAIN capture'.threads = 1 .. Len(capture'.threads)
          /\ capture'.threads = [k \in 1 .. Len(capture'.threads) |-> capture'.threads[k]]
      BY <1>7, LenProperties
    <2>2. Len(capture'.threads) = n - (i - 1)
      BY <1>1, <1>2, <1>7
    <2> QED BY <2>1, <2>2
  <1>14. EachOnce'
    <2>1. ASSUME NEW k \in 1 .. n - (i - 1)
          PROVE  capture'.threads[k] = [entry |-> capture.before[(i - 1) + k],
                                        alive |-> capture'.threads[k].alive]
      <3>1. CASE k = 1 /\ capture'.threads[k] = x
        <4>1. (i - 1) + k = i /\ x = [entry |-> x.entry, alive |-> x.alive]
          BY <1>1, <3>1 DEF x
        <4> QED BY <1>6, <3>1, <4>1
      <3>2. CASE /\ k - 1 \in 1 .. n - i /\ capture'.threads[k] = capture.threads[k - 1]
                 /\ i + (k - 1) = (i - 1) + k
        BY <1>5, <3>2
      <3> QED BY <1>12, <3>1, <3>2
    <2>2. capture'.threads = [k \in 1 .. n - (i - 1) |->
             [entry |-> capture.before[(i - 1) + k], alive |-> capture'.threads[k].alive]]
      BY <1>13, <2>1
    <2> QED BY <1>8, <2>2 DEF EachOnce
  <1>15. SeenDeadLeave'
    <2>1. ASSUME NEW k \in 1 .. n - (i - 1)
          PROVE  capture'.threads[k].alive = "dead" <=>
                    ~\E j \in DOMAIN reg' : reg'[j] = capture'.threads[k].entry
      <3>1. CASE k = 1 /\ capture'.threads[k] = x
        <4>1. x.entry = reg[i]
          BY DEF x
        <4> QED BY <1>1, <1>6, <1>9, <3>1, <4>1
      <3>2. CASE k - 1 \in 1 .. n - i /\ capture'.threads[k] = capture.threads[k - 1]
        <4>1. capture.threads[k - 1].entry = capture.before[i + (k - 1)]
          <5>1. capture.threads[k - 1] = [entry |-> capture.before[i + (k - 1)],
                                          alive |-> capture.threads[k - 1].alive]
            BY <1>5, <3>2
          <5> QED BY <5>1
        <4>2. i + (k - 1) \in 1 .. n /\ i + (k - 1) # i /\ i \in 1 .. n /\ i \in 1 .. i
          BY <1>num, <3>2
        <4>3. capture.before[i + (k - 1)] # capture.before[i] /\ reg[i] = capture.before[i]
          BY <1>3, <4>2
        <4>4. capture.threads[k - 1].alive = "dead" <=>
                 ~\E j \in DOMAIN reg : reg[j] = capture.threads[k - 1].entry
          BY <1>4, <1>5, <3>2
        <4>5. (\E j \in DOMAIN reg' : reg'[j] = capture.threads[k - 1].entry)
              <=> (\E j \in DOMAIN reg : reg[j] = capture.threads[k - 1].entry)
          BY <1>9, <4>1, <4>3
        <4> QED BY <3>2, <4>4, <4>5
      <3> QED BY <1>12, <3>1, <3>2
    <2> QED BY <1>8, <1>13, <2>1 DEF SeenDeadLeave
  <1> QED BY <1>9, <1>10, <1>11, <1>14, <1>15 DEF IndInv, Walking

LEMMA InitIndInv == ASSUME RegistryAssumption PROVE RegistryInit => IndInv
  <1> SUFFICES ASSUME RegistryInit PROVE IndInv
    OBVIOUS
  <1>1. RegistryTypeOK
    BY EmptySeq DEF RegistryInit, RegistryTypeOK, Locked, RegistryAssumption
  <1>2. DOMAIN reg = {} /\ ~Locked
    BY DEF RegistryInit, Locked
  <1>3. Holding
    BY <1>2 DEF RegistryInit, Holding, UniqueTids, OwnHandle, NoLeak, HandleCurrent
  <1> QED BY <1>1, <1>2, <1>3 DEF IndInv, Walking, Walk, EachOnce, SeenDeadLeave

LEMMA NextIndInv == ASSUME RegistryAssumption PROVE IndInv /\ [RegistryNext]_registryVars => IndInv'
  <1> SUFFICES ASSUME IndInv, [RegistryNext]_registryVars PROVE IndInv'
    OBVIOUS
  <1>1. ASSUME NEW t \in Tids, Start(t) \/ Exit(t) \/ Release(t) PROVE IndInv'
    BY <1>1, ThreadStepKeeps
  <1>2. CASE (\E t \in Tids : Unwatch(t)) \/ PurgeDead
    BY <1>2, RetainKeeps
  <1>3. ASSUME NEW w \in Watchers, NEW t \in Tids, NEW c \in Configs, NEW h \in Handles,
               Duplicate(w, t, c, h)
        PROVE  IndInv'
    BY <1>3, DuplicateKeeps
  <1>4. ASSUME NEW w \in Watchers, Refuse(w) PROVE IndInv'
    BY <1>4, RefuseKeeps
  <1>5. ASSUME NEW w \in Watchers, Enrol(w) PROVE IndInv'
    BY <1>5, EnrolKeeps
  <1>6. CASE BeginCapture \/ EndCapture
    BY <1>6, BeginEndKeeps
  <1>7. CASE CaptureNext
    <2>1. Locked /\ capture.index > 0 /\ UNCHANGED <<thread, watcher>>
      BY <1>7 DEF CaptureNext
    <2>2. PICK a \in {"alive", "dead", "error"} : Visits(capture.index, a)
      BY <1>7, CaptureNextIs
    <2> QED BY <2>1, <2>2, VisitKeeps
  <1>8. CASE UNCHANGED registryVars
    BY <1>8 DEF IndInv, RegistryTypeOK, Holding, UniqueTids, OwnHandle, NoLeak, HandleCurrent,
                Walking, Walk, EachOnce, SeenDeadLeave, Locked, registryVars
  <1> QED BY <1>1, <1>2, <1>3, <1>4, <1>5, <1>6, <1>7, <1>8 DEF RegistryNext

\* An open handle keeps its identifier: an entry is of the thread that has it now.
LEMMA EntryCurrent == ASSUME RegistryAssumption, IndInv PROVE EntryIsItsThread
  <1> SUFFICES ASSUME NEW i \in DOMAIN reg PROVE reg[i].gen = thread[reg[i].tid].gen
    BY DEF EntryIsItsThread
  <1>0. RegistryTypeOK /\ OwnHandle /\ HandleCurrent
    BY DEF IndInv, Holding
  <1>1. reg[i] \in EntrySet /\ reg[i].handle \in Handles
    BY <1>0, Shapes
  <1>2. open[reg[i].handle] = [tid |-> reg[i].tid, gen |-> reg[i].gen]
    BY <1>0 DEF OwnHandle
  <1>3. open[reg[i].handle] # Nothing
    BY <1>0, <1>1, <1>2, Shapes
  <1> QED BY <1>0, <1>1, <1>2, <1>3 DEF HandleCurrent

\* Entries that are only moved, or taken out, stay what they are.
LEMMA MovedIsSame ==
    ASSUME UniqueTids, NEW I \in SUBSET DOMAIN reg, Rearranged(reg', reg, I),
           NEW i \in DOMAIN reg, NEW j \in DOMAIN reg', SameThread(reg[i], reg'[j])
    PROVE  reg'[j] = reg[i]
  BY DEF Rearranged, UniqueTids, SameThread

\* No step replaces the entry of a thread that runs.
LEMMA FirstStays ==
    ASSUME RegistryAssumption, IndInv, [RegistryNext]_registryVars,
           NEW i \in DOMAIN reg, NEW j \in DOMAIN reg',
           SameThread(reg[i], reg'[j]), thread[reg[i].tid].alive
    PROVE  reg'[j] = reg[i]
  <1>0. UniqueTids /\ RegistryTypeOK /\ reg \in Seq(EntrySet) /\ DOMAIN reg = 1 .. Len(reg) /\ Len(reg) \in Nat
    BY Shapes DEF IndInv, Holding, RegistryTypeOK
  <1>1. CASE reg' = reg
    BY <1>0, <1>1 DEF UniqueTids, SameThread
  <1>2. CASE (\E t \in Tids : Unwatch(t)) \/ PurgeDead
    <2>1. PICK I \in SUBSET DOMAIN reg : Retain(I)
      BY <1>2 DEF Unwatch, PurgeDead, NotSeenDead
    <2>2. Rearranged(reg', reg, I)
      BY <1>0, <2>1, PickRearranges DEF Retain
    <2> QED BY <1>0, <2>2, MovedIsSame
  <1>3. CASE CaptureNext
    <2>1. PICK a \in {"alive", "dead", "error"} : Visits(capture.index, a)
      BY <1>3, CaptureNextIs
    <2>2. CASE a = "dead"
      <3>1. capture.index \in 1 .. Len(reg)
        BY <1>0, <1>3, Shapes DEF CaptureNext, RegistryTypeOK
      <3>2. Rearranged(reg', reg, DOMAIN reg \ {capture.index})
        <4>1. Rearranged(SwapRemove(reg, capture.index), reg, DOMAIN reg \ {capture.index})
          BY <1>0, <3>1, SwapRemoveRearranges
        <4>2. reg' = SwapRemove(reg, capture.index)
          BY <2>1, <2>2 DEF Visits
        <4> QED BY <4>1, <4>2
      <3>3. DOMAIN reg \ {capture.index} \in SUBSET DOMAIN reg
        OBVIOUS
      <3> QED BY <1>0, <3>2, <3>3, MovedIsSame
    <2>3. CASE a # "dead"
      BY <1>1, <2>1, <2>3 DEF Visits
    <2> QED BY <2>2, <2>3
  <1>4. ASSUME NEW w \in Watchers, Enrol(w) PROVE reg'[j] = reg[i]
    <2> DEFINE e == watcher[w].entry
               all == Append(reg, e)
    <2>1. PICK I \in NotSeenDead :
             \/ \E f \in Picks(I) : reg' = Pick(reg, f)
             \/ /\ \A k \in I : reg[k].tid # e.tid
                /\ \E f \in Picks(I \cup {Len(all)}) : reg' = Pick(all, f)
      BY <1>4 DEF Enrol
    <2>2. I \in SUBSET DOMAIN reg /\ i \in I
      <3>1. ~Dead(reg[i])
        BY EntryCurrent DEF Dead, EntryIsItsThread
      <3> QED BY <2>1, <3>1 DEF NotSeenDead
    <2>3. CASE \E f \in Picks(I) : reg' = Pick(reg, f)
      <3>1. Rearranged(reg', reg, I)
        BY <1>0, <2>2, <2>3, PickRearranges
      <3> QED BY <1>0, <2>2, <3>1, MovedIsSame
    <2>4. CASE /\ \A k \in I : reg[k].tid # e.tid
               /\ \E f \in Picks(I \cup {Len(all)}) : reg' = Pick(all, f)
      <3>0. e \in EntrySet /\ watcher[w] # Nothing
        BY <1>0, <1>4, Shapes DEF Enrol
      <3>1. /\ all \in Seq(EntrySet) /\ Len(all) = Len(reg) + 1
            /\ all[Len(reg) + 1] = e /\ \A k \in 1 .. Len(reg) : all[k] = reg[k]
        <4> HIDE DEF e
        <4> QED BY <1>0, <3>0, AppendProperties
      <3> HIDE DEF all, e
      <3>2. DOMAIN all = 1 .. Len(reg) + 1 /\ I \cup {Len(all)} \in SUBSET DOMAIN all
        <4>1. DOMAIN all = 1 .. Len(all)
          BY <3>1, LenProperties
        <4> QED BY <1>0, <2>2, <3>1, <4>1
      <3>3. Rearranged(reg', all, I \cup {Len(all)})
        BY <2>4, <3>1, <3>2, PickRearranges
      <3>4. PICK f \in [DOMAIN reg' -> I \cup {Len(all)}] : \A k \in DOMAIN reg' : reg'[k] = all[f[k]]
        BY <3>3 DEF Rearranged
      <3>5. CASE f[j] = Len(all)
        <4>1. reg'[j] = e
          BY <3>1, <3>4, <3>5
        <4> QED BY <2>2, <2>4, <4>1 DEF SameThread
      <3>6. CASE f[j] \in I
        <4>1. f[j] \in DOMAIN reg /\ reg'[j] = reg[f[j]]
          BY <1>0, <2>2, <3>1, <3>4, <3>6
        <4> QED BY <1>0, <4>1 DEF UniqueTids, SameThread
      <3> QED BY <3>4, <3>5, <3>6
    <2> QED BY <2>1, <2>3, <2>4
  <1> QED BY <1>1, <1>2, <1>3, <1>4
          DEF RegistryNext, registryVars, Start, Exit, Release, Duplicate, Refuse, BeginCapture, EndCapture

\* The entry of a thread that runs leaves by unwatch of its own identifier only.
LEMMA LivingEntryStays ==
    ASSUME RegistryAssumption, IndInv, [RegistryNext]_registryVars, reg' # reg,
           NEW i \in DOMAIN reg, ~Dead(reg[i]), ~Unwatch(reg[i].tid)
    PROVE  \E j \in DOMAIN reg' : reg'[j] = reg[i]
  <1>0. RegistryTypeOK /\ reg \in Seq(EntrySet) /\ DOMAIN reg = 1 .. Len(reg) /\ Len(reg) \in Nat
    BY Shapes DEF IndInv, RegistryTypeOK
  <1>1. ASSUME NEW I \in SUBSET DOMAIN reg, i \in I, Rearranged(reg', reg, I)
        PROVE  \E j \in DOMAIN reg' : reg'[j] = reg[i]
    BY <1>1 DEF Rearranged
  <1>2. ASSUME NEW t \in Tids, Unwatch(t) PROVE \E j \in DOMAIN reg' : reg'[j] = reg[i]
    <2> DEFINE I == {k \in DOMAIN reg : reg[k].tid # t}
    <2>1. i \in I /\ I \in SUBSET DOMAIN reg
      BY <1>2
    <2>2. PICK f \in Picks(I) : reg' = Pick(reg, f)
      BY <1>2 DEF Unwatch, Retain
    <2> HIDE DEF I
    <2>3. Rearranged(reg', reg, I)
      BY <1>0, <2>1, <2>2, PickRearranges
    <2> QED BY <1>1, <2>1, <2>3
  <1>3. CASE PurgeDead
    <2>1. PICK I \in NotSeenDead : Retain(I)
      BY <1>3 DEF PurgeDead
    <2>2. I \in SUBSET DOMAIN reg /\ i \in I
      BY <2>1 DEF NotSeenDead
    <2>3. Rearranged(reg', reg, I)
      BY <1>0, <2>1, <2>2, PickRearranges DEF Retain
    <2> QED BY <1>1, <2>2, <2>3
  <1>4. CASE CaptureNext
    <2> DEFINE c == capture.index
    <2>1. /\ c \in 1 .. Len(reg)
          /\ Dead(reg[c]) /\ reg' = SwapRemove(reg, c)
      <3>1. c \in 1 .. Len(reg)
        BY <1>0, <1>4, Shapes DEF CaptureNext, RegistryTypeOK
      <3> QED BY <1>4, <3>1 DEF CaptureNext
    <2>2. Rearranged(reg', reg, DOMAIN reg \ {c})
      <3> HIDE DEF c
      <3>1. Rearranged(SwapRemove(reg, c), reg, DOMAIN reg \ {c})
        BY <1>0, <2>1, SwapRemoveRearranges
      <3> QED BY <2>1, <3>1
    <2>3. i \in DOMAIN reg \ {c}
      BY <2>1
    <2>4. DOMAIN reg \ {c} \in SUBSET DOMAIN reg
      OBVIOUS
    <2> QED BY <1>1, <2>2, <2>3, <2>4
  <1>5. ASSUME NEW w \in Watchers, Enrol(w) PROVE \E j \in DOMAIN reg' : reg'[j] = reg[i]
    <2> DEFINE e == watcher[w].entry
               all == Append(reg, e)
    <2>1. PICK I \in NotSeenDead :
             \/ \E f \in Picks(I) : reg' = Pick(reg, f)
             \/ \E f \in Picks(I \cup {Len(all)}) : reg' = Pick(all, f)
      BY <1>5 DEF Enrol
    <2>2. I \in SUBSET DOMAIN reg /\ i \in I
      BY <2>1 DEF NotSeenDead
    <2>3. CASE \E f \in Picks(I) : reg' = Pick(reg, f)
      <3>1. Rearranged(reg', reg, I)
        BY <1>0, <2>2, <2>3, PickRearranges
      <3> QED BY <1>1, <2>2, <3>1
    <2>4. CASE \E f \in Picks(I \cup {Len(all)}) : reg' = Pick(all, f)
      <3>0. e \in EntrySet /\ watcher[w] # Nothing
        BY <1>0, <1>5, Shapes DEF Enrol
      <3>1. /\ all \in Seq(EntrySet) /\ Len(all) = Len(reg) + 1
            /\ \A k \in 1 .. Len(reg) : all[k] = reg[k]
        <4> HIDE DEF e
        <4> QED BY <1>0, <3>0, AppendProperties
      <3> HIDE DEF all, e
      <3>2. I \cup {Len(all)} \in SUBSET DOMAIN all
        <4>1. DOMAIN all = 1 .. Len(all)
          BY <3>1, LenProperties
        <4> QED BY <1>0, <2>2, <3>1, <4>1
      <3>3. Rearranged(reg', all, I \cup {Len(all)})
        BY <2>4, <3>1, <3>2, PickRearranges
      <3>4. \E j \in DOMAIN reg' : reg'[j] = all[i]
        BY <2>2, <3>3 DEF Rearranged
      <3> QED BY <1>0, <3>1, <3>4
    <2> QED BY <2>1, <2>3, <2>4
  <1> QED BY <1>2, <1>3, <1>4, <1>5
          DEF RegistryNext, registryVars, Start, Exit, Release, Duplicate, Refuse, BeginCapture, EndCapture

----------------------------------------------------------------------------
(* The registry's theorem                                                  *)

\* For any number of threads, watchers, handles and uses of an identifier, and whatever a
\* query answers: at most one entry per identifier, with a handle of its own that belongs to
\* the thread that has the identifier; no duplicate leaks; a capture reports every entry
\* once, in order, and what it saw dead has left (threads.rs:26-38, :103, :112-117,
\* snapshot.rs:28-36); a thread that is enrolled again while it runs keeps its entry,
\* which leaves by unwatch of that identifier only.
THEOREM RegistryIsSound == ASSUME RegistryAssumption PROVE RegistrySpec => RegistrySound
  <1>1. RegistryInit => IndInv
    BY InitIndInv
  <1>2. IndInv /\ [RegistryNext]_registryVars => IndInv'
    BY NextIndInv
  <1>3. IndInv => RegistryTypeOK /\ RegistryInv
    BY EntryCurrent DEF IndInv, Holding, Walking, RegistryInv
  <1>4. IndInv /\ [RegistryNext]_registryVars =>
           [\A i \in DOMAIN reg, j \in DOMAIN reg' :
               SameThread(reg[i], reg'[j]) /\ thread[reg[i].tid].alive => reg'[j] = reg[i]]_registryVars
    BY FirstStays
  <1>5. IndInv /\ [RegistryNext]_registryVars =>
           [reg' # reg =>
               \A i \in DOMAIN reg :
                  \/ \E j \in DOMAIN reg' : reg'[j] = reg[i]
                  \/ Dead(reg[i])
                  \/ Unwatch(reg[i].tid)]_registryVars
    BY LivingEntryStays
  <1> QED BY <1>1, <1>2, <1>3, <1>4, <1>5, PTL
          DEF RegistrySpec, RegistrySound, KeepsFirstAlive, LivingStay

----------------------------------------------------------------------------
(* The start of a thread                                                   *)

\* What a query makes of a raw value that was passed to Windows is what was asked for.
LEMMA QueryFindsRequest ==
    ASSUME NEW k \in Kind, NEW v \in Requests[k], v # None
    PROVE  Query(k, AsWin32(k, v)) = Config(k, v)
  <1>1. CASE k = "pin"
    BY <1>1 DEF Query, AsWin32, Config
  <1>2. CASE k = "prio"
    <2>1. v \in ThreadPriority
      BY <1>2 DEF Requests
    <2>2. PrioFromWin32(PrioAsWin32[v]) = v
      BY <2>1 DEF ThreadPriority, PrioAsWin32, PrioFromWin32
    <2> QED BY <1>2, <2>2 DEF Query, AsWin32, Config
  <1>3. CASE k = "boost"
    <2>1. v = "Enabled" \/ v = "Disabled"
      BY <1>3 DEF Requests
    <2>2. BoostFromWin32(BoostAsWin32(v)) = v
      BY <2>1 DEF BoostFromWin32, BoostAsWin32
    <2> QED BY <1>3, <2>2 DEF Query, AsWin32, Config
  <1> QED BY <1>1, <1>2, <1>3 DEF Kind

\* How far the new thread is in its settings.
Reported ==
    CASE child \in {"none", "pin"} -> {}
      [] child = "prio"            -> {"pin"}
      [] child = "boost"           -> {"pin", "prio"}
      [] child = "dead"            -> DOMAIN report
      [] OTHER                     -> Kind

\* The report follows the settings in their order, ...
SpawnInOrder ==
    /\ child \in {"none", "send", "run", "ended", "dead"} \cup Kind
    /\ DOMAIN report = Reported /\ DOMAIN report \subseteq Kind
    /\ touched \subseteq Kind /\ (touched # {} => child \in {"run", "ended"})

\* ... tells each request and its outcome, which is the one Windows knows of, ...
Truthful ==
    /\ \A k \in DOMAIN report :
          \/ wanted[k] = None /\ report[k] = Skipped
          \/ wanted[k] # None /\ report[k] \in {Applied(wanted[k]), Failed(wanted[k])}
    /\ DOMAIN os = Kind
    /\ \A k \in Kind \ touched :
          os[k] = IF k \in DOMAIN report /\ report[k].is = "applied"
                  THEN AsWin32(k, wanted[k]) ELSE Default[k]

\* ... and is on its way to the caller, or there, only when it is complete.
Complete ==
    /\ slot # None => slot = report /\ child \in {"run", "ended"}
    /\ caller.pc = "spawned" => caller.config = report /\ child \in {"run", "ended"}
    /\ caller.pc = "idle" => child = "none"
    /\ caller.pc \in {"idle", "waiting", "spawned", "spawn error", "init failed"}
    /\ caller = [pc |-> caller.pc, config |-> caller.config]

SpawnInv ==
    /\ wanted \in [pin : Requests.pin, prio : Requests.prio, boost : Requests.boost]
    /\ SpawnInOrder /\ Truthful /\ Complete

\* The builder's requests, before the thread exists.
LEMMA InitSpawnInv == SpawnInit => SpawnInv
  <1> SUFFICES ASSUME SpawnInit PROVE SpawnInv
    OBVIOUS
  <1>1. DOMAIN report = {} /\ DOMAIN os = Kind
    BY DEF SpawnInit, Default, Kind
  <1>2. SpawnInOrder
    BY <1>1 DEF SpawnInit, SpawnInOrder, Reported
  <1>3. Truthful
    BY <1>1 DEF SpawnInit, Truthful
  <1>4. Complete
    BY DEF SpawnInit, Complete
  <1> QED BY <1>2, <1>3, <1>4 DEF SpawnInit, SpawnInv

\* One setting is applied or refused: its outcome is added to the report.
LEMMA ApplyKeeps == SpawnInv /\ Apply => SpawnInv'
  <1> SUFFICES ASSUME SpawnInv, Apply PROVE SpawnInv'
    OBVIOUS
  <1> DEFINE k == child
  <1>1. k \in Kind /\ k \notin DOMAIN report /\ touched = {} /\ caller.pc # "spawned" /\ slot = None
    BY DEF SpawnInv, SpawnInOrder, Complete, Reported, Apply, Kind
  <1>2. UNCHANGED <<caller, wanted, slot, touched>> /\ child' = Then[k]
    BY DEF Apply
  <1>3. PICK s : /\ Outcome(k, s)
                 /\ \/ wanted[k] = None /\ s = Skipped
                    \/ wanted[k] # None /\ s \in {Applied(wanted[k]), Failed(wanted[k])}
                 /\ os' = IF s.is = "applied" THEN [os EXCEPT ![k] = AsWin32(k, wanted[k])] ELSE os
    BY DEF Apply, Skipped, Applied, Failed
  <1>4. /\ DOMAIN report' = DOMAIN report \cup {k} /\ report'[k] = s
        /\ \A j \in DOMAIN report : report'[j] = report[j]
    BY <1>1, <1>3 DEF Outcome
  <1>5. SpawnInOrder'
    BY <1>1, <1>2, <1>4 DEF SpawnInv, SpawnInOrder, Reported, Then, Kind
  <1>6. Truthful'
    <2>1. \A j \in DOMAIN report' :
             \/ wanted'[j] = None /\ report'[j] = Skipped
             \/ wanted'[j] # None /\ report'[j] \in {Applied(wanted'[j]), Failed(wanted'[j])}
      BY <1>2, <1>3, <1>4 DEF SpawnInv, Truthful
    <2>2. DOMAIN os' = Kind
      BY <1>3 DEF SpawnInv, Truthful
    <2>3. ASSUME NEW j \in Kind \ touched'
          PROVE  os'[j] = IF j \in DOMAIN report' /\ report'[j].is = "applied"
                          THEN AsWin32(j, wanted'[j]) ELSE Default[j]
      <3>1. CASE j = k
        BY <1>1, <1>2, <1>3, <1>4, <3>1 DEF SpawnInv, Truthful
      <3>2. CASE j # k
        <4>1. os'[j] = os[j]
          BY <1>3, <3>2, <2>3 DEF SpawnInv, Truthful
        <4> QED BY <1>1, <1>2, <1>4, <2>3, <3>2, <4>1 DEF SpawnInv, Truthful
      <3> QED BY <3>1, <3>2
    <2> QED BY <2>1, <2>2, <2>3 DEF Truthful
  <1>7. Complete'
    BY <1>1, <1>2 DEF SpawnInv, Complete, Then, Kind
  <1> QED BY <1>2, <1>5, <1>6, <1>7 DEF SpawnInv

\* The closure, or whoever has the handle, changes a setting: it is touched from then on.
LEMMA SetLaterKeeps == SpawnInv /\ SetLater => SpawnInv'
  <1> SUFFICES ASSUME SpawnInv, SetLater PROVE SpawnInv'
    OBVIOUS
  <1>1. PICK k \in Kind : \E v \in Requests[k] \ {None} :
           os' = [os EXCEPT ![k] = AsWin32(k, v)] /\ touched' = touched \cup {k}
    BY DEF SetLater
  <1>2. child = "run" /\ UNCHANGED <<caller, wanted, child, report, slot>>
    BY DEF SetLater
  <1>3. SpawnInOrder'
    BY <1>1, <1>2 DEF SpawnInv, SpawnInOrder, Reported
  <1>4. \A j \in Kind \ touched' : os'[j] = os[j] /\ j \in Kind \ touched
    BY <1>1 DEF SpawnInv, Truthful
  <1>5. Truthful'
    BY <1>1, <1>2, <1>4 DEF SpawnInv, Truthful
  <1>6. Complete'
    BY <1>2 DEF SpawnInv, Complete
  <1> QED BY <1>2, <1>3, <1>5, <1>6 DEF SpawnInv

\* Every step preserves the invariant.
LEMMA NextSpawnInv == SpawnInv /\ [SpawnNext]_(spawnVars) => SpawnInv'
  <1> SUFFICES ASSUME SpawnInv, [SpawnNext]_(spawnVars) PROVE SpawnInv'
    OBVIOUS
  <1>1. CASE Spawn
    <2>1. SpawnInOrder' /\ Complete'
      BY <1>1 DEF SpawnInv, SpawnInOrder, Complete, Reported, Spawn, Kind
    <2> QED BY <1>1, <2>1 DEF SpawnInv, Truthful, Spawn
  <1>2. CASE Receive
    <2>1. Complete'
      BY <1>2 DEF SpawnInv, Complete, Receive
    <2>2. SpawnInOrder' /\ Truthful'
      BY <1>2 DEF SpawnInv, SpawnInOrder, Truthful, Reported, Receive
    <2> QED BY <1>2, <2>1, <2>2 DEF SpawnInv, Receive
  <1>3. CASE ReceiveFails
    <2>1. Complete'
      BY <1>3 DEF SpawnInv, Complete, ReceiveFails
    <2>2. SpawnInOrder' /\ Truthful'
      BY <1>3 DEF SpawnInv, SpawnInOrder, Truthful, Reported, ReceiveFails
    <2> QED BY <1>3, <2>1, <2>2 DEF SpawnInv, ReceiveFails
  <1>4. CASE Apply
    BY <1>4, ApplyKeeps
  <1>5. CASE Send
    <2>1. Complete'
      BY <1>5 DEF SpawnInv, Complete, Send
    <2>2. SpawnInOrder'
      BY <1>5 DEF SpawnInv, SpawnInOrder, Reported, Send, Kind
    <2>3. Truthful'
      BY <1>5 DEF SpawnInv, Truthful, Send
    <2> QED BY <1>5, <2>1, <2>2, <2>3 DEF SpawnInv, Send
  <1>6. CASE SetLater
    BY <1>6, SetLaterKeeps
  <1>7. CASE End
    <2>1. Complete'
      BY <1>7 DEF SpawnInv, Complete, End, Kind
    <2>2. SpawnInOrder'
      BY <1>7 DEF SpawnInv, SpawnInOrder, Reported, End, Kind
    <2>3. Truthful'
      BY <1>7 DEF SpawnInv, Truthful, End
    <2> QED BY <1>7, <2>1, <2>2, <2>3 DEF SpawnInv, End
  <1>8. CASE UNCHANGED spawnVars
    BY <1>8 DEF SpawnInv, SpawnInOrder, Truthful, Complete, Reported, spawnVars
  <1> QED BY <1>1, <1>2, <1>3, <1>4, <1>5, <1>6, <1>7, <1>8 DEF SpawnNext, Wait, Configure

\* The inductive invariant holds throughout.
THEOREM SpawnInvHolds == SpawnSpec => []SpawnInv
  BY InitSpawnInv, NextSpawnInv, PTL DEF SpawnSpec

\* The requests and the outcomes a complete report holds.
LEMMA ReportInHand ==
    ASSUME SpawnInv, caller.pc = "spawned", NEW k \in Kind
    PROVE  /\ wanted[k] \in Requests[k] /\ caller.config = report /\ DOMAIN report = Kind
           /\ \/ wanted[k] = None /\ report[k] = Skipped /\ report[k].is = "skipped"
              \/ wanted[k] # None /\ report[k].is = "applied" /\ report[k].wanted = wanted[k]
              \/ wanted[k] # None /\ report[k].is = "failed" /\ report[k].wanted = wanted[k]
  <1>1. wanted[k] \in Requests[k]
    BY DEF SpawnInv, Requests, Kind
  <1>2. caller.config = report /\ DOMAIN report = Kind
    BY DEF SpawnInv, SpawnInOrder, Complete, Reported, Kind
  <1> QED BY <1>1, <1>2 DEF SpawnInv, Truthful, Skipped, Applied, Failed

\* "The caller cannot observe a partially set up thread" (builder.rs:75-76).
THEOREM SpawnNothingPartial == SpawnSpec => []NothingPartial
  <1>1. SpawnInv => NothingPartial
    <2> SUFFICES ASSUME SpawnInv, caller.pc = "spawned", NEW k \in Kind \ touched
                 PROVE  Query(k, os[k]) = IF caller.config[k].is = "applied"
                                          THEN Config(k, wanted[k]) ELSE Query(k, Default[k])
      BY DEF NothingPartial
    <2>1. os[k] = IF report[k].is = "applied" THEN AsWin32(k, wanted[k]) ELSE Default[k]
      BY ReportInHand DEF SpawnInv, Truthful
    <2>2. report[k].is = "applied" => wanted[k] # None
      BY ReportInHand
    <2>3. report[k].is = "applied" => Query(k, AsWin32(k, wanted[k])) = Config(k, wanted[k])
      BY <2>2, ReportInHand, QueryFindsRequest
    <2> QED BY <2>1, <2>3, ReportInHand
  <1> QED BY <1>1, SpawnInvHolds, PTL

\* The report names every request, and is clean only when each was granted
\* (outcome.rs:10-12).
THEOREM SpawnReportComplete == SpawnSpec => []ReportComplete
  <1>1. SpawnInv => SpawnTypeOK
    BY DEF SpawnInv, SpawnInOrder, Truthful, Complete, Reported, SpawnTypeOK, Kind
  <1>2. SpawnInv => ReportComplete
    <2> SUFFICES ASSUME SpawnInv, caller.pc = "spawned" PROVE ReportComplete
      BY <1>1 DEF ReportComplete
    <2>1. ASSUME NEW k \in Kind PROVE Wanted(caller.config[k]) = wanted[k]
      BY ReportInHand DEF Wanted
    <2>2. ASSUME IsClean(caller.config), NEW k \in Kind \ touched, wanted[k] # None
          PROVE  Query(k, os[k]) = Config(k, wanted[k])
      <3>1. report[k].is # "failed"
        BY <2>2, ReportInHand DEF IsClean, Failures
      <3>2. report[k].is = "applied"
        BY <2>2, <3>1, ReportInHand
      <3>3. os[k] = AsWin32(k, wanted[k])
        BY <3>2, ReportInHand DEF SpawnInv, Truthful
      <3> QED BY <2>2, <3>3, ReportInHand, QueryFindsRequest
    <2> QED BY <1>1, <2>1, <2>2 DEF ReportComplete
  <1> QED BY <1>2, SpawnInvHolds, PTL

----------------------------------------------------------------------------
(* Locked pages                                                            *)

Guard == [shared : Nat, mutable : BOOLEAN, lost : BOOLEAN]

PageInv ==
    /\ guards \in [Values -> Guard]
    /\ PagesFollowGuards

\* The fields of a guard one after the other.
LEMMA GuardFields ==
    ASSUME NEW g \in Guard, NEW b
    PROVE  /\ g = [shared |-> g.shared, mutable |-> g.mutable, lost |-> g.lost]
           /\ [g EXCEPT !.mutable = b] = [shared |-> g.shared, mutable |-> b, lost |-> g.lost]
           /\ [g EXCEPT !.lost = b] = [shared |-> g.shared, mutable |-> g.mutable, lost |-> b]
           /\ [g EXCEPT !.shared = b] = [shared |-> b, mutable |-> g.mutable, lost |-> g.lost]
  <1>1. g = [x \in {"shared", "mutable", "lost"} |-> g[x]]
    BY DEF Guard
  <1>2. [g EXCEPT !.mutable = b] =
            [x \in {"shared", "mutable", "lost"} |-> IF x = "mutable" THEN b ELSE g[x]]
    BY <1>1
  <1>3. [g EXCEPT !.lost = b] =
            [x \in {"shared", "mutable", "lost"} |-> IF x = "lost" THEN b ELSE g[x]]
    BY <1>1
  <1>4. [g EXCEPT !.shared = b] =
            [x \in {"shared", "mutable", "lost"} |-> IF x = "shared" THEN b ELSE g[x]]
    BY <1>1
  <1>5. g = [shared |-> g.shared, mutable |-> g.mutable, lost |-> g.lost]
    BY DEF Guard
  <1>6. [g EXCEPT !.mutable = b] = [shared |-> g.shared, mutable |-> b, lost |-> g.lost]
    BY <1>2
  <1>7. [g EXCEPT !.lost = b] = [shared |-> g.shared, mutable |-> g.mutable, lost |-> b]
    BY <1>3
  <1>8. [g EXCEPT !.shared = b] = [shared |-> b, mutable |-> g.mutable, lost |-> g.lost]
    BY <1>4
  <1> QED BY <1>5, <1>6, <1>7, <1>8

\* VirtualLock locks the pages of a value, which were refused before or not.
LEMMA LockRangeIs ==
    ASSUME NEW v \in Values, PageAssumption, LockRange(v)
    PROVE  locked' = locked \cup Pages(v) /\ refused' = refused \ Pages(v)
  <1>1. v.size \in Nat
    BY DEF PageAssumption
  <1>2. CASE v.size = 0
    BY <1>2 DEF LockRange, Pages
  <1>3. CASE v.size # 0
    BY <1>1, <1>3 DEF LockRange, Pages
  <1> QED BY <1>2, <1>3

\* VirtualUnlock unlocks all of a value's pages, or fails with some effect or none.
LEMMA UnlockRangeIs ==
    ASSUME NEW v \in Values, PageAssumption, UnlockRange(v)
    PROVE  \/ locked' = locked \ Pages(v) /\ refused' = refused \ Pages(v)
           \/ /\ locked' = locked \/ locked' = locked \ Pages(v)
              /\ refused' = refused \cup Pages(v)
  <1>1. v.size \in Nat
    BY DEF PageAssumption
  <1>2. CASE v.size = 0
    BY <1>2 DEF UnlockRange, Pages
  <1>3. CASE v.size # 0
    BY <1>1, <1>3 DEF UnlockRange, Pages
  <1> QED BY <1>2, <1>3

\* A new guard: its pages are locked.
LEMMA LockKeeps ==
    ASSUME PageAssumption, PageInv, NEW v \in Values, Lock(v) \/ LockMut(v)
    PROVE  PageInv'
  <1>0. /\ guards \in [Values -> Guard]
        /\ GuardedStaysLocked /\ NothingLeft
    BY DEF PageInv, PagesFollowGuards
  <1>1. locked' = locked \cup Pages(v) /\ refused' = refused \ Pages(v)
    BY LockRangeIs DEF Lock, LockMut
  <1>2. PICK g \in Guard : (g.shared > 0 \/ g.mutable) /\ guards' = [guards EXCEPT ![v] = g]
    <2>1. guards[v] \in Guard
      BY <1>0
    <2>2. CASE Lock(v)
      <3> DEFINE h == [guards[v] EXCEPT !.shared = @ + 1]
                 g == [h EXCEPT !.lost = FALSE]
      <3>1. guards' = [guards EXCEPT ![v] = g]
        BY <1>0, <2>2 DEF Lock
      <3>2. h \in Guard /\ h.shared > 0
        <4>1. h = [shared |-> guards[v].shared + 1, mutable |-> guards[v].mutable,
                   lost |-> guards[v].lost]
          BY <2>1, GuardFields
        <4> QED BY <2>1, <4>1 DEF Guard
      <3> HIDE DEF h
      <3>3. g = [shared |-> h.shared, mutable |-> h.mutable, lost |-> FALSE]
        BY <3>2, GuardFields
      <3>4. g \in Guard /\ g.shared > 0
        BY <3>2, <3>3 DEF Guard
      <3> HIDE DEF g
      <3> QED BY <3>1, <3>4
    <2>3. CASE LockMut(v)
      <3> DEFINE h == [guards[v] EXCEPT !.mutable = TRUE]
                 g == [h EXCEPT !.lost = FALSE]
      <3>1. guards' = [guards EXCEPT ![v] = g]
        BY <1>0, <2>3 DEF LockMut
      <3>2. h \in Guard /\ h.mutable
        <4>1. h = [shared |-> guards[v].shared, mutable |-> TRUE, lost |-> guards[v].lost]
          BY <2>1, GuardFields
        <4> QED BY <2>1, <4>1 DEF Guard
      <3> HIDE DEF h
      <3>3. g = [shared |-> h.shared, mutable |-> h.mutable, lost |-> FALSE]
        BY <3>2, GuardFields
      <3>4. g \in Guard /\ g.mutable
        BY <3>2, <3>3 DEF Guard
      <3> HIDE DEF g
      <3> QED BY <3>1, <3>4
    <2> QED BY <2>2, <2>3
  <1>3. Live(v)' /\ \A u \in Values : u # v => (Live(u)' <=> Live(u))
    BY <1>0, <1>2 DEF Live
  <1>4. GuardedStaysLocked'
    BY <1>0, <1>1, <1>2, <1>3 DEF GuardedStaysLocked
  <1>5. NothingLeft'
    BY <1>0, <1>1, <1>3 DEF NothingLeft
  <1> QED BY <1>0, <1>2, <1>4, <1>5 DEF PageInv, PagesFollowGuards

\* A guard is dropped: the guards that share a page with it have lost their pages.
LEMMA DropKeeps ==
    ASSUME PageAssumption, PageInv, NEW v \in Values, Drop(v)
    PROVE  PageInv'
  <1>0. guards \in [Values -> Guard] /\ GuardedStaysLocked /\ NothingLeft
    BY DEF PageInv, PagesFollowGuards
  <1>1. /\ locked' \subseteq locked /\ locked \ Pages(v) \subseteq locked'
        /\ refused \ Pages(v) \subseteq refused'
        /\ \A p \in locked' : p \in Pages(v) => p \in refused'
    BY UnlockRangeIs DEF Drop
  <1>2. PICK rest \in Guard :
           /\ ~rest.mutable
           /\ guards' = [Lost(v, FALSE) EXCEPT
                            ![v] = [rest EXCEPT !.lost = Pages(v) # {} /\ rest.shared > 0]]
    <2> DEFINE g == guards[v]
               r == IF g.mutable THEN [g EXCEPT !.mutable = FALSE]
                    ELSE [g EXCEPT !.shared = @ - 1]
    <2>1. g \in Guard /\ (g.shared > 0 \/ g.mutable)
      BY <1>0 DEF Drop, Live
    <2>2. guards' = [Lost(v, FALSE) EXCEPT
                        ![v] = [r EXCEPT !.lost = Pages(v) # {} /\ r.shared > 0]]
      BY DEF Drop
    <2> HIDE DEF g
    <2>3. r \in Guard /\ ~r.mutable
      <3>1. CASE g.mutable
        <4>1. r = [shared |-> g.shared, mutable |-> FALSE, lost |-> g.lost]
          BY <2>1, <3>1, GuardFields
        <4> QED BY <2>1, <4>1 DEF Guard
      <3>2. CASE ~g.mutable
        <4>1. r = [shared |-> g.shared - 1, mutable |-> g.mutable, lost |-> g.lost]
          BY <2>1, <3>2, GuardFields
        <4>2. g.shared \in Nat /\ g.shared > 0 /\ g.mutable \in BOOLEAN /\ g.lost \in BOOLEAN
          BY <2>1, <3>2 DEF Guard
        <4> QED BY <3>2, <4>1, <4>2 DEF Guard
      <3> QED BY <3>1, <3>2
    <2> HIDE DEF r
    <2> QED BY <2>2, <2>3
  <1>3. /\ \A u \in Values : Lost(v, FALSE)[u] =
               IF Pages(u) \cap Pages(v) # {} /\ u # v
               THEN [guards[u] EXCEPT !.lost = @ \/ Live(u)] ELSE guards[u]
        /\ DOMAIN Lost(v, FALSE) = Values
    BY DEF Lost
  <1>4. /\ guards'[v] = [rest EXCEPT !.lost = Pages(v) # {} /\ rest.shared > 0]
        /\ \A u \in Values : u # v => guards'[u] = Lost(v, FALSE)[u]
        /\ guards' = [u \in Values |-> guards'[u]]
    BY <1>2, <1>3
  <1>5. ASSUME NEW u \in Values, u # v
        PROVE  /\ guards'[u] \in Guard /\ (Live(u)' <=> Live(u))
               /\ Live(u) /\ ~guards'[u].lost =>
                     ~guards[u].lost /\ Pages(u) \cap Pages(v) = {}
    <2>1. guards[u] \in Guard /\ Live(u) \in BOOLEAN
      BY <1>0 DEF Live
    <2>2. CASE Pages(u) \cap Pages(v) = {}
      <3>1. guards'[u] = guards[u]
        BY <1>3, <1>4, <1>5, <2>2
      <3> QED BY <2>1, <2>2, <3>1 DEF Live
    <2>3. CASE Pages(u) \cap Pages(v) # {}
      <3> DEFINE b == guards[u].lost \/ Live(u)
      <3>1. guards'[u] = [shared |-> guards[u].shared, mutable |-> guards[u].mutable, lost |-> b]
        <4>1. guards'[u] = [guards[u] EXCEPT !.lost = b]
          BY <1>3, <1>4, <1>5, <2>3
        <4> HIDE DEF b
        <4> QED BY <2>1, <4>1, GuardFields
      <3>2. b \in BOOLEAN /\ (Live(u) => b)
        BY Zenon
      <3> HIDE DEF b
      <3>3. guards'[u] \in Guard /\ guards'[u].lost = b
        BY <2>1, <3>1, <3>2 DEF Guard
      <3>4. Live(u)' <=> Live(u)
        BY <3>1 DEF Live
      <3> QED BY <3>2, <3>3, <3>4
    <2> QED BY <2>2, <2>3
  <1>6. /\ guards'[v] \in Guard
        /\ Live(v)' /\ ~guards'[v].lost => Pages(v) = {}
    <2> DEFINE b == Pages(v) # {} /\ rest.shared > 0
    <2>1. guards'[v] = [shared |-> rest.shared, mutable |-> rest.mutable, lost |-> b]
      <3>1. guards'[v] = [rest EXCEPT !.lost = b]
        BY <1>4
      <3> HIDE DEF b
      <3> QED BY <1>2, <3>1, GuardFields
    <2>2. b \in BOOLEAN /\ (rest.shared > 0 /\ ~b => Pages(v) = {})
      BY Zenon
    <2> HIDE DEF b
    <2>3. rest \in Guard /\ ~rest.mutable
      BY <1>2
    <2>4. guards'[v] \in Guard
      BY <2>1, <2>2, <2>3 DEF Guard
    <2>5. /\ guards'[v].lost = b /\ guards'[v].shared = rest.shared
          /\ guards'[v].mutable = rest.mutable
      BY <2>1
    <2>6. Live(v)' => rest.shared > 0
      BY <2>3, <2>5 DEF Live
    <2> QED BY <2>2, <2>4, <2>5, <2>6
  <1>7. guards' \in [Values -> Guard]
    BY <1>4, <1>5, <1>6
  <1>8. GuardedStaysLocked'
    <2>1. ASSUME NEW u \in Values, Live(u)', ~guards'[u].lost PROVE Pages(u) \subseteq locked'
      <3>1. CASE u = v
        BY <1>6, <2>1, <3>1
      <3>2. CASE u # v
        BY <1>0, <1>1, <1>5, <2>1, <3>2 DEF GuardedStaysLocked
      <3> QED BY <3>1, <3>2
    <2> QED BY <2>1 DEF GuardedStaysLocked
  <1>9. NothingLeft'
    <2>1. ASSUME NEW p \in locked', p \notin refused'
          PROVE  \E u \in Values : Live(u)' /\ p \in Pages(u)
      <3>1. p \in locked /\ p \notin Pages(v) /\ p \notin refused
        BY <1>1, <2>1
      <3>2. PICK u \in Values : Live(u) /\ p \in Pages(u)
        BY <1>0, <3>1 DEF NothingLeft
      <3> QED BY <1>5, <3>1, <3>2
    <2> QED BY <2>1 DEF NothingLeft
  <1> QED BY <1>7, <1>8, <1>9 DEF PageInv, PagesFollowGuards

\* Pages stay locked while a guard that lost none of them lives, and are not locked any more
\* when no guard is left, whatever the values, the page size and the limit
\* (lock.rs:19-22, :52-64).
THEOREM PageGuardsHold == ASSUME PageAssumption PROVE PageSpec => []PagesFollowGuards
  <1>1. PageInit => PageInv
    BY DEF PageInit, PageInv, PagesFollowGuards, GuardedStaysLocked,
           NothingLeft, Live, Guard
  <1>2. PageInv /\ [PageNext]_(pageVars) => PageInv'
    <2> SUFFICES ASSUME PageInv, [PageNext]_(pageVars) PROVE PageInv'
      OBVIOUS
    <2>1. ASSUME NEW v \in Values, Lock(v) \/ LockMut(v) PROVE PageInv'
      BY <2>1, LockKeeps
    <2>2. ASSUME NEW v \in Values, Drop(v) PROVE PageInv'
      BY <2>2, DropKeeps
    <2>3. CASE UNCHANGED pageVars
      BY <2>3 DEF pageVars, PageInv, PagesFollowGuards, GuardedStaysLocked,
                  NothingLeft, Live
    <2> QED BY <2>1, <2>2, <2>3 DEF PageNext
  <1>3. PageInv => PagesFollowGuards
    BY DEF PageInv
  <1> QED BY <1>1, <1>2, <1>3, PTL DEF PageSpec

----------------------------------------------------------------------------
(* The priority class                                                      *)

PriorityCalls == [pc : {"idle", "set", "error", "ok", "denied"}, level : Classes,
                  downgraded : BOOLEAN]

\* What SetPriorityClass left is what the call asked for, or High in place of RealTime.
Granted(t) ==
    call[t].pc = "set" =>
        /\ class = ClassAsWin32[IF Downgrade(call[t].level) THEN "High"
                                 ELSE call[t].level]
        /\ call[t].downgraded <=> Downgrade(call[t].level)

ClassInv ==
    /\ call \in [Threads -> PriorityCalls]
    /\ \A t \in Threads : Granted(t)
    /\ DeniedIsDowngraded

\* Reading back the class that was set finds it: no two classes have a number in common.
LEMMA FromWin32Back ==
    ASSUME NEW c \in Classes
    PROVE  FromWin32(ClassAsWin32[c]) = c
  <1>1. Classes = {"Idle", "BelowNormal", "Normal", "AboveNormal", "High", "RealTime"}
    BY DEF Classes, ClassAsWin32
  <1>2. \A d \in Classes : ClassAsWin32[d] = ClassAsWin32[c] => d = c
    BY <1>1 DEF ClassAsWin32
  <1> QED BY <1>2 DEF FromWin32

LEMMA SetKeepsClass ==
    ASSUME ClassInv, \A s, t \in Threads : s = t, NEW t \in Threads, SetPriorityClass(t)
    PROVE  ClassInv'
  <1>1. PICK c \in Classes :
           \/ /\ class' = ClassAsWin32[IF Downgrade(c) THEN "High" ELSE c]
              /\ call' = [call EXCEPT ![t] = [pc |-> "set", level |-> c,
                                              downgraded |-> Downgrade(c)]]
           \/ call' = [call EXCEPT ![t] = [pc |-> "error", level |-> c,
                                           downgraded |-> FALSE]]
    BY DEF SetPriorityClass
  <1>2. Downgrade(c) \in BOOLEAN
    BY DEF Downgrade
  <1>3. /\ call'[t] \in PriorityCalls /\ call'[t].level = c
        /\ call'[t].pc \in {"set", "error"}
        /\ call'[t].pc = "set" =>
              /\ class' = ClassAsWin32[IF Downgrade(c) THEN "High" ELSE c]
              /\ call'[t].downgraded = Downgrade(c)
    <2>1. call \in [Threads -> PriorityCalls]
      BY DEF ClassInv
    <2>2. PICK pc \in {"set", "error"}, b \in BOOLEAN :
             /\ call' = [call EXCEPT ![t] = [pc |-> pc, level |-> c, downgraded |-> b]]
             /\ pc = "set" =>
                   /\ class' = ClassAsWin32[IF Downgrade(c) THEN "High" ELSE c]
                   /\ b = Downgrade(c)
      BY <1>1, <1>2
    <2>3. call'[t] = [pc |-> pc, level |-> c, downgraded |-> b]
      BY <2>1, <2>2
    <2>4. call'[t] \in PriorityCalls
      BY <2>3 DEF PriorityCalls
    <2> QED BY <2>2, <2>3, <2>4
  <1>4. call' \in [Threads -> PriorityCalls]
    BY <1>1, <1>3 DEF ClassInv
  <1>5. \A s \in Threads : Granted(s)'
    BY <1>3 DEF Granted, Downgrade
  <1>6. DeniedIsDowngraded'
    BY <1>3 DEF DeniedIsDowngraded
  <1> QED BY <1>4, <1>5, <1>6 DEF ClassInv

LEMMA ReadBackKeepsClass ==
    ASSUME ClassInv, \A s, t \in Threads : s = t, NEW t \in Threads, ReadBack(t)
    PROVE  ClassInv'
  <1> DEFINE level == call[t].level
  <1>1. /\ call[t] \in PriorityCalls /\ call[t].pc = "set" /\ level \in Classes
        /\ Granted(t)
    BY DEF ClassInv, PriorityCalls, ReadBack
  <1>2. PICK answer \in {"error", IF FromWin32(class) = level THEN "ok" ELSE "denied"} :
           call' = [call EXCEPT ![t].pc = answer]
    BY DEF ReadBack
  <1>3. /\ call'[t].pc = answer /\ call'[t].downgraded = call[t].downgraded
        /\ call'[t] \in PriorityCalls
    BY <1>1, <1>2 DEF ClassInv, PriorityCalls
  <1>4. FromWin32(class) = (IF Downgrade(level) THEN "High" ELSE level)
    <2>1. (IF Downgrade(level) THEN "High" ELSE level) \in Classes
      BY <1>1 DEF Classes, ClassAsWin32
    <2> QED BY <1>1, <2>1, FromWin32Back DEF Granted
  <1>5. FromWin32(class) = level <=> ~call[t].downgraded
    BY <1>1, <1>4 DEF Granted, Downgrade
  <1>6. call' \in [Threads -> PriorityCalls]
    BY <1>2, <1>3 DEF ClassInv
  <1>7. \A s \in Threads : Granted(s)'
    BY <1>2, <1>3 DEF Granted
  <1>8. DeniedIsDowngraded'
    BY <1>2, <1>3, <1>5 DEF DeniedIsDowngraded
  <1> QED BY <1>6, <1>7, <1>8 DEF ClassInv

\* As long as one thread of the process sets its class, PermissionDenied is reported when
\* Windows downgraded RealTime to High, and only then (class.rs:69-71, :77-83).
THEOREM ClassDeniedIsDowngraded ==
    ASSUME \A s, t \in Threads : s = t
    PROVE  ClassSpec => []DeniedIsDowngraded
  <1>1. ClassInit => ClassInv
    BY DEF ClassInit, ClassInv, PriorityCalls, Granted, DeniedIsDowngraded,
           Classes, ClassAsWin32
  <1>2. ClassInv /\ [ClassNext]_(classVars) => ClassInv'
    <2> SUFFICES ASSUME ClassInv, [ClassNext]_(classVars) PROVE ClassInv'
      OBVIOUS
    <2>1. CASE ClassNext
      BY <2>1, SetKeepsClass, ReadBackKeepsClass DEF ClassNext
    <2>2. CASE UNCHANGED classVars
      BY <2>2 DEF classVars, ClassInv, Granted, DeniedIsDowngraded
    <2> QED BY <2>1, <2>2
  <1>3. ClassInv => DeniedIsDowngraded
    BY DEF ClassInv
  <1> QED BY <1>1, <1>2, <1>3, PTL DEF ClassSpec

==============================================================================
