----------------------------- MODULE FilesProofs ------------------------------
(* The log files, the control file of the minimum level, the dates in both,   *)
(* the tasks' files and the calls of task!.  What is proved of the log files  *)
(* holds of every buffer, maximum size and length of message that             *)
(* FileAssumption allows, and of every number of restarts, faults, midnights  *)
(* and power losses.                                                          *)
EXTENDS FileManager, LevelFile, CivilDate, TaskFile, TaskMacro, FiniteSetTheorems, SequenceTheorems,
        WellFoundedInduction, TLAPS

----------------------------------------------------------------------------
(* The log files.  Tables of files                                            *)

\* Every folder has a last file.
HasLast(F, day) ==
    \E g \in DOMAIN F : g[1] = day /\ \A f \in DOMAIN F : f[1] = day => f[2] <= g[2]

IsTable(F) ==
    /\ DOMAIN F \subseteq Nat \X Nat
    /\ \A f \in DOMAIN F :
          /\ F[f] = [len |-> F[f].len, synced |-> F[f].synced]
          /\ F[f].len \in Nat /\ F[f].synced \in Nat /\ F[f].synced <= F[f].len
          /\ HasLast(F, f[1])
    /\ IsFiniteSet(BytesOf(F))

\* The bytes on disk can be counted.
LEMMA OnDiskNat == ASSUME NEW F, IsTable(F) PROVE OnDisk(F) \in Nat
  BY FS_CardinalityType DEF IsTable, OnDisk

\* An empty folder is a table of no bytes.
LEMMA NoFiles == IsTable(<< >>) /\ OnDisk(<< >>) = 0
  <1>1. DOMAIN << >> = {}
    OBVIOUS
  <1>2. BytesOf(<< >>) = {}
    BY <1>1 DEF BytesOf
  <1> QED BY <1>1, <1>2, FS_EmptySet DEF IsTable, OnDisk

\* A byte is a place in a file.
LEMMA BytesAre ==
    ASSUME NEW F
    PROVE  BytesOf(F) = {b \in (DOMAIN F) \X Int : b[2] \in 1 .. F[b[1]].len}
  <1>1. ASSUME NEW b \in BytesOf(F) PROVE b \in (DOMAIN F) \X Int /\ b[2] \in 1 .. F[b[1]].len
    <2>1. PICK f \in DOMAIN F : b \in {f} \X (1 .. F[f].len)
      BY <1>1 DEF BytesOf
    <2> QED BY <2>1
  <1>2. ASSUME NEW b \in (DOMAIN F) \X Int, b[2] \in 1 .. F[b[1]].len PROVE b \in BytesOf(F)
    <2>1. b \in {b[1]} \X (1 .. F[b[1]].len) /\ b[1] \in DOMAIN F
      BY <1>2
    <2> QED BY <2>1 DEF BytesOf
  <1> QED BY <1>1, <1>2

\* Only the lengths count.
LEMMA SameBytes ==
    ASSUME NEW F, NEW G, DOMAIN G = DOMAIN F, \A f \in DOMAIN F : G[f].len = F[f].len
    PROVE  BytesOf(G) = BytesOf(F)
  BY BytesAre

\* Opening creates an empty file, or none.
LEMMA OpenedIs ==
    ASSUME NEW F, IsTable(F), NEW name \in Nat \X Nat
    PROVE  /\ IsTable(Opened(F, name)) /\ OnDisk(Opened(F, name)) = OnDisk(F)
           /\ DOMAIN Opened(F, name) = DOMAIN F \cup {name}
           /\ \A f \in DOMAIN F : Opened(F, name)[f] = F[f]
           /\ name \notin DOMAIN F => Opened(F, name)[name] = [len |-> 0, synced |-> 0]
  <1> DEFINE G == Opened(F, name)
  <1>1. /\ DOMAIN G = DOMAIN F \cup {name}
        /\ \A f \in DOMAIN F : G[f] = F[f]
        /\ name \notin DOMAIN F => G[name] = [len |-> 0, synced |-> 0]
    BY DEF Opened
  <1>2. BytesOf(G) = BytesOf(F)
    <2>1. ASSUME NEW b \in (DOMAIN G) \X Int, b[2] \in 1 .. G[b[1]].len
          PROVE  b \in (DOMAIN F) \X Int /\ b[2] \in 1 .. F[b[1]].len
      <3>1. CASE b[1] \in DOMAIN F
        BY <2>1, <3>1, <1>1
      <3>2. CASE b[1] \notin DOMAIN F
        <4>1. b[1] = name
          BY <3>2, <1>1
        <4>2. G[b[1]].len = 0
          BY <4>1, <3>2, <1>1
        <4> QED BY <4>2, <2>1
      <3> QED BY <3>1, <3>2
    <2>2. ASSUME NEW b \in (DOMAIN F) \X Int, b[2] \in 1 .. F[b[1]].len
          PROVE  b \in (DOMAIN G) \X Int /\ b[2] \in 1 .. G[b[1]].len
      BY <2>2, <1>1
    <2> QED BY <2>1, <2>2, BytesAre
  <1>3. ASSUME NEW f \in DOMAIN G PROVE HasLast(G, f[1])
    <2>1. CASE \E g \in DOMAIN F : g[1] = f[1]
      <3>1. HasLast(F, f[1])
        BY <2>1 DEF IsTable
      <3>2. PICK g \in DOMAIN F : g[1] = f[1] /\ \A h \in DOMAIN F : h[1] = f[1] => h[2] <= g[2]
        BY <3>1 DEF HasLast
      <3>3. g[2] \in Nat /\ name[2] \in Nat /\ \A h \in DOMAIN F : h[2] \in Nat
        BY <3>2 DEF IsTable
      <3>4. CASE name[1] = f[1] /\ name[2] > g[2]
        <4>1. \A h \in DOMAIN G : h[1] = f[1] => h[2] <= name[2]
          BY <3>2, <3>3, <3>4, <1>1
        <4> QED BY <4>1, <3>4, <1>1 DEF HasLast
      <3>5. CASE ~(name[1] = f[1] /\ name[2] > g[2])
        <4>1. \A h \in DOMAIN G : h[1] = f[1] => h[2] <= g[2]
          BY <3>2, <3>3, <3>5, <1>1
        <4> QED BY <4>1, <3>2, <1>1 DEF HasLast
      <3> QED BY <3>4, <3>5
    <2>2. CASE ~\E g \in DOMAIN F : g[1] = f[1]
      <3>1. f = name /\ \A h \in DOMAIN G : h[1] = f[1] => h = name
        BY <2>2, <1>1
      <3>2. name[2] <= name[2]
        OBVIOUS
      <3> QED BY <3>1, <3>2, <1>1 DEF HasLast
    <2> QED BY <2>1, <2>2
  <1>4. ASSUME NEW f \in DOMAIN G
        PROVE  /\ f \in Nat \X Nat
               /\ G[f] = [len |-> G[f].len, synced |-> G[f].synced]
               /\ G[f].len \in Nat /\ G[f].synced \in Nat /\ G[f].synced <= G[f].len
    <2>1. CASE f \in DOMAIN F
      BY <2>1, <1>1 DEF IsTable
    <2>2. CASE f \notin DOMAIN F
      <3>1. f = name /\ G[f] = [len |-> 0, synced |-> 0]
        BY <2>2, <1>1
      <3> QED BY <3>1
    <2> QED BY <2>1, <2>2
  <1>5. IsFiniteSet(BytesOf(G))
    BY <1>2 DEF IsTable
  <1>6. IsTable(G)
    BY <1>3, <1>4, <1>5 DEF IsTable
  <1> QED BY <1>1, <1>2, <1>6 DEF OnDisk

\* A file that changes its lengths leaves the folders alone.
LEMMA SameFolders ==
    ASSUME NEW F, NEW G, IsTable(F), DOMAIN G = DOMAIN F, IsFiniteSet(BytesOf(G)),
           \A f \in DOMAIN G :
               /\ G[f] = [len |-> G[f].len, synced |-> G[f].synced]
               /\ G[f].len \in Nat /\ G[f].synced \in Nat /\ G[f].synced <= G[f].len
    PROVE  IsTable(G)
  BY DEF IsTable, HasLast

\* The lengths of runs of bytes.
LEMMA IntervalIs ==
    ASSUME NEW n \in Nat, NEW k \in Nat
    PROVE  IsFiniteSet(n + 1 .. n + k) /\ Cardinality(n + 1 .. n + k) = k
  <1>1. /\ IsFiniteSet(n + 1 .. n + k)
        /\ Cardinality(n + 1 .. n + k) = IF n + 1 > n + k THEN 0 ELSE n + k - (n + 1) + 1
    <2>1. n + 1 \in Int /\ n + k \in Int
      OBVIOUS
    <2> QED BY <2>1, FS_Interval
  <1> QED BY <1>1

\* Disjoint finite sets add up.
LEMMA DisjointUnion ==
    ASSUME NEW S, NEW T, IsFiniteSet(S), IsFiniteSet(T), S \cap T = {}
    PROVE  /\ IsFiniteSet(S \cup T)
           /\ Cardinality(S \cup T) = Cardinality(S) + Cardinality(T)
  <1>1. Cardinality(S) \in Nat /\ Cardinality(T) \in Nat
    BY FS_CardinalityType
  <1>2. Cardinality(S \cap T) = 0
    BY FS_EmptySet
  <1>3. /\ IsFiniteSet(S \cup T)
        /\ Cardinality(S \cup T) = Cardinality(S) + Cardinality(T) - Cardinality(S \cap T)
    BY FS_Union
  <1> QED BY <1>1, <1>2, <1>3

\* A file grows by what was written to it.
Grows(F, G, c, k) == G = [F EXCEPT ![c].len = @ + k]

\* A file that grows adds its new bytes to those on disk, and no others.
LEMMA GrownIs ==
    ASSUME NEW F, IsTable(F), NEW c \in DOMAIN F, NEW k \in Nat, NEW G, Grows(F, G, c, k)
    PROVE  /\ IsTable(G) /\ OnDisk(G) = OnDisk(F) + k
           /\ DOMAIN G = DOMAIN F
           /\ \A f \in DOMAIN F \ {c} : G[f] = F[f]
           /\ G[c].len = F[c].len + k /\ G[c].synced = F[c].synced
  <1> DEFINE n == F[c].len
             New == {c} \X (n + 1 .. n + k)
  <1>1. n \in Nat /\ F[c] = [len |-> F[c].len, synced |-> F[c].synced]
    BY DEF IsTable
  <1>2. /\ DOMAIN G = DOMAIN F
        /\ \A f \in DOMAIN F \ {c} : G[f] = F[f]
        /\ G[c] = [len |-> n + k, synced |-> F[c].synced]
    <2>1. G[c] = [F[c] EXCEPT !.len = n + k] /\ DOMAIN G = DOMAIN F
      BY DEF Grows
    <2>2. [F[c] EXCEPT !.len = n + k] = [len |-> n + k, synced |-> F[c].synced]
      BY <1>1
    <2>3. \A f \in DOMAIN F \ {c} : G[f] = F[f]
      BY DEF Grows
    <2> QED BY <2>1, <2>2, <2>3
  <1>3. BytesOf(G) = BytesOf(F) \cup New
    <2>1. ASSUME NEW b \in (DOMAIN G) \X Int
          PROVE  b[2] \in 1 .. G[b[1]].len <=> b[2] \in 1 .. F[b[1]].len \/ b \in New
      <3>1. CASE b[1] = c
        <4>1. G[b[1]].len = n + k /\ b = <<c, b[2]>> /\ b[2] \in Int
          BY <3>1, <1>2
        <4>2. b \in New <=> b[2] \in n + 1 .. n + k
          BY <4>1
        <4> QED BY <4>1, <4>2, <3>1, <1>1
      <3>2. CASE b[1] # c
        BY <3>2, <1>2
      <3> QED BY <3>1, <3>2
    <2>2. New \subseteq (DOMAIN G) \X Int
      BY <1>1, <1>2
    <2> QED BY <2>1, <2>2, <1>2, BytesAre
  <1>4. BytesOf(F) \cap New = {}
    <2>1. ASSUME NEW b \in New PROVE b[1] = c /\ b[2] > n
      BY <1>1, <2>1
    <2>2. ASSUME NEW b \in BytesOf(F), b[1] = c PROVE b[2] <= n
      BY <2>2, <1>1, BytesAre
    <2> QED BY <2>1, <2>2, <1>1, BytesAre
  <1>5. IsFiniteSet(New) /\ Cardinality(New) = k
    <2>1. IsFiniteSet(n + 1 .. n + k) /\ Cardinality(n + 1 .. n + k) = k
      BY <1>1, IntervalIs
    <2>2. IsFiniteSet({c}) /\ Cardinality({c}) = 1
      BY FS_Singleton
    <2> HIDE DEF n
    <2>3. IsFiniteSet({c} \X (n + 1 .. n + k))
          /\ Cardinality({c} \X (n + 1 .. n + k)) = Cardinality({c}) * Cardinality(n + 1 .. n + k)
      BY <2>1, <2>2, FS_Product
    <2> QED BY <2>1, <2>2, <2>3
  <1>6. IsFiniteSet(BytesOf(F))
    BY DEF IsTable
  <1>7. IsFiniteSet(BytesOf(G)) /\ Cardinality(BytesOf(G)) = Cardinality(BytesOf(F)) + k
    <2> HIDE DEF New
    <2> QED BY <1>3, <1>4, <1>5, <1>6, DisjointUnion
  <1>8. ASSUME NEW f \in DOMAIN G
        PROVE  /\ G[f] = [len |-> G[f].len, synced |-> G[f].synced]
               /\ G[f].len \in Nat /\ G[f].synced \in Nat /\ G[f].synced <= G[f].len
    <2>1. F[c].synced \in Nat /\ F[c].synced <= n
      BY DEF IsTable
    <2>2. CASE f = c
      BY <2>1, <2>2, <1>1, <1>2
    <2>3. CASE f # c
      BY <2>3, <1>2 DEF IsTable
    <2> QED BY <2>2, <2>3
  <1>9. ASSUME NEW f \in DOMAIN G PROVE HasLast(G, f[1]) /\ f \in Nat \X Nat
    BY <1>2 DEF IsTable, HasLast
  <1>10. IsTable(G)
    BY <1>2, <1>7, <1>8, <1>9 DEF IsTable
  <1> QED BY <1>2, <1>7, <1>10 DEF OnDisk

\* An fsync moves no byte.
LEMMA SyncedIs ==
    ASSUME NEW F, IsTable(F), NEW c \in DOMAIN F,
           NEW G, G = [F EXCEPT ![c].synced = F[c].len]
    PROVE  /\ IsTable(G) /\ OnDisk(G) = OnDisk(F) /\ DOMAIN G = DOMAIN F
           /\ \A f \in DOMAIN F \ {c} : G[f] = F[f]
           /\ G[c].len = F[c].len /\ G[c].synced = F[c].len
  <1>1. F[c] = [len |-> F[c].len, synced |-> F[c].synced] /\ F[c].len \in Nat
    BY DEF IsTable
  <1>2. /\ DOMAIN G = DOMAIN F
        /\ \A f \in DOMAIN F \ {c} : G[f] = F[f]
        /\ G[c] = [len |-> F[c].len, synced |-> F[c].len]
    <2>1. G[c] = [F[c] EXCEPT !.synced = F[c].len]
      OBVIOUS
    <2>2. [F[c] EXCEPT !.synced = F[c].len] = [len |-> F[c].len, synced |-> F[c].len]
      BY <1>1
    <2> QED BY <2>1, <2>2
  <1>3. ASSUME NEW f \in DOMAIN G
        PROVE  /\ G[f] = [len |-> G[f].len, synced |-> G[f].synced] /\ G[f].len = F[f].len
               /\ G[f].len \in Nat /\ G[f].synced \in Nat /\ G[f].synced <= G[f].len
    <2>1. CASE f = c
      BY <2>1, <1>1, <1>2
    <2>2. CASE f # c
      BY <2>2, <1>2 DEF IsTable
    <2> QED BY <2>1, <2>2
  <1>4. BytesOf(G) = BytesOf(F)
    BY <1>2, <1>3, SameBytes
  <1>5. ASSUME NEW f \in DOMAIN G PROVE HasLast(G, f[1]) /\ f \in Nat \X Nat
    BY <1>2 DEF IsTable, HasLast
  <1>6. IsFiniteSet(BytesOf(G))
    BY <1>4 DEF IsTable
  <1>7. IsTable(G)
    BY <1>2, <1>3, <1>5, <1>6 DEF IsTable
  <1> QED BY <1>2, <1>4, <1>7 DEF OnDisk

\* A power loss leaves of each file what was synced.
KeptOf(F) == [f \in DOMAIN F |-> [F[f] EXCEPT !.len = F[f].synced]]

\* After a power loss the files hold what was synced of them.
LEMMA KeptIs ==
    ASSUME NEW F, IsTable(F)
    PROVE  /\ IsTable(KeptOf(F)) /\ DOMAIN KeptOf(F) = DOMAIN F
           /\ \A f \in DOMAIN F : KeptOf(F)[f].len = F[f].synced /\ KeptOf(F)[f].len <= F[f].len
  <1> DEFINE G == KeptOf(F)
  <1>1. DOMAIN G = DOMAIN F
    BY DEF KeptOf
  <1>2. ASSUME NEW f \in DOMAIN G
        PROVE  /\ G[f] = [len |-> G[f].len, synced |-> G[f].synced]
               /\ G[f].len = F[f].synced /\ G[f].synced = F[f].synced
               /\ F[f].synced \in Nat /\ F[f].len \in Nat /\ F[f].synced <= F[f].len
    <2>1. F[f] = [len |-> F[f].len, synced |-> F[f].synced] /\ F[f].synced \in Nat
          /\ F[f].len \in Nat /\ F[f].synced <= F[f].len
      BY <1>1 DEF IsTable
    <2>2. G[f] = [F[f] EXCEPT !.len = F[f].synced]
      BY <1>1 DEF KeptOf
    <2>3. G[f] = [len |-> F[f].synced, synced |-> F[f].synced]
      BY <2>1, <2>2
    <2> QED BY <2>1, <2>3
  <1> HIDE DEF G
  <1>3. BytesOf(G) \subseteq BytesOf(F)
    BY <1>1, <1>2, BytesAre
  <1>4. IsFiniteSet(BytesOf(G))
    BY <1>3, FS_Subset DEF IsTable
  <1>5. IsTable(G)
    BY <1>1, <1>2, <1>4, SameFolders
  <1> QED BY <1>1, <1>2, <1>5 DEF G

----------------------------------------------------------------------------
(* The steps of a call, one by one                                            *)

Fields == {"files", "today", "cur", "len", "streak", "date", "number", "boundary", "buff",
           "closed", "counters", "sizeGauge", "streakGauge", "given", "past", "discarded",
           "truncated", "rotated", "mine", "badSync", "badRotation", "openedOn", "faults"}

IsBytes(b) == b = [bytes |-> b.bytes, lost |-> b.lost] /\ b.bytes \in Nat /\ b.lost \in Nat

Typed(s) ==
    /\ DOMAIN s = Fields
    /\ IsTable(s.files) /\ s.cur \in Nat \X Nat /\ s.len \in Nat
    /\ s.today \in 1 .. MaxDay
    /\ s.date \in Nat /\ s.number \in Nat /\ s.boundary \in Nat /\ s.openedOn \in Nat
    /\ s.buff \in Nat /\ s.given \in Nat /\ s.discarded \in Nat /\ s.truncated \in Int
    /\ IsBytes(s.counters) /\ IsBytes(s.past)

\* What the writes and syncs of a file leave alone.
Unmoved(s, t) ==
    /\ t.today = s.today /\ t.cur = s.cur /\ t.date = s.date /\ t.number = s.number
    /\ t.boundary = s.boundary /\ t.openedOn = s.openedOn
    /\ t.buff = s.buff /\ t.closed = s.closed
    /\ t.given = s.given /\ t.past = s.past /\ t.discarded = s.discarded
    /\ t.truncated = s.truncated /\ t.rotated = s.rotated /\ t.mine = s.mine
    /\ t.badRotation = s.badRotation

\* t is s after a write of which the file accepted k of n bytes.
Wrote(s, t, n, k) ==
    /\ Typed(t) /\ Unmoved(s, t) /\ t.badSync = s.badSync
    /\ t.len = s.len + k
    /\ t.counters.bytes = s.counters.bytes + k /\ t.counters.lost = s.counters.lost + (n - k)
    /\ OnDisk(t.files) = OnDisk(s.files) + k
    /\ DOMAIN t.files = DOMAIN s.files
    /\ \A f \in DOMAIN s.files \ {s.cur} : t.files[f] = s.files[f]
    /\ t.files[s.cur].len = s.files[s.cur].len + k

\* A write of which k of n bytes arrive.
LEMMA WrittenDoes ==
    ASSUME NEW s, Typed(s), s.cur \in DOMAIN s.files, NEW n \in Nat, NEW k \in 0 .. n
    PROVE  Wrote(s, Written(s, n, k), n, k)
  <1> DEFINE t == Written(s, n, k)
  <1>1. k \in Nat /\ n - k \in Nat
    OBVIOUS
  <1>2. /\ DOMAIN t = Fields
        /\ t.files = [s.files EXCEPT ![s.cur].len = @ + k]
        /\ t.len = s.len + k
    BY DEF Written, Typed, Fields
  <1>3. t.counters = [[s.counters EXCEPT !.bytes = @ + k] EXCEPT !.lost = @ + (n - k)]
    BY DEF Written, Typed, Fields
  <1>4. Unmoved(s, t) /\ t.badSync = s.badSync
    BY DEF Written, Typed, Fields, Unmoved
  <1> HIDE DEF t
  <1>5. t.counters = [bytes |-> s.counters.bytes + k, lost |-> s.counters.lost + (n - k)]
        /\ s.counters.bytes \in Nat /\ s.counters.lost \in Nat
    <2>1. PICK b \in Nat, l \in Nat : s.counters = [bytes |-> b, lost |-> l]
      BY DEF Typed, IsBytes
    <2>2. [s.counters EXCEPT !.bytes = @ + k] = [bytes |-> b + k, lost |-> l]
      BY <2>1
    <2>3. t.counters = [bytes |-> b + k, lost |-> l + (n - k)]
      BY <1>3, <2>2
    <2>4. s.counters.bytes = b /\ s.counters.lost = l
      BY <2>1
    <2> QED BY <2>3, <2>4
  <1>6. /\ IsTable(t.files) /\ OnDisk(t.files) = OnDisk(s.files) + k
        /\ DOMAIN t.files = DOMAIN s.files
        /\ \A f \in DOMAIN s.files \ {s.cur} : t.files[f] = s.files[f]
        /\ t.files[s.cur].len = s.files[s.cur].len + k
    <2>1. IsTable(s.files) /\ Grows(s.files, t.files, s.cur, k)
      BY <1>2 DEF Typed, Grows
    <2> QED BY <1>1, <2>1, GrownIs
  <1>7. IsBytes(t.counters)
    BY <1>1, <1>5 DEF IsBytes
  <1>8. Typed(t)
    BY <1>1, <1>2, <1>4, <1>6, <1>7 DEF Typed, Unmoved
  <1>9. t.counters.bytes = s.counters.bytes + k /\ t.counters.lost = s.counters.lost + (n - k)
    BY <1>5
  <1>10. Wrote(s, t, n, k)
    BY <1>2, <1>4, <1>6, <1>8, <1>9 DEF Wrote
  <1> QED BY <1>10 DEF t

\* Buffer and message go to the file, in part or whole.
LEMMA WriteFileDoes ==
    ASSUME NEW s, Typed(s), s.cur \in DOMAIN s.files, NEW n \in Nat, NEW t \in WriteFile(s, n)
    PROVE  \E k \in 0 .. n : Wrote(s, t, n, k)
  <1>1. CASE n = 0
    <2>1. t = s
      BY <1>1 DEF WriteFile
    <2>2. OnDisk(s.files) \in Nat /\ s.files[s.cur].len \in Nat
      BY OnDiskNat DEF Typed, IsTable
    <2>3. s.len \in Nat /\ s.counters.bytes \in Nat /\ s.counters.lost \in Nat
      BY DEF Typed, IsBytes
    <2>4. Unmoved(s, s)
      BY DEF Unmoved
    <2>5. Wrote(s, s, 0, 0)
      BY <2>2, <2>3, <2>4 DEF Wrote
    <2> QED BY <1>1, <2>1, <2>5
  <1>2. CASE n # 0
    <2>1. PICK k \in IF s.faults < MaxFaults THEN 0 .. n ELSE {n} : t = Written(s, n, k)
      BY <1>2 DEF WriteFile
    <2>2. k \in 0 .. n
      BY <2>1
    <2> QED BY <2>1, <2>2, WrittenDoes
  <1> QED BY <1>1, <1>2

\* t is s after an fsync.
Flushed(s, t) ==
    /\ Typed(t) /\ Unmoved(s, t) /\ t.len = s.len /\ t.counters = s.counters
    /\ OnDisk(t.files) = OnDisk(s.files)
    /\ DOMAIN t.files = DOMAIN s.files
    /\ \A f \in DOMAIN s.files : t.files[f].len = s.files[f].len
    /\ \A f \in DOMAIN s.files \ {s.cur} : t.files[f] = s.files[f]
    /\ \/ t.badSync
       \/ t.badSync = s.badSync /\ t.files[s.cur].synced = t.files[s.cur].len

\* An fsync reaches the disk, or is remembered as failed.
LEMMA SyncDoes ==
    ASSUME NEW s, Typed(s), s.cur \in DOMAIN s.files, NEW t \in Sync(s)
    PROVE  Flushed(s, t) /\ (s.badSync => t.badSync)
  <1>1. CASE t = [s EXCEPT !.files[s.cur].synced = s.files[s.cur].len]
    <2>1. /\ DOMAIN t = Fields
          /\ t.files = [s.files EXCEPT ![s.cur].synced = s.files[s.cur].len]
          /\ t.len = s.len /\ t.counters = s.counters
      BY <1>1 DEF Typed, Fields
    <2>2. Unmoved(s, t) /\ t.badSync = s.badSync
      BY <1>1 DEF Typed, Fields, Unmoved
    <2>3. /\ IsTable(t.files) /\ OnDisk(t.files) = OnDisk(s.files)
          /\ DOMAIN t.files = DOMAIN s.files
          /\ \A f \in DOMAIN s.files \ {s.cur} : t.files[f] = s.files[f]
          /\ t.files[s.cur].len = s.files[s.cur].len
          /\ t.files[s.cur].synced = s.files[s.cur].len
      BY <2>1, SyncedIs DEF Typed
    <2>4. Typed(t)
      BY <2>1, <2>2, <2>3 DEF Typed, Unmoved
    <2> QED BY <2>1, <2>2, <2>3, <2>4 DEF Flushed
  <1>2. CASE t = [s EXCEPT !.badSync = TRUE, !.faults = @ + 1]
    <2>1. /\ DOMAIN t = Fields /\ t.files = s.files /\ t.badSync = TRUE
          /\ t.len = s.len /\ t.counters = s.counters
      BY <1>2 DEF Typed, Fields
    <2>2. Unmoved(s, t)
      BY <1>2 DEF Typed, Fields, Unmoved
    <2>3. Typed(t)
      BY <2>1, <2>2 DEF Typed, Unmoved
    <2> QED BY <2>1, <2>2, <2>3 DEF Flushed
  <1> QED BY <1>1, <1>2 DEF Sync


\* What the operations on the name leave alone.
NameOnly(s, t) ==
    /\ Typed(t)
    /\ t.files = s.files /\ t.cur = s.cur /\ t.len = s.len
    /\ t.boundary = s.boundary /\ t.openedOn = s.openedOn
    /\ t.buff = s.buff /\ t.closed = s.closed
    /\ t.counters = s.counters /\ t.given = s.given /\ t.past = s.past
    /\ t.discarded = s.discarded /\ t.truncated = s.truncated
    /\ t.rotated = s.rotated /\ t.mine = s.mine
    /\ t.badSync = s.badSync /\ t.badRotation = s.badRotation

\* The clock may find the next day.
LEMMA ReadClockDoes ==
    ASSUME NEW s, Typed(s), NEW t \in ReadClock(s)
    PROVE  /\ NameOnly(s, t) /\ t.date = s.date /\ t.number = s.number
           /\ t.today >= s.today
           /\ ~MidnightInCalls => t = s
  <1>1. CASE t = s
    BY <1>1 DEF NameOnly, Typed
  <1>2. CASE MidnightInCalls /\ s.today < MaxDay /\ t = [s EXCEPT !.today = @ + 1]
    <2>1. t.today \in 1 .. MaxDay /\ t.today >= s.today
      BY <1>2, FileAssumed DEF Typed, Fields, FileAssumption
    <2>2. /\ DOMAIN t = Fields /\ t.files = s.files /\ t.cur = s.cur /\ t.len = s.len
          /\ t.date = s.date /\ t.number = s.number /\ t.boundary = s.boundary
          /\ t.openedOn = s.openedOn /\ t.buff = s.buff
          /\ t.counters = s.counters /\ t.given = s.given /\ t.past = s.past
          /\ t.discarded = s.discarded /\ t.truncated = s.truncated
      BY <1>2 DEF Typed, Fields
    <2>3. /\ t.closed = s.closed /\ t.rotated = s.rotated /\ t.mine = s.mine
          /\ t.badSync = s.badSync /\ t.badRotation = s.badRotation
      BY <1>2 DEF Typed, Fields
    <2>4. Typed(t)
      BY <2>1, <2>2 DEF Typed
    <2> QED BY <1>2, <2>1, <2>2, <2>3, <2>4 DEF NameOnly
  <1> QED BY <1>1, <1>2 DEF ReadClock

\* The next name: the number goes on, or starts again on another day.
LEMMA NextNameDoes ==
    ASSUME NEW s, Typed(s), NEW t \in NextName(s)
    PROVE  /\ NameOnly(s, t) /\ t.today >= s.today
           /\ ~MidnightInCalls => t.today = s.today
           /\ \/ t.date = s.date /\ t.number = s.number + 1 /\ s.date \in s.today .. t.today
              \/ t.number = 0 /\ t.date = t.today /\ \E d \in s.today .. t.today : s.date # d
  <1>1. PICK u \in ReadClock(s) :
           t \in IF u.date = u.today
                 THEN {[u EXCEPT !.number = @ + 1]}
                 ELSE {[v EXCEPT !.date = v.today, !.number = 0] : v \in ReadClock(u)}
    BY DEF NextName
  <1>2. /\ NameOnly(s, u) /\ u.date = s.date /\ u.number = s.number /\ u.today >= s.today
        /\ (~MidnightInCalls => u = s)
    BY ReadClockDoes
  <1>3. Typed(u) /\ s.today \in Int /\ u.today \in Int
    BY <1>2 DEF NameOnly, Typed
  <1>4. CASE u.date = u.today
    <2>1. t = [u EXCEPT !.number = @ + 1]
      BY <1>1, <1>4
    <2>2. /\ DOMAIN t = Fields /\ t.files = u.files /\ t.cur = u.cur /\ t.len = u.len
          /\ t.date = u.date /\ t.number = u.number + 1 /\ t.boundary = u.boundary
          /\ t.openedOn = u.openedOn /\ t.buff = u.buff /\ t.today = u.today
          /\ t.counters = u.counters /\ t.given = u.given /\ t.past = u.past
          /\ t.discarded = u.discarded /\ t.truncated = u.truncated
      BY <1>3, <2>1 DEF Typed, Fields
    <2>3. /\ t.closed = u.closed /\ t.rotated = u.rotated /\ t.mine = u.mine
          /\ t.badSync = u.badSync /\ t.badRotation = u.badRotation
      BY <1>3, <2>1 DEF Typed, Fields
    <2>4. Typed(t)
      BY <1>3, <2>2 DEF Typed
    <2>5. NameOnly(s, t)
      BY <1>2, <2>2, <2>3, <2>4 DEF NameOnly
    <2> QED BY <1>2, <1>3, <1>4, <2>2, <2>5
  <1>5. CASE u.date # u.today
    <2>1. PICK v \in ReadClock(u) : t = [v EXCEPT !.date = v.today, !.number = 0]
      BY <1>1, <1>5
    <2>2. /\ NameOnly(u, v) /\ v.today >= u.today
          /\ (~MidnightInCalls => v = u)
      BY <1>3, ReadClockDoes
    <2>3. Typed(v) /\ v.today \in 1 .. MaxDay /\ v.today \in Nat
      BY <2>2, FileAssumed DEF NameOnly, Typed, FileAssumption
    <2>4. /\ DOMAIN t = Fields /\ t.files = v.files /\ t.cur = v.cur /\ t.len = v.len
          /\ t.date = v.today /\ t.number = 0 /\ t.boundary = v.boundary
          /\ t.openedOn = v.openedOn /\ t.buff = v.buff /\ t.today = v.today
          /\ t.counters = v.counters /\ t.given = v.given /\ t.past = v.past
          /\ t.discarded = v.discarded /\ t.truncated = v.truncated
      BY <2>1, <2>3 DEF Typed, Fields
    <2>5. /\ t.closed = v.closed /\ t.rotated = v.rotated /\ t.mine = v.mine
          /\ t.badSync = v.badSync /\ t.badRotation = v.badRotation
      BY <2>1, <2>3 DEF Typed, Fields
    <2>6. Typed(t)
      BY <2>3, <2>4 DEF Typed
    <2>7. NameOnly(s, t)
      BY <1>2, <2>2, <2>4, <2>5, <2>6 DEF NameOnly
    <2>8. u.today \in s.today .. t.today /\ s.date # u.today /\ t.today >= s.today
      BY <1>2, <1>3, <1>5, <2>2, <2>3, <2>4
    <2>9. ~MidnightInCalls => t.today = s.today
      BY <1>2, <2>2, <2>4
    <2> QED BY <2>4, <2>7, <2>8, <2>9
  <1> QED BY <1>4, <1>5

\* The footer takes the counters with it.
LEMMA FooterDoes ==
    ASSUME NEW s, Typed(s), s.cur \in DOMAIN s.files, NEW t \in Footer(s)
    PROVE  \E u : \E k \in 0 .. FooterLen :
              /\ Wrote(u, t, FooterLen, k) /\ Typed(u) /\ t \in WriteFile(u, FooterLen)
              /\ u.files = s.files /\ u.cur = s.cur /\ u.len = s.len /\ u.today = s.today
              /\ u.date = s.date /\ u.number = s.number /\ u.boundary = s.boundary
              /\ u.openedOn = s.openedOn /\ u.buff = s.buff /\ u.closed = s.closed
              /\ u.past.bytes = s.past.bytes + s.counters.bytes
              /\ u.past.lost = s.past.lost + s.counters.lost
              /\ u.counters.bytes = 0 /\ u.counters.lost = 0 /\ u.given = s.given + FooterLen
              /\ u.discarded = s.discarded /\ u.truncated = s.truncated
              /\ u.rotated = s.rotated /\ u.mine = s.mine
              /\ u.badSync = s.badSync /\ u.badRotation = s.badRotation
  <1> DEFINE u == [s EXCEPT !.past = Plus(s.past, s.counters), !.counters = NoBytes,
                            !.given = @ + FooterLen]
  <1>1. FooterLen \in Nat
    BY FileAssumed DEF FileAssumption
  <1>2. /\ DOMAIN u = Fields
        /\ u.files = s.files /\ u.cur = s.cur /\ u.len = s.len /\ u.today = s.today
        /\ u.date = s.date /\ u.number = s.number /\ u.boundary = s.boundary
        /\ u.openedOn = s.openedOn /\ u.buff = s.buff
        /\ u.past = Plus(s.past, s.counters) /\ u.counters = NoBytes
        /\ u.given = s.given + FooterLen
        /\ u.discarded = s.discarded /\ u.truncated = s.truncated
    BY DEF Typed, Fields
  <1>3. /\ u.closed = s.closed /\ u.rotated = s.rotated /\ u.mine = s.mine
        /\ u.badSync = s.badSync /\ u.badRotation = s.badRotation
    BY DEF Typed, Fields
  <1>4. t \in WriteFile(u, FooterLen)
    BY DEF Footer
  <1> HIDE DEF u
  <1>5. /\ IsBytes(u.past) /\ IsBytes(u.counters)
        /\ u.past.bytes = s.past.bytes + s.counters.bytes
        /\ u.past.lost = s.past.lost + s.counters.lost
        /\ u.counters.bytes = 0 /\ u.counters.lost = 0
    BY <1>2 DEF Plus, NoBytes, IsBytes, Typed
  <1>6. Typed(u)
    BY <1>1, <1>2, <1>5 DEF Typed
  <1>7. PICK k \in 0 .. FooterLen : Wrote(u, t, FooterLen, k)
    BY <1>1, <1>2, <1>4, <1>6, WriteFileDoes
  <1> QED BY <1>2, <1>3, <1>4, <1>5, <1>6, <1>7

----------------------------------------------------------------------------
(* What holds in the middle of a call                                         *)

\* The manager writes to a file of its own, which was not rotated away from.
Running(s) ==
    /\ s.cur \in s.mine /\ s.mine \subseteq DOMAIN s.files
    /\ Dated => s.cur \notin s.rotated

\* The books, when `owed` bytes were given to the call and not yet dealt with.
Booked(s, owed) ==
    /\ s.past.bytes + s.counters.bytes = OnDisk(s.files) + s.truncated
    /\ s.given = s.past.bytes + s.counters.bytes + s.past.lost + s.counters.lost
                 + s.buff + s.discarded + owed

\* Only the current file holds bytes that this process has not synced.
EarlierSynced(s) ==
    ~s.badSync => \A f \in s.mine \ {s.cur} : s.files[f].synced = s.files[f].len

\* Files are named in the order in which they are opened, and the last one of the present
\* day's folder was not rotated away from.
Ordered(s) ==
    /\ s.rotated \subseteq DOMAIN s.files
    /\ Dated =>
        /\ s.date <= s.today
        /\ \A f \in DOMAIN s.files : f[1] < s.date \/ (f[1] = s.date /\ f[2] <= s.number)
        /\ \A f \in s.rotated :
              f[1] < s.today \/ \E g \in DOMAIN s.files : g[1] = f[1] /\ f[2] < g[2]

\* Messages fit in the buffer and files are dated.
Fits == Dated /\ \A n \in Lengths : n < BufLen

\* The manager knows the length of its file, which is at most `top`; a file that is left
\* may have got its footer.
Sized(s, top) ==
    Fits /\ ~s.badRotation =>
        /\ s.len = s.files[s.cur].len /\ s.len <= top
        /\ \A f \in DOMAIN s.files \ {s.cur} :
              /\ s.files[f].len <= MaxSize + FooterLen
              /\ f \notin s.rotated => s.files[f].len <= MaxSize

\* The boundary is not beyond the day after the current file was opened.
OnTime(s) ==
    Dated /\ ~MidnightInCalls =>
        s.openedOn <= s.today /\ (~s.badRotation => s.boundary <= s.openedOn + 1)

Call(s, owed, top) ==
    /\ Typed(s) /\ Running(s) /\ Booked(s, owed) /\ EarlierSynced(s) /\ Ordered(s)
    /\ Sized(s, top) /\ OnTime(s)

\* t comes after s in a call.
Later(s, t) ==
    /\ t.today >= s.today /\ (~MidnightInCalls => t.today = s.today)
    /\ (s.badSync => t.badSync) /\ (s.badRotation => t.badRotation)
    /\ t.closed = s.closed
    /\ DOMAIN s.files \subseteq DOMAIN t.files /\ s.rotated \subseteq t.rotated
    /\ Dated => \A f \in s.rotated : t.files[f].len <= s.files[f].len

\* What a call did before and what it does next add up.
LEMMA LaterTrans ==
    ASSUME NEW s, NEW t, NEW u, Typed(s), Typed(t), Typed(u), Ordered(s), Later(s, t), Later(t, u)
    PROVE  Later(s, u)
  <1>1. u.today >= s.today /\ (~MidnightInCalls => u.today = s.today)
    BY DEF Later, Typed
  <1>2. ASSUME Dated, NEW f \in s.rotated PROVE u.files[f].len <= s.files[f].len
    <2>1. f \in DOMAIN s.files /\ f \in DOMAIN t.files /\ f \in DOMAIN u.files /\ f \in t.rotated
      BY <1>2 DEF Later, Ordered
    <2>2. t.files[f].len <= s.files[f].len /\ u.files[f].len <= t.files[f].len
      BY <1>2, <2>1 DEF Later
    <2>3. s.files[f].len \in Nat /\ t.files[f].len \in Nat /\ u.files[f].len \in Nat
      BY <2>1 DEF Typed, IsTable
    <2> QED BY <2>2, <2>3
  <1> QED BY <1>1, <1>2 DEF Later

\* The numbers of a well-formed state.
LEMMA Numbers ==
    ASSUME NEW s, Typed(s)
    PROVE  /\ s.past.bytes \in Nat /\ s.past.lost \in Nat
           /\ s.counters.bytes \in Nat /\ s.counters.lost \in Nat
           /\ OnDisk(s.files) \in Nat /\ s.truncated \in Int /\ s.given \in Nat
           /\ s.buff \in Nat /\ s.discarded \in Nat /\ s.len \in Nat
           /\ s.today \in Nat /\ s.openedOn \in Nat /\ s.boundary \in Nat
           /\ s.date \in Nat /\ s.number \in Nat
           /\ \A f \in DOMAIN s.files : s.files[f].len \in Nat
  <1>1. \A f \in DOMAIN s.files : s.files[f].len \in Nat
    BY DEF Typed, IsTable
  <1>2. OnDisk(s.files) \in Nat
    BY OnDiskNat DEF Typed
  <1>3. s.today \in Nat
    BY FileAssumed DEF FileAssumption, Typed
  <1> QED BY <1>1, <1>2, <1>3 DEF Typed, IsBytes

\* A write keeps what holds within a call.
LEMMA WriteKeeps ==
    ASSUME NEW s, NEW owed \in Int, NEW top \in Int, Call(s, owed, top),
           NEW n \in Nat, NEW t \in WriteFile(s, n)
    PROVE  Call(t, owed - n, top + n) /\ Later(s, t) /\ Unmoved(s, t)
  <1>1. Typed(s) /\ s.cur \in DOMAIN s.files
    BY DEF Call, Running
  <1>2. PICK k \in 0 .. n : Wrote(s, t, n, k)
    BY <1>1, WriteFileDoes
  <1>3. /\ Typed(t) /\ Unmoved(s, t) /\ t.badSync = s.badSync
        /\ DOMAIN t.files = DOMAIN s.files
        /\ \A f \in DOMAIN s.files \ {s.cur} : t.files[f] = s.files[f]
    BY <1>2 DEF Wrote
  <1>4. Running(t)
    BY <1>3 DEF Call, Running, Unmoved
  <1>5. Booked(t, owed - n)
    <2>1. /\ t.past = s.past /\ t.buff = s.buff /\ t.discarded = s.discarded
          /\ t.truncated = s.truncated /\ t.given = s.given
      BY <1>3 DEF Unmoved
    <2>2. /\ t.counters.bytes = s.counters.bytes + k
          /\ t.counters.lost = s.counters.lost + (n - k)
          /\ OnDisk(t.files) = OnDisk(s.files) + k
      BY <1>2 DEF Wrote
    <2>3. Booked(s, owed)
      BY DEF Call
    <2>4. k \in Nat /\ n - k \in Nat
      OBVIOUS
    <2> QED BY <1>1, <2>1, <2>2, <2>3, <2>4, Numbers DEF Booked
  <1>6. EarlierSynced(t)
    BY <1>3 DEF Call, EarlierSynced, Unmoved, Running
  <1>7. Ordered(t)
    BY <1>3 DEF Call, Ordered, Unmoved
  <1>8. Sized(t, top + n)
    <2>1. /\ t.len = s.len + k /\ t.files[s.cur].len = s.files[s.cur].len + k
          /\ k \in Nat /\ k <= n /\ s.len \in Nat /\ s.files[s.cur].len \in Nat
      BY <1>1, <1>2, Numbers DEF Wrote
    <2> QED BY <1>3, <2>1 DEF Call, Sized, Unmoved
  <1>9. OnTime(t)
    BY <1>3 DEF Call, OnTime, Unmoved
  <1>10. Later(s, t)
    <2>1. ASSUME Dated, NEW f \in s.rotated PROVE t.files[f].len <= s.files[f].len
      <3>1. f \in DOMAIN s.files \ {s.cur}
        BY <2>1 DEF Call, Running, Ordered
      <3> QED BY <1>1, <1>3, <3>1, Numbers
    <2>2. t.today >= s.today /\ t.today = s.today /\ t.closed = s.closed
          /\ t.rotated = s.rotated /\ t.badRotation = s.badRotation
      BY <1>1, <1>3, Numbers DEF Unmoved
    <2> QED BY <1>3, <2>1, <2>2 DEF Later
  <1> QED BY <1>3, <1>4, <1>5, <1>6, <1>7, <1>8, <1>9, <1>10 DEF Call

AllSynced(s) == ~s.badSync => \A f \in s.mine : s.files[f].synced = s.files[f].len

\* So does an fsync,
LEMMA SyncKeeps ==
    ASSUME NEW s, NEW owed \in Int, NEW top \in Int, Call(s, owed, top), NEW t \in Sync(s)
    PROVE  /\ Call(t, owed, top) /\ Later(s, t) /\ Unmoved(s, t) /\ AllSynced(t)
           /\ DOMAIN t.files = DOMAIN s.files /\ t.len = s.len
  <1>1. Typed(s) /\ s.cur \in DOMAIN s.files
    BY DEF Call, Running
  <1>2. Flushed(s, t) /\ (s.badSync => t.badSync)
    BY <1>1, SyncDoes
  <1>3. /\ Typed(t) /\ Unmoved(s, t) /\ t.len = s.len /\ t.counters = s.counters
        /\ OnDisk(t.files) = OnDisk(s.files) /\ DOMAIN t.files = DOMAIN s.files
        /\ \A f \in DOMAIN s.files : t.files[f].len = s.files[f].len
        /\ \A f \in DOMAIN s.files \ {s.cur} : t.files[f] = s.files[f]
    BY <1>2 DEF Flushed
  <1>4. Running(t) /\ Ordered(t) /\ OnTime(t)
    BY <1>3 DEF Call, Running, Ordered, OnTime, Unmoved
  <1>5. Booked(t, owed)
    BY <1>3 DEF Call, Booked, Unmoved
  <1>6. EarlierSynced(t)
    BY <1>2, <1>3 DEF Call, EarlierSynced, Unmoved, Running, Flushed
  <1>7. AllSynced(t)
    BY <1>2, <1>3, <1>6 DEF AllSynced, EarlierSynced, Flushed, Unmoved
  <1>8. Sized(t, top)
    BY <1>1, <1>3 DEF Call, Sized, Unmoved
  <1>9. Later(s, t)
    <2>1. \A f \in s.rotated : t.files[f].len <= s.files[f].len
      BY <1>1, <1>3, Numbers DEF Call, Ordered
    <2>2. t.today >= s.today /\ t.today = s.today /\ t.closed = s.closed
          /\ t.rotated = s.rotated /\ t.badRotation = s.badRotation
      BY <1>1, <1>3, Numbers DEF Unmoved
    <2> QED BY <1>2, <1>3, <2>1, <2>2 DEF Later
  <1> QED BY <1>3, <1>4, <1>5, <1>6, <1>7, <1>8, <1>9 DEF Call

\* a reading of the clock,
LEMMA ReadClockKeeps ==
    ASSUME NEW s, NEW owed \in Int, NEW top \in Int, Call(s, owed, top), NEW t \in ReadClock(s)
    PROVE  /\ Call(t, owed, top) /\ Later(s, t)
           /\ t.buff = s.buff /\ t.openedOn = s.openedOn /\ t.boundary = s.boundary
           /\ ~MidnightInCalls => t = s
  <1>1. Typed(s)
    BY DEF Call
  <1>2. /\ NameOnly(s, t) /\ t.date = s.date /\ t.number = s.number
        /\ t.today >= s.today
        /\ ~MidnightInCalls => t = s
    BY <1>1, ReadClockDoes
  <1>3. s.today \in Nat /\ t.today \in Nat /\ \A f \in DOMAIN s.files : f[1] \in Nat
    BY <1>1, <1>2, Numbers DEF NameOnly, Typed, IsTable
  <1>4. Running(t) /\ Booked(t, owed) /\ EarlierSynced(t) /\ Sized(t, top)
    BY <1>2 DEF Call, NameOnly, Running, Booked, EarlierSynced, Sized
  <1>5. Ordered(t)
    <2>1. s.date \in Nat
      BY <1>1, Numbers
    <2> QED BY <1>2, <1>3, <2>1 DEF Call, Ordered, NameOnly
  <1>6. OnTime(t)
    BY <1>2 DEF Call, OnTime
  <1>7. Later(s, t)
    <2>1. \A f \in s.rotated : t.files[f].len <= s.files[f].len
      BY <1>1, <1>2, Numbers DEF Call, Ordered, NameOnly
    <2> QED BY <1>2, <2>1 DEF Later, NameOnly
  <1> QED BY <1>2, <1>4, <1>5, <1>6, <1>7 DEF Call, NameOnly

----------------------------------------------------------------------------
(* Rotations                                                                  *)

\* and a footer, which folds the counters into the past.
LEMMA FooterKeeps ==
    ASSUME NEW s, NEW owed \in Int, NEW top \in Int, Call(s, owed, top), NEW t \in Footer(s)
    PROVE  /\ Call(t, owed, top + FooterLen) /\ Later(s, t)
           /\ DOMAIN t.files = DOMAIN s.files
           /\ \A f \in DOMAIN s.files \ {s.cur} : t.files[f] = s.files[f]
           /\ t.today = s.today /\ t.cur = s.cur /\ t.date = s.date /\ t.number = s.number
           /\ t.boundary = s.boundary /\ t.openedOn = s.openedOn /\ t.buff = s.buff
           /\ t.rotated = s.rotated /\ t.mine = s.mine
  <1>1. Typed(s) /\ s.cur \in DOMAIN s.files
    BY DEF Call, Running
  <1>2. PICK u : \E k \in 0 .. FooterLen :
              /\ Wrote(u, t, FooterLen, k) /\ Typed(u) /\ t \in WriteFile(u, FooterLen)
              /\ u.files = s.files /\ u.cur = s.cur /\ u.len = s.len /\ u.today = s.today
              /\ u.date = s.date /\ u.number = s.number /\ u.boundary = s.boundary
              /\ u.openedOn = s.openedOn /\ u.buff = s.buff /\ u.closed = s.closed
              /\ u.past.bytes = s.past.bytes + s.counters.bytes
              /\ u.past.lost = s.past.lost + s.counters.lost
              /\ u.counters.bytes = 0 /\ u.counters.lost = 0 /\ u.given = s.given + FooterLen
              /\ u.discarded = s.discarded /\ u.truncated = s.truncated
              /\ u.rotated = s.rotated /\ u.mine = s.mine
              /\ u.badSync = s.badSync /\ u.badRotation = s.badRotation
    BY <1>1, FooterDoes
  <1>3. FooterLen \in Nat
    BY FileAssumed DEF FileAssumption
  <1>4. Running(u) /\ EarlierSynced(u) /\ Ordered(u) /\ Sized(u, top) /\ OnTime(u)
    BY <1>2 DEF Call, Running, EarlierSynced, Ordered, Sized, OnTime
  <1>5. PICK o \in Int : o = owed + FooterLen
    BY <1>3
  <1>6. Call(u, o, top)
    <2>1. Booked(s, owed)
      BY DEF Call
    <2>2. Booked(u, o)
      BY <1>1, <1>2, <1>3, <1>5, <2>1, Numbers DEF Booked
    <2> QED BY <1>2, <1>4, <2>2 DEF Call
  <1>7. Call(t, o - FooterLen, top + FooterLen) /\ Later(u, t) /\ Unmoved(u, t)
    BY <1>2, <1>3, <1>6, WriteKeeps
  <1>8. o - FooterLen = owed
    BY <1>3, <1>5
  <1>9. Later(s, t)
    BY <1>2, <1>7 DEF Later
  <1>10. /\ DOMAIN t.files = DOMAIN s.files
         /\ \A f \in DOMAIN s.files \ {s.cur} : t.files[f] = s.files[f]
    BY <1>2 DEF Wrote
  <1> QED BY <1>2, <1>7, <1>8, <1>9, <1>10 DEF Unmoved

\* In dated folders the name of a new file is the last one, and new.
IsNew(s, t) ==
    /\ Name(t) \notin DOMAIN s.files
    /\ t.date <= t.today
    /\ \A f \in DOMAIN s.files :
          f[1] < t.date \/ (f[1] = t.date /\ f[2] < t.number)

\* The next name is of no file that is there, so of none that was rotated away from.
LEMMA NextNameIsNew ==
    ASSUME Dated, NEW s, Typed(s), Ordered(s), NEW t \in NextName(s)
    PROVE  IsNew(s, t)
  <1>1. /\ t.today >= s.today /\ Typed(t)
        /\ \/ t.date = s.date /\ t.number = s.number + 1 /\ s.date \in s.today .. t.today
           \/ t.number = 0 /\ t.date = t.today /\ \E d \in s.today .. t.today : s.date # d
    BY NextNameDoes DEF NameOnly
  <1>2. /\ s.date \in Nat /\ s.number \in Nat /\ s.today \in Nat
        /\ t.date \in Nat /\ t.number \in Nat /\ t.today \in Nat
    BY <1>1, Numbers
  <1>3. /\ s.date <= s.today
        /\ \A f \in DOMAIN s.files : f[1] < s.date \/ (f[1] = s.date /\ f[2] <= s.number)
    BY DEF Ordered
  <1>4. \A f \in DOMAIN s.files : f[1] \in Nat /\ f[2] \in Nat
    BY DEF Typed, IsTable
  <1>5. t.date <= t.today
    BY <1>1, <1>2
  <1>6. ASSUME NEW f \in DOMAIN s.files
        PROVE  f[1] < t.date \/ (f[1] = t.date /\ f[2] < t.number)
    BY <1>1, <1>2, <1>3, <1>4
  <1>7. Name(t) \notin DOMAIN s.files
    <2>1. Name(t) = <<t.date, t.number>>
      BY DEF Name
    <2>2. Name(t)[1] = t.date /\ Name(t)[2] = t.number
      BY <2>1
    <2> QED BY <1>2, <1>6, <2>2
  <1> QED BY <1>5, <1>6, <1>7 DEF IsNew

\* The new file is there, and the manager still writes to the old one.
LEMMA OpenKeeps ==
    ASSUME NEW s, NEW owed \in Int, NEW top \in Int, Call(s, owed, top),
           NEW t \in NextName(s), NEW u, u = WithFile(t)
    PROVE  /\ Call(u, owed, top) /\ Later(s, u)
           /\ t.files = s.files /\ u.files = Opened(s.files, Name(t))
           /\ Name(t) \in DOMAIN u.files
           /\ u.today = t.today /\ u.cur = s.cur /\ u.date = t.date /\ u.number = t.number
           /\ u.boundary = s.boundary /\ u.openedOn = s.openedOn /\ u.buff = s.buff
           /\ u.rotated = s.rotated /\ u.mine = s.mine
  <1>1. Typed(s) /\ Running(s) /\ Ordered(s)
    BY DEF Call
  <1>2. NameOnly(s, t) /\ t.today >= s.today /\ (~MidnightInCalls => t.today = s.today)
    BY <1>1, NextNameDoes
  <1>3. Typed(t) /\ t.files = s.files
    BY <1>2 DEF NameOnly
  <1>4. /\ DOMAIN u = Fields /\ u.files = Opened(s.files, Name(t))
        /\ u.today = t.today /\ u.cur = s.cur /\ u.date = t.date /\ u.number = t.number
        /\ u.boundary = s.boundary /\ u.openedOn = s.openedOn /\ u.buff = s.buff
        /\ u.len = s.len /\ u.counters = s.counters /\ u.past = s.past /\ u.given = s.given
        /\ u.discarded = s.discarded /\ u.truncated = s.truncated
    BY <1>2, <1>3 DEF Typed, Fields, NameOnly, WithFile
  <1>5. /\ u.closed = s.closed /\ u.rotated = s.rotated /\ u.mine = s.mine
        /\ u.badSync = s.badSync /\ u.badRotation = s.badRotation
    BY <1>2, <1>3 DEF Typed, Fields, NameOnly, WithFile
  <1>6. Name(t) \in Nat \X Nat
    BY <1>3, Numbers DEF Name
  <1>7. /\ IsTable(u.files) /\ OnDisk(u.files) = OnDisk(s.files)
        /\ DOMAIN u.files = DOMAIN s.files \cup {Name(t)}
        /\ \A f \in DOMAIN s.files : u.files[f] = s.files[f]
        /\ Name(t) \notin DOMAIN s.files => u.files[Name(t)] = [len |-> 0, synced |-> 0]
    <2>1. IsTable(s.files)
      BY <1>1 DEF Typed
    <2> QED BY <1>4, <1>6, <2>1, OpenedIs
  <1>8. Typed(u)
    BY <1>3, <1>4, <1>7, <1>1 DEF Typed
  <1>9. Running(u) /\ EarlierSynced(u) /\ Booked(u, owed)
    BY <1>4, <1>5, <1>7 DEF Call, Running, EarlierSynced, Booked
  <1>10. Ordered(u)
    <2>1. CASE Dated
      <3>1. IsNew(s, t)
        BY <1>1, <2>1, NextNameIsNew
      <3>2. s.today \in Nat /\ t.today \in Nat /\ t.date \in Nat /\ t.number \in Nat
            /\ \A f \in DOMAIN s.files : f[1] \in Nat /\ f[2] \in Nat
        BY <1>1, <1>3, Numbers DEF Typed, IsTable
      <3>3. Name(t) = <<t.date, t.number>>
        BY <2>1 DEF Name
      <3>4. ASSUME NEW f \in DOMAIN u.files
            PROVE  f[1] < u.date \/ (f[1] = u.date /\ f[2] <= u.number)
        <4>1. CASE f \in DOMAIN s.files
          BY <1>4, <3>1, <3>2, <4>1 DEF IsNew
        <4>2. CASE f = Name(t)
          BY <1>4, <3>2, <3>3, <4>2
        <4> QED BY <1>7, <4>1, <4>2
      <3>5. ASSUME NEW f \in u.rotated
            PROVE  f[1] < u.today \/ \E g \in DOMAIN u.files : g[1] = f[1] /\ f[2] < g[2]
        <4>1. f \in DOMAIN s.files
              /\ (f[1] < s.today \/ \E g \in DOMAIN s.files : g[1] = f[1] /\ f[2] < g[2])
          BY <1>1, <1>5, <2>1 DEF Ordered
        <4> QED BY <1>2, <1>4, <1>7, <3>2, <4>1
      <3> QED BY <1>1, <1>4, <1>5, <1>7, <3>1, <3>4, <3>5 DEF Ordered, IsNew
    <2>2. CASE ~Dated
      BY <1>1, <1>5, <1>7, <2>2 DEF Ordered
    <2> QED BY <2>1, <2>2
  <1>11. Sized(u, top)
    <2>1. SUFFICES ASSUME Fits, ~s.badRotation PROVE Sized(u, top)
      BY <1>5 DEF Sized
    <2>2. Name(t) \notin DOMAIN s.files
      BY <1>1, <2>1, NextNameIsNew DEF IsNew, Fits
    <2>3. u.files[Name(t)].len = 0
      BY <1>7, <2>2
    <2>4. /\ s.len = s.files[s.cur].len /\ s.len <= top
          /\ \A f \in DOMAIN s.files \ {s.cur} :
              /\ s.files[f].len <= MaxSize + FooterLen
              /\ f \notin s.rotated => s.files[f].len <= MaxSize
      BY <2>1 DEF Call, Sized
    <2>5. MaxSize \in Nat /\ FooterLen \in Nat
      BY FileAssumed DEF FileAssumption
    <2>6. s.cur \in DOMAIN s.files
      BY <1>1 DEF Running
    <2>7. ASSUME NEW f \in DOMAIN u.files \ {u.cur}
          PROVE  /\ u.files[f].len <= MaxSize + FooterLen
                 /\ f \notin u.rotated => u.files[f].len <= MaxSize
      <3>1. CASE f = Name(t)
        BY <2>3, <2>5, <3>1
      <3>2. CASE f \in DOMAIN s.files
        BY <1>4, <1>5, <1>7, <2>4, <3>2
      <3> QED BY <1>7, <3>1, <3>2
    <2> QED BY <1>4, <1>7, <2>4, <2>6, <2>7 DEF Sized
  <1>12. OnTime(u)
    BY <1>2, <1>4, <1>5 DEF Call, OnTime
  <1>13. Later(s, u)
    <2>1. \A f \in s.rotated : u.files[f].len <= s.files[f].len
      BY <1>1, <1>7, Numbers DEF Ordered
    <2> QED BY <1>2, <1>4, <1>5, <1>7, <2>1 DEF Later
  <1> QED BY <1>3, <1>4, <1>5, <1>7, <1>8, <1>9, <1>10, <1>11, <1>12, <1>13 DEF Call

\* The manager goes to a file that is there; the one it leaves is synced.
LEMMA SwitchKeeps ==
    ASSUME NEW s, NEW owed \in Int, Call(s, owed, MaxSize + FooterLen), AllSynced(s),
           NEW name \in DOMAIN s.files, NEW len \in Nat,
           Dated => /\ name \notin s.rotated /\ name # s.cur
                    /\ \/ s.cur[1] < s.today
                       \/ s.cur[1] = name[1] /\ s.cur[2] < name[2]
                    /\ Fits => len = 0 /\ s.files[name].len = 0,
           NEW t, t = Switch(s, name, len)
    PROVE  /\ Call(t, owed, 0) /\ Later(s, t)
           /\ t.buff = s.buff /\ t.boundary = s.boundary
           /\ t.today = s.today /\ t.openedOn = t.today
  <1>1. Typed(s) /\ Running(s) /\ Ordered(s) /\ IsTable(s.files)
    BY DEF Call, Typed
  <1>2. /\ DOMAIN t = Fields
        /\ t.cur = name /\ t.len = len /\ t.openedOn = s.today
        /\ t.files = s.files /\ t.today = s.today /\ t.date = s.date /\ t.number = s.number
        /\ t.boundary = s.boundary /\ t.buff = s.buff
        /\ t.counters = s.counters /\ t.past = s.past /\ t.given = s.given
        /\ t.discarded = s.discarded /\ t.truncated = s.truncated
    BY <1>1 DEF Typed, Fields, Switch
  <1>3. /\ t.rotated = s.rotated \cup {s.cur} /\ t.mine = s.mine \cup {name}
        /\ t.closed = s.closed /\ t.badSync = s.badSync /\ t.badRotation = s.badRotation
    BY <1>1 DEF Typed, Fields, Switch
  <1>4. name \in Nat \X Nat /\ s.cur \in DOMAIN s.files
    BY <1>1 DEF IsTable, Running
  <1>5. Typed(t)
    <2>1. s.today \in Nat
      BY <1>1, Numbers
    <2> QED BY <1>1, <1>2, <1>4, <2>1 DEF Typed
  <1>6. Running(t) /\ Booked(t, owed)
    BY <1>1, <1>2, <1>3 DEF Call, Running, Booked
  <1>7. EarlierSynced(t)
    BY <1>2, <1>3 DEF AllSynced, EarlierSynced
  <1>8. Ordered(t)
    BY <1>1, <1>2, <1>3, <1>4 DEF Ordered
  <1>9. Sized(t, 0)
    <2>1. SUFFICES ASSUME Fits, ~s.badRotation PROVE Sized(t, 0)
      BY <1>3 DEF Sized
    <2>2. len = 0 /\ s.files[name].len = 0
      BY <2>1 DEF Fits
    <2>3. /\ s.len = s.files[s.cur].len /\ s.len <= MaxSize + FooterLen
          /\ \A f \in DOMAIN s.files \ {s.cur} :
              /\ s.files[f].len <= MaxSize + FooterLen
              /\ f \notin s.rotated => s.files[f].len <= MaxSize
      BY <2>1 DEF Call, Sized
    <2> QED BY <1>2, <1>3, <2>2, <2>3 DEF Sized
  <1>10. OnTime(t)
    BY <1>1, <1>2, <1>3, <1>5, Numbers DEF Call, OnTime
  <1>11. Later(s, t)
    <2>1. \A f \in s.rotated : t.files[f].len <= s.files[f].len
      BY <1>1, <1>2, Numbers DEF Ordered
    <2>2. s.today \in Nat
      BY <1>1, Numbers
    <2> QED BY <1>2, <1>3, <2>1, <2>2 DEF Later
  <1> QED BY <1>2, <1>5, <1>6, <1>7, <1>8, <1>9, <1>10, <1>11 DEF Call

\* Opening the next file, or failing to.
LEMMA GetNextFileKeeps ==
    ASSUME NEW s, NEW owed \in Int, Call(s, owed, MaxSize), NEW t \in GetNextFile(s)
    PROVE  /\ Call(t, owed, 0) /\ Later(s, t)
           /\ t.buff = s.buff /\ t.boundary = s.boundary
           /\ t.badRotation \/ t.openedOn = t.today
  <1>1. Typed(s) /\ Running(s) /\ Ordered(s)
    BY DEF Call
  <1>2. MaxSize \in Int /\ FooterLen \in Int
    BY FileAssumed DEF FileAssumption
  <1>3. PICK a \in NextName(s) : t \in Switched(a) \/ t \in NotSwitched(a)
    BY DEF GetNextFile
  <1>4. CASE t \in NotSwitched(a)
    <2>1. NameOnly(s, a) /\ a.today >= s.today /\ (~MidnightInCalls => a.today = s.today)
      BY <1>1, NextNameDoes
    <2>2. Typed(a)
      BY <2>1 DEF NameOnly
    <2> PICK one : t = [a EXCEPT !.badRotation = TRUE, !.faults = one]
      BY <1>4 DEF NotSwitched
    <2>3. /\ DOMAIN t = Fields
          /\ t.files = a.files /\ t.cur = a.cur /\ t.len = a.len /\ t.openedOn = a.openedOn
          /\ t.today = a.today /\ t.date = a.date /\ t.number = a.number
          /\ t.boundary = a.boundary /\ t.buff = a.buff
          /\ t.counters = a.counters /\ t.past = a.past /\ t.given = a.given
          /\ t.discarded = a.discarded /\ t.truncated = a.truncated
      BY <2>2 DEF Typed, Fields
    <2>4. /\ t.rotated = a.rotated /\ t.mine = a.mine
          /\ t.closed = a.closed /\ t.badSync = a.badSync /\ t.badRotation
      BY <2>2 DEF Typed, Fields
    <2>5. Typed(t)
      BY <2>2, <2>3 DEF Typed
    <2>6. Running(t) /\ EarlierSynced(t) /\ Booked(t, owed) /\ Sized(t, 0) /\ OnTime(t)
      BY <2>1, <2>3, <2>4, <1>1, Numbers
         DEF Call, Running, EarlierSynced, Booked, Sized, OnTime, NameOnly
    <2>7. Ordered(t)
      <3>1. CASE Dated
        <4>1. IsNew(s, a)
          BY <1>1, <3>1, NextNameIsNew
        <4>2. s.today \in Nat /\ a.today \in Nat /\ a.date \in Nat /\ a.number \in Nat
              /\ \A f \in DOMAIN s.files : f[1] \in Nat /\ f[2] \in Nat
          BY <1>1, <2>2, Numbers DEF Typed, IsTable
        <4>3. t.files = s.files /\ t.rotated = s.rotated
          BY <2>1, <2>3, <2>4 DEF NameOnly
        <4>4. \A f \in DOMAIN t.files : f[1] < t.date \/ (f[1] = t.date /\ f[2] <= t.number)
          BY <2>3, <4>1, <4>2, <4>3 DEF IsNew
        <4>5. ASSUME NEW f \in t.rotated
              PROVE  f[1] < t.today \/ \E g \in DOMAIN t.files : g[1] = f[1] /\ f[2] < g[2]
          <5>1. f \in DOMAIN s.files
                /\ (f[1] < s.today \/ \E g \in DOMAIN s.files : g[1] = f[1] /\ f[2] < g[2])
            BY <1>1, <4>3, <3>1 DEF Ordered
          <5> QED BY <2>1, <2>3, <4>2, <4>3, <5>1
        <4> QED BY <1>1, <2>3, <4>1, <4>3, <4>4, <4>5 DEF Ordered, IsNew
      <3>2. CASE ~Dated
        BY <1>1, <2>1, <2>3, <2>4, <3>2 DEF Ordered, NameOnly
      <3> QED BY <3>1, <3>2
    <2>8. Later(s, t)
      <3>1. \A f \in s.rotated : t.files[f].len <= s.files[f].len
        BY <1>1, <2>1, <2>3, Numbers DEF Ordered, NameOnly
      <3> QED BY <2>1, <2>3, <2>4, <3>1 DEF Later, NameOnly
    <2> QED BY <2>1, <2>3, <2>4, <2>5, <2>6, <2>7, <2>8 DEF Call, NameOnly
  <1>5. CASE t \in Switched(a)
    <2>1. PICK u : u = WithFile(a)
      OBVIOUS
    <2>2. PICK b \in Footer(u) : \E c \in Sync(b) :
                t = Switch(c, Name(a), LengthFound(a))
      BY <1>5, <2>1, Zenon DEF Switched
    <2>3. PICK c \in Sync(b) : t = Switch(c, Name(a), LengthFound(a))
      BY <2>2
    <2>4. /\ Call(u, owed, MaxSize) /\ Later(s, u)
          /\ a.files = s.files /\ u.files = Opened(s.files, Name(a))
          /\ Name(a) \in DOMAIN u.files
          /\ u.today = a.today /\ u.cur = s.cur /\ u.date = a.date /\ u.number = a.number
          /\ u.boundary = s.boundary /\ u.openedOn = s.openedOn /\ u.buff = s.buff
          /\ u.rotated = s.rotated /\ u.mine = s.mine
      BY <1>2, <2>1, OpenKeeps
    <2>5. /\ Call(b, owed, MaxSize + FooterLen) /\ Later(u, b)
          /\ DOMAIN b.files = DOMAIN u.files
          /\ \A f \in DOMAIN u.files \ {u.cur} : b.files[f] = u.files[f]
          /\ b.today = u.today /\ b.cur = u.cur /\ b.date = u.date /\ b.number = u.number
          /\ b.boundary = u.boundary /\ b.openedOn = u.openedOn /\ b.buff = u.buff
          /\ b.rotated = u.rotated /\ b.mine = u.mine
      BY <1>2, <2>4, FooterKeeps
    <2>6. PICK top \in Int : top = MaxSize + FooterLen
      BY <1>2
    <2>7. /\ Call(c, owed, top) /\ Later(b, c) /\ Unmoved(b, c) /\ AllSynced(c)
          /\ DOMAIN c.files = DOMAIN b.files
      BY <2>5, <2>6, SyncKeeps
    <2>8. Typed(u) /\ Typed(b) /\ Typed(c) /\ Ordered(u) /\ Ordered(b)
      BY <2>4, <2>5, <2>7 DEF Call
    <2>9. Later(s, c)
      BY <1>1, <2>4, <2>5, <2>7, <2>8, LaterTrans
    <2>10. PICK len : len = LengthFound(a)
      OBVIOUS
    <2>11. len = u.files[Name(a)].len /\ len \in Nat
      <3>1. WithFile(a) = u
        BY <2>1
      <3> QED BY <2>4, <2>8, <2>10, <3>1, Numbers DEF LengthFound
    <2>12. Name(a) \in DOMAIN c.files
      BY <2>4, <2>5, <2>7
    <2>13. Dated => /\ Name(a) \notin c.rotated /\ Name(a) # c.cur
                    /\ \/ c.cur[1] < c.today
                       \/ c.cur[1] = Name(a)[1] /\ c.cur[2] < Name(a)[2]
                    /\ Fits => len = 0 /\ c.files[Name(a)].len = 0
      <3>1. SUFFICES ASSUME Dated
                     PROVE  /\ Name(a) \notin c.rotated /\ Name(a) # c.cur
                            /\ \/ c.cur[1] < c.today
                               \/ c.cur[1] = Name(a)[1] /\ c.cur[2] < Name(a)[2]
                            /\ len = 0 /\ c.files[Name(a)].len = 0
        OBVIOUS
      <3>2. IsNew(s, a)
        BY <1>1, <3>1, NextNameIsNew
      <3>3. c.rotated = s.rotated /\ c.cur = s.cur /\ c.today = a.today
        BY <2>4, <2>5, <2>7 DEF Unmoved
      <3>4. s.cur \in DOMAIN s.files /\ s.rotated \subseteq DOMAIN s.files
        BY <1>1 DEF Running, Ordered
      <3>5. Name(a)[1] = a.date /\ Name(a)[2] = a.number
        BY <3>1 DEF Name
      <3>6. a.date \in Nat /\ a.today \in Nat /\ s.cur[1] \in Nat
        <4>1. Typed(a)
          BY <1>1, NextNameDoes DEF NameOnly
        <4> QED BY <1>1, <3>4, <4>1, Numbers DEF Typed, IsTable
      <3>7. u.files[Name(a)].len = 0
        <4>1. Name(a) \in Nat \X Nat
          BY <2>4, <2>8 DEF Typed, IsTable
        <4>2. IsTable(s.files) /\ Name(a) \notin DOMAIN s.files
          BY <1>1, <3>2 DEF IsNew, Typed
        <4>3. Opened(s.files, Name(a))[Name(a)] = [len |-> 0, synced |-> 0]
          BY <4>1, <4>2, OpenedIs
        <4> QED BY <2>4, <4>3
      <3>8. c.files[Name(a)].len = 0
        <4>1. Name(a) # u.cur
          BY <2>4, <3>2, <3>4 DEF IsNew
        <4>2. b.files[Name(a)] = u.files[Name(a)]
          BY <2>4, <2>5, <4>1
        <4>3. c.files[Name(a)].len = b.files[Name(a)].len
          BY <2>3, <2>4, <2>5, <2>8, SyncDoes DEF Call, Running, Flushed
        <4> QED BY <3>7, <4>2, <4>3
      <3> QED BY <2>11, <3>2, <3>3, <3>4, <3>5, <3>6, <3>7, <3>8 DEF IsNew
    <2>14. t = Switch(c, Name(a), len)
      BY <2>3, <2>10
    <2>15. /\ Call(t, owed, 0) /\ Later(c, t)
           /\ t.buff = c.buff /\ t.boundary = c.boundary
           /\ t.today = c.today /\ t.openedOn = t.today
      BY <2>6, <2>7, <2>11, <2>12, <2>13, <2>14, SwitchKeeps
    <2>16. Later(s, t)
      BY <1>1, <2>8, <2>9, <2>15, LaterTrans DEF Call
    <2> QED BY <2>4, <2>5, <2>7, <2>15, <2>16 DEF Unmoved
  <1> QED BY <1>3, <1>4, <1>5

----------------------------------------------------------------------------
(* Whole calls                                                                *)

\* A larger allowance allows more.
LEMMA SizedUpTo ==
    ASSUME NEW s, NEW owed, NEW a \in Int, NEW b \in Int, a <= b, Call(s, owed, a)
    PROVE  Call(s, owed, b)
  <1>1. Fits /\ ~s.badRotation => s.len <= b
    BY Numbers DEF Call, Sized
  <1> QED BY <1>1 DEF Call, Sized

\* A flush that may rotate by size.
LEMMA FlushRotatingBySizeKeeps ==
    ASSUME NEW s, NEW owed \in Int, Call(s, owed, MaxSize), s.buff < BufLen,
           NEW t \in FlushRotatingBySize(s)
    PROVE  Call(t, owed, MaxSize) /\ Later(s, t) /\ t.buff = 0
  <1>1. Typed(s) /\ s.buff \in Nat /\ s.len \in Nat /\ Ordered(s)
    BY DEF Call, Typed
  <1>2. MaxSize \in Nat /\ BufLen \in Nat /\ BufLen <= MaxSize
    BY FileAssumed DEF FileAssumption
  <1>3. PICK a \in IF s.len + s.buff > MaxSize THEN GetNextFile(s) ELSE {s} :
           t \in {[u EXCEPT !.buff = 0, !.sizeGauge = u.len] : u \in WriteFile(a, a.buff)}
    BY DEF FlushRotatingBySize
  <1>4. PICK u \in WriteFile(a, a.buff) : t = [u EXCEPT !.buff = 0, !.sizeGauge = u.len]
    BY <1>3
  <1>5. PICK top \in Int : /\ Call(a, owed, top) /\ top + s.buff <= MaxSize
                           /\ Later(s, a) /\ a.buff = s.buff
    <2>1. CASE s.len + s.buff > MaxSize
      <3>1. Call(a, owed, 0) /\ Later(s, a) /\ a.buff = s.buff
        BY <1>3, <2>1, GetNextFileKeeps
      <3>2. 0 + s.buff <= MaxSize
        BY <1>1, <1>2
      <3> QED BY <3>1, <3>2
    <2>2. CASE ~(s.len + s.buff > MaxSize)
      <3>1. a = s
        BY <1>3, <2>2
      <3>2. PICK top \in Int : top = MaxSize - s.buff
        BY <1>1, <1>2
      <3>3. s.len <= top /\ top + s.buff <= MaxSize
        BY <1>1, <1>2, <2>2, <3>2
      <3>4. Sized(s, top)
        BY <3>3 DEF Call, Sized
      <3>5. Later(s, s)
        BY <1>1, Numbers DEF Later, Ordered
      <3> QED BY <3>1, <3>3, <3>4, <3>5 DEF Call
    <2> QED BY <2>1, <2>2
  <1>6. Call(u, owed - s.buff, top + s.buff) /\ Later(a, u) /\ Unmoved(a, u)
    BY <1>1, <1>4, <1>5, WriteKeeps
  <1>7. PICK o \in Int : o = owed - s.buff
    BY <1>1
  <1>8. Call(u, o, MaxSize)
    <2>1. top + s.buff \in Int
      BY <1>1
    <2> QED BY <1>2, <1>5, <1>6, <1>7, <2>1, SizedUpTo
  <1>9. Typed(u) /\ u.buff = s.buff
    BY <1>5, <1>6 DEF Call, Unmoved
  <1>10. /\ DOMAIN t = Fields
         /\ t.files = u.files /\ t.cur = u.cur /\ t.len = u.len /\ t.openedOn = u.openedOn
         /\ t.today = u.today /\ t.date = u.date /\ t.number = u.number
         /\ t.boundary = u.boundary /\ t.buff = 0
         /\ t.counters = u.counters /\ t.past = u.past /\ t.given = u.given
         /\ t.discarded = u.discarded /\ t.truncated = u.truncated
    BY <1>4, <1>9 DEF Typed, Fields
  <1>11. /\ t.rotated = u.rotated /\ t.mine = u.mine
         /\ t.closed = u.closed /\ t.badSync = u.badSync /\ t.badRotation = u.badRotation
    BY <1>4, <1>9 DEF Typed, Fields
  <1>12. Typed(t)
    BY <1>9, <1>10 DEF Typed
  <1>13. Running(t) /\ EarlierSynced(t) /\ Ordered(t) /\ Sized(t, MaxSize) /\ OnTime(t)
    BY <1>8, <1>10, <1>11 DEF Call, Running, EarlierSynced, Ordered, Sized, OnTime
  <1>14. Booked(t, owed)
    <2>1. Booked(u, o)
      BY <1>8 DEF Call
    <2> QED BY <1>1, <1>7, <1>9, <1>10, <2>1, Numbers DEF Booked
  <1>15. Later(s, t)
    <2>1. Later(u, t)
      <3>1. \A f \in u.rotated : t.files[f].len <= u.files[f].len
        BY <1>8, <1>9, <1>10, Numbers DEF Ordered, Call
      <3>2. u.today \in Nat
        BY <1>9, Numbers
      <3> QED BY <1>10, <1>11, <3>1, <3>2 DEF Later
    <2>2. Typed(a) /\ Ordered(a)
      BY <1>5 DEF Call
    <2>3. Later(s, u)
      BY <1>1, <1>5, <1>6, <1>9, <2>2, LaterTrans
    <2> QED BY <1>1, <1>9, <1>12, <2>1, <2>3, LaterTrans
  <1> QED BY <1>10, <1>12, <1>13, <1>14, <1>15 DEF Call

\* The current file was opened today, where the clock tells what day it is.
Today(s) == Dated /\ ~MidnightInCalls /\ ~s.badRotation => s.openedOn = s.today

\* A rotation at the day boundary.
LEMMA RotateByDayKeeps ==
    ASSUME NEW s, NEW owed \in Int, Call(s, owed, MaxSize), NEW t \in RotateByDay(s)
    PROVE  Call(t, owed, MaxSize) /\ Later(s, t) /\ t.buff = s.buff /\ Today(t)
  <1>1. Typed(s) /\ Ordered(s)
    BY DEF Call
  <1>2. MaxSize \in Nat
    BY FileAssumed DEF FileAssumption
  <1>3. PICK a \in ReadClock(s) :
           t \in IF Dated /\ a.today >= a.boundary
                 THEN UNION {{[v EXCEPT !.boundary = v.today + 1] : v \in ReadClock(u)} :
                             u \in GetNextFile(a)}
                 ELSE {a}
    BY DEF RotateByDay
  <1>4. /\ Call(a, owed, MaxSize) /\ Later(s, a) /\ a.buff = s.buff
    BY <1>2, ReadClockKeeps
  <1>5. CASE ~(Dated /\ a.today >= a.boundary)
    <2>1. t = a
      BY <1>3, <1>5
    <2>2. Today(a)
      BY <1>4, <1>5, Numbers DEF Today, Call, OnTime
    <2> QED BY <1>4, <2>1, <2>2
  <1>6. CASE Dated /\ a.today >= a.boundary
    <2>1. PICK b \in GetNextFile(a) : \E c \in ReadClock(b) : t = [c EXCEPT !.boundary = c.today + 1]
      BY <1>3, <1>6
    <2>2. PICK c \in ReadClock(b) : t = [c EXCEPT !.boundary = c.today + 1]
      BY <2>1
    <2>3. /\ Call(b, owed, 0) /\ Later(a, b) /\ b.buff = a.buff
          /\ b.badRotation \/ b.openedOn = b.today
      BY <1>4, GetNextFileKeeps
    <2>4. Call(b, owed, MaxSize)
      BY <1>2, <2>3, SizedUpTo
    <2>5. /\ Call(c, owed, MaxSize) /\ Later(b, c)
          /\ c.buff = b.buff /\ c.openedOn = b.openedOn
          /\ ~MidnightInCalls => c = b
      BY <1>2, <2>4, ReadClockKeeps
    <2>6. Typed(a) /\ Typed(b) /\ Typed(c) /\ Ordered(a) /\ Ordered(b) /\ Ordered(c)
      BY <1>4, <2>3, <2>5 DEF Call
    <2>7. c.today \in Nat /\ c.openedOn \in Nat
      BY <2>6, Numbers
    <2>8. /\ DOMAIN t = Fields
          /\ t.files = c.files /\ t.cur = c.cur /\ t.len = c.len /\ t.openedOn = c.openedOn
          /\ t.today = c.today /\ t.date = c.date /\ t.number = c.number
          /\ t.boundary = c.today + 1 /\ t.buff = c.buff
          /\ t.counters = c.counters /\ t.past = c.past /\ t.given = c.given
          /\ t.discarded = c.discarded /\ t.truncated = c.truncated
      BY <2>2, <2>6 DEF Typed, Fields
    <2>9. /\ t.rotated = c.rotated /\ t.mine = c.mine
          /\ t.closed = c.closed /\ t.badSync = c.badSync /\ t.badRotation = c.badRotation
      BY <2>2, <2>6 DEF Typed, Fields
    <2>10. Typed(t)
      BY <2>6, <2>7, <2>8 DEF Typed
    <2>11. /\ Running(t) /\ EarlierSynced(t) /\ Ordered(t) /\ Sized(t, MaxSize)
           /\ Booked(t, owed)
      BY <2>5, <2>8, <2>9 DEF Call, Running, EarlierSynced, Ordered, Sized, Booked
    <2>12. Today(t)
      BY <2>3, <2>5, <2>8, <2>9 DEF Today
    <2>13. OnTime(t)
      BY <2>5, <2>7, <2>8, <2>9, <2>12 DEF OnTime, Today, Call
    <2>14. Later(c, t)
      <3>1. \A f \in c.rotated : t.files[f].len <= c.files[f].len
        BY <2>6, <2>8, Numbers DEF Ordered
      <3> QED BY <2>7, <2>8, <2>9, <3>1 DEF Later
    <2>15. Later(s, b)
      BY <1>1, <1>4, <2>3, <2>6, LaterTrans
    <2>16. Later(s, c)
      BY <1>1, <2>5, <2>6, <2>15, LaterTrans
    <2>17. Later(s, t)
      BY <1>1, <2>6, <2>10, <2>14, <2>16, LaterTrans
    <2> QED BY <1>4, <2>3, <2>5, <2>8, <2>10, <2>11, <2>12, <2>13, <2>17 DEF Call
  <1> QED BY <1>5, <1>6

\* A flush, which may rotate for either reason.
LEMMA FlushKeeps ==
    ASSUME NEW s, NEW owed \in Int, Call(s, owed, MaxSize), s.buff < BufLen, NEW t \in Flush(s)
    PROVE  Call(t, owed, MaxSize) /\ Later(s, t) /\ t.buff = 0 /\ Today(t)
  <1>1. PICK a \in FlushRotatingBySize(s) : t \in RotateByDay(a)
    BY DEF Flush
  <1>2. Call(a, owed, MaxSize) /\ Later(s, a) /\ a.buff = 0
    BY FlushRotatingBySizeKeeps
  <1>3. Call(t, owed, MaxSize) /\ Later(a, t) /\ t.buff = a.buff /\ Today(t)
    BY <1>1, <1>2, RotateByDayKeeps
  <1> QED BY <1>2, <1>3, LaterTrans DEF Call

\* A message is handed over, and it is copied into the buffer.
LEMMA GivenKeeps ==
    ASSUME NEW s, Call(s, 0, MaxSize), NEW n \in Nat, NEW t, t = [s EXCEPT !.given = @ + n]
    PROVE  Call(t, n, MaxSize) /\ Later(s, t) /\ t.buff = s.buff
  <1>1. Typed(s) /\ Ordered(s)
    BY DEF Call
  <1>2. /\ DOMAIN t = Fields
        /\ t.files = s.files /\ t.cur = s.cur /\ t.len = s.len /\ t.openedOn = s.openedOn
        /\ t.today = s.today /\ t.date = s.date /\ t.number = s.number
        /\ t.boundary = s.boundary /\ t.buff = s.buff
        /\ t.counters = s.counters /\ t.past = s.past /\ t.given = s.given + n
        /\ t.discarded = s.discarded /\ t.truncated = s.truncated
    BY <1>1 DEF Typed, Fields
  <1>3. /\ t.rotated = s.rotated /\ t.mine = s.mine
        /\ t.closed = s.closed /\ t.badSync = s.badSync /\ t.badRotation = s.badRotation
    BY <1>1 DEF Typed, Fields
  <1>4. Typed(t)
    BY <1>1, <1>2 DEF Typed
  <1>5. Running(t) /\ EarlierSynced(t) /\ Ordered(t) /\ Sized(t, MaxSize) /\ OnTime(t)
    BY <1>2, <1>3 DEF Call, Running, EarlierSynced, Ordered, Sized, OnTime
  <1>6. Booked(t, n)
    <2>1. Booked(s, 0)
      BY DEF Call
    <2> QED BY <1>1, <1>2, <2>1, Numbers DEF Booked
  <1>7. Later(s, t)
    <2>1. \A f \in s.rotated : t.files[f].len <= s.files[f].len
      BY <1>1, <1>2, Numbers DEF Ordered
    <2>2. s.today \in Nat
      BY <1>1, Numbers
    <2> QED BY <1>2, <1>3, <2>1, <2>2 DEF Later
  <1> QED BY <1>2, <1>4, <1>5, <1>6, <1>7 DEF Call

\* A message that goes to the buffer is given and held.
LEMMA BufferedKeeps ==
    ASSUME NEW s, NEW n \in Nat, Call(s, n, MaxSize), NEW t, t = [s EXCEPT !.buff = @ + n]
    PROVE  Call(t, 0, MaxSize) /\ Later(s, t) /\ t.buff = s.buff + n
  <1>1. Typed(s) /\ Ordered(s)
    BY DEF Call
  <1>2. /\ DOMAIN t = Fields
        /\ t.files = s.files /\ t.cur = s.cur /\ t.len = s.len /\ t.openedOn = s.openedOn
        /\ t.today = s.today /\ t.date = s.date /\ t.number = s.number
        /\ t.boundary = s.boundary /\ t.buff = s.buff + n
        /\ t.counters = s.counters /\ t.past = s.past /\ t.given = s.given
        /\ t.discarded = s.discarded /\ t.truncated = s.truncated
    BY <1>1 DEF Typed, Fields
  <1>3. /\ t.rotated = s.rotated /\ t.mine = s.mine
        /\ t.closed = s.closed /\ t.badSync = s.badSync /\ t.badRotation = s.badRotation
    BY <1>1 DEF Typed, Fields
  <1>4. Typed(t)
    BY <1>1, <1>2 DEF Typed
  <1>5. Running(t) /\ EarlierSynced(t) /\ Ordered(t) /\ Sized(t, MaxSize) /\ OnTime(t)
    BY <1>2, <1>3 DEF Call, Running, EarlierSynced, Ordered, Sized, OnTime
  <1>6. Booked(t, 0)
    <2>1. Booked(s, n)
      BY DEF Call
    <2> QED BY <1>1, <1>2, <2>1, Numbers DEF Booked
  <1>7. Later(s, t)
    <2>1. \A f \in s.rotated : t.files[f].len <= s.files[f].len
      BY <1>1, <1>2, Numbers DEF Ordered
    <2>2. s.today \in Nat
      BY <1>1, Numbers
    <2> QED BY <1>2, <1>3, <2>1, <2>2 DEF Later
  <1> QED BY <1>2, <1>4, <1>5, <1>6, <1>7 DEF Call

\* An fsync at the end of a call.
LEMMA SyncEnds ==
    ASSUME NEW s, Call(s, 0, MaxSize), s.buff = 0, Today(s), NEW t \in Sync(s)
    PROVE  Call(t, 0, MaxSize) /\ Later(s, t) /\ t.buff = 0 /\ Today(t) /\ AllSynced(t)
  <1>1. MaxSize \in Int
    BY FileAssumed DEF FileAssumption
  <1>2. Call(t, 0, MaxSize) /\ Later(s, t) /\ Unmoved(s, t) /\ AllSynced(t)
    BY <1>1, SyncKeeps
  <1> QED BY <1>2 DEF Unmoved, Today

\* A whole write_message.
LEMMA WriteMessageKeeps ==
    ASSUME NEW s, Call(s, 0, MaxSize), s.buff < BufLen, NEW n \in Lengths,
           NEW mustSync \in BOOLEAN, NEW t \in WriteMessage(s, n, mustSync)
    PROVE  /\ Call(t, 0, MaxSize) /\ Later(s, t) /\ t.buff < BufLen
           /\ mustSync => t.buff = 0 /\ AllSynced(t) /\ Today(t)
  <1>1. /\ BufLen \in Nat \ {0} /\ MaxSize \in Nat /\ n \in Nat
    BY FileAssumed DEF FileAssumption
  <1>2. Typed(s) /\ s.buff \in Nat /\ Ordered(s)
    BY DEF Call, Typed
  <1>3. PICK g : g = [s EXCEPT !.given = @ + n]
    OBVIOUS
  <1>4. Call(g, n, MaxSize) /\ Later(s, g) /\ g.buff = s.buff
    BY <1>1, <1>3, GivenKeeps
  <1>5. Typed(g) /\ Ordered(g)
    BY <1>4 DEF Call
  <1>6. CASE n >= BufLen
    <2>1. ~Fits
      BY <1>1, <1>6 DEF Fits
    <2>2. t \in UNION {UNION {IF mustSync THEN Sync(v) ELSE {v} : v \in WriteFile(u, n)} :
                       u \in Flush(g)}
      BY <1>3, <1>6 DEF WriteMessage
    <2>3. PICK u \in Flush(g) :
             t \in UNION {IF mustSync THEN Sync(v) ELSE {v} : v \in WriteFile(u, n)}
      BY <2>2
    <2>4. PICK v \in WriteFile(u, n) : t \in IF mustSync THEN Sync(v) ELSE {v}
      BY <2>3
    <2>5. Call(u, n, MaxSize) /\ Later(g, u) /\ u.buff = 0 /\ Today(u)
      BY <1>1, <1>4, FlushKeeps
    <2>6. Call(v, n - n, MaxSize + n) /\ Later(u, v) /\ Unmoved(u, v)
      BY <1>1, <2>4, <2>5, WriteKeeps
    <2>7. Call(v, 0, MaxSize)
      <3>1. n - n = 0
        BY <1>1
      <3>2. Sized(v, MaxSize)
        BY <2>1 DEF Sized
      <3> QED BY <2>6, <3>1, <3>2 DEF Call
    <2>8. v.buff = 0 /\ Today(v)
      BY <2>5, <2>6 DEF Unmoved, Today
    <2>9. Typed(u) /\ Typed(v) /\ Ordered(u) /\ Ordered(v)
      BY <2>5, <2>7 DEF Call
    <2>10. Later(s, u)
      BY <1>2, <1>4, <1>5, <2>5, <2>9, LaterTrans
    <2>11. Later(s, v)
      BY <1>2, <2>6, <2>9, <2>10, LaterTrans
    <2>12. CASE mustSync
      <3>1. Call(t, 0, MaxSize) /\ Later(v, t) /\ t.buff = 0 /\ Today(t) /\ AllSynced(t)
        BY <2>4, <2>7, <2>8, <2>12, SyncEnds
      <3>2. Later(s, t)
        BY <1>2, <2>9, <2>11, <3>1, LaterTrans DEF Call
      <3> QED BY <1>1, <3>1, <3>2
    <2>13. CASE ~mustSync
      BY <1>1, <2>4, <2>7, <2>8, <2>11, <2>13
    <2> QED BY <2>12, <2>13
  <1>7. CASE ~(n >= BufLen)
    <2> DEFINE full == g.buff + n >= BufLen
               in   == {[u EXCEPT !.buff = @ + n] : u \in IF full THEN Flush(g) ELSE {g}}
    <2>1. t \in IF mustSync THEN UNION {UNION {Sync(v) : v \in Flush(u)} : u \in in} ELSE in
      BY <1>3, <1>7 DEF WriteMessage
    <2>2. ASSUME NEW b \in in
          PROVE  Call(b, 0, MaxSize) /\ Later(s, b) /\ b.buff < BufLen
      <3>1. PICK u \in IF full THEN Flush(g) ELSE {g} : b = [u EXCEPT !.buff = @ + n]
        OBVIOUS
      <3>2. Call(u, n, MaxSize) /\ Later(s, u) /\ u.buff + n < BufLen /\ u.buff \in Nat
        <4>1. CASE full
          <5>1. Call(u, n, MaxSize) /\ Later(g, u) /\ u.buff = 0
            BY <1>1, <1>4, <3>1, <4>1, FlushKeeps
          <5>2. Later(s, u)
            BY <1>2, <1>4, <1>5, <5>1, LaterTrans DEF Call
          <5> QED BY <1>1, <1>7, <5>1, <5>2
        <4>2. CASE ~full
          BY <1>1, <1>2, <1>4, <3>1, <4>2
        <4> QED BY <4>1, <4>2
      <3>3. Call(b, 0, MaxSize) /\ Later(u, b) /\ b.buff = u.buff + n
        BY <1>1, <3>1, <3>2, BufferedKeeps
      <3>4. Later(s, b)
        BY <1>2, <3>2, <3>3, LaterTrans DEF Call
      <3> QED BY <3>2, <3>3, <3>4
    <2> HIDE DEF in
    <2>3. CASE ~mustSync
      BY <2>1, <2>2, <2>3
    <2>4. CASE mustSync
      <3>1. PICK b \in in : t \in UNION {Sync(v) : v \in Flush(b)}
        BY <2>1, <2>4
      <3>2. PICK v \in Flush(b) : t \in Sync(v)
        BY <3>1
      <3>3. Call(b, 0, MaxSize) /\ Later(s, b) /\ b.buff < BufLen
        BY <2>2
      <3>4. Call(v, 0, MaxSize) /\ Later(b, v) /\ v.buff = 0 /\ Today(v)
        BY <3>2, <3>3, FlushKeeps
      <3>5. Call(t, 0, MaxSize) /\ Later(v, t) /\ t.buff = 0 /\ Today(t) /\ AllSynced(t)
        BY <3>2, <3>4, SyncEnds
      <3>6. Later(s, v)
        BY <1>2, <3>3, <3>4, LaterTrans DEF Call
      <3>7. Later(s, t)
        BY <1>2, <3>4, <3>5, <3>6, LaterTrans DEF Call
      <3> QED BY <1>1, <3>5, <3>7
    <2> QED BY <2>3, <2>4
  <1> QED BY <1>6, <1>7

----------------------------------------------------------------------------
(* The inductive invariant                                                    *)

\* Nothing runs: the buffer is gone, and no file is too long.
AtRest(s) ==
    /\ s.buff = 0
    /\ Fits /\ ~s.badRotation =>
        \A f \in DOMAIN s.files :
            /\ s.files[f].len <= MaxSize + FooterLen
            /\ f \notin s.rotated => s.files[f].len <= MaxSize

FileInv ==
    /\ up \in BOOLEAN
    /\ Typed(m) /\ Booked(m, 0) /\ Ordered(m) /\ m.buff < BufLen
    /\ up => Running(m) /\ EarlierSynced(m) /\ Sized(m, MaxSize) /\ OnTime(m)
    /\ ~up => AtRest(m)

\* Between calls of a running process, what holds at rest,
LEMMA UpIsCall ==
    ASSUME FileInv, up PROVE Call(m, 0, MaxSize) /\ m.buff < BufLen
  BY DEF FileInv, Call

\* and back.
LEMMA CallIsUp ==
    ASSUME up' = TRUE, Call(m', 0, MaxSize), m'.buff < BufLen PROVE FileInv'
  BY DEF FileInv, Call

\* Before the first process there is nothing.
LEMMA FileInitInv == Init => FileInv
  <1> SUFFICES ASSUME Init PROVE FileInv
    OBVIOUS
  <1>1. /\ MaxSize \in Nat /\ BufLen \in Nat \ {0} /\ MaxDay \in Nat \ {0}
    BY FileAssumed DEF FileAssumption
  <1>2. /\ DOMAIN m = Fields /\ m.files = << >> /\ m.rotated = {}
        /\ m.cur = <<0, 0>> /\ m.len = 0 /\ m.openedOn = 0
        /\ m.today = 1 /\ m.date = 0 /\ m.number = 0 /\ m.boundary = 0 /\ m.buff = 0
        /\ m.counters = NoBytes /\ m.past = NoBytes /\ m.given = 0
        /\ m.discarded = 0 /\ m.truncated = 0
    BY DEF Init, Fields
  <1>3. IsTable(m.files) /\ OnDisk(m.files) = 0 /\ DOMAIN m.files = {}
    BY <1>2, NoFiles
  <1>4. IsBytes(m.counters) /\ IsBytes(m.past) /\ m.counters.bytes = 0 /\ m.counters.lost = 0
        /\ m.past.bytes = 0 /\ m.past.lost = 0
    BY <1>2 DEF NoBytes, IsBytes
  <1>5. Typed(m)
    BY <1>1, <1>2, <1>3, <1>4 DEF Typed
  <1>6. Booked(m, 0)
    BY <1>2, <1>3, <1>4 DEF Booked
  <1>7. Ordered(m)
    BY <1>2, <1>3 DEF Ordered
  <1>8. AtRest(m)
    BY <1>2, <1>3 DEF AtRest
  <1>9. up = FALSE
    BY DEF Init
  <1>10. m.buff < BufLen
    BY <1>1, <1>2
  <1> QED BY <1>5, <1>6, <1>7, <1>8, <1>9, <1>10, Zenon DEF FileInv

\* The number found is the last of its folder.
LEMMA FoundIs ==
    ASSUME NEW F, IsTable(F), NEW day \in Nat, NEW n, n = LargestOr0(NumbersOf(F, day))
    PROVE  /\ n \in Nat
           /\ \A f \in DOMAIN F : f[1] = day => f[2] <= n /\ \E g \in DOMAIN F : g = <<day, n>>
  <1> DEFINE S == NumbersOf(F, day)
  <1>1. \A f \in DOMAIN F : f[1] \in Nat /\ f[2] \in Nat /\ f = <<f[1], f[2]>>
    BY DEF IsTable
  <1>2. \A x : x \in S <=> \E f \in DOMAIN F : f[1] = day /\ x = f[2]
    BY DEF NumbersOf
  <1> HIDE DEF S
  <1>3. CASE S = {}
    <2>1. n = 0
      BY <1>3 DEF LargestOr0, S
    <2>2. \A f \in DOMAIN F : f[1] # day
      BY <1>2, <1>3
    <2> QED BY <2>1, <2>2
  <1>4. CASE S # {}
    <2>1. PICK f \in DOMAIN F : f[1] = day
      BY <1>2, <1>4
    <2>2. HasLast(F, f[1])
      BY DEF IsTable
    <2>3. PICK g \in DOMAIN F : g[1] = day /\ \A h \in DOMAIN F : h[1] = day => h[2] <= g[2]
      BY <2>1, <2>2 DEF HasLast
    <2>4. g[2] \in S /\ \A y \in S : y <= g[2]
      BY <1>2, <2>3
    <2>5. n \in S /\ \A y \in S : y <= n
      <3>1. n = CHOOSE x \in S : \A y \in S : y <= x
        BY <1>4 DEF LargestOr0, S
      <3> QED BY <2>4, <3>1
    <2>6. PICK h \in DOMAIN F : h[1] = day /\ n = h[2]
      BY <1>2, <2>5
    <2>7. h = <<day, n>> /\ n \in Nat
      BY <1>1, <2>6
    <2>8. \A e \in DOMAIN F : e[1] = day => e[2] <= n
      BY <1>2, <2>5
    <2> QED BY <2>6, <2>7, <2>8
  <1> QED BY <1>3, <1>4

\* A new process finds what the earlier ones left.
LEMMA StartKeeps == ASSUME FileInv, Start PROVE FileInv' /\ (Dated => RotatedStep)
  <1>1. Typed(m) /\ Booked(m, 0) /\ Ordered(m) /\ AtRest(m) /\ IsTable(m.files)
    BY DEF FileInv, Start, Typed
  <1>2. MaxSize \in Nat /\ BufLen \in Nat \ {0} /\ FooterLen \in Nat
    BY FileAssumed DEF FileAssumption
  <1>3. PICK s \in ReadClock(m) : \E t \in ReadClock(s) : \E u \in ReadClock(t) :
         LET g     == [u EXCEPT !.date = t.today, !.number = FindMaxUsedNumber(s)]
             files == Opened(m.files, Name(g))
         IN  m' = [g EXCEPT !.files = files, !.cur = Name(g), !.len = files[Name(g)].len,
                            !.streak = 0, !.boundary = u.today + 1,
                            !.buff = 0, !.closed = FALSE,
                            !.mine = {Name(g)}, !.badSync = FALSE,
                            !.openedOn = u.today]
    BY DEF Start
  <1>4. PICK t \in ReadClock(s) : \E u \in ReadClock(t) :
         LET g     == [u EXCEPT !.date = t.today, !.number = FindMaxUsedNumber(s)]
             files == Opened(m.files, Name(g))
         IN  m' = [g EXCEPT !.files = files, !.cur = Name(g), !.len = files[Name(g)].len,
                            !.streak = 0, !.boundary = u.today + 1,
                            !.buff = 0, !.closed = FALSE,
                            !.mine = {Name(g)}, !.badSync = FALSE,
                            !.openedOn = u.today]
    BY <1>3
  <1>5. PICK u \in ReadClock(t) :
         LET g     == [u EXCEPT !.date = t.today, !.number = FindMaxUsedNumber(s)]
             files == Opened(m.files, Name(g))
         IN  m' = [g EXCEPT !.files = files, !.cur = Name(g), !.len = files[Name(g)].len,
                            !.streak = 0, !.boundary = u.today + 1,
                            !.buff = 0, !.closed = FALSE,
                            !.mine = {Name(g)}, !.badSync = FALSE,
                            !.openedOn = u.today]
    BY <1>4
  <1>6. PICK g : g = [u EXCEPT !.date = t.today, !.number = FindMaxUsedNumber(s)]
    OBVIOUS
  <1>7. PICK name : name = Name(g)
    OBVIOUS
  <1>8. PICK G : G = Opened(m.files, name)
    OBVIOUS
  <1>9. m' = [g EXCEPT !.files = G, !.cur = name, !.len = G[name].len,
                       !.streak = 0, !.boundary = u.today + 1,
                       !.buff = 0, !.closed = FALSE, !.mine = {name}, !.badSync = FALSE,
                       !.openedOn = u.today]
    BY <1>5, <1>6, <1>7, <1>8
  <1>10. /\ NameOnly(m, s) /\ s.today >= m.today
         /\ NameOnly(s, t) /\ t.today >= s.today
         /\ NameOnly(t, u) /\ u.today >= t.today
    <2>1. NameOnly(m, s) /\ s.today >= m.today
      BY <1>1, ReadClockDoes
    <2>2. NameOnly(s, t) /\ t.today >= s.today
      BY <2>1, ReadClockDoes DEF NameOnly
    <2>3. NameOnly(t, u) /\ u.today >= t.today
      BY <2>2, ReadClockDoes DEF NameOnly
    <2> QED BY <2>1, <2>2, <2>3
  <1>11. Typed(s) /\ Typed(t) /\ Typed(u)
    BY <1>10 DEF NameOnly
  <1>12. m.today \in Nat /\ s.today \in Nat /\ t.today \in Nat /\ u.today \in Nat /\ m.date \in Nat
    BY <1>1, <1>11, Numbers
  <1>13. PICK folder \in Nat : folder = IF Dated THEN s.today ELSE 0
    BY <1>12
  <1>14. PICK number : number = FindMaxUsedNumber(s)
    OBVIOUS
  <1>15. s.files = m.files /\ u.files = m.files /\ u.rotated = m.rotated
         /\ u.badRotation = m.badRotation
    BY <1>10 DEF NameOnly
  <1>16. /\ number \in Nat
         /\ \A f \in DOMAIN m.files : f[1] = folder =>
               f[2] <= number /\ \E h \in DOMAIN m.files : h = <<folder, number>>
    BY <1>1, <1>13, <1>14, <1>15, FoundIs DEF FindMaxUsedNumber
  <1>17. /\ DOMAIN g = Fields /\ g.date = t.today /\ g.number = number /\ g.today = u.today
         /\ g.counters = u.counters /\ g.past = u.past /\ g.given = u.given
         /\ g.discarded = u.discarded /\ g.truncated = u.truncated
    BY <1>6, <1>11, <1>14 DEF Typed, Fields
  <1>18. g.rotated = u.rotated /\ g.badRotation = u.badRotation
    BY <1>6, <1>11 DEF Typed, Fields
  <1>19. name = <<IF Dated THEN t.today ELSE 0, number>> /\ name \in Nat \X Nat
    BY <1>7, <1>12, <1>16, <1>17 DEF Name
  <1>20. /\ IsTable(G) /\ OnDisk(G) = OnDisk(m.files)
         /\ DOMAIN G = DOMAIN m.files \cup {name}
         /\ \A f \in DOMAIN m.files : G[f] = m.files[f]
         /\ name \notin DOMAIN m.files => G[name] = [len |-> 0, synced |-> 0]
    BY <1>1, <1>8, <1>19, OpenedIs
  <1>21. G[name].len \in Nat
    BY <1>20 DEF IsTable
  <1>22. /\ DOMAIN m' = Fields /\ m'.files = G /\ m'.cur = name /\ m'.len = G[name].len
         /\ m'.today = u.today /\ m'.date = t.today /\ m'.number = number
         /\ m'.boundary = u.today + 1 /\ m'.openedOn = u.today /\ m'.buff = 0
         /\ m'.counters = m.counters /\ m'.past = m.past /\ m'.given = m.given
         /\ m'.discarded = m.discarded /\ m'.truncated = m.truncated
    <2>1. /\ DOMAIN m' = Fields /\ m'.files = G /\ m'.cur = name /\ m'.len = G[name].len
          /\ m'.today = u.today /\ m'.date = t.today /\ m'.number = number
          /\ m'.boundary = u.today + 1 /\ m'.openedOn = u.today /\ m'.buff = 0
      BY <1>9, <1>17 DEF Fields
    <2>2. /\ m'.counters = g.counters /\ m'.past = g.past /\ m'.given = g.given
          /\ m'.discarded = g.discarded /\ m'.truncated = g.truncated
      BY <1>9, <1>17 DEF Fields
    <2>3. /\ u.counters = m.counters /\ u.past = m.past /\ u.given = m.given
          /\ u.discarded = m.discarded /\ u.truncated = m.truncated
      BY <1>10 DEF NameOnly
    <2> QED BY <1>17, <2>1, <2>2, <2>3
  <1>23. /\ m'.rotated = m.rotated /\ m'.mine = {name} /\ m'.badRotation = m.badRotation
         /\ m'.badSync = FALSE /\ m'.closed = FALSE
    BY <1>9, <1>15, <1>17, <1>18 DEF Fields
  <1>24. Typed(m')
    BY <1>1, <1>11, <1>12, <1>16, <1>19, <1>20, <1>21, <1>22 DEF Typed
  <1>25. Booked(m', 0)
    <2>1. m.buff = 0
      BY <1>1 DEF AtRest
    <2> QED BY <1>1, <1>20, <1>22, <2>1 DEF Booked
  <1>26. ASSUME Dated PROVE name \notin m.rotated
    <2>1. CASE name \notin DOMAIN m.files
      BY <1>1, <2>1 DEF Ordered
    <2>2. CASE name \in DOMAIN m.files
      <3>1. name[1] = t.today /\ name[2] = number
        BY <1>19, <1>26
      <3>2. t.today = m.today /\ s.today = m.today
        BY <1>1, <1>10, <1>12, <1>26, <2>2, <3>1 DEF Ordered
      <3>3. \A f \in DOMAIN m.files : f[1] = name[1] => f[2] <= name[2]
        BY <1>13, <1>16, <1>26, <3>1, <3>2
      <3>4. \A f \in DOMAIN m.files : f[2] \in Nat
        BY <1>1 DEF IsTable
      <3>5. name \in m.rotated =>
              name[1] < m.today \/ \E h \in DOMAIN m.files : h[1] = name[1] /\ name[2] < h[2]
        BY <1>1, <1>26 DEF Ordered
      <3> QED BY <1>12, <1>16, <3>1, <3>2, <3>3, <3>4, <3>5
    <2> QED BY <2>1, <2>2
  <1>27. Running(m') /\ EarlierSynced(m')
    BY <1>20, <1>22, <1>23, <1>26 DEF Running, EarlierSynced
  <1>28. Ordered(m')
    <2>1. m'.rotated \subseteq DOMAIN m'.files
      BY <1>1, <1>20, <1>22, <1>23 DEF Ordered
    <2>2. SUFFICES ASSUME Dated
                   PROVE  /\ m'.date <= m'.today
                          /\ \A f \in DOMAIN m'.files :
                                f[1] < m'.date \/ (f[1] = m'.date /\ f[2] <= m'.number)
                          /\ \A f \in m'.rotated :
                                f[1] < m'.today
                                \/ \E h \in DOMAIN m'.files : h[1] = f[1] /\ f[2] < h[2]
      BY <2>1 DEF Ordered
    <2>3. \A f \in DOMAIN m.files : f[1] \in Nat /\ f[2] \in Nat
      BY <1>1 DEF IsTable
    <2>4. ASSUME NEW f \in DOMAIN m'.files
          PROVE  f[1] < m'.date \/ (f[1] = m'.date /\ f[2] <= m'.number)
      <3>1. CASE f = name
        BY <1>12, <1>16, <1>19, <1>22, <2>2, <3>1
      <3>2. CASE f \in DOMAIN m.files
        <4>1. f[1] <= m.date /\ m.date <= m.today
          BY <1>1, <1>12, <2>2, <2>3, <3>2 DEF Ordered
        <4>2. f[1] = t.today => s.today = t.today
          BY <1>10, <1>12, <2>3, <3>2, <4>1
        <4>3. f[1] = t.today => f[2] <= number
          BY <1>13, <1>16, <2>2, <3>2, <4>2
        <4> QED BY <1>10, <1>12, <1>22, <2>3, <3>2, <4>1, <4>3
      <3> QED BY <1>20, <1>22, <3>1, <3>2
    <2>5. ASSUME NEW f \in m'.rotated
          PROVE  f[1] < m'.today \/ \E h \in DOMAIN m'.files : h[1] = f[1] /\ f[2] < h[2]
      <3>1. /\ f \in DOMAIN m.files
            /\ f[1] < m.today \/ \E h \in DOMAIN m.files : h[1] = f[1] /\ f[2] < h[2]
        BY <1>1, <1>23, <2>2 DEF Ordered
      <3> QED BY <1>10, <1>12, <1>20, <1>22, <2>3, <3>1
    <2> QED BY <1>10, <1>12, <1>22, <2>4, <2>5
  <1>29. Sized(m', MaxSize)
    <2>1. SUFFICES ASSUME Fits, ~m.badRotation PROVE Sized(m', MaxSize)
      BY <1>23 DEF Sized
    <2>2. \A f \in DOMAIN m.files :
            /\ m.files[f].len <= MaxSize + FooterLen
            /\ f \notin m.rotated => m.files[f].len <= MaxSize
      BY <1>1, <2>1 DEF AtRest
    <2>3. G[name].len <= MaxSize
      <3>1. CASE name \in DOMAIN m.files
        BY <1>20, <1>26, <2>1, <2>2, <3>1 DEF Fits
      <3>2. CASE name \notin DOMAIN m.files
        BY <1>2, <1>20, <3>2
      <3> QED BY <3>1, <3>2
    <2> QED BY <1>20, <1>22, <1>23, <2>2, <2>3 DEF Sized
  <1>30. OnTime(m')
    BY <1>12, <1>22 DEF OnTime
  <1>31. FileInv'
    <2>1. up' = TRUE
      BY DEF Start
    <2>2. Call(m', 0, MaxSize)
      BY <1>24, <1>25, <1>27, <1>28, <1>29, <1>30 DEF Call
    <2> QED BY <1>2, <1>22, <2>1, <2>2, CallIsUp
  <1>32. Dated => RotatedStep
    BY <1>1, <1>20, <1>22, Numbers DEF RotatedStep, Ordered
  <1> QED BY <1>31, <1>32

\* A process ends.
LEMMA DeadIs ==
    ASSUME NEW s, Typed(s), Booked(s, 0), Ordered(s), NEW t, t = Dead(s)
    PROVE  /\ Typed(t) /\ Booked(t, 0) /\ Ordered(t) /\ t.buff = 0
           /\ t.files = s.files /\ t.rotated = s.rotated /\ t.badRotation = s.badRotation
           /\ t.truncated = s.truncated
  <1>1. /\ DOMAIN t = Fields /\ t.files = s.files /\ t.cur = s.cur /\ t.len = s.len
        /\ t.today = s.today /\ t.date = s.date /\ t.number = s.number
        /\ t.boundary = s.boundary /\ t.openedOn = s.openedOn /\ t.buff = 0
        /\ t.counters = NoBytes /\ t.past = Plus(s.past, s.counters) /\ t.given = s.given
        /\ t.discarded = s.discarded + s.buff /\ t.truncated = s.truncated
    BY DEF Dead, Typed, Fields
  <1>2. t.rotated = s.rotated /\ t.badRotation = s.badRotation
    BY DEF Dead, Typed, Fields
  <1>3. /\ IsBytes(t.past) /\ IsBytes(t.counters)
        /\ t.past.bytes = s.past.bytes + s.counters.bytes
        /\ t.past.lost = s.past.lost + s.counters.lost
        /\ t.counters.bytes = 0 /\ t.counters.lost = 0
    BY <1>1 DEF Plus, NoBytes, IsBytes, Typed
  <1>4. Typed(t)
    BY <1>1, <1>3 DEF Typed
  <1>5. Booked(t, 0)
    BY <1>1, <1>3, Numbers DEF Booked
  <1>6. Ordered(t)
    BY <1>1, <1>2 DEF Ordered
  <1> QED BY <1>1, <1>2, <1>4, <1>5, <1>6

\* Between calls no file is too long.
LEMMA SizesBetweenCalls ==
    ASSUME FileInv, up, Fits, ~m.badRotation
    PROVE  \A f \in DOMAIN m.files :
              /\ m.files[f].len <= MaxSize + FooterLen
              /\ f \notin m.rotated => m.files[f].len <= MaxSize
  <1>1. MaxSize \in Nat /\ FooterLen \in Nat
    BY FileAssumed DEF FileAssumption
  <1>2. /\ m.len = m.files[m.cur].len /\ m.len <= MaxSize
        /\ \A f \in DOMAIN m.files \ {m.cur} :
              /\ m.files[f].len <= MaxSize + FooterLen
              /\ f \notin m.rotated => m.files[f].len <= MaxSize
    BY DEF FileInv, Sized
  <1>3. m.len \in Nat
    BY DEF FileInv, Typed
  <1>4. m.files[m.cur].len <= MaxSize + FooterLen /\ m.files[m.cur].len <= MaxSize
    BY <1>1, <1>2, <1>3
  <1> QED BY <1>2, <1>4

\* After a process only its files count.
LEMMA DownIs ==
    ASSUME up' = FALSE, Typed(m'), Booked(m', 0), Ordered(m'), AtRest(m')
    PROVE  FileInv'
  <1>1. BufLen \in Nat \ {0}
    BY FileAssumed DEF FileAssumption
  <1>2. m'.buff < BufLen
    BY <1>1 DEF AtRest
  <1>3. AtRest(m)' /\ Typed(m)' /\ Booked(m, 0)' /\ Ordered(m)'
    BY DEF AtRest
  <1> QED BY <1>2, <1>3, Zenon DEF FileInv

\* A kill loses the buffer.
LEMMA KilledKeeps ==
    ASSUME FileInv, up, up' = FALSE, m' = Dead(m) PROVE FileInv' /\ RotatedStep
  <1>1. Typed(m) /\ Booked(m, 0) /\ Ordered(m)
    BY DEF FileInv
  <1>2. /\ Typed(m') /\ Booked(m', 0) /\ Ordered(m') /\ m'.buff = 0
        /\ m'.files = m.files /\ m'.rotated = m.rotated /\ m'.badRotation = m.badRotation
    BY <1>1, DeadIs
  <1>3. AtRest(m')
    BY <1>2, SizesBetweenCalls DEF AtRest
  <1>4. FileInv'
    BY <1>2, <1>3, DownIs
  <1>5. RotatedStep
    BY <1>1, <1>2, Numbers DEF RotatedStep, Ordered
  <1> QED BY <1>4, <1>5

\* A kill within a rotation leaves the next file, or not.
LEMMA CrashInRotationKeeps ==
    ASSUME FileInv, CrashInRotation PROVE FileInv' /\ (Dated => RotatedStep)
  <1>1. up /\ up' = FALSE
    BY DEF CrashInRotation
  <1>2. Call(m, 0, MaxSize) /\ Typed(m) /\ Ordered(m) /\ Running(m)
    BY <1>1, UpIsCall DEF Call
  <1>3. MaxSize \in Nat /\ FooterLen \in Nat
    BY FileAssumed DEF FileAssumption
  <1>4. PICK s \in NextName(m) :
          m' = Dead([s EXCEPT !.files = Opened(s.files, Name(s)),
                              !.rotated = @ \cup ({s.cur} \ {Name(s)})])
    BY DEF CrashInRotation
  <1>5. PICK u : u = WithFile(s)
    OBVIOUS
  <1>6. /\ Call(u, 0, MaxSize) /\ Later(m, u)
        /\ s.files = m.files /\ u.files = Opened(m.files, Name(s))
        /\ Name(s) \in DOMAIN u.files
        /\ u.today = s.today /\ u.cur = m.cur /\ u.date = s.date /\ u.number = s.number
        /\ u.rotated = m.rotated
    BY <1>2, <1>3, <1>5, OpenKeeps
  <1>7. NameOnly(m, s) /\ Typed(s)
    BY <1>2, NextNameDoes DEF NameOnly
  <1>8. Typed(u) /\ Booked(u, 0) /\ Ordered(u) /\ Running(u) /\ Sized(u, MaxSize)
    BY <1>6 DEF Call
  <1>9. PICK t : t = [s EXCEPT !.files = Opened(s.files, Name(s)),
                               !.rotated = @ \cup ({s.cur} \ {Name(s)})]
    OBVIOUS
  <1>10. t = [u EXCEPT !.rotated = @ \cup ({u.cur} \ {Name(s)})]
    <2>1. s.cur = m.cur /\ s.rotated = m.rotated
      BY <1>7 DEF NameOnly
    <2>2. t = [u EXCEPT !.rotated = s.rotated \cup ({s.cur} \ {Name(s)})]
      BY <1>5, <1>7, <1>9 DEF WithFile, Typed, Fields
    <2> QED BY <1>6, <2>1, <2>2
  <1>11. /\ DOMAIN t = Fields
         /\ t.files = u.files /\ t.cur = u.cur /\ t.len = u.len /\ t.openedOn = u.openedOn
         /\ t.today = u.today /\ t.date = u.date /\ t.number = u.number
         /\ t.boundary = u.boundary /\ t.buff = u.buff
         /\ t.counters = u.counters /\ t.past = u.past /\ t.given = u.given
         /\ t.discarded = u.discarded /\ t.truncated = u.truncated
         /\ t.rotated = u.rotated \cup ({u.cur} \ {Name(s)})
    BY <1>8, <1>10 DEF Typed, Fields
  <1>12. t.badRotation = u.badRotation
    BY <1>8, <1>10 DEF Typed, Fields
  <1>13. Typed(t) /\ Booked(t, 0)
    BY <1>8, <1>11 DEF Typed, Booked
  <1>14. Ordered(t)
    <2>1. t.rotated \subseteq DOMAIN t.files
      BY <1>8, <1>11 DEF Ordered, Running
    <2>2. CASE ~Dated
      BY <2>1, <2>2 DEF Ordered
    <2>3. CASE Dated
      <3>1. IsNew(m, s)
        BY <1>2, <2>3, NextNameIsNew
      <3>2. Name(s)[1] = s.date /\ Name(s)[2] = s.number
        BY <2>3 DEF Name
      <3>3. s.date \in Nat /\ s.today \in Nat /\ m.cur \in DOMAIN m.files
            /\ m.cur[1] \in Nat
        BY <1>2, <1>7, Numbers DEF Running, Typed, IsTable
      <3>4. \/ m.cur[1] < t.today
            \/ \E h \in DOMAIN t.files : h[1] = m.cur[1] /\ m.cur[2] < h[2]
        BY <1>6, <1>11, <3>1, <3>2, <3>3 DEF IsNew
      <3> QED BY <1>6, <1>8, <1>11, <2>1, <2>3, <3>4 DEF Ordered
    <2> QED BY <2>2, <2>3
  <1>15. /\ Typed(m') /\ Booked(m', 0) /\ Ordered(m') /\ m'.buff = 0
         /\ m'.files = t.files /\ m'.rotated = t.rotated /\ m'.badRotation = t.badRotation
    BY <1>4, <1>9, <1>13, <1>14, DeadIs
  <1>16. AtRest(m')
    <2>1. SUFFICES ASSUME Fits, ~u.badRotation, NEW f \in DOMAIN u.files
                   PROVE  /\ u.files[f].len <= MaxSize + FooterLen
                          /\ f \notin t.rotated => u.files[f].len <= MaxSize
      BY <1>11, <1>12, <1>15 DEF AtRest
    <2>2. /\ u.len = u.files[u.cur].len /\ u.len <= MaxSize
          /\ \A h \in DOMAIN u.files \ {u.cur} :
                /\ u.files[h].len <= MaxSize + FooterLen
                /\ h \notin u.rotated => u.files[h].len <= MaxSize
      BY <1>8, <2>1 DEF Sized
    <2>3. u.len \in Nat
      BY <1>8, Numbers
    <2>4. u.files[u.cur].len <= MaxSize + FooterLen /\ u.files[u.cur].len <= MaxSize
      BY <1>3, <2>2, <2>3
    <2> QED BY <1>11, <2>2, <2>4
  <1>17. FileInv'
    BY <1>1, <1>15, <1>16, DownIs
  <1>18. Dated => RotatedStep
    BY <1>6, <1>11, <1>15 DEF RotatedStep, Later
  <1> QED BY <1>17, <1>18

\* A power loss takes back bytes that were not synced.
LEMMA PowerLossKeeps ==
    ASSUME FileInv, PowerLoss PROVE FileInv' /\ RotatedStep
  <1>1. up /\ up' = FALSE
    BY DEF PowerLoss
  <1>2. Typed(m) /\ Booked(m, 0) /\ Ordered(m)
    BY DEF FileInv
  <1>3. PICK s : s = Dead(m)
    OBVIOUS
  <1>4. /\ Typed(s) /\ Booked(s, 0) /\ Ordered(s) /\ s.buff = 0
        /\ s.files = m.files /\ s.rotated = m.rotated /\ s.badRotation = m.badRotation
    BY <1>2, <1>3, DeadIs
  <1>5. PICK G : G = KeptOf(s.files)
    OBVIOUS
  <1>6. m' = [s EXCEPT !.files = G, !.truncated = @ + (OnDisk(s.files) - OnDisk(G))]
    BY <1>3, <1>5 DEF PowerLoss, KeptOf
  <1>7. /\ IsTable(G) /\ DOMAIN G = DOMAIN s.files
        /\ \A f \in DOMAIN s.files : G[f].len <= s.files[f].len
    BY <1>4, <1>5, KeptIs DEF Typed
  <1>8. OnDisk(G) \in Nat /\ OnDisk(s.files) \in Nat
    BY <1>4, <1>7, OnDiskNat DEF Typed
  <1>9. /\ DOMAIN m' = Fields
        /\ m'.files = G /\ m'.cur = s.cur /\ m'.len = s.len /\ m'.openedOn = s.openedOn
        /\ m'.today = s.today /\ m'.date = s.date /\ m'.number = s.number
        /\ m'.boundary = s.boundary /\ m'.buff = s.buff
        /\ m'.counters = s.counters /\ m'.past = s.past /\ m'.given = s.given
        /\ m'.discarded = s.discarded
        /\ m'.truncated = s.truncated + (OnDisk(s.files) - OnDisk(G))
        /\ m'.rotated = s.rotated
    BY <1>4, <1>6 DEF Typed, Fields
  <1>10. m'.badRotation = s.badRotation
    BY <1>4, <1>6 DEF Typed, Fields
  <1>11. Typed(m')
    BY <1>4, <1>7, <1>8, <1>9 DEF Typed
  <1>12. Booked(m', 0)
    BY <1>4, <1>8, <1>9, Numbers DEF Booked
  <1>13. Ordered(m')
    BY <1>4, <1>7, <1>9 DEF Ordered
  <1>14. AtRest(m')
    <2>1. SUFFICES ASSUME Fits, ~m.badRotation, NEW f \in DOMAIN m.files
                   PROVE  /\ G[f].len <= MaxSize + FooterLen
                          /\ f \notin m.rotated => G[f].len <= MaxSize
      BY <1>4, <1>7, <1>9, <1>10 DEF AtRest
    <2>2. /\ m.files[f].len <= MaxSize + FooterLen
          /\ f \notin m.rotated => m.files[f].len <= MaxSize
      BY <1>1, <2>1, SizesBetweenCalls
    <2>3. G[f].len \in Nat /\ m.files[f].len \in Nat /\ G[f].len <= m.files[f].len
      BY <1>2, <1>4, <1>7, Numbers DEF IsTable
    <2>4. MaxSize \in Nat /\ FooterLen \in Nat
      BY FileAssumed DEF FileAssumption
    <2> QED BY <2>2, <2>3, <2>4
  <1>15. FileInv'
    BY <1>1, <1>11, <1>12, <1>13, <1>14, DownIs
  <1>16. RotatedStep
    BY <1>2, <1>4, <1>7, <1>9 DEF RotatedStep, Ordered
  <1> QED BY <1>15, <1>16

\* A day that ends between calls.
LEMMA MidnightKeeps ==
    ASSUME FileInv, Midnight PROVE FileInv' /\ RotatedStep
  <1>1. Typed(m) /\ Booked(m, 0) /\ Ordered(m)
    BY DEF FileInv
  <1>2. m.today < MaxDay /\ m' = [m EXCEPT !.today = @ + 1] /\ up' = up
    BY DEF Midnight
  <1>3. MaxDay \in Nat /\ m.today \in Nat /\ m.date \in Nat /\ m.openedOn \in Nat
        /\ m.boundary \in Nat
    BY <1>1, FileAssumed, Numbers DEF FileAssumption
  <1>4. /\ DOMAIN m' = Fields
        /\ m'.files = m.files /\ m'.cur = m.cur /\ m'.len = m.len /\ m'.openedOn = m.openedOn
        /\ m'.today = m.today + 1 /\ m'.date = m.date /\ m'.number = m.number
        /\ m'.boundary = m.boundary /\ m'.buff = m.buff
        /\ m'.counters = m.counters /\ m'.past = m.past /\ m'.given = m.given
        /\ m'.discarded = m.discarded /\ m'.truncated = m.truncated
    BY <1>1, <1>2 DEF Typed, Fields
  <1>5. /\ m'.rotated = m.rotated /\ m'.mine = m.mine
        /\ m'.closed = m.closed /\ m'.badSync = m.badSync /\ m'.badRotation = m.badRotation
    BY <1>1, <1>2 DEF Typed, Fields
  <1>6. Typed(m') /\ Booked(m', 0)
    BY <1>1, <1>2, <1>3, <1>4 DEF Typed, Booked
  <1>7. Ordered(m')
    <2>1. \A f \in DOMAIN m.files : f[1] \in Nat
      BY <1>1 DEF Typed, IsTable
    <2> QED BY <1>1, <1>3, <1>4, <1>5, <2>1 DEF Ordered
  <1>8. RotatedStep
    BY <1>1, <1>4, Numbers DEF RotatedStep, Ordered
  <1>9. CASE up
    <2>1. Running(m') /\ EarlierSynced(m') /\ Sized(m', MaxSize)
      BY <1>4, <1>5, <1>9 DEF FileInv, Running, EarlierSynced, Sized
    <2>2. OnTime(m')
      BY <1>3, <1>4, <1>5, <1>9 DEF FileInv, OnTime
    <2>3. m'.buff < BufLen
      BY <1>4 DEF FileInv
    <2>4. up' = TRUE
      BY <1>2, <1>9 DEF FileInv
    <2> QED BY <1>6, <1>7, <1>8, <2>1, <2>2, <2>3, <2>4, CallIsUp DEF Call
  <1>10. CASE ~up
    <2>1. AtRest(m')
      BY <1>4, <1>5, <1>10 DEF FileInv, AtRest
    <2>2. up' = FALSE
      BY <1>2, <1>10 DEF FileInv
    <2> QED BY <1>6, <1>7, <1>8, <2>1, <2>2, DownIs
  <1> QED BY <1>9, <1>10

\* A message, as the worker writes it.
LEMMA WriteCallKeeps ==
    ASSUME FileInv, NEW n \in Lengths, NEW mustSync \in BOOLEAN, Write(n, mustSync)
    PROVE  /\ FileInv' /\ (Dated => RotatedStep)
           /\ mustSync => m'.buff = 0 /\ AllSynced(m') /\ Today(m')
  <1>1. up /\ up' = up /\ m' \in WriteMessage(m, n, mustSync)
    BY DEF Write
  <1>2. Call(m, 0, MaxSize) /\ m.buff < BufLen
    BY <1>1, UpIsCall
  <1>3. /\ Call(m', 0, MaxSize) /\ Later(m, m') /\ m'.buff < BufLen
        /\ mustSync => m'.buff = 0 /\ AllSynced(m') /\ Today(m')
    BY <1>1, <1>2, WriteMessageKeeps
  <1>4. up' = TRUE
    BY <1>1 DEF FileInv
  <1>5. Dated => RotatedStep
    BY <1>3 DEF RotatedStep, Later
  <1> QED BY <1>3, <1>4, <1>5, CallIsUp

\* The last call of a process.
LEMMA ShutdownKeeps ==
    ASSUME FileInv, Shutdown
    PROVE  /\ FileInv' /\ (Dated => RotatedStep)
           /\ ~m.closed => m'.buff = 0 /\ AllSynced(m')
  <1>1. up /\ up' = up
    BY DEF Shutdown
  <1>2. Call(m, 0, MaxSize) /\ m.buff < BufLen /\ Typed(m) /\ Ordered(m)
    BY <1>1, UpIsCall DEF Call
  <1>3. up' = TRUE
    BY <1>1 DEF FileInv
  <1>4. CASE m.closed
    <2>1. m' = m
      BY <1>4 DEF Shutdown
    <2>2. Call(m', 0, MaxSize) /\ m'.buff < BufLen
      BY <1>2, <2>1
    <2>3. RotatedStep
      BY <1>2, <2>1, Numbers DEF RotatedStep, Ordered
    <2> QED BY <1>3, <1>4, <2>2, <2>3, CallIsUp
  <1>5. CASE ~m.closed
    <2>1. PICK c : c = [m EXCEPT !.closed = TRUE]
      OBVIOUS
    <2>2. PICK s \in Flush(c) : m' \in Sync(s)
      BY <1>5, <2>1 DEF Shutdown
    <2>3. /\ DOMAIN c = Fields
          /\ c.files = m.files /\ c.cur = m.cur /\ c.len = m.len /\ c.openedOn = m.openedOn
          /\ c.today = m.today /\ c.date = m.date /\ c.number = m.number
          /\ c.boundary = m.boundary /\ c.buff = m.buff
          /\ c.counters = m.counters /\ c.past = m.past /\ c.given = m.given
          /\ c.discarded = m.discarded /\ c.truncated = m.truncated
      BY <1>2, <2>1 DEF Typed, Fields
    <2>4. /\ c.rotated = m.rotated /\ c.mine = m.mine
          /\ c.badSync = m.badSync /\ c.badRotation = m.badRotation
      BY <1>2, <2>1 DEF Typed, Fields
    <2>5. Typed(c)
      BY <1>2, <2>3 DEF Typed
    <2>6. Call(c, 0, MaxSize)
      BY <1>2, <2>3, <2>4, <2>5
         DEF Call, Running, Booked, EarlierSynced, Ordered, Sized, OnTime
    <2>7. Call(s, 0, MaxSize) /\ Later(c, s) /\ s.buff = 0 /\ Today(s)
      BY <1>2, <2>2, <2>3, <2>6, FlushKeeps
    <2>8. Call(m', 0, MaxSize) /\ Later(s, m') /\ m'.buff = 0 /\ AllSynced(m')
      BY <2>2, <2>7, SyncEnds
    <2>9. Later(c, m')
      BY <2>5, <2>6, <2>7, <2>8, LaterTrans DEF Call
    <2>10. Dated => RotatedStep
      BY <2>3, <2>4, <2>9 DEF RotatedStep, Later
    <2>11. BufLen \in Nat \ {0}
      BY FileAssumed DEF FileAssumption
    <2>12. m'.buff < BufLen
      BY <2>8, <2>11
    <2> QED BY <1>3, <2>8, <2>10, <2>12, CallIsUp
  <1> QED BY <1>4, <1>5

\* Every step keeps the invariant and leaves rotated files alone.
LEMMA FileStep == ASSUME FileInv, [Next]_vars PROVE FileInv' /\ (Dated => RotatedStep)
  <1>1. CASE Start
    BY <1>1, StartKeeps
  <1>2. CASE Shutdown
    BY <1>2, ShutdownKeeps
  <1>3. CASE Exit \/ Crash
    BY <1>3, KilledKeeps DEF Exit, Crash
  <1>4. CASE CrashInRotation
    BY <1>4, CrashInRotationKeeps
  <1>5. CASE PowerLoss
    BY <1>5, PowerLossKeeps
  <1>6. CASE Midnight
    BY <1>6, MidnightKeeps
  <1>7. ASSUME NEW n \in Lengths, NEW mustSync \in BOOLEAN, Write(n, mustSync)
        PROVE  FileInv' /\ (Dated => RotatedStep)
    BY <1>7, WriteCallKeeps
  <1>8. CASE UNCHANGED vars
    <2>1. up' = up /\ m' = m
      BY <1>8 DEF vars
    <2>2. FileInv'
      BY <2>1 DEF FileInv, Typed, Booked, Ordered, Running, EarlierSynced, Sized, OnTime, AtRest
    <2>3. RotatedStep
      BY <2>1, Numbers DEF FileInv, RotatedStep, Ordered
    <2> QED BY <2>2, <2>3
  <1> QED BY <1>1, <1>2, <1>3, <1>4, <1>5, <1>6, <1>7, <1>8 DEF Next

\* The invariant of the log files.
THEOREM FilesHold == Spec => []FileInv
  <1>1. Init => FileInv
    BY FileInitInv
  <1>2. FileInv /\ [Next]_vars => FileInv'
    BY FileStep
  <1> QED BY <1>1, <1>2, PTL DEF Spec

\* The invariant accounts for every byte.
LEMMA InvAccounts == FileInv => Accounted
  <1> SUFFICES ASSUME FileInv PROVE Accounted
    OBVIOUS
  <1>1. Typed(m) /\ Booked(m, 0) /\ m.buff < BufLen /\ BufLen \in Nat
    BY FileAssumed DEF FileInv, FileAssumption
  <1>2. TypeOK
    <2>1. \A f \in DOMAIN m.files :
            m.files[f].len \in Nat /\ m.files[f].synced \in 0 .. m.files[f].len
      <3>1. ASSUME NEW f \in DOMAIN m.files
            PROVE  /\ m.files[f].len \in Nat /\ m.files[f].synced \in Nat
                   /\ m.files[f].synced <= m.files[f].len
        BY <1>1 DEF Typed, IsTable
      <3> QED BY <3>1
    <2>2. up => m.cur \in DOMAIN m.files /\ m.cur \in m.mine
      BY DEF FileInv, Running
    <2>3. m.buff \in 0 .. BufLen - 1 /\ m.today \in 1 .. MaxDay /\ m.len \in Nat
      BY <1>1 DEF Typed
    <2>4. up \in BOOLEAN
      BY DEF FileInv
    <2> QED BY <2>1, <2>2, <2>3, <2>4, Zenon DEF TypeOK
  <1>3. /\ Plus(m.past, m.counters).bytes = m.past.bytes + m.counters.bytes
        /\ Plus(m.past, m.counters).lost = m.past.lost + m.counters.lost
    BY DEF Plus
  <1> QED BY <1>1, <1>2, <1>3, Numbers DEF Accounted, Booked

\* Where every byte is, whatever failed and however the process ended (file_manager.rs,
\* log_file.rs, metrics.rs).
THEOREM BytesAccounted == Spec => []Accounted
  BY FilesHold, InvAccounts, PTL

\* What a call has made durable when it returns (file_manager.rs:22-26).
THEOREM CallsAreDurable == Spec => Durable
  <1>1. FileInv /\ [Next]_vars => [DurableStep /\ ShutdownStep]_vars
    <2> SUFFICES ASSUME FileInv PROVE DurableStep /\ ShutdownStep
      BY Zenon
    <2>1. DurableStep
      BY WriteCallKeeps DEF DurableStep, AllSynced
    <2>2. ShutdownStep
      BY ShutdownKeeps DEF ShutdownStep, AllSynced
    <2> QED BY <2>1, <2>2
  <1> QED BY <1>1, FilesHold, PTL DEF Spec, Durable

\* With dated names a file that was rotated away from never grows again.
THEOREM DatedFilesStopGrowing == ASSUME Dated PROVE Spec => RotatedFilesStopGrowing
  <1>1. FileInv /\ [Next]_vars => [RotatedStep]_vars
    BY FileStep
  <1> QED BY <1>1, FilesHold, PTL DEF Spec, RotatedFilesStopGrowing

\* While messages fit in the buffer, names are dated and no rotation fails, no file is longer
\* than max_file_size and its footer (builder.rs:100).
THEOREM FilesStaySmall == ASSUME Fits PROVE Spec => []FileWithinMaxSize
  <1>1. FileInv => FileWithinMaxSize
    <2> SUFFICES ASSUME FileInv, up, ~m.badRotation
                 PROVE  m.files[m.cur].len <= MaxSize + FooterLen
      BY DEF FileWithinMaxSize
    <2>1. m.cur \in DOMAIN m.files
      BY DEF FileInv, Running
    <2> QED BY <2>1, SizesBetweenCalls
  <1> QED BY <1>1, FilesHold, PTL

\* A new UTC day starts a new file, when no day ends within a call (file_manager.rs:301).
THEOREM DaysStartFiles ==
    ASSUME Dated, ~MidnightInCalls PROVE Spec => [][DailyStep]_vars
  <1>1. FileInv /\ [Next]_vars => [DailyStep]_vars
    BY WriteCallKeeps DEF DailyStep, Today
  <1> QED BY <1>1, FilesHold, PTL DEF Spec

----------------------------------------------------------------------------
(* Where the minimum level comes from, for any levels and any number of edits *)
(* of the control file, while every access to the file works.                 *)

\* The modification time on record is one that was read with its text: the worker has not
\* seen an edit that it has not read, but for the poll it is at.
TimesFollow ==
    /\ file.modified \in Nat
    /\ seen = None \/ (seen \in Nat /\ seen <= file.modified)
    /\ pc \in {"build", "idle", "read"}
    /\ pc = "build" => seen = None

\* As long as nobody edited it, the file says what the code says.
CodeInFile ==
    pc # "build" /\ explicit # None /\ edits = 0 =>
        file.text = AsStr(explicit) /\ level = explicit

LevelInv ==
    /\ explicit \in Levels \cup {None} /\ edits \in Nat /\ faults = 0
    /\ TimesFollow /\ NothingUnseen /\ CodeInFile

\* What is written of a level is read back as that level.
LEMMA RoundTrip == ASSUME NEW l \in Levels PROVE FromStr(AsStr(l)) = l /\ AsStr(l) # Absent
  <1>1. AsStr(l) \in [word : Levels \cup {Junk}, exact : BOOLEAN]
    BY DEF AsStr
  <1>2. l # Junk /\ AsStr(l) # Absent
    BY <1>1, LevelAssumed DEF LevelAssumption
  <1> QED BY <1>2 DEF FromStr, AsStr

\* Before build(), nothing was looked at.
LEMMA LevelInitInv == LevelInit => LevelInv
  <1> SUFFICES ASSUME LevelInit PROVE LevelInv
    OBVIOUS
  <1>1. file.modified = 0
    BY DEF LevelInit
  <1>2. NothingUnseen /\ CodeInFile
    BY DEF LevelInit, NothingUnseen, CodeInFile
  <1> QED BY <1>1, <1>2 DEF LevelInit, LevelInv, TimesFollow

\* build(): the code's level is saved, or the file's is taken, or the default is saved.
LEMMA ResolveKeeps == MaxLevelFaults = 0 /\ LevelInv /\ ResolveMinLevel => LevelInv'
  <1> SUFFICES ASSUME MaxLevelFaults = 0, LevelInv, ResolveMinLevel PROVE LevelInv'
    OBVIOUS
  <1>1. ~Fault
    BY DEF LevelInv, Fault
  <1>2. UNCHANGED <<explicit, seen, edits, faults>> /\ pc' = "idle" /\ seen = None
    BY <1>1 DEF ResolveMinLevel, WriteLevel, Works, LevelInv, TimesFollow
  <1>3. file' = file \/ (\E l \in Levels : file' = Stored(AsStr(l)))
    BY <1>1, LevelAssumed DEF ResolveMinLevel, WriteLevel, LevelInv, LevelAssumption
  <1>4. file'.modified \in Nat
    BY <1>3 DEF LevelInv, TimesFollow, Stored
  <1>5. TimesFollow'
    BY <1>2, <1>4 DEF TimesFollow
  <1>6. NothingUnseen'
    BY <1>2, <1>4, LevelAssumed DEF NothingUnseen, LevelAssumption
  <1>7. CodeInFile'
    <2>1. explicit # None => file' = Stored(AsStr(explicit)) /\ level' = explicit
      BY <1>1 DEF ResolveMinLevel, WriteLevel
    <2> QED BY <1>2, <2>1 DEF CodeInFile, Stored
  <1> QED BY <1>2, <1>5, <1>6, <1>7 DEF LevelInv

\* The first step of a poll puts the modification time on record, and then reads.
LEMMA StatKeeps == MaxLevelFaults = 0 /\ LevelInv /\ Stat => LevelInv'
  <1> SUFFICES ASSUME MaxLevelFaults = 0, LevelInv, Stat PROVE LevelInv'
    OBVIOUS
  <1>1. ~Fault
    BY DEF LevelInv, Fault
  <1>2. UNCHANGED <<explicit, file, level, edits, faults>> /\ pc = "idle"
    BY <1>1 DEF Stat, Works
  <1>3. \/ seen' \in {seen, file.modified} /\ pc' = "read"
        \/ seen' = seen /\ pc' = pc
    BY DEF Stat
  <1>4. TimesFollow'
    BY <1>2, <1>3 DEF LevelInv, TimesFollow
  <1>5. NothingUnseen'
    BY <1>2, <1>3 DEF LevelInv, NothingUnseen, Readable
  <1>6. CodeInFile'
    BY <1>2, <1>3 DEF LevelInv, CodeInFile
  <1> QED BY <1>2, <1>4, <1>5, <1>6 DEF LevelInv

\* The second step takes the level of a text that names one.
LEMMA ReadKeeps == MaxLevelFaults = 0 /\ LevelInv /\ (ReadFails \/ ReadWorks) => LevelInv'
  <1> SUFFICES ASSUME MaxLevelFaults = 0, LevelInv, ReadFails \/ ReadWorks PROVE LevelInv'
    OBVIOUS
  <1>1. ~Fault
    BY DEF LevelInv, Fault
  <1>2. UNCHANGED <<explicit, file, seen, edits, faults>> /\ pc = "read" /\ pc' = "idle"
    BY <1>1 DEF ReadFails, ReadWorks, Works
  <1>3. TimesFollow'
    BY <1>2 DEF LevelInv, TimesFollow
  <1>4. CASE ReadFails
    <2>1. ~Readable /\ level' = level
      BY <1>1, <1>4 DEF ReadFails
    <2>2. NothingUnseen' /\ CodeInFile'
      BY <1>2, <2>1 DEF LevelInv, NothingUnseen, CodeInFile, Readable
    <2> QED BY <1>2, <1>3, <2>2 DEF LevelInv
  <1>5. CASE ReadWorks
    <2>1. level' = IF FromStr(file.text) = None THEN level ELSE FromStr(file.text)
      BY <1>5 DEF ReadWorks
    <2>2. NothingUnseen'
      BY <1>2, <2>1 DEF NothingUnseen, Readable
    <2>3. CodeInFile'
      <3>1. explicit # None /\ edits = 0 => file.text = AsStr(explicit) /\ level = explicit
        BY <1>2 DEF LevelInv, CodeInFile
      <3>2. explicit # None => FromStr(AsStr(explicit)) = explicit
        BY RoundTrip DEF LevelInv
      <3> QED BY <1>2, <2>1, <3>1, <3>2 DEF CodeInFile
    <2> QED BY <1>2, <1>3, <2>2, <2>3 DEF LevelInv
  <1> QED BY <1>4, <1>5

\* An edit gives the file a time that is not on record.
LEMMA EditKeeps == LevelInv /\ Edit => LevelInv'
  <1> SUFFICES ASSUME LevelInv, Edit PROVE LevelInv'
    OBVIOUS
  <1>1. /\ UNCHANGED <<explicit, level, pc, seen, faults>>
        /\ edits' = edits + 1 /\ file'.modified = file.modified + 1
    BY DEF Edit, Stored
  <1>2. edits' \in Nat /\ edits' # 0
    BY <1>1 DEF LevelInv
  <1>3. TimesFollow'
    BY <1>1 DEF LevelInv, TimesFollow
  <1>4. seen # file'.modified
    BY <1>1, LevelAssumed DEF LevelInv, TimesFollow, LevelAssumption
  <1>5. NothingUnseen' /\ CodeInFile'
    BY <1>1, <1>2, <1>4 DEF NothingUnseen, CodeInFile
  <1> QED BY <1>1, <1>2, <1>3, <1>5 DEF LevelInv

\* The types, also when accesses fail.  The modification time is at most one more than the
\* number of edits, and a complaint is made only if the file cannot be read.
LevelTyped ==
    /\ explicit \in Levels \cup {None} /\ level \in Levels
    /\ file.text \in Texts \cup {Absent}
    /\ edits \in 0 .. MaxEdits
    /\ file.modified \in 0 .. edits + (IF pc = "build" THEN 0 ELSE 1)
    /\ pc \in {"build", "idle", "read"} /\ unreadable \in BOOLEAN
    /\ seen \in 0 .. file.modified \cup {None}
    /\ complaints \in 0 .. 1 /\ (~unreadable => complaints = 0)

\* The level a text names is one.
LEMMA FromStrIs ==
    ASSUME NEW t \in Texts \cup {Absent}, FromStr(t) # None PROVE FromStr(t) \in Levels
  BY DEF FromStr, Texts

\* What the code writes is a text of the control file.
LEMMA AsStrIs == ASSUME NEW l \in Levels PROVE AsStr(l) \in Texts
  BY DEF AsStr, Texts

\* The variables keep their types at the start
LEMMA LevelInitTyped == LevelInit => LevelTyped
  <1> SUFFICES ASSUME LevelInit PROVE LevelTyped
    OBVIOUS
  <1>1. MaxEdits \in Nat /\ Default \in Levels
    BY LevelAssumed DEF LevelAssumption
  <1>2. file.text \in Texts \cup {Absent} /\ file.modified = 0
    BY DEF LevelInit
  <1>3. unreadable = FALSE
    BY DEF LevelInit
  <1>4. /\ explicit \in Levels \cup {None} /\ level \in Levels /\ edits \in 0 .. MaxEdits
        /\ file.modified \in 0 .. edits + (IF pc = "build" THEN 0 ELSE 1)
        /\ pc \in {"build", "idle", "read"}
        /\ seen \in 0 .. file.modified \cup {None} /\ complaints \in 0 .. 1 /\ complaints = 0
    BY <1>1, <1>2 DEF LevelInit
  <1> QED BY <1>2, <1>3, <1>4, Zenon DEF LevelTyped

\* and at every step.
LEMMA LevelStepTyped == LevelTyped /\ [LevelNext]_levelVars => LevelTyped'
  <1> SUFFICES ASSUME LevelTyped, [LevelNext]_levelVars PROVE LevelTyped'
    OBVIOUS
  <1>1. MaxEdits \in Nat /\ Default \in Levels /\ None \notin Nat
    BY LevelAssumed DEF LevelAssumption
  <1>2. file.modified \in Nat /\ edits \in Nat
    BY <1>1 DEF LevelTyped
  <1>3. CASE ResolveMinLevel
    <2>1. UNCHANGED <<explicit, seen, unreadable, edits, complaints>> /\ pc = "build" /\ pc' = "idle"
      BY <1>3 DEF ResolveMinLevel
    <2>2. level' \in Levels
      BY <1>1, <1>3, FromStrIs DEF ResolveMinLevel, LevelTyped
    <2>3. file' = file \/ \E t \in Texts : file' = Stored(t)
      <3>1. Torn \in Texts
        BY DEF Torn, Texts
      <3>2. ASSUME NEW l \in Levels, WriteLevel(l)
            PROVE  file' = file \/ \E t \in Texts : file' = Stored(t)
        BY <3>1, <3>2, AsStrIs DEF WriteLevel
      <3>3. explicit # None => explicit \in Levels
        BY DEF LevelTyped
      <3> QED BY <1>1, <1>3, <3>1, <3>2, <3>3, AsStrIs DEF ResolveMinLevel
    <2>4. /\ file'.text \in Texts \cup {Absent}
          /\ file'.modified \in {file.modified, file.modified + 1}
      BY <2>3 DEF Stored, LevelTyped
    <2>5. file'.modified \in 0 .. edits' + (IF pc' = "build" THEN 0 ELSE 1)
          /\ seen' \in 0 .. file'.modified \cup {None}
      BY <1>2, <2>1, <2>4 DEF LevelTyped
    <2>6. edits' \in 0 .. MaxEdits /\ complaints' \in 0 .. 1 /\ explicit' \in Levels \cup {None}
      BY <2>1 DEF LevelTyped
    <2>7. unreadable' \in BOOLEAN /\ (~unreadable' => complaints' = 0)
      BY <2>1 DEF LevelTyped
    <2>8. pc' \in {"build", "idle", "read"}
      BY <2>1
    <2> QED BY <2>2, <2>4, <2>5, <2>6, <2>7, <2>8, Zenon DEF LevelTyped
  <1>4. CASE PollMinLevel
    <2>1. UNCHANGED <<explicit, file, edits>>
      BY <1>4 DEF PollMinLevel, Stat, ReadFails, ReadWorks
    <2>2. level' \in Levels
      BY <1>4, FromStrIs DEF PollMinLevel, Stat, ReadFails, ReadWorks, LevelTyped
    <2>3. pc # "build" /\ pc' \in {"idle", "read"}
      BY <1>4 DEF PollMinLevel, Stat, ReadFails, ReadWorks
    <2>4. seen' \in 0 .. file.modified \cup {None}
      BY <1>2, <1>4 DEF PollMinLevel, Stat, ReadFails, ReadWorks, LevelTyped
    <2>5. complaints' \in 0 .. 1 /\ unreadable' \in BOOLEAN /\ (~unreadable' => complaints' = 0)
      <3>1. CASE Stat
        <4>1. complaints' = complaints /\ unreadable' = unreadable
          BY <3>1 DEF Stat
        <4> QED BY <4>1, Zenon DEF LevelTyped
      <3>2. CASE ReadFails
        <4>1. unreadable' = TRUE
          BY <3>2 DEF ReadFails
        <4>2. CASE unreadable
          <5>1. complaints' = complaints
            BY <3>2, <4>2, Zenon DEF ReadFails
          <5> QED BY <4>1, <5>1, Zenon DEF LevelTyped
        <4>3. CASE ~unreadable
          <5>1. complaints' = complaints + 1
            BY <3>2, <4>3, Zenon DEF ReadFails
          <5>2. complaints = 0
            BY <4>3, Zenon DEF LevelTyped
          <5>3. complaints' \in 0 .. 1
            BY <5>1, <5>2
          <5> QED BY <4>1, <5>3, Zenon
        <4> QED BY <4>2, <4>3
      <3>3. CASE ReadWorks
        <4>1. unreadable' = FALSE /\ complaints' = 0
          BY <3>3 DEF ReadWorks
        <4>2. complaints' \in 0 .. 1
          BY <4>1
        <4> QED BY <4>1, <4>2, Zenon
      <3> QED BY <1>4, <3>1, <3>2, <3>3 DEF PollMinLevel
    <2>6. file'.modified \in 0 .. edits' + (IF pc' = "build" THEN 0 ELSE 1)
      BY <2>1, <2>3 DEF LevelTyped
    <2>7. explicit' \in Levels \cup {None} /\ edits' \in 0 .. MaxEdits
          /\ file'.text \in Texts \cup {Absent} /\ seen' \in 0 .. file'.modified \cup {None}
          /\ pc' \in {"build", "idle", "read"}
      BY <2>1, <2>3, <2>4 DEF LevelTyped
    <2> QED BY <2>2, <2>5, <2>6, <2>7, Zenon DEF LevelTyped
  <1>5. CASE Edit
    <2>1. /\ UNCHANGED <<explicit, level, pc, seen, unreadable, faults, complaints>>
          /\ edits < MaxEdits /\ edits' = edits + 1
      BY <1>5 DEF Edit
    <2>2. file'.text \in Texts \cup {Absent} /\ file'.modified = file.modified + 1
      BY <1>5 DEF Edit, Stored
    <2>3. /\ edits' \in 0 .. MaxEdits
          /\ file'.modified \in 0 .. edits' + (IF pc' = "build" THEN 0 ELSE 1)
          /\ seen' \in 0 .. file'.modified \cup {None}
      BY <1>1, <1>2, <2>1, <2>2 DEF LevelTyped
    <2>4. /\ explicit' \in Levels \cup {None} /\ level' \in Levels
          /\ pc' \in {"build", "idle", "read"} /\ complaints' \in 0 .. 1
      BY <2>1 DEF LevelTyped
    <2>5. unreadable' \in BOOLEAN /\ (~unreadable' => complaints' = 0)
      BY <2>1 DEF LevelTyped
    <2> QED BY <2>2, <2>3, <2>4, <2>5, Zenon DEF LevelTyped
  <1>6. CASE UNCHANGED levelVars
    BY <1>6 DEF LevelTyped, levelVars
  <1> QED BY <1>3, <1>4, <1>5, <1>6 DEF LevelNext

\* What the level file and the worker remember of it, also when accesses fail.
THEOREM LevelTypeCorrect == LevelSpec => []LevelTypeOK
  <1>1. LevelTyped => LevelTypeOK
    <2> SUFFICES ASSUME LevelTyped PROVE LevelTypeOK
      OBVIOUS
    <2>1. file.modified \in 0 .. MaxEdits + 1
      BY LevelAssumed DEF LevelTyped, LevelAssumption
    <2> QED BY <2>1, Zenon DEF LevelTyped, LevelTypeOK
  <1> QED BY <1>1, LevelInitTyped, LevelStepTyped, PTL DEF LevelSpec

\* While the file can be accessed, a change of it is seen by this poll or the next one
\* (worker.rs:106-115), and a level set in code holds until somebody edits the file
\* (builder.rs:133-135).
THEOREM LevelSourceHolds == ASSUME MaxLevelFaults = 0 PROVE LevelSpec => []LevelHolds
  <1>1. LevelInv /\ [LevelNext]_levelVars => LevelInv'
    <2> SUFFICES ASSUME LevelInv, [LevelNext]_levelVars PROVE LevelInv'
      OBVIOUS
    <2>1. CASE UNCHANGED levelVars
      BY <2>1 DEF LevelInv, TimesFollow, NothingUnseen, CodeInFile, Readable, levelVars
    <2> QED BY <2>1, ResolveKeeps, StatKeeps, ReadKeeps, EditKeeps DEF LevelNext, PollMinLevel
  <1>2. LevelInv /\ LevelTypeOK => LevelHolds
    BY DEF LevelInv, LevelHolds, CodeInFile, CodeIsTruth
  <1> QED BY <1>1, <1>2, LevelInitInv, LevelTypeCorrect, PTL DEF LevelSpec

----------------------------------------------------------------------------
(* Dates: the days before a month, and the year that begins on the 1st of     *)
(* March                                                                      *)

\* Quotient and remainder of a division.
LEMMA DividedBy ==
    ASSUME NEW b \in Nat \ {0}, NEW q \in Int, NEW r \in 0 .. b - 1, NEW n, n = b * q + r
    PROVE  n \div b = q /\ n % b = r
  OBVIOUS

Leap(y) == IF IsLeap(y) THEN 1 ELSE 0

\* The days of the year before a month.
DaysBefore(y, mo) ==
    CASE mo = 1 -> 0                [] mo = 2 -> 31
      [] mo = 3 -> 59 + Leap(y)     [] mo = 4 -> 90 + Leap(y)
      [] mo = 5 -> 120 + Leap(y)    [] mo = 6 -> 151 + Leap(y)
      [] mo = 7 -> 181 + Leap(y)    [] mo = 8 -> 212 + Leap(y)
      [] mo = 9 -> 243 + Leap(y)    [] mo = 10 -> 273 + Leap(y)
      [] mo = 11 -> 304 + Leap(y)   [] mo = 12 -> 334 + Leap(y)

\* A day of the calendar, and the number of days since 1970-01-01.
IsDate(y, mo, d) == y \in Nat /\ y >= 1970 /\ mo \in 1 .. 12 /\ d \in 1 .. MonthLength(y, mo)
DayNumber(y, mo, d) == NewYear(y) + DaysBefore(y, mo) + d - 1

\* A leap year has one day more.
LEMMA LeapIs == ASSUME NEW y PROVE Leap(y) \in {0, 1} /\ (IsLeap(y) <=> Leap(y) = 1)
  BY DEF Leap

\* A year has 365 days, or one more.
LEMMA YearLength ==
    ASSUME NEW y \in Nat, y >= 1
    PROVE  LeapsBefore(y + 1) = LeapsBefore(y) + Leap(y) /\ LeapsBefore(y) \in Int
  <1>1. /\ y \div 4 = (y - 1) \div 4 + (IF y % 4 = 0 THEN 1 ELSE 0)
        /\ y \div 100 = (y - 1) \div 100 + (IF y % 100 = 0 THEN 1 ELSE 0)
        /\ y \div 400 = (y - 1) \div 400 + (IF y % 400 = 0 THEN 1 ELSE 0)
    OBVIOUS
  <1>2. (y % 100 = 0 => y % 4 = 0) /\ (y % 400 = 0 => y % 100 = 0)
    OBVIOUS
  <1>3. y + 1 - 1 = y
    OBVIOUS
  <1> QED BY <1>1, <1>2, <1>3 DEF LeapsBefore, Leap, IsLeap

\* The days of the months.
LEMMA MonthLengthIs ==
    ASSUME NEW y, NEW mo \in 1 .. 12
    PROVE  /\ mo \in {1, 3, 5, 7, 8, 10, 12} => MonthLength(y, mo) = 31
           /\ mo \in {4, 6, 9, 11} => MonthLength(y, mo) = 30
           /\ mo = 2 => MonthLength(y, mo) = 28 + Leap(y)
  BY DEF MonthLength, Leap

\* Tomorrow is the day with the next number.
LEMMA NextDay ==
    ASSUME NEW y, NEW mo, NEW d, IsDate(y, mo, d)
    PROVE  /\ d < MonthLength(y, mo) =>
                IsDate(y, mo, d + 1) /\ DayNumber(y, mo, d + 1) = DayNumber(y, mo, d) + 1
           /\ d >= MonthLength(y, mo) /\ mo < 12 =>
                IsDate(y, mo + 1, 1) /\ DayNumber(y, mo + 1, 1) = DayNumber(y, mo, d) + 1
           /\ d >= MonthLength(y, mo) /\ mo >= 12 =>
                IsDate(y + 1, 1, 1) /\ DayNumber(y + 1, 1, 1) = DayNumber(y, mo, d) + 1
  <1>1. y \in Nat /\ y >= 1970 /\ mo \in 1 .. 12 /\ d \in 1 .. MonthLength(y, mo)
    BY DEF IsDate
  <1>2. Leap(y) \in {0, 1}
    BY LeapIs
  <1>3. NewYear(y) \in Int /\ NewYear(y + 1) = NewYear(y) + 365 + Leap(y)
    <2>1. LeapsBefore(y + 1) = LeapsBefore(y) + Leap(y) /\ LeapsBefore(y) \in Int
      BY <1>1, YearLength
    <2>2. LeapsBefore(1970) \in Int
      BY YearLength
    <2> QED BY <1>1, <1>2, <2>1, <2>2 DEF NewYear
  <1>4. /\ mo \in {1, 3, 5, 7, 8, 10, 12} => MonthLength(y, mo) = 31
        /\ mo \in {4, 6, 9, 11} => MonthLength(y, mo) = 30
        /\ mo = 2 => MonthLength(y, mo) = 28 + Leap(y)
    BY <1>1, MonthLengthIs
  <1>5. MonthLength(y, mo) \in 28 .. 31 /\ d \in 1 .. 31
    BY <1>1, <1>2, <1>4
  <1>6. DaysBefore(y, mo) \in Nat
    BY <1>1, <1>2 DEF DaysBefore
  <1>7. mo < 12 => DaysBefore(y, mo + 1) = DaysBefore(y, mo) + MonthLength(y, mo)
    BY <1>1, <1>2, <1>4 DEF DaysBefore
  <1>8. CASE d < MonthLength(y, mo)
    BY <1>1, <1>3, <1>5, <1>6, <1>8 DEF IsDate, DayNumber
  <1>9. CASE d >= MonthLength(y, mo) /\ mo < 12
    <2>1. MonthLength(y, mo + 1) >= 28 /\ MonthLength(y, mo + 1) \in Nat
      BY <1>1, <1>2, <1>9, MonthLengthIs
    <2>2. d = MonthLength(y, mo)
      BY <1>1, <1>5, <1>9
    <2>3. IsDate(y, mo + 1, 1)
      BY <1>1, <1>9, <2>1 DEF IsDate
    <2>4. DayNumber(y, mo + 1, 1) = DayNumber(y, mo, d) + 1
      BY <1>3, <1>5, <1>6, <1>7, <1>9, <2>2 DEF DayNumber
    <2> QED BY <1>1, <1>9, <2>2, <2>3, <2>4
  <1>10. CASE d >= MonthLength(y, mo) /\ mo >= 12
    <2>1. mo = 12 /\ d = 31 /\ MonthLength(y, mo) = 31
      BY <1>1, <1>4, <1>5, <1>10
    <2>2. MonthLength(y + 1, 1) = 31
      BY MonthLengthIs
    <2>3. DaysBefore(y + 1, 1) = 0 /\ DaysBefore(y, mo) = 334 + Leap(y)
      BY <2>1 DEF DaysBefore
    <2> QED BY <1>1, <1>2, <1>3, <2>1, <2>2, <2>3 DEF IsDate, DayNumber
  <1> QED BY <1>1, <1>5, <1>8, <1>9, <1>10

\* The year of the era, its century c, its four years k of the century and j of them.
LongYear(c, k, j) == IF j = 3 /\ (k < 24 \/ c = 3) THEN 1 ELSE 0

WithinYear(c, k, j, doy) == doy \in 0 .. 364 + LongYear(c, k, j)

\* That year of the era, and the day of the era that is the day doy of that year.
YearIn(c, k, j)     == 100 * c + 4 * k + j
DayIn(c, k, j, doy) == 36524 * c + 1461 * k + 365 * j + doy

\* The days of an era: 400 years, 97 of them with a leap day.
WithinEra(doe) == 0 <= doe /\ doe < 146097

\* The year is found again from the day of the era.
LEMMA YearOfEraIs ==
    ASSUME NEW c \in 0 .. 3, NEW k \in 0 .. 24, NEW j \in 0 .. 3,
           NEW doy, WithinYear(c, k, j, doy)
    PROVE  /\ DayIn(c, k, j, doy) \in Int /\ YearIn(c, k, j) \in Int
           /\ WithinEra(DayIn(c, k, j, doy))
           /\ YearOfEra(DayIn(c, k, j, doy)) = YearIn(c, k, j)
  <1> DEFINE doe == DayIn(c, k, j, doy)
  <1>0. doe \in Int /\ doe = 36524 * c + 1461 * k + 365 * j + doy
    BY SMT DEF DayIn, LongYear, WithinYear
  <1> HIDE DEF doe
  <1>1. doy \in 0 .. 365 /\ (doy = 365 => j = 3 /\ (k < 24 \/ c = 3))
    BY DEF LongYear, WithinYear
  <1>2. 0 <= doe /\ doe < 146097
    BY <1>0, <1>1, SMT
  <1>3. doe \div 36524 - doe \div 146096 = c
    <2> DEFINE e == 1461 * k + 365 * j + doy
    <2>1. doe = 36524 * c + e /\ 0 <= e /\ e <= 36524 /\ (e = 36524 => c = 3) /\ e \in Int
      BY <1>0, <1>1, SMT
    <2> HIDE DEF e
    <2>2. CASE e = 36524
      <3>1. doe = 146096 * 1 + 0 /\ doe = 36524 * 4 + 0
        BY <2>1, <2>2, SMT
      <3>2. doe \div 146096 = 1 /\ doe \div 36524 = 4
        BY <3>1, SMT
      <3> QED BY <2>1, <2>2, <3>2, SMT
    <2>3. CASE e < 36524
      <3>1. doe < 146096
        BY <1>0, <1>2, <2>1, <2>3, SMT
      <3>2. doe \div 146096 = 0
        BY <1>0, <1>2, <3>1, SMT
      <3>3. doe \div 36524 = c
        BY <2>1, <2>3, SMT
      <3> QED BY <3>2, <3>3, SMT
    <2> QED BY <2>1, <2>2, <2>3, SMT
  <1>4. PICK x \in {0, 1} : /\ doe \div 1460 = 25 * c + k + x
                            /\ x = 0 => doy <= 364
                            /\ x = 1 => doy >= 1
    <2> DEFINE g == 24 * c + k + 365 * j + doy
    <2>1. 0 <= g /\ g <= 1556 /\ g \in Int /\ doe = 1460 * (25 * c + k) + g
      BY <1>0, <1>1, SMT
    <2>2. (g < 1460 => doy <= 364) /\ (g >= 1460 => doy >= 1)
      BY <1>1, SMT
    <2> HIDE DEF g
    <2>3. CASE g < 1460
      <3>1. doe \div 1460 = 25 * c + k
        BY <2>1, <2>3, SMT
      <3> QED BY <2>2, <2>3, <3>1, SMT
    <2>4. CASE g >= 1460
      <3>1. doe \div 1460 = 25 * c + k + 1
        BY <2>1, <2>4, SMT
      <3> QED BY <2>2, <2>4, <3>1, SMT
    <2> QED BY <2>1, <2>3, <2>4, SMT
  <1>5. 0 <= doy - x /\ doy - x <= 364
    BY <1>1, <1>4, SMT
  <1>6. doe - doe \div 1460 + doe \div 36524 - doe \div 146096
          = 365 * (100 * c + 4 * k + j) + (doy - x)
    <2>1. PICK a \in Int, b \in Int, f \in Int :
             a = doe \div 1460 /\ b = doe \div 36524 /\ f = doe \div 146096
      BY <1>0, SMT
    <2>2. doe - a + b - f = 365 * (100 * c + 4 * k + j) + (doy - x)
      BY <1>0, <1>1, <1>3, <1>4, <2>1, SMT
    <2> QED BY <2>1, <2>2, SMT
  <1>7. PICK n \in Int : n = doe - doe \div 1460 + doe \div 36524 - doe \div 146096
    BY <1>0, SMT
  <1>8. n \div 365 = 100 * c + 4 * k + j
    BY <1>1, <1>4, <1>5, <1>6, <1>7, SMT
  <1>9. YearOfEra(doe) = 100 * c + 4 * k + j
    BY <1>7, <1>8, SMT DEF YearOfEra
  <1>10. YearIn(c, k, j) = 100 * c + 4 * k + j /\ YearIn(c, k, j) \in Int
    BY SMT DEF YearIn
  <1> QED BY <1>0, <1>2, <1>9, <1>10, SMT DEF doe, WithinEra

IsYear(Y, q, c, k, j) ==
    /\ Y = 400 * q + YearIn(c, k, j)
    /\ Y \div 4 = 100 * q + 25 * c + k
    /\ Y \div 100 = 4 * q + c /\ Y \div 400 = q
    /\ YearIn(c, k, j) \div 4 = 25 * c + k /\ YearIn(c, k, j) \div 100 = c
    /\ Leap(Y + 1) = LongYear(c, k, j)

\* A year of the calendar from the 1st of March.
LEMMA YearParts ==
    ASSUME NEW Y \in Nat
    PROVE  \E q \in Nat, c \in 0 .. 3, k \in 0 .. 24, j \in 0 .. 3 :
              IsYear(Y, q, c, k, j)
  <1>1. PICK q \in Nat, r \in 0 .. 399 : Y = 400 * q + r /\ q = Y \div 400
    <2>1. /\ Y \div 400 \in Nat /\ Y % 400 \in 0 .. 399
          /\ Y = 400 * (Y \div 400) + (Y % 400)
      OBVIOUS
    <2> QED BY <2>1
  <1>2. PICK c \in 0 .. 3, s \in 0 .. 99 : r = 100 * c + s /\ r \div 100 = c
    <2>1. /\ r \div 100 \in 0 .. 3 /\ r % 100 \in 0 .. 99
          /\ r = 100 * (r \div 100) + (r % 100)
      OBVIOUS
    <2> QED BY <2>1
  <1>3. PICK k \in 0 .. 24, j \in 0 .. 3 : s = 4 * k + j
    <2>1. s \div 4 \in 0 .. 24 /\ s % 4 \in 0 .. 3 /\ s = 4 * (s \div 4) + (s % 4)
      OBVIOUS
    <2> QED BY <2>1
  <1>4. r = 100 * c + 4 * k + j
    BY <1>2, <1>3
  <1>5. Y \div 4 = 100 * q + 25 * c + k
    <2>1. Y = 4 * (100 * q + 25 * c + k) + j /\ 100 * q + 25 * c + k \in Int
      BY <1>1, <1>4
    <2> QED BY <2>1, DividedBy
  <1>6. r \div 4 = 25 * c + k
    <2>1. r = 4 * (25 * c + k) + j /\ 25 * c + k \in Int
      BY <1>4
    <2> QED BY <2>1, DividedBy
  <1>7. Y \div 100 = 4 * q + c
    <2>1. Y = 100 * (4 * q + c) + s /\ 4 * q + c \in Int
      BY <1>1, <1>2
    <2> QED BY <2>1, DividedBy
  <1>8. Leap(Y + 1) = LongYear(c, k, j)
    <2>1. Y + 1 = 400 * q + 100 * c + 4 * k + j + 1
      BY <1>1, <1>4
    <2>2. (Y + 1) % 4 = 0 <=> j = 3
      <3>1. CASE j = 3
        <4>1. Y + 1 = 4 * (100 * q + 25 * c + k + 1) + 0 /\ 100 * q + 25 * c + k + 1 \in Int
          BY <2>1, <3>1
        <4> QED BY <3>1, <4>1, DividedBy
      <3>2. CASE j # 3
        <4>1. /\ Y + 1 = 4 * (100 * q + 25 * c + k) + (j + 1) /\ 100 * q + 25 * c + k \in Int
              /\ j + 1 \in 0 .. 3
          BY <2>1, <3>2
        <4>2. (Y + 1) % 4 = j + 1
          BY <4>1, DividedBy
        <4> QED BY <3>2, <4>2
      <3> QED BY <3>1, <3>2
    <2>3. (Y + 1) % 100 = 0 <=> k = 24 /\ j = 3
      <3>1. CASE k = 24 /\ j = 3
        <4>1. Y + 1 = 100 * (4 * q + c + 1) + 0 /\ 4 * q + c + 1 \in Int
          BY <2>1, <3>1
        <4> QED BY <3>1, <4>1, DividedBy
      <3>2. CASE ~(k = 24 /\ j = 3)
        <4>1. /\ Y + 1 = 100 * (4 * q + c) + (4 * k + j + 1) /\ 4 * q + c \in Int
              /\ 4 * k + j + 1 \in 0 .. 99
          BY <2>1, <3>2
        <4>2. (Y + 1) % 100 = 4 * k + j + 1
          BY <4>1, DividedBy
        <4> QED BY <3>2, <4>2
      <3> QED BY <3>1, <3>2
    <2>4. (Y + 1) % 400 = 0 <=> c = 3 /\ k = 24 /\ j = 3
      <3>1. CASE c = 3 /\ k = 24 /\ j = 3
        <4>1. Y + 1 = 400 * (q + 1) + 0 /\ q + 1 \in Int
          BY <2>1, <3>1
        <4> QED BY <3>1, <4>1, DividedBy
      <3>2. CASE ~(c = 3 /\ k = 24 /\ j = 3)
        <4>1. /\ Y + 1 = 400 * q + (100 * c + 4 * k + j + 1) /\ q \in Int
              /\ 100 * c + 4 * k + j + 1 \in 0 .. 399
          BY <2>1, <3>2
        <4>2. (Y + 1) % 400 = 100 * c + 4 * k + j + 1
          BY <4>1, DividedBy
        <4> QED BY <3>2, <4>2
      <3> QED BY <3>1, <3>2
    <2> QED BY <2>2, <2>3, <2>4 DEF Leap, IsLeap, LongYear
  <1>9. IsYear(Y, q, c, k, j)
    BY <1>1, <1>2, <1>4, <1>5, <1>6, <1>7, <1>8 DEF IsYear, YearIn
  <1> QED BY <1>9

\* The months from March on: their days, and the day of the year on which they start.
MarchMonth(mo) == IF mo >= 3 THEN mo - 3 ELSE mo + 9
MonthStart(mp) == (153 * mp + 2) \div 5

\* The starts of the months.
LEMMA MonthStartIs ==
    /\ MonthStart(0) = 0 /\ MonthStart(1) = 31 /\ MonthStart(2) = 61 /\ MonthStart(3) = 92
    /\ MonthStart(4) = 122 /\ MonthStart(5) = 153 /\ MonthStart(6) = 184
    /\ MonthStart(7) = 214 /\ MonthStart(8) = 245 /\ MonthStart(9) = 275
    /\ MonthStart(10) = 306 /\ MonthStart(11) = 337
  BY SMT DEF MonthStart

\* The month is found again from a day of the year.
LEMMA MonthPartIs ==
    ASSUME NEW y, NEW mo \in 1 .. 12, NEW d \in 1 .. MonthLength(y, mo),
           NEW doy, doy = MonthStart(MarchMonth(mo)) + d - 1
    PROVE  /\ MonthPart(doy) = MarchMonth(mo)
           /\ 0 <= doy /\ doy <= 364 + Leap(y) /\ doy \in Int
           /\ mo >= 3 => doy < 306
  <1>1. Leap(y) \in {0, 1}
    BY LeapIs
  <1>2. /\ mo \in {1, 3, 5, 7, 8, 10, 12} => MonthLength(y, mo) = 31
        /\ mo \in {4, 6, 9, 11} => MonthLength(y, mo) = 30
        /\ mo = 2 => MonthLength(y, mo) = 28 + Leap(y)
    BY MonthLengthIs
  <1>3. d \in Int /\ 1 <= d /\ d <= 31
    BY <1>1, <1>2
  <1>4. PICK mp \in 0 .. 11 : mp = MarchMonth(mo)
    BY DEF MarchMonth
  <1>5. PICK start : start = MonthStart(mp)
    OBVIOUS
  <1>5a. /\ start \in Int /\ 0 <= start /\ start <= 337
         /\ mp # 11 => start <= 306
         /\ mp <= 9 => start <= 275
         /\ 153 * mp <= 5 * start + 2
         /\ mp \in {1, 3, 6, 8} => 5 * (start + 29) + 2 < 153 * (mp + 1)
         /\ mp \in {0, 2, 4, 5, 7, 9, 10} => 5 * (start + 30) + 2 < 153 * (mp + 1)
         /\ mp = 11 => 5 * (start + 28) + 2 < 153 * (mp + 1)
    BY <1>5, MonthStartIs, SMT
  <1>5b. doy = start + d - 1
    BY <1>4, <1>5
  <1>6. /\ mp \in {1, 3, 6, 8} => d <= 30
        /\ mp = 11 => d <= 28 + Leap(y)
        /\ mp <= 9 <=> mo >= 3
    BY <1>1, <1>2, <1>4 DEF MarchMonth
  <1>7. 153 * mp <= 5 * doy + 2 /\ 5 * doy + 2 < 153 * (mp + 1) /\ doy \in Int
    BY <1>1, <1>3, <1>4, <1>5a, <1>5b, <1>6, SMT
  <1>8. (5 * doy + 2) \div 153 = mp
    BY <1>7, SMT
  <1>9. 0 <= doy /\ doy <= 364 + Leap(y) /\ (mo >= 3 => doy < 306)
    <2>1. (mp <= 9 => d <= 31) /\ (mp = 10 => mo = 1)
      BY <1>3, <1>4 DEF MarchMonth
    <2> QED BY <1>1, <1>3, <1>4, <1>5a, <1>5b, <1>6, SMT
  <1> QED BY <1>4, <1>7, <1>8, <1>9 DEF MonthPart

\* The years before 1970 had 477 leap days.
LEMMA LeapsBefore1970 == LeapsBefore(1970) = 477
  <1>1. 1969 \div 4 = 492 /\ 1969 \div 100 = 19 /\ 1969 \div 400 = 4
    BY SMT
  <1> QED BY <1>1, SMT DEF LeapsBefore

\* The days between the 1st of March of the year 0 and that of the year Y.
MarchDays(Y) == 365 * Y + Y \div 4 - Y \div 100 + Y \div 400

\* The days counted from the 1st of March of the year 0, of which 719468 lie before 1970.
LEMMA MarchCount ==
    ASSUME NEW y, NEW mo, NEW d, IsDate(y, mo, d),
           NEW Y \in Nat, Y = IF mo >= 3 THEN y ELSE y - 1,
           NEW doy \in Int, doy = MonthStart(MarchMonth(mo)) + d - 1
    PROVE  DayNumber(y, mo, d) + 719468 = MarchDays(Y) + doy
  <1>1. y \in Nat /\ y >= 1970 /\ mo \in 1 .. 12 /\ d \in Int
    <2>1. MonthLength(y, mo) \in Int
      BY DEF IsDate, MonthLength
    <2> QED BY <2>1 DEF IsDate
  <1>2. Leap(y) \in {0, 1}
    BY LeapIs
  <1>3. PICK leaps : leaps = Y \div 4 - Y \div 100 + Y \div 400
    OBVIOUS
  <1>4. leaps \in Int
    BY <1>3, SMT
  <1>5. PICK before : before = LeapsBefore(y)
    OBVIOUS
  <1>6. DayNumber(y, mo, d) = 365 * (y - 1970) + before - 477 + DaysBefore(y, mo) + d - 1
    BY <1>5, LeapsBefore1970, SMT DEF DayNumber, NewYear
  <1>7. CASE mo <= 2
    <2>1. Y = y - 1 /\ before = leaps
      BY <1>1, <1>3, <1>5, <1>7 DEF LeapsBefore
    <2>2. mo = 1 \/ mo = 2
      BY <1>1, <1>7
    <2>3. DaysBefore(y, mo) + 306 = MonthStart(MarchMonth(mo)) /\ DaysBefore(y, mo) \in Int
      <3>1. (mo = 1 => MarchMonth(mo) = 10) /\ (mo = 2 => MarchMonth(mo) = 11)
        BY DEF MarchMonth
      <3>2. (mo = 1 => DaysBefore(y, mo) = 0) /\ (mo = 2 => DaysBefore(y, mo) = 31)
        BY DEF DaysBefore
      <3> QED BY <2>2, <3>1, <3>2, MonthStartIs
    <2>4. DayNumber(y, mo, d) + 719468 = 365 * Y + leaps + doy
      BY <1>1, <1>4, <1>6, <2>1, <2>3, SMT
    <2>5. MarchDays(Y) = 365 * Y + leaps
      BY <1>3, SMT DEF MarchDays
    <2> QED BY <2>4, <2>5, SMT
  <1>8. CASE mo >= 3
    <2>1. Y = y
      BY <1>8
    <2>2. LeapsBefore(y + 1) = before + Leap(y) /\ before \in Int
      BY <1>1, <1>5, YearLength
    <2>3. LeapsBefore(y + 1) = leaps
      <3>1. y + 1 - 1 = Y
        BY <1>1, <2>1
      <3> QED BY <1>3, <3>1 DEF LeapsBefore
    <2>4. /\ DaysBefore(y, mo) = 59 + Leap(y) + MonthStart(MarchMonth(mo))
          /\ DaysBefore(y, mo) \in Int /\ MonthStart(MarchMonth(mo)) \in Int
      <3>1. PICK mp \in 0 .. 9 : mp = MarchMonth(mo) /\ mo = mp + 3
        BY <1>1, <1>8 DEF MarchMonth
      <3>2. DaysBefore(y, mp + 3) = 59 + Leap(y) + MonthStart(mp)
        BY <1>2, <3>1, MonthStartIs DEF DaysBefore
      <3>3. MonthStart(mp) \in Int
        BY <3>1, MonthStartIs
      <3> QED BY <1>2, <3>1, <3>2, <3>3
    <2>5. DayNumber(y, mo, d) + 719468 = 365 * Y + leaps + doy
      BY <1>1, <1>2, <1>4, <1>6, <2>1, <2>2, <2>3, <2>4, SMT
    <2>6. MarchDays(Y) = 365 * Y + leaps
      BY <1>3, SMT DEF MarchDays
    <2> QED BY <2>5, <2>6, SMT
  <1> QED BY <1>1, <1>7, <1>8, SMT

\* Such a count of days by its parts, and the year that the code finds for it.
IsCount(z, Y, q, c, k, j, doy) ==
    /\ Y \in Nat /\ q \in Nat /\ c \in 0 .. 3 /\ k \in 0 .. 24 /\ j \in 0 .. 3
    /\ IsYear(Y, q, c, k, j) /\ WithinYear(c, k, j, doy)
    /\ z \in Int /\ z = MarchDays(Y) + doy

YearCounted(z) == YearOfEra(DayOfEra(z)) + Era(z) * 400

\* The era, the day of the era and the day of the year are found again from the count.
LEMMA EraIs ==
    ASSUME NEW Y, NEW q, NEW c, NEW k, NEW j, NEW doy, NEW z, IsCount(z, Y, q, c, k, j, doy)
    PROVE  /\ YearCounted(z) = Y
           /\ DayOfYear(DayOfEra(z), YearOfEra(DayOfEra(z))) = doy
  <1>0. /\ Y \in Nat /\ q \in Nat /\ c \in 0 .. 3 /\ k \in 0 .. 24 /\ j \in 0 .. 3
        /\ IsYear(Y, q, c, k, j) /\ WithinYear(c, k, j, doy)
        /\ z \in Int /\ z = MarchDays(Y) + doy
    BY DEF IsCount
  <1>1. LongYear(c, k, j) \in {0, 1} /\ doy \in Int
    BY <1>0 DEF LongYear, WithinYear
  <1>2. PICK doe : doe = DayIn(c, k, j, doy)
    OBVIOUS
  <1>3. PICK r : r = YearIn(c, k, j)
    OBVIOUS
  <1>4. doe \in Int /\ r \in Int /\ WithinEra(doe) /\ YearOfEra(doe) = r
    BY <1>0, <1>2, <1>3, YearOfEraIs, Zenon
  <1>5. /\ Y = 400 * q + r /\ Y \div 4 = 100 * q + 25 * c + k
        /\ Y \div 100 = 4 * q + c /\ Y \div 400 = q
        /\ r \div 4 = 25 * c + k /\ r \div 100 = c
    BY <1>0, <1>3, Zenon DEF IsYear
  <1>6. z = 146097 * q + doe /\ 0 <= doe /\ doe < 146097
    <2>1. z = 365 * Y + (100 * q + 25 * c + k) - (4 * q + c) + q + doy
      BY <1>0, <1>4, <1>5, SMT DEF MarchDays
    <2>2. r = 100 * c + 4 * k + j /\ doe = 36524 * c + 1461 * k + 365 * j + doy
      BY <1>0, <1>1, <1>2, <1>3, SMT DEF DayIn, YearIn
    <2>3. Y = 400 * q + (100 * c + 4 * k + j)
      BY <1>0, <1>5, <2>2
    <2>4. 365 * Y = 146000 * q + (36500 * c + 1460 * k + 365 * j)
      BY <1>0, <2>3, SMT
    <2>5. z = 146097 * q + doe
      BY <1>0, <1>1, <2>1, <2>2, <2>4, SMT
    <2> QED BY <1>0, <1>4, <2>5, SMT DEF WithinEra
  <1>7. Era(z) = q
    BY <1>0, <1>4, <1>6, SMT DEF Era
  <1>8. DayOfEra(z) = doe
    BY <1>0, <1>4, <1>6, <1>7, SMT DEF DayOfEra
  <1>9. DayOfYear(doe, r) = doy
    <2>1. DayOfYear(doe, r) = doe - (365 * r + (25 * c + k) - c)
      BY <1>0, <1>5, SMT DEF DayOfYear
    <2>2. r = 100 * c + 4 * k + j /\ doe = 36524 * c + 1461 * k + 365 * j + doy
      BY <1>0, <1>1, <1>2, <1>3, SMT DEF DayIn, YearIn
    <2> QED BY <1>0, <1>1, <2>1, <2>2, SMT
  <1> QED BY <1>0, <1>3, <1>4, <1>5, <1>7, <1>8, <1>9, SMT DEF YearCounted

\* What the code makes of the number of a day is that day.
LEMMA CodeFollows ==
    ASSUME NEW y, NEW mo, NEW d, IsDate(y, mo, d), NEW t
    PROVE  UnixSecsToUtc(DayNumber(y, mo, d), t)
             = [y |-> y, mo |-> mo, d |-> d, h |-> Hour(t), m |-> Minute(t), s |-> Second(t)]
  <1>1. y \in Nat /\ y >= 1970 /\ mo \in 1 .. 12 /\ d \in 1 .. MonthLength(y, mo) /\ d \in Int
    <2>1. MonthLength(y, mo) \in Int
      BY DEF IsDate, MonthLength
    <2> QED BY <2>1 DEF IsDate
  <1>2. PICK Y \in Nat : Y = IF mo >= 3 THEN y ELSE y - 1
    BY <1>1
  <1>3. PICK q \in Nat, c \in 0 .. 3, k \in 0 .. 24, j \in 0 .. 3 : IsYear(Y, q, c, k, j)
    BY YearParts
  <1>4. PICK doy : doy = MonthStart(MarchMonth(mo)) + d - 1
    OBVIOUS
  <1>5. /\ MonthPart(doy) = MarchMonth(mo)
        /\ 0 <= doy /\ doy <= 364 + Leap(y) /\ doy \in Int
        /\ mo >= 3 => doy < 306
    BY <1>1, <1>4, MonthPartIs
  <1>6. WithinYear(c, k, j, doy)
    <2>1. LongYear(c, k, j) \in {0, 1}
      BY DEF LongYear
    <2>2. Leap(Y + 1) = LongYear(c, k, j)
      BY <1>3 DEF IsYear
    <2>3. mo < 3 => y = Y + 1
      BY <1>1, <1>2
    <2>4. mo < 3 => Leap(y) = LongYear(c, k, j)
      BY <2>2, <2>3
    <2> QED BY <1>1, <1>5, <2>1, <2>4 DEF WithinYear
  <1>7. PICK z : z = DayNumber(y, mo, d) + 719468
    BY SMT
  <1>8. z = MarchDays(Y) + doy
    BY <1>2, <1>4, <1>5, <1>7, MarchCount, SMT
  <1>9. z \in Int
    BY <1>5, <1>8, SMT
  <1>10. /\ YearCounted(z) = Y
         /\ DayOfYear(DayOfEra(z), YearOfEra(DayOfEra(z))) = doy
    <2>1. IsCount(z, Y, q, c, k, j, doy)
      BY <1>3, <1>6, <1>8, <1>9, Zenon DEF IsCount
    <2> QED BY <2>1, EraIs
  <1>11. PICK mp \in 0 .. 11 : mp = MarchMonth(mo) /\ MonthPart(doy) = mp
    BY <1>1, <1>5 DEF MarchMonth
  <1>12. (IF mp < 10 THEN mp + 3 ELSE mp - 9) = mo
    BY <1>1, <1>11 DEF MarchMonth
  <1>13. Y + (IF mo <= 2 THEN 1 ELSE 0) = y
    BY <1>1, <1>2
  <1>14. doy - (153 * mp + 2) \div 5 + 1 = d
    <2>1. PICK start : start = MonthStart(mp)
      OBVIOUS
    <2>2. start \in Int
      BY <1>11, <2>1, MonthStartIs
    <2>3. doy - start + 1 = d
      BY <1>1, <1>4, <1>11, <2>1, <2>2
    <2> QED BY <2>1, <2>3 DEF MonthStart
  <1> QED BY <1>7, <1>10, <1>11, <1>12, <1>13, <1>14, SMT DEF UnixSecsToUtc, YearCounted

\* So is the time of day.
LEMMA TimeOfDay ==
    ASSUME NEW t \in Nat, t < 86400
    PROVE  /\ Hour(t) * 3600 + Minute(t) * 60 + Second(t) = t
           /\ Hour(t) \in 0 .. 23 /\ Minute(t) \in 0 .. 59 /\ Second(t) \in 0 .. 59
  <1> DEFINE h == t \div 3600
             u == t % 3600
             mi == u \div 60
             sec == u % 60
  <1>1. h \in 0 .. 23 /\ u \in 0 .. 3599 /\ t = 3600 * h + u
    BY SMT
  <1>2. mi \in 0 .. 59 /\ sec \in 0 .. 59 /\ u = 60 * mi + sec
    <2> HIDE DEF u
    <2> QED BY <1>1, SMT
  <1>3. t % 60 = sec
    <2> HIDE DEF h, u, mi, sec
    <2>1. t = 60 * (60 * h + mi) + sec
      BY <1>1, <1>2, SMT
    <2> QED BY <1>1, <1>2, <2>1, SMT
  <1>4. Hour(t) = h /\ Minute(t) = mi /\ Second(t) = sec
    BY <1>3, SMT DEF Hour, Minute, Second
  <1> HIDE DEF h, u, mi, sec
  <1> QED BY <1>1, <1>2, <1>4, SMT

----------------------------------------------------------------------------
\* The reference is a day of the calendar, and days is its number.
DateInv ==
    /\ tod \in Readings
    /\ date = [y |-> date.y, mo |-> date.mo, d |-> date.d]
    /\ IsDate(date.y, date.mo, date.d) /\ days = DayNumber(date.y, date.mo, date.d)

\* The clock starts on a first of January,
LEMMA DateInitInv == DateInit => DateInv
  <1> SUFFICES ASSUME NEW y \in Years, days = NewYear(y), tod = 0,
                      date = [y |-> y, mo |-> 1, d |-> 1]
               PROVE  DateInv
    BY DEF DateInit
  <1>1. y \in Nat /\ y >= 1970 /\ tod \in Readings
    BY DateAssumed, SMT DEF DateAssumption
  <1>2. IsDate(y, 1, 1)
    <2>1. MonthLength(y, 1) = 31
      BY MonthLengthIs
    <2> QED BY <1>1, <2>1 DEF IsDate
  <1>3. DayNumber(y, 1, 1) = days
    <2>1. LeapsBefore(y) \in Int /\ LeapsBefore(1970) \in Int
      BY <1>1, YearLength
    <2>2. NewYear(y) \in Int
      BY <1>1, <2>1 DEF NewYear
    <2> QED BY <2>2 DEF DayNumber, DaysBefore
  <1> QED BY <1>1, <1>2, <1>3 DEF DateInv

\* and goes on by the calendar.
LEMMA DateStepInv == DateInv /\ [Tick]_dateVars => DateInv'
  <1> SUFFICES ASSUME DateInv, [Tick]_dateVars PROVE DateInv'
    OBVIOUS
  <1> DEFINE later == {t \in Readings : t > tod}
  <1>1. CASE UNCHANGED dateVars
    BY <1>1 DEF DateInv, dateVars
  <1>2. CASE /\ tod' \in {t \in later : \A u \in later : t <= u}
             /\ UNCHANGED <<days, date>>
    <2>1. tod' \in Readings
      BY <1>2
    <2> QED BY <1>2, <2>1 DEF DateInv
  <1>3. CASE days' = days + 1 /\ tod' = 0 /\ date' = Tomorrow
    <2>1. PICK y, mo, d : y = date.y /\ mo = date.mo /\ d = date.d
      OBVIOUS
    <2>2. date = [y |-> y, mo |-> mo, d |-> d] /\ IsDate(y, mo, d) /\ days = DayNumber(y, mo, d)
      BY <2>1 DEF DateInv
    <2> HIDE DEF later
    <2>2a. date.y = y /\ date.mo = mo /\ date.d = d
      BY <2>1
    <2>3. Tomorrow = IF d < MonthLength(y, mo) THEN [y |-> y, mo |-> mo, d |-> d + 1]
                     ELSE IF mo < 12 THEN [y |-> y, mo |-> mo + 1, d |-> 1]
                     ELSE [y |-> y + 1, mo |-> 1, d |-> 1]
      BY <2>2a, Zenon DEF Tomorrow
    <2>4. y \in Int /\ mo \in Int /\ d \in Int /\ MonthLength(y, mo) \in Int
      <3>1. MonthLength(y, mo) \in Int
        BY DEF MonthLength
      <3> QED BY <2>2, <3>1 DEF IsDate
    <2>5. tod' \in Readings
      BY <1>3, DateAssumed, SMT DEF DateAssumption
    <2>6. CASE d < MonthLength(y, mo)
      <3>1. IsDate(y, mo, d + 1) /\ DayNumber(y, mo, d + 1) = DayNumber(y, mo, d) + 1
        BY <2>2, <2>6, NextDay
      <3> QED BY <1>3, <2>2, <2>3, <2>5, <2>6, <3>1 DEF DateInv
    <2>7. CASE ~(d < MonthLength(y, mo)) /\ mo < 12
      <3>1. IsDate(y, mo + 1, 1) /\ DayNumber(y, mo + 1, 1) = DayNumber(y, mo, d) + 1
        BY <2>2, <2>4, <2>7, NextDay
      <3> QED BY <1>3, <2>2, <2>3, <2>5, <2>7, <3>1 DEF DateInv
    <2>8. CASE ~(d < MonthLength(y, mo)) /\ ~(mo < 12)
      <3>1. IsDate(y + 1, 1, 1) /\ DayNumber(y + 1, 1, 1) = DayNumber(y, mo, d) + 1
        BY <2>2, <2>4, <2>8, NextDay
      <3> QED BY <1>3, <2>2, <2>3, <2>5, <2>8, <3>1 DEF DateInv
    <2> QED BY <2>6, <2>7, <2>8
  <1> QED BY <1>1, <1>2, <1>3 DEF Tick

\* Both copies of unix_secs_to_utc follow the calendar, from 1970 on, on every day of every
\* year and at every second.
THEOREM UtcFollowsCalendar == DateSpec => []UtcIsGregorian
  <1>1. DateInv => UtcIsGregorian
    <2> SUFFICES ASSUME DateInv PROVE UtcIsGregorian
      OBVIOUS
    <2>1. PICK y, mo, d : y = date.y /\ mo = date.mo /\ d = date.d
      OBVIOUS
    <2>2. UnixSecsToUtc(days, tod)
            = [y |-> y, mo |-> mo, d |-> d, h |-> Hour(tod), m |-> Minute(tod), s |-> Second(tod)]
      BY <2>1, CodeFollows DEF DateInv
    <2>3. date = [y |-> y, mo |-> mo, d |-> d]
      BY <2>1 DEF DateInv
    <2>4. tod \in Nat /\ tod < 86400
      BY DateAssumed, SMT DEF DateInv, DateAssumption
    <2>5. /\ Hour(tod) * 3600 + Minute(tod) * 60 + Second(tod) = tod
          /\ Hour(tod) \in 0 .. 23 /\ Minute(tod) \in 0 .. 59 /\ Second(tod) \in 0 .. 59
      BY <2>4, TimeOfDay
    <2> QED BY <2>2, <2>3, <2>5 DEF UtcIsGregorian
  <1> QED BY <1>1, DateInitInv, DateStepInv, PTL DEF DateSpec

----------------------------------------------------------------------------
(* The task's document                                                     *)

Word == Pieces \ Markers

\* Two sequences joined.
LEMMA JoinIs ==
    ASSUME NEW S, NEW s \in Seq(S), NEW t \in Seq(S)
    PROVE  /\ s \o t \in Seq(S) /\ Len(s \o t) = Len(s) + Len(t)
           /\ \A i \in 1 .. Len(s) : (s \o t)[i] = s[i]
           /\ \A i \in 1 .. Len(t) : (s \o t)[Len(s) + i] = t[i]
  <1>1. /\ s \o t \in Seq(S) /\ Len(s \o t) = Len(s) + Len(t)
        /\ \A i \in 1 .. Len(s) + Len(t) :
              (s \o t)[i] = IF i <= Len(s) THEN s[i] ELSE t[i - Len(s)]
    BY ConcatProperties, Zenon
  <1>2. Len(s) \in Nat /\ Len(t) \in Nat
    BY LenProperties
  <1>3. ASSUME NEW i \in 1 .. Len(t) PROVE (s \o t)[Len(s) + i] = t[i]
    <2>1. Len(s) + i \in 1 .. Len(s) + Len(t) /\ ~(Len(s) + i <= Len(s)) /\ (Len(s) + i) - Len(s) = i
      BY <1>2
    <2> QED BY <1>1, <2>1
  <1>4. \A i \in 1 .. Len(s) : i \in 1 .. Len(s) + Len(t) /\ i <= Len(s)
    BY <1>2
  <1> QED BY <1>1, <1>3, <1>4

\* A document, piece by piece.
IsDocument(d, t, n, c, u) ==
    /\ n \in Nat /\ d \in Seq(Pieces) /\ Len(d) = n + 9
    /\ d[1] = "Task" /\ d[2] = "Source"
    /\ \A i \in 1 .. n : d[2 + i] = t.path[i] /\ t.path[i] \notin Markers
    /\ d[n + 3] = t.line /\ d[n + 4] = "Created" /\ d[n + 5] = c
    /\ d[n + 6] = "Updated" /\ d[n + 7] = u /\ d[n + 8] = "---" /\ d[n + 9] = t.desc
    /\ t.line \notin Markers

LEMMA DocumentIs ==
    ASSUME TaskAssumption, NEW t \in Tasks, NEW c \in Pieces, NEW u \in Pieces
    PROVE  IsDocument(Document(t, c, u), t, Len(t.path), c, u)
  <1> DEFINE top == <<"Task", "Source">>
             end == <<t.line, "Created", c, "Updated", u, "---", t.desc>>
             n   == Len(t.path)
             h   == top \o t.path
             d   == Document(t, c, u)
  <1>1. /\ t.path \in Seq(Pieces) /\ \A i \in DOMAIN t.path : t.path[i] \notin Markers
        /\ t.line \in Pieces /\ t.line \notin Markers /\ t.desc \in Pieces
        /\ "Task" \in Pieces /\ "Source" \in Pieces
        /\ "Created" \in Pieces /\ "Updated" \in Pieces /\ "---" \in Pieces
    BY DEF TaskAssumption, Tasks, Markers
  <1>2. n \in Nat /\ DOMAIN t.path = 1 .. n
    BY <1>1, LenProperties
  <1>3. top \in Seq(Pieces) /\ Len(top) = 2 /\ top[1] = "Task" /\ top[2] = "Source"
    BY <1>1
  <1>4. /\ end \in Seq(Pieces) /\ Len(end) = 7
        /\ end[1] = t.line /\ end[2] = "Created" /\ end[3] = c /\ end[4] = "Updated"
        /\ end[5] = u /\ end[6] = "---" /\ end[7] = t.desc
    BY <1>1
  <1>5. d = h \o end
    BY DEF Document
  <1> HIDE DEF top, end
  <1>6. /\ h \in Seq(Pieces) /\ Len(h) = 2 + n
        /\ \A i \in 1 .. 2 : h[i] = top[i] /\ \A k \in 1 .. n : h[2 + k] = t.path[k]
    <2>1. /\ top \o t.path \in Seq(Pieces) /\ Len(top \o t.path) = Len(top) + Len(t.path)
          /\ \A i \in 1 .. Len(top) : (top \o t.path)[i] = top[i]
          /\ \A k \in 1 .. Len(t.path) : (top \o t.path)[Len(top) + k] = t.path[k]
      <3>1. top \in Seq(Pieces) /\ t.path \in Seq(Pieces)
        BY <1>1, <1>3
      <3> QED BY <3>1, JoinIs
    <2> QED BY <1>3, <2>1
  <1> HIDE DEF h
  <1>7. /\ d \in Seq(Pieces) /\ Len(d) = (2 + n) + 7
        /\ \A i \in 1 .. 2 + n : d[i] = h[i]
        /\ \A k \in 1 .. 7 : d[(2 + n) + k] = end[k]
    <2>1. /\ h \o end \in Seq(Pieces) /\ Len(h \o end) = Len(h) + Len(end)
          /\ \A i \in 1 .. Len(h) : (h \o end)[i] = h[i]
          /\ \A k \in 1 .. Len(end) : (h \o end)[Len(h) + k] = end[k]
      <3> HIDE DEF n, d
      <3>1. h \in Seq(Pieces) /\ end \in Seq(Pieces)
        BY <1>4, <1>6
      <3> QED BY <3>1, JoinIs
    <2> QED BY <1>4, <1>5, <1>6, <2>1
  <1> HIDE DEF d, n
  <1>8. d[1] = "Task" /\ d[2] = "Source"
    <2>1. 1 \in 1 .. 2 /\ 2 \in 1 .. 2 /\ 1 \in 1 .. 2 + n /\ 2 \in 1 .. 2 + n
      BY <1>2
    <2> QED BY <1>3, <1>6, <1>7, <2>1
  <1>9. \A i \in 1 .. n : d[2 + i] = t.path[i] /\ t.path[i] \notin Markers
    <2> SUFFICES ASSUME NEW i \in 1 .. n PROVE d[2 + i] = t.path[i] /\ t.path[i] \notin Markers
      OBVIOUS
    <2>1. 2 + i \in 1 .. 2 + n
      BY <1>2
    <2>2. d[2 + i] = h[2 + i] /\ h[2 + i] = t.path[i]
      BY <1>6, <1>7, <2>1
    <2>3. i \in DOMAIN t.path
      BY <1>2
    <2> QED BY <1>1, <2>2, <2>3
  <1>10. /\ d[n + 3] = end[1] /\ d[n + 4] = end[2] /\ d[n + 5] = end[3] /\ d[n + 6] = end[4]
         /\ d[n + 7] = end[5] /\ d[n + 8] = end[6] /\ d[n + 9] = end[7]
    <2>1. /\ d[(2 + n) + 1] = end[1] /\ d[(2 + n) + 2] = end[2] /\ d[(2 + n) + 3] = end[3]
          /\ d[(2 + n) + 4] = end[4] /\ d[(2 + n) + 5] = end[5] /\ d[(2 + n) + 6] = end[6]
          /\ d[(2 + n) + 7] = end[7]
      BY <1>7
    <2>2. /\ (2 + n) + 1 = n + 3 /\ (2 + n) + 2 = n + 4 /\ (2 + n) + 3 = n + 5
          /\ (2 + n) + 4 = n + 6 /\ (2 + n) + 5 = n + 7 /\ (2 + n) + 6 = n + 8
          /\ (2 + n) + 7 = n + 9
      BY <1>2
    <2> QED BY <2>1, <2>2
  <1>11. Len(d) = n + 9
    BY <1>2, <1>7
  <1>12. IsDocument(d, t, n, c, u)
    BY <1>1, <1>2, <1>4, <1>7, <1>8, <1>9, <1>10, <1>11 DEF IsDocument
  <1> QED BY <1>12 DEF d, n

\* The first place of a marker.
LEMMA FirstPlace ==
    ASSUME NEW d, NEW marker, NEW i \in DOMAIN d, DOMAIN d \subseteq Nat \ {0}, d[i] = marker,
           \A j \in 1 .. i - 1 : j \in DOMAIN d /\ d[j] # marker
    PROVE  Has(d, marker) /\ FindPosition(d, marker) = i
  <1>1. ASSUME NEW k \in DOMAIN d, d[k] = marker, \A j \in 1 .. k - 1 : d[j] # marker PROVE k = i
    <2>1. k \in Nat /\ i \in Nat /\ k > 0 /\ i > 0
      OBVIOUS
    <2>2. ~(k < i)
      BY <1>1, <2>1
    <2>3. ~(i < k)
      BY <1>1, <2>1
    <2> QED BY <2>1, <2>2, <2>3
  <1> QED BY <1>1 DEF Has, FindPosition

\* Where the markers of a document are.
Marked(d, n) ==
    /\ Sliceable(d)
    /\ FindPosition(d, "Created") = n + 4
    /\ FindPosition(d, "Updated") = n + 6
    /\ FindPosition(From(d, n + 4), "---") = 5

LEMMA MarkersAt ==
    ASSUME TaskAssumption, NEW t \in Tasks, NEW c \in Word, NEW u \in Word
    PROVE  Marked(Document(t, c, u), Len(t.path))
  <1> DEFINE d == Document(t, c, u)
             n == Len(t.path)
  <1>1. c \in Pieces /\ u \in Pieces /\ c \notin Markers /\ u \notin Markers
    BY DEF Word
  <1>2. /\ n \in Nat /\ d \in Seq(Pieces) /\ Len(d) = n + 9
        /\ d[1] = "Task" /\ d[2] = "Source"
        /\ \A i \in 1 .. n : d[2 + i] \notin Markers
        /\ d[n + 3] \notin Markers /\ d[n + 4] = "Created" /\ d[n + 5] = c
        /\ d[n + 6] = "Updated" /\ d[n + 7] = u /\ d[n + 8] = "---" /\ d[n + 9] = t.desc
    <2>1. IsDocument(d, t, n, c, u)
      BY <1>1, DocumentIs, Zenon
    <2> HIDE DEF d, n
    <2> QED BY <2>1 DEF IsDocument
  <1> HIDE DEF d, n
  <1>3. DOMAIN d = 1 .. n + 9
    BY <1>2, LenProperties
  <1>4. \A i \in 1 .. n + 3 : d[i] \notin Markers
    <2> SUFFICES ASSUME NEW i \in 1 .. n + 3 PROVE d[i] \notin Markers
      OBVIOUS
    <2>1. CASE i = 1 \/ i = 2 \/ i = n + 3
      BY <1>2, <2>1 DEF Markers
    <2>2. CASE ~(i = 1 \/ i = 2 \/ i = n + 3)
      <3>1. i - 2 \in 1 .. n /\ 2 + (i - 2) = i
        BY <1>2, <2>2
      <3> QED BY <1>2, <3>1
    <2> QED BY <2>1, <2>2
  <1>5. Has(d, "Created") /\ FindPosition(d, "Created") = n + 4
    <2>1. n + 4 \in DOMAIN d /\ DOMAIN d \subseteq Nat \ {0}
      BY <1>2, <1>3
    <2>2. \A j \in 1 .. (n + 4) - 1 : j \in DOMAIN d /\ d[j] # "Created"
      BY <1>2, <1>3, <1>4 DEF Markers
    <2> QED BY <1>2, <2>1, <2>2, FirstPlace
  <1>6. Has(d, "Updated") /\ FindPosition(d, "Updated") = n + 6
    <2>1. n + 6 \in DOMAIN d /\ DOMAIN d \subseteq Nat \ {0}
      BY <1>2, <1>3
    <2>2. \A j \in 1 .. (n + 6) - 1 : j \in DOMAIN d /\ d[j] # "Updated"
      <3> SUFFICES ASSUME NEW j \in 1 .. n + 5 PROVE j \in DOMAIN d /\ d[j] # "Updated"
        BY <1>2
      <3>1. j \in 1 .. n + 3 \/ j = n + 4 \/ j = n + 5
        BY <1>2
      <3> QED BY <1>1, <1>2, <1>3, <1>4, <3>1 DEF Markers
    <2> QED BY <1>2, <2>1, <2>2, FirstPlace
  <1>7. FindPosition(From(d, n + 4), "---") = 5
    <2> DEFINE e == From(d, n + 4)
    <2>1. /\ e \in Seq(Pieces) /\ Len(e) = 6 /\ \A i \in 1 .. 6 : e[i] = d[n + 4 + i - 1]
      <3>1. \A i \in n + 4 .. n + 9 : d[i] \in Pieces
        BY <1>2, <1>3, ElementOfSeq
      <3>2. /\ SubSeq(d, n + 4, n + 9) \in Seq(Pieces) /\ Len(SubSeq(d, n + 4, n + 9)) = 6
            /\ \A i \in 1 .. 6 : SubSeq(d, n + 4, n + 9)[i] = d[n + 4 + i - 1]
        BY <1>2, <3>1, SubSeqProperties
      <3> QED BY <1>2, <3>2 DEF From
    <2> HIDE DEF e
    <2>2. /\ e[1] = d[n + 4] /\ e[2] = d[n + 5] /\ e[3] = d[n + 6] /\ e[4] = d[n + 7]
          /\ e[5] = d[n + 8]
      <3>1. /\ n + 4 + 1 - 1 = n + 4 /\ n + 4 + 2 - 1 = n + 5 /\ n + 4 + 3 - 1 = n + 6
            /\ n + 4 + 4 - 1 = n + 7 /\ n + 4 + 5 - 1 = n + 8
        BY <1>2
      <3> QED BY <2>1, <3>1
    <2>3. DOMAIN e = 1 .. 6
      BY <2>1, LenProperties
    <2>4. 5 \in DOMAIN e /\ DOMAIN e \subseteq Nat \ {0} /\ e[5] = "---"
      BY <1>2, <2>2, <2>3
    <2>5. \A j \in 1 .. 5 - 1 : j \in DOMAIN e /\ e[j] # "---"
      <3>1. \A j \in 1 .. 4 : j = 1 \/ j = 2 \/ j = 3 \/ j = 4
        OBVIOUS
      <3> QED BY <1>1, <1>2, <2>2, <2>3, <3>1 DEF Markers
    <2>6. FindPosition(e, "---") = 5
      BY <2>4, <2>5, FirstPlace
    <2> QED BY <2>6 DEF e
  <1>8. Sliceable(d)
    BY <1>2, <1>5, <1>6 DEF Sliceable
  <1>9. Marked(d, n)
    BY <1>5, <1>6, <1>7, <1>8 DEF Marked
  <1> QED BY <1>9 DEF d, n

\* Part of a document.
LEMMA PartIs ==
    ASSUME NEW S, NEW d \in Seq(S), NEW i \in Nat \ {0}, NEW k \in Nat, k <= Len(d), i <= k + 1
    PROVE  /\ SubSeq(d, i, k) \in Seq(S) /\ Len(SubSeq(d, i, k)) = (k + 1) - i
           /\ \A j \in 1 .. (k + 1) - i : SubSeq(d, i, k)[j] = d[(i - 1) + j]
  <1>1. Len(d) \in Nat /\ DOMAIN d = 1 .. Len(d)
    BY LenProperties
  <1>2. \A j \in i .. k : d[j] \in S
    BY <1>1, ElementOfSeq
  <1>3. /\ SubSeq(d, i, k) \in Seq(S)
        /\ Len(SubSeq(d, i, k)) = IF i <= k THEN k - i + 1 ELSE 0
        /\ \A j \in 1 .. k - i + 1 : SubSeq(d, i, k)[j] = d[i + j - 1]
    BY <1>2, SubSeqProperties
  <1>4. ASSUME NEW j \in 1 .. (k + 1) - i PROVE SubSeq(d, i, k)[j] = d[(i - 1) + j]
    <2>1. j \in 1 .. k - i + 1 /\ i + j - 1 = (i - 1) + j
      OBVIOUS
    <2> QED BY <1>3, <2>1
  <1> QED BY <1>3, <1>4

LEMMA UptoIs ==
    ASSUME NEW d, NEW i \in Int
    PROVE  Upto(d, i) = SubSeq(d, 1, i - 1)
  BY DEF Upto

LEMMA PreserveIs ==
    ASSUME NEW d, NEW e, NEW i \in Int,
           FindPosition(e, "Created") = i
    PROVE  PreserveCreated(d, e) =
               SubSeq(e, 1, i) \o Between(d) \o SubSeq(e, FindPosition(e, "Updated"), Len(e))
  <1>1. PreserveCreated(d, e) =
            Upto(e, i + 1) \o Between(d) \o From(e, FindPosition(e, "Updated"))
    BY Zenon DEF PreserveCreated
  <1>2. Upto(e, i + 1) = SubSeq(e, 1, i)
    <2>1. i + 1 \in Int /\ (i + 1) - 1 = i
      OBVIOUS
    <2> QED BY <2>1, UptoIs
  <1> QED BY <1>1, <1>2, Zenon DEF From

\* Renderings of the same task differ only in their timestamps, those of different tasks in
\* something else.
LEMMA SameButTimes ==
    ASSUME TaskAssumption, NEW t \in Tasks,
           NEW c \in Pieces, NEW u \in Pieces, NEW x \in Pieces, NEW y \in Pieces,
           NEW i \in 1 .. Len(t.path) + 9, i # Len(t.path) + 5, i # Len(t.path) + 7
    PROVE  Document(t, c, u)[i] = Document(t, x, y)[i]
  <1> DEFINE d == Document(t, c, u)
             e == Document(t, x, y)
             n == Len(t.path)
  <1>1. IsDocument(d, t, n, c, u) /\ IsDocument(e, t, n, x, y)
    BY DocumentIs, Zenon
  <1>2. i \in 1 .. n + 9 /\ i # n + 5 /\ i # n + 7
    OBVIOUS
  <1> HIDE DEF d, e, n
  <1>3. /\ n \in Nat
        /\ \A k \in 1 .. n : d[2 + k] = e[2 + k]
        /\ d[1] = e[1] /\ d[2] = e[2] /\ d[n + 3] = e[n + 3] /\ d[n + 4] = e[n + 4]
        /\ d[n + 6] = e[n + 6] /\ d[n + 8] = e[n + 8] /\ d[n + 9] = e[n + 9]
    BY <1>1 DEF IsDocument
  <1>4. CASE i \in {1, 2, n + 3, n + 4, n + 6, n + 8, n + 9}
    <2>1. d[i] = e[i]
      BY <1>3, <1>4, Zenon
    <2> QED BY <2>1 DEF d, e
  <1>5. CASE i \notin {1, 2, n + 3, n + 4, n + 6, n + 8, n + 9}
    <2>1. i - 2 \in 1 .. n /\ 2 + (i - 2) = i
      BY <1>3, <1>2, <1>5
    <2>2. d[i] = e[i]
      BY <1>3, <2>1
    <2> QED BY <2>2 DEF d, e
  <1> QED BY <1>4, <1>5

LEMMA SameTask ==
    ASSUME TaskAssumption, NEW t \in Tasks, NEW r \in Tasks,
           NEW c \in Pieces, NEW u \in Pieces, NEW x \in Pieces, NEW y \in Pieces,
           Document(t, c, u) = Document(r, x, y)
    PROVE  t = r /\ c = x /\ u = y
  <1> DEFINE d == Document(t, c, u)
             n == Len(t.path)
             k1 == Len(r.path)
  <1>1. IsDocument(d, t, n, c, u) /\ IsDocument(d, r, k1, x, y)
    BY DocumentIs, Zenon
  <1>3. t.path \in Seq(Pieces) /\ r.path \in Seq(Pieces)
    BY DEF TaskAssumption, Tasks
  <1> HIDE DEF d, n, k1
  <1>4. n = k1
    BY <1>1 DEF IsDocument
  <1>5. t.path = r.path
    <2>1. \A k \in 1 .. Len(t.path) : t.path[k] = r.path[k]
      BY <1>1, <1>4 DEF IsDocument, n
    <2> QED BY <1>3, <1>4, <2>1, SeqEqual DEF n, k1
  <1>6. t.line = r.line /\ t.desc = r.desc /\ c = x /\ u = y
    BY <1>1, <1>4 DEF IsDocument
  <1>7. t = [path |-> t.path, line |-> t.line, desc |-> t.desc]
    BY DEF Tasks
  <1>8. r = [path |-> r.path, line |-> r.line, desc |-> r.desc]
    BY DEF Tasks
  <1> QED BY <1>5, <1>6, <1>7, <1>8

----------------------------------------------------------------------------
(* What an update does to a document.                                      *)

LEMMA WordsArePieces == Word \subseteq Pieces
  BY DEF Word

\* What stands between `Created` and `Updated` is the creation time.
LEMMA BetweenIs ==
    ASSUME TaskAssumption, NEW t \in Tasks, NEW c \in Word, NEW u \in Word
    PROVE  Between(Document(t, c, u)) = <<c>>
  <1> DEFINE d == Document(t, c, u)
             n == Len(t.path)
  <1>1. c \in Pieces /\ u \in Pieces
    BY WordsArePieces
  <1>2. IsDocument(d, t, n, c, u)
    BY <1>1, DocumentIs, Zenon
  <1>3. Marked(d, n)
    BY MarkersAt, Zenon
  <1> HIDE DEF d, n
  <1>4. n \in Nat /\ d \in Seq(Pieces) /\ Len(d) = n + 9 /\ d[n + 5] = c
    BY <1>2 DEF IsDocument
  <1>5. Between(d) = SubSeq(d, n + 5, n + 5)
    <2>1. FindPosition(d, "Created") + 1 = n + 5 /\ FindPosition(d, "Updated") - 1 = n + 5
      BY <1>3, <1>4 DEF Marked
    <2> QED BY <2>1 DEF Between
  <1> DEFINE b == SubSeq(d, n + 5, n + 5)
  <1>6. b \in Seq(Pieces) /\ Len(b) = 1 /\ b[1] = c
    <2>1. /\ n + 5 \in Nat \ {0} /\ n + 5 \in Nat /\ n + 5 <= Len(d) /\ n + 5 <= (n + 5) + 1
          /\ ((n + 5) + 1) - (n + 5) = 1 /\ ((n + 5) - 1) + 1 = n + 5 /\ 1 \in 1 .. 1
      BY <1>4
    <2>2. /\ b \in Seq(Pieces) /\ Len(b) = ((n + 5) + 1) - (n + 5)
          /\ \A j \in 1 .. ((n + 5) + 1) - (n + 5) : b[j] = d[((n + 5) - 1) + j]
      BY <1>4, <2>1, PartIs
    <2> HIDE DEF b
    <2> QED BY <1>4, <2>1, <2>2
  <1> HIDE DEF b
  <1>7. <<c>> \in Seq(Pieces) /\ Len(<<c>>) = 1 /\ <<c>>[1] = c
    BY <1>1
  <1>8. \A k \in 1 .. Len(b) : b[k] = <<c>>[k]
    BY <1>6, <1>7
  <1>9. b = <<c>>
    BY <1>6, <1>7, <1>8, SeqEqual
  <1> QED BY <1>5, <1>9 DEF b, d

\* A document whose task has not changed.
LEMMA UnchangedIs ==
    ASSUME TaskAssumption, NEW t \in Tasks,
           NEW c \in Word, NEW u \in Word, NEW x \in Word, NEW y \in Word
    PROVE  TaskIsUnchanged(Document(t, c, u), Document(t, x, y))
  <1> DEFINE d == Document(t, c, u)
             e == Document(t, x, y)
             n == Len(t.path)
  <1>1. c \in Pieces /\ u \in Pieces /\ x \in Pieces /\ y \in Pieces
    BY WordsArePieces
  <1>2. IsDocument(d, t, n, c, u) /\ IsDocument(e, t, n, x, y)
    BY <1>1, DocumentIs, Zenon
  <1>3. Marked(e, n)
    BY MarkersAt, Zenon
  <1>4. \A i \in 1 .. n + 9 : i # n + 5 /\ i # n + 7 => d[i] = e[i]
    BY <1>1, SameButTimes
  <1> HIDE DEF d, e, n
  <1>5. /\ n \in Nat /\ d \in Seq(Pieces) /\ Len(d) = n + 9 /\ e \in Seq(Pieces) /\ Len(e) = n + 9
    BY <1>2 DEF IsDocument
  <1>6. ASSUME NEW i \in Nat \ {0}, NEW k \in Nat, k <= n + 9, i <= k + 1,
               \A j \in i .. k : d[j] = e[j]
        PROVE  SubSeq(d, i, k) = SubSeq(e, i, k)
    <2> DEFINE a == SubSeq(d, i, k)
               b == SubSeq(e, i, k)
    <2> k <= Len(d) /\ k <= Len(e) /\ d \in Seq(Pieces) /\ e \in Seq(Pieces)
      BY <1>5, <1>6
    <2>1. /\ a \in Seq(Pieces) /\ Len(a) = (k + 1) - i
          /\ \A j \in 1 .. (k + 1) - i : a[j] = d[(i - 1) + j]
      BY <1>6, PartIs
    <2>2. /\ b \in Seq(Pieces) /\ Len(b) = (k + 1) - i
          /\ \A j \in 1 .. (k + 1) - i : b[j] = e[(i - 1) + j]
      BY <1>6, PartIs
    <2>3. \A j \in 1 .. (k + 1) - i : (i - 1) + j \in i .. k
      OBVIOUS
    <2> HIDE DEF a, b
    <2>4. \A j \in 1 .. Len(a) : a[j] = b[j]
      BY <1>6, <2>1, <2>2, <2>3
    <2>5. a = b
      BY <2>1, <2>2, <2>4, SeqEqual
    <2> QED BY <2>5 DEF a, b
  <1>7. Upto(d, n + 4) = Upto(e, n + 4)
    <2>1. /\ 1 \in Nat \ {0} /\ n + 4 - 1 \in Nat /\ n + 4 - 1 <= n + 9 /\ 1 <= n + 4 - 1 + 1
          /\ \A j \in 1 .. n + 4 - 1 : j \in 1 .. n + 9 /\ j # n + 5 /\ j # n + 7
      BY <1>5
    <2>2. \A j \in 1 .. n + 4 - 1 : d[j] = e[j]
      BY <1>4, <2>1
    <2> DEFINE k == n + 4 - 1
    <2>3. /\ k \in Nat /\ k <= n + 9 /\ 1 \in Nat \ {0} /\ 1 <= k + 1
          /\ \A j \in 1 .. k : d[j] = e[j]
      BY <2>1, <2>2
    <2> HIDE DEF k
    <2>4. SubSeq(d, 1, k) = SubSeq(e, 1, k)
      BY <1>6, <2>3
    <2>5. Upto(d, n + 4) = SubSeq(d, 1, k) /\ Upto(e, n + 4) = SubSeq(e, 1, k)
      BY <1>5, UptoIs DEF k
    <2> QED BY <2>4, <2>5, Zenon
  <1>8. From(d, n + 8) = From(e, n + 8)
    <2>1. /\ n + 8 \in Nat \ {0} /\ n + 9 \in Nat /\ n + 9 <= n + 9 /\ n + 8 <= n + 9 + 1
          /\ \A j \in n + 8 .. n + 9 : j \in 1 .. n + 9 /\ j # n + 5 /\ j # n + 7
      BY <1>5
    <2>2. \A j \in n + 8 .. n + 9 : d[j] = e[j]
      BY <1>4, <2>1
    <2> QED BY <1>5, <1>6, <2>1, <2>2 DEF From
  <1>9. /\ FindPosition(e, "Created") = n + 4
        /\ FindPosition(e, "Created") - 1 + FindPosition(From(e, FindPosition(e, "Created")), "---")
              = n + 8
        /\ Len(d) >= n + 8
    BY <1>3, <1>5 DEF Marked
  <1>10. TaskIsUnchanged(d, e)
    BY <1>7, <1>8, <1>9 DEF TaskIsUnchanged
  <1> QED BY <1>10 DEF d, e

\* An update moves the creation time of the old document into the new one.
LEMMA PreservedIs ==
    ASSUME TaskAssumption, NEW t \in Tasks, NEW r \in Tasks,
           NEW c \in Word, NEW u \in Word, NEW x \in Word, NEW y \in Word
    PROVE  PreserveCreated(Document(t, c, u), Document(r, x, y)) = Document(r, c, y)
  <1> DEFINE d == Document(t, c, u)
             e == Document(r, x, y)
             g == Document(r, c, y)
             n == Len(r.path)
             top == SubSeq(e, 1, n + 4)
             end == SubSeq(e, n + 6, n + 9)
             h == top \o <<c>>
             f == h \o end
  <1>1. c \in Pieces /\ u \in Pieces /\ x \in Pieces /\ y \in Pieces
    BY WordsArePieces
  <1>2. IsDocument(e, r, n, x, y) /\ IsDocument(g, r, n, c, y)
    BY <1>1, DocumentIs, Zenon
  <1>3. Marked(e, n)
    BY MarkersAt, Zenon
  <1>4. \A i \in 1 .. n + 9 : i # n + 5 /\ i # n + 7 => e[i] = g[i]
    BY <1>1, SameButTimes
  <1>5. Between(d) = <<c>>
    BY BetweenIs, Zenon
  <1> HIDE DEF d, e, g, n
  <1>6. /\ n \in Nat /\ e \in Seq(Pieces) /\ Len(e) = n + 9
        /\ g \in Seq(Pieces) /\ Len(g) = n + 9
        /\ g[n + 5] = c /\ g[n + 7] = y /\ e[n + 7] = y
    BY <1>2 DEF IsDocument
  <1>7. PreserveCreated(d, e) = f
    <2>1. n + 4 \in Int /\ FindPosition(e, "Created") = n + 4 /\ FindPosition(e, "Updated") = n + 6
      BY <1>3, <1>6 DEF Marked
    <2>2. PreserveCreated(d, e) =
              SubSeq(e, 1, n + 4) \o Between(d) \o SubSeq(e, FindPosition(e, "Updated"), Len(e))
      BY <2>1, PreserveIs
    <2> QED BY <1>5, <1>6, <2>1, <2>2
  <1>8. /\ top \in Seq(Pieces) /\ Len(top) = n + 4
        /\ \A j \in 1 .. n + 4 : top[j] = e[j]
    <2>1. /\ 1 \in Nat \ {0} /\ n + 4 \in Nat /\ n + 4 <= Len(e) /\ 1 <= (n + 4) + 1
      BY <1>6
    <2>2. /\ top \in Seq(Pieces) /\ Len(top) = ((n + 4) + 1) - 1
          /\ \A j \in 1 .. ((n + 4) + 1) - 1 : top[j] = e[(1 - 1) + j]
      BY <1>6, <2>1, PartIs
    <2> HIDE DEF top
    <2>3. ((n + 4) + 1) - 1 = n + 4 /\ \A j \in 1 .. n + 4 : (1 - 1) + j = j
      BY <1>6
    <2> QED BY <2>2, <2>3
  <1>9. /\ end \in Seq(Pieces) /\ Len(end) = 4
        /\ \A j \in 1 .. 4 : end[j] = e[(n + 5) + j]
    <2>1. /\ n + 6 \in Nat \ {0} /\ n + 9 \in Nat /\ n + 9 <= Len(e) /\ n + 6 <= (n + 9) + 1
      BY <1>6
    <2>2. /\ end \in Seq(Pieces) /\ Len(end) = ((n + 9) + 1) - (n + 6)
          /\ \A j \in 1 .. ((n + 9) + 1) - (n + 6) : end[j] = e[((n + 6) - 1) + j]
      BY <1>6, <2>1, PartIs
    <2> HIDE DEF end
    <2>3. ((n + 9) + 1) - (n + 6) = 4 /\ (n + 6) - 1 = n + 5
      BY <1>6
    <2> QED BY <2>2, <2>3
  <1> HIDE DEF top, end
  <1>10. <<c>> \in Seq(Pieces) /\ Len(<<c>>) = 1 /\ <<c>>[1] = c
    BY <1>1
  <1>11. /\ h \in Seq(Pieces) /\ Len(h) = n + 5
         /\ \A j \in 1 .. n + 4 : h[j] = e[j]
         /\ h[n + 5] = c
    <2>1. /\ h \in Seq(Pieces) /\ Len(h) = Len(top) + Len(<<c>>)
          /\ \A j \in 1 .. Len(top) : h[j] = top[j]
          /\ \A j \in 1 .. Len(<<c>>) : h[Len(top) + j] = <<c>>[j]
      BY <1>8, <1>10, JoinIs
    <2> HIDE DEF h
    <2>2. h[(n + 4) + 1] = c /\ (n + 4) + 1 = n + 5
      BY <1>6, <1>8, <1>10, <2>1
    <2> QED BY <1>6, <1>8, <1>10, <2>1, <2>2
  <1> HIDE DEF h
  <1>12. /\ f \in Seq(Pieces) /\ Len(f) = n + 9
         /\ \A j \in 1 .. n + 5 : f[j] = h[j]
         /\ \A j \in 1 .. 4 : f[(n + 5) + j] = e[(n + 5) + j]
    <2>1. /\ f \in Seq(Pieces) /\ Len(f) = Len(h) + Len(end)
          /\ \A j \in 1 .. Len(h) : f[j] = h[j]
          /\ \A j \in 1 .. Len(end) : f[Len(h) + j] = end[j]
      <3>1. h \in Seq(Pieces) /\ end \in Seq(Pieces)
        BY <1>9, <1>11
      <3> QED BY <3>1, JoinIs
    <2> HIDE DEF f
    <2> QED BY <1>6, <1>9, <1>11, <2>1
  <1> HIDE DEF f
  <1>13. ASSUME NEW i \in 1 .. Len(f) PROVE f[i] = g[i]
    <2>1. i \in 1 .. n + 9
      BY <1>12
    <2>2. CASE i \in 1 .. n + 4
      <3>1. i \in 1 .. n + 5 /\ i # n + 5 /\ i # n + 7
        BY <1>6, <2>2
      <3>2. f[i] = h[i]
        BY <1>12, <3>1
      <3>3. h[i] = e[i]
        BY <1>11, <2>2
      <3>4. e[i] = g[i]
        BY <1>4, <2>1, <3>1
      <3> QED BY <3>2, <3>3, <3>4
    <2>3. CASE i = n + 5
      <3>1. i \in 1 .. n + 5
        BY <1>6, <2>3
      <3> QED BY <1>6, <1>11, <1>12, <2>3, <3>1
    <2>4. CASE i \notin 1 .. n + 5
      <3>1. n \in Nat
        BY <1>6
      <3>2. i - (n + 5) \in 1 .. 4 /\ (n + 5) + (i - (n + 5)) = i /\ i # n + 5
        BY <2>1, <2>4, <3>1
      <3>3. f[i] = e[i]
        BY <1>12, <3>2
      <3>4. i = n + 7 => e[i] = g[i]
        BY <1>6
      <3> QED BY <1>4, <2>1, <3>2, <3>3, <3>4
    <2> QED BY <1>6, <2>1, <2>2, <2>3, <2>4
  <1>14. f = g
    BY <1>6, <1>12, <1>13, SeqEqual
  <1> QED BY <1>7, <1>14 DEF d, e, g

----------------------------------------------------------------------------
(* The invariant                                                           *)

\* A rendering with stamps that are not later than a given time.
IsWhole(d, n) ==
    \E t \in Tasks, c, u \in Times :
        c <= n /\ u <= n /\ d = Document(t, TsToString(c), TsToString(u))

\* A document created in the beginning.
IsKept(d) == d # NoFile /\ Between(d) = <<TsToString(0)>>

Labels == {"idle", "built", "read", "write", "rename", "panicked"}
ProcStates ==
    [pc : Labels, task : Tasks \cup {NoFile}, at : Times,
     old : Seq(Pieces) \cup {NoFile}, new : Seq(Pieces) \cup {NoFile}]

TaskTyped ==
    /\ task \in Tasks /\ clock \in 1 .. MaxTime /\ tfaults \in Nat
    /\ proc \in [Processes -> ProcStates]
    /\ temp = [p \in Processes |-> temp[p]]

\* What a process has built, read and rendered, and what it has written.
ProcWhole(s, t, n) ==
    /\ s.pc \in {"built", "read", "write", "rename"} => s.task \in Tasks /\ s.at <= n
    /\ s.old = NoFile \/ IsWhole(s.old, n)
    /\ s.pc \in {"write", "rename"} => IsWhole(s.new, n)
    /\ s.pc = "rename" => t = s.new

\* It has rendered an update only because the task has changed.
ProcChanged(s) ==
    s.pc \in {"write", "rename"} /\ s.old # NoFile =>
        \E n \in Times : LET new == ToMd(s.task, TsToString(n))
                         IN  ~TaskIsUnchanged(s.old, new) /\ s.new = PreserveCreated(s.old, new)

ProcKept(s) ==
    /\ s.pc \in {"read", "write", "rename"} => IsKept(s.old)
    /\ s.pc \in {"write", "rename"} => IsKept(s.new)

TaskInv ==
    /\ TaskTyped
    /\ doc = NoFile \/ IsWhole(doc, clock)
    /\ \A p \in Processes : ProcWhole(proc[p], temp[p], clock) /\ ProcChanged(proc[p])
    /\ tfaults = 0 /\ present => IsKept(doc) /\ \A p \in Processes : ProcKept(proc[p])

LEMMA StampsAreWords == ASSUME TaskAssumption, NEW n \in Times PROVE TsToString(n) \in Word
  BY DEF TaskAssumption, Word

LEMMA WholeIs ==
    ASSUME TaskAssumption, NEW d, NEW n, IsWhole(d, n)
    PROVE  d \in Seq(Pieces) /\ d # NoFile /\ Sliceable(d)
  <1>1. PICK t \in Tasks, c \in Times, u \in Times : d = Document(t, TsToString(c), TsToString(u))
    BY DEF IsWhole
  <1>2. TsToString(c) \in Word /\ TsToString(u) \in Word
    BY StampsAreWords
  <1>3. IsDocument(d, t, Len(t.path), TsToString(c), TsToString(u))
    BY <1>1, <1>2, WordsArePieces, DocumentIs
  <1>4. Marked(d, Len(t.path))
    BY <1>1, <1>2, MarkersAt
  <1>5. d \in Seq(Pieces)
    BY <1>3 DEF IsDocument
  <1> QED BY <1>4, <1>5 DEF Marked, TaskAssumption

LEMMA WholeGrows ==
    ASSUME TaskAssumption, NEW d, NEW n \in Nat, NEW k \in Nat, n <= k, IsWhole(d, n)
    PROVE  IsWhole(d, k)
  <1>1. PICK t \in Tasks, c \in Times, u \in Times :
            c <= n /\ u <= n /\ d = Document(t, TsToString(c), TsToString(u))
    BY DEF IsWhole
  <1>2. c <= k /\ u <= k
    BY <1>1 DEF Times, TaskAssumption
  <1> QED BY <1>1, <1>2 DEF IsWhole

\* A file rendered anew.
LEMMA RenderedIs ==
    ASSUME TaskAssumption, NEW t \in Tasks, NEW n \in Times
    PROVE  IsWhole(ToMd(t, TsToString(n)), n) /\ Sliceable(ToMd(t, TsToString(n)))
  <1>1. n <= n
    BY DEF Times, TaskAssumption
  <1>2. IsWhole(ToMd(t, TsToString(n)), n)
    BY <1>1 DEF IsWhole, ToMd
  <1> QED BY <1>2, WholeIs

\* A file rendered as an update of an old one, which may have been published meanwhile.
LEMMA UpdatedIs ==
    ASSUME TaskAssumption, NEW old, NEW t \in Tasks, NEW n \in Times, NEW k \in Nat, n <= k,
           IsWhole(old, k)
    PROVE  LET d == PreserveCreated(old, ToMd(t, TsToString(n)))
           IN  IsWhole(d, k) /\ Between(d) = Between(old)
  <1>1. PICK r \in Tasks, c \in Times, u \in Times :
            c <= k /\ u <= k /\ old = Document(r, TsToString(c), TsToString(u))
    BY DEF IsWhole
  <1>2. TsToString(c) \in Word /\ TsToString(u) \in Word /\ TsToString(n) \in Word
    BY StampsAreWords
  <1> DEFINE d == PreserveCreated(old, ToMd(t, TsToString(n)))
  <1>3. d = Document(t, TsToString(c), TsToString(n))
    BY <1>1, <1>2, PreservedIs DEF ToMd
  <1>4. Between(d) = <<TsToString(c)>> /\ Between(old) = <<TsToString(c)>>
    BY <1>1, <1>2, <1>3, BetweenIs
  <1>6. IsWhole(d, k)
    BY <1>1, <1>3 DEF IsWhole
  <1> QED BY <1>4, <1>6

\* An update that TaskIsUnchanged does not find superfluous is not of the same task.
LEMMA UpdateChanges ==
    ASSUME TaskAssumption, NEW t \in Tasks, NEW n \in Times, NEW r \in Tasks,
           NEW c \in Word, NEW u \in Word, NEW x \in Word, NEW y \in Word,
           ~TaskIsUnchanged(Document(r, c, u), ToMd(t, TsToString(n)))
    PROVE  PreserveCreated(Document(r, c, u), ToMd(t, TsToString(n))) # Document(r, x, y)
  <1>1. TsToString(n) \in Word
    BY StampsAreWords
  <1>2. SUFFICES ASSUME PreserveCreated(Document(r, c, u), ToMd(t, TsToString(n))) = Document(r, x, y)
        PROVE  FALSE
    OBVIOUS
  <1>3. PreserveCreated(Document(r, c, u), ToMd(t, TsToString(n))) = Document(t, c, TsToString(n))
    BY <1>1, PreservedIs DEF ToMd
  <1>4. t = r
    <2>1. Document(t, c, TsToString(n)) = Document(r, x, y)
      BY <1>2, <1>3
    <2>2. /\ c \in Pieces /\ TsToString(n) \in Pieces /\ x \in Pieces /\ y \in Pieces
      BY <1>1, WordsArePieces
    <2> QED BY <2>1, <2>2, SameTask
  <1>5. TaskIsUnchanged(Document(r, c, u), ToMd(t, TsToString(n)))
    BY <1>1, <1>4, UnchangedIs DEF ToMd
  <1> QED BY <1>5

----------------------------------------------------------------------------
(* Every step keeps the invariant                                          *)

LEMMA TaskInitInv == ASSUME TaskAssumption, TaskInit PROVE TaskInv
  <1>1. TaskTyped
    BY DEF TaskInit, TaskTyped, ProcStates, Labels, TaskAssumption, Idle, Times
  <1>2. 0 \in Times
    BY DEF Times, TaskAssumption
  <1>3. doc = NoFile \/ IsWhole(doc, clock)
    <2>1. ASSUME NEW t \in Tasks, doc = ToMd(t, TsToString(0)) PROVE IsWhole(doc, clock)
      BY <1>2, <2>1, RenderedIs, WholeGrows DEF TaskInit
    <2> QED BY <2>1 DEF TaskInit
  <1>4. present => IsKept(doc)
    <2> SUFFICES ASSUME present PROVE IsKept(doc)
      OBVIOUS
    <2>1. PICK t \in Tasks : doc = Document(t, TsToString(0), TsToString(0))
      BY DEF TaskInit, ToMd
    <2>2. TsToString(0) \in Word
      BY <1>2, StampsAreWords
    <2>3. Between(doc) = <<TsToString(0)>>
      BY <2>1, <2>2, BetweenIs
    <2>4. doc # NoFile
      BY <1>2, <2>1, RenderedIs, WholeIs DEF ToMd
    <2> QED BY <2>3, <2>4 DEF IsKept
  <1>5. \A p \in Processes : proc[p].pc = "idle" /\ proc[p].old = NoFile
    BY DEF TaskInit, Idle
  <1> QED BY <1>1, <1>3, <1>4, <1>5 DEF TaskInv, ProcWhole, ProcChanged, ProcKept

\* A step that leaves the file alone is judged by what it does to its process.
LEMMA OneMoves ==
    ASSUME TaskInv, NEW p \in Processes, UNCHANGED <<task, doc, clock, present>>, TaskTyped',
           tfaults' = 0 => tfaults = 0,
           \A q \in Processes \ {p} : proc'[q] = proc[q] /\ temp'[q] = temp[q],
           ProcWhole(proc'[p], temp'[p], clock), ProcChanged(proc'[p]),
           tfaults' = 0 /\ present => ProcKept(proc'[p])
    PROVE  TaskInv' /\ UpdateStep
  <1>1. \A q \in Processes : ProcWhole(proc'[q], temp'[q], clock) /\ ProcChanged(proc'[q])
    BY DEF TaskInv
  <1>2. tfaults' = 0 /\ present => IsKept(doc) /\ \A q \in Processes : ProcKept(proc'[q])
    BY DEF TaskInv
  <1>4. doc = NoFile \/ IsWhole(doc, clock)
    BY DEF TaskInv
  <1>5. TaskInv'
    BY <1>1, <1>2, <1>4 DEF TaskInv
  <1>6. UpdateStep
    BY DEF UpdateStep, KeepsCreated, ChangesTask, ReplacesReadVersion
  <1> QED BY <1>5, <1>6

LEMMA BuildTaskKeeps ==
    ASSUME TaskAssumption, TaskInv, NEW p \in Processes, BuildTask(p)
    PROVE  TaskInv' /\ UpdateStep
  <1> DEFINE s == [pc |-> "built", task |-> task, at |-> clock, old |-> NoFile, new |-> NoFile]
  <1>1. /\ proc' = [proc EXCEPT ![p] = s]
        /\ UNCHANGED <<task, doc, clock, temp, tfaults, present>> /\ TaskTyped
    <2>1. proc' = [proc EXCEPT ![p] = s] /\ UNCHANGED <<task, doc, temp, clock, tfaults, present>>
      BY DEF BuildTask
    <2>2. TaskTyped
      BY DEF TaskInv
    <2> HIDE DEF s
    <2> QED BY <2>1, <2>2
  <1>2. clock \in Times /\ clock <= clock /\ task \in Tasks
    BY <1>1 DEF TaskTyped, Times, TaskAssumption
  <1>3. TaskTyped'
    <2>1. s \in ProcStates
      BY <1>2 DEF ProcStates, Labels
    <2> HIDE DEF s
    <2> QED BY <1>1, <2>1 DEF TaskTyped
  <1>4. proc'[p] = s /\ \A q \in Processes \ {p} : proc'[q] = proc[q] /\ temp'[q] = temp[q]
    BY <1>1 DEF TaskTyped
  <1>5. ProcWhole(proc'[p], temp'[p], clock) /\ ProcChanged(proc'[p]) /\ ProcKept(proc'[p])
    BY <1>2, <1>4 DEF ProcWhole, ProcChanged, ProcKept
  <1> QED BY <1>1, <1>3, <1>4, <1>5, OneMoves

LEMMA TaskReadKeeps ==
    ASSUME TaskAssumption, TaskInv, NEW p \in Processes, Read(p)
    PROVE  TaskInv' /\ UpdateStep
  <1> DEFINE s == proc[p]
  <1>0. /\ TaskTyped /\ s \in ProcStates /\ s.pc = "built"
        /\ doc = NoFile \/ IsWhole(doc, clock)
        /\ tfaults = 0 /\ present => IsKept(doc)
    BY DEF TaskInv, TaskTyped, Read, At
  <1>a. /\ s.task \in Tasks /\ s.at <= clock
        /\ s.old = NoFile \/ IsWhole(s.old, clock)
    BY <1>0 DEF TaskInv, ProcWhole
  <1>1. PICK o \in {doc, s.old} :
            /\ proc' = [proc EXCEPT ![p].pc = "read", ![p].old = o]
            /\ tfaults' = 0 => o = doc /\ tfaults = 0
            /\ tfaults' \in Nat
    <2>1. tfaults \in Nat
      BY <1>0 DEF TaskTyped
    <2>2. TaskFault => tfaults' # 0 /\ tfaults' \in Nat
      BY <2>1 DEF TaskFault
    <2>3. CASE proc' = [proc EXCEPT ![p].pc = "read", ![p].old = doc] /\ UNCHANGED tfaults
      BY <2>1, <2>3
    <2>4. CASE Goto(p, "read") /\ TaskFault
      <3>1. s = [s EXCEPT !.old = s.old]
        BY <1>0 DEF ProcStates
      <3>2. proc' = [proc EXCEPT ![p].pc = "read", ![p].old = s.old]
        BY <1>0, <2>4, <3>1 DEF Goto, ProcStates, TaskTyped
      <3> QED BY <2>2, <2>4, <3>2
    <2> QED BY <2>3, <2>4 DEF Read
  <1>2. UNCHANGED <<task, doc, clock, temp, present>>
    BY DEF Read
  <1>4. o = NoFile \/ IsWhole(o, clock)
    BY <1>0, <1>a, <1>1
  <1>5. o \in Seq(Pieces) \cup {NoFile}
    BY <1>4, WholeIs
  <1>6. TaskTyped'
    BY <1>0, <1>1, <1>2, <1>5 DEF TaskTyped, ProcStates, Labels
  <1>7. /\ proc'[p].pc = "read" /\ proc'[p].old = o
        /\ proc'[p].task = s.task /\ proc'[p].at = s.at
        /\ \A q \in Processes \ {p} : proc'[q] = proc[q] /\ temp'[q] = temp[q]
    BY <1>0, <1>1, <1>2 DEF TaskTyped, ProcStates
  <1> HIDE DEF s
  <1>8. ProcWhole(proc'[p], temp'[p], clock)
    BY <1>a, <1>4, <1>7 DEF ProcWhole
  <1>9. ProcChanged(proc'[p])
    BY <1>7 DEF ProcChanged
  <1>10. tfaults' = 0 /\ present => ProcKept(proc'[p])
    BY <1>0, <1>1, <1>7 DEF ProcKept
  <1> QED BY <1>1, <1>2, <1>6, <1>7, <1>8, <1>9, <1>10, OneMoves

\* A process that panics or ends does not touch the file.
LEMMA OneStops ==
    ASSUME TaskAssumption, TaskInv, NEW p \in Processes, UNCHANGED <<task, doc, clock, present>>,
           Goto(p, "panicked") \/ Leave(p),
           tfaults' \in Nat, tfaults' = 0 => tfaults = 0,
           temp' = temp \/ \E t : temp' = [temp EXCEPT ![p] = t]
    PROVE  TaskInv' /\ UpdateStep
  <1>1. /\ TaskTyped /\ proc[p] \in ProcStates
        /\ proc[p].old = NoFile \/ IsWhole(proc[p].old, clock)
    BY DEF TaskInv, TaskTyped, ProcWhole
  <1>2. /\ temp' = [q \in Processes |-> temp'[q]]
        /\ \A q \in Processes \ {p} : temp'[q] = temp[q]
    BY <1>1 DEF TaskTyped
  <1>3. PICK s \in ProcStates :
            /\ proc' = [proc EXCEPT ![p] = s]
            /\ s.pc \in {"idle", "panicked"} /\ s.old \in {NoFile, proc[p].old}
    <2>1. CASE Goto(p, "panicked")
      <3>1. [proc[p] EXCEPT !.pc = "panicked"] \in ProcStates
        BY <1>1 DEF ProcStates, Labels
      <3>2. proc' = [proc EXCEPT ![p] = [proc[p] EXCEPT !.pc = "panicked"]]
        BY <2>1 DEF Goto
      <3>3. /\ [proc[p] EXCEPT !.pc = "panicked"].pc = "panicked"
            /\ [proc[p] EXCEPT !.pc = "panicked"].old = proc[p].old
        BY <1>1 DEF ProcStates
      <3> QED BY <3>1, <3>2, <3>3
    <2>2. CASE Leave(p)
      <3>1. Idle \in ProcStates /\ Idle.pc = "idle" /\ Idle.old = NoFile
        BY DEF Idle, ProcStates, Labels, Times, TaskAssumption
      <3> QED BY <2>2, <3>1 DEF Leave
    <2> QED BY <2>1, <2>2
  <1>4. TaskTyped'
    BY <1>1, <1>2, <1>3 DEF TaskTyped
  <1>5. proc'[p] = s /\ \A q \in Processes \ {p} : proc'[q] = proc[q]
    BY <1>1, <1>3 DEF TaskTyped
  <1>6. ProcWhole(proc'[p], temp'[p], clock) /\ ProcChanged(proc'[p]) /\ ProcKept(proc'[p])
    BY <1>1, <1>3, <1>5 DEF ProcWhole, ProcChanged, ProcKept
  <1> QED BY <1>2, <1>4, <1>5, <1>6, OneMoves

LEMMA FaultTyped ==
    ASSUME TaskInv, TaskFault \/ UNCHANGED tfaults
    PROVE  tfaults' \in Nat /\ (tfaults' = 0 => tfaults = 0)
  BY DEF TaskInv, TaskTyped, TaskFault

LEMMA TaskRenderKeeps ==
    ASSUME TaskAssumption, TaskInv, NEW p \in Processes, Render(p)
    PROVE  TaskInv' /\ UpdateStep
  <1> DEFINE s   == proc[p]
             now == ToMd(s.task, TsToString(s.at))
  <1>1. /\ TaskTyped /\ s \in ProcStates /\ s.pc = "read" /\ clock \in Nat
        /\ s.task \in Tasks /\ s.at \in Times /\ s.at \in Nat /\ s.at <= clock
        /\ s.old = NoFile \/ IsWhole(s.old, clock)
        /\ tfaults = 0 /\ present => IsKept(s.old)
    <2>1. TaskTyped
      BY DEF TaskInv
    <2>2. s.pc = "read" /\ s \in ProcStates
      BY <2>1 DEF Render, At, TaskTyped
    <2>3. clock \in Nat /\ s.at \in Times /\ s.at \in Nat
      BY <2>1, <2>2 DEF TaskTyped, ProcStates, Times, TaskAssumption
    <2> HIDE DEF s
    <2>4. /\ s.old = NoFile \/ IsWhole(s.old, clock)
          /\ s.task \in Tasks /\ s.at <= clock
          /\ tfaults = 0 /\ present => IsKept(s.old)
      BY <2>2 DEF TaskInv, ProcWhole, ProcKept, s
    <2> QED BY <2>1, <2>2, <2>3, <2>4
  <1>2. UNCHANGED <<task, doc, clock, temp, tfaults, present>>
    BY DEF Render
  <1>4. IsWhole(now, clock) /\ Sliceable(now)
    BY <1>1, RenderedIs, WholeGrows
  <1>5. CASE Leave(p)
    BY <1>2, <1>5, OneStops, FaultTyped
  <1>6. ASSUME NEW d, proc' = [proc EXCEPT ![p].pc = "write", ![p].new = d],
               IsWhole(d, clock),
               s.old # NoFile => ~TaskIsUnchanged(s.old, now) /\ d = PreserveCreated(s.old, now),
               s.old # NoFile => Between(d) = Between(s.old)
        PROVE  TaskInv' /\ UpdateStep
    <2>1. d \in Seq(Pieces) /\ d # NoFile
      BY <1>6, WholeIs
    <2>2. TaskTyped'
      BY <1>1, <1>2, <1>6, <2>1 DEF TaskTyped, ProcStates, Labels
    <2>3. /\ proc'[p].pc = "write" /\ proc'[p].old = s.old /\ proc'[p].new = d
          /\ proc'[p].task = s.task /\ proc'[p].at = s.at
          /\ \A q \in Processes \ {p} : proc'[q] = proc[q] /\ temp'[q] = temp[q]
      BY <1>1, <1>2, <1>6 DEF TaskTyped, ProcStates
    <2>4. ProcWhole(proc'[p], temp'[p], clock)
      BY <1>1, <1>6, <2>3 DEF ProcWhole
    <2>5. ProcChanged(proc'[p])
      BY <1>1, <1>6, <2>3, Zenon DEF ProcChanged
    <2>6. tfaults = 0 /\ present => ProcKept(proc'[p])
      BY <1>1, <1>6, <2>1, <2>3 DEF ProcKept, IsKept
    <2> QED BY <1>2, <2>2, <2>3, <2>4, <2>5, <2>6, OneMoves
  <1>7. CASE s.old = NoFile
    <2>1. proc' = [proc EXCEPT ![p].pc = "write", ![p].new = now]
      BY <1>7 DEF Render
    <2> QED BY <1>4, <1>6, <1>7, <2>1
  <1>8. CASE s.old # NoFile /\ TaskIsUnchanged(s.old, now)
    BY <1>5, <1>8 DEF Render
  <1>9. CASE s.old # NoFile /\ ~TaskIsUnchanged(s.old, now)
    <2> DEFINE d == PreserveCreated(s.old, now)
    <2>1. IsWhole(s.old, clock) /\ Sliceable(s.old)
      BY <1>1, <1>9, WholeIs
    <2>2. proc' = [proc EXCEPT ![p].pc = "write", ![p].new = d]
      BY <1>4, <1>9, <2>1 DEF Render
    <2>3. IsWhole(d, clock) /\ Between(d) = Between(s.old)
      BY <1>1, <2>1, UpdatedIs
    <2> HIDE DEF s, now
    <2>4. d = PreserveCreated(s.old, now)
      OBVIOUS
    <2> HIDE DEF d
    <2> QED BY <1>6, <1>9, <2>2, <2>3, <2>4
  <1> QED BY <1>7, <1>8, <1>9

LEMMA WriteTempKeeps ==
    ASSUME TaskAssumption, TaskInv, NEW p \in Processes, WriteTemp(p)
    PROVE  TaskInv' /\ UpdateStep
  <1> DEFINE s == proc[p]
  <1>1. UNCHANGED <<task, doc, clock, present>> /\ tfaults' \in Nat /\ (tfaults' = 0 => tfaults = 0)
    BY FaultTyped DEF WriteTemp
  <1>2. CASE \E t : temp' = [temp EXCEPT ![p] = t] /\ Goto(p, "panicked")
    BY <1>1, <1>2, OneStops
  <1>3. CASE temp' = [temp EXCEPT ![p] = s.new] /\ Goto(p, "rename")
    <2>1. /\ TaskTyped /\ s \in ProcStates /\ s.pc = "write"
      BY DEF TaskInv, TaskTyped, WriteTemp, At
    <2>2. /\ ProcWhole(s, temp[p], clock) /\ ProcChanged(s)
          /\ tfaults = 0 /\ present => ProcKept(s)
      BY <2>1 DEF TaskInv
    <2>3. TaskTyped'
      BY <1>1, <1>3, <2>1 DEF TaskTyped, ProcStates, Labels, Goto
    <2>4. /\ proc'[p].pc = "rename" /\ proc'[p].old = s.old /\ proc'[p].new = s.new
          /\ proc'[p].task = s.task /\ proc'[p].at = s.at /\ temp'[p] = s.new
          /\ \A q \in Processes \ {p} : proc'[q] = proc[q] /\ temp'[q] = temp[q]
      BY <1>3, <2>1 DEF TaskTyped, ProcStates, Goto
    <2> HIDE DEF s
    <2>5. ProcWhole(proc'[p], temp'[p], clock)
      BY <2>1, <2>2, <2>4 DEF ProcWhole
    <2>6. ProcChanged(proc'[p])
      BY <2>1, <2>2, <2>4 DEF ProcChanged
    <2>7. tfaults' = 0 /\ present => ProcKept(proc'[p])
      BY <1>1, <2>1, <2>2, <2>4 DEF ProcKept
    <2> QED BY <1>1, <2>3, <2>4, <2>5, <2>6, <2>7, OneMoves
  <1> QED BY <1>2, <1>3 DEF WriteTemp

\* The file becomes what the process has rendered.
LEMMA RenameKeeps ==
    ASSUME TaskAssumption, TaskInv, NEW p \in Processes, Rename(p)
    PROVE  TaskInv' /\ UpdateStep
  <1> DEFINE s == proc[p]
  <1>1. /\ UNCHANGED <<task, clock, present>> /\ temp' = [temp EXCEPT ![p] = NoFile]
        /\ tfaults' \in Nat /\ (tfaults' = 0 => tfaults = 0)
    BY FaultTyped DEF Rename
  <1>2. CASE UNCHANGED doc /\ Goto(p, "panicked")
    BY <1>1, <1>2, OneStops
  <1>3. CASE doc' = temp[p] /\ Leave(p)
    <2>1. TaskTyped /\ s \in ProcStates /\ s.pc = "rename"
      BY DEF TaskInv, TaskTyped, Rename, At
    <2>2. /\ IsWhole(s.new, clock) /\ temp[p] = s.new /\ ProcChanged(s) /\ s.task \in Tasks
          /\ doc = NoFile \/ IsWhole(doc, clock)
          /\ s.old = NoFile \/ IsWhole(s.old, clock)
          /\ tfaults = 0 /\ present => IsKept(doc) /\ IsKept(s.new)
      BY <2>1 DEF TaskInv, ProcWhole, ProcKept
    <2>3. doc' = s.new
      BY <1>3, <2>2
    <2>4. TaskTyped'
      <3>1. Idle \in ProcStates
        BY DEF Idle, ProcStates, Labels, Times, TaskAssumption
      <3> QED BY <1>1, <1>3, <2>1, <3>1 DEF TaskTyped, Leave
    <2>5. /\ proc'[p].pc = "idle" /\ proc'[p].old = NoFile
          /\ \A q \in Processes \ {p} : proc'[q] = proc[q] /\ temp'[q] = temp[q]
      BY <1>1, <1>3, <2>1 DEF TaskTyped, Leave, Idle
    <2> HIDE DEF s
    <2>6. ProcWhole(proc'[p], temp'[p], clock) /\ ProcChanged(proc'[p]) /\ ProcKept(proc'[p])
      BY <2>2, <2>5 DEF ProcWhole, ProcChanged, ProcKept
    <2>7. TaskInv'
      <3>1. \A q \in Processes : ProcWhole(proc'[q], temp'[q], clock) /\ ProcChanged(proc'[q])
        BY <2>5, <2>6 DEF TaskInv
      <3>2. tfaults' = 0 /\ present => IsKept(doc') /\ \A q \in Processes : ProcKept(proc'[q])
        BY <1>1, <2>2, <2>3, <2>5, <2>6 DEF TaskInv
      <3>3. doc' = NoFile \/ IsWhole(doc', clock)
        BY <2>2, <2>3
      <3> QED BY <1>1, <2>4, <3>1, <3>2, <3>3 DEF TaskInv
    <2>8. ASSUME tfaults' = 0, present PROVE KeepsCreated
      BY <1>1, <2>2, <2>3, <2>8 DEF KeepsCreated, IsKept
    <2>9. ASSUME NEW q \in Processes, ReplacesReadVersion(q), doc # NoFile PROVE ChangesTask
      <3>0. q = p
        BY <2>5, <2>9 DEF ReplacesReadVersion, At
      <3>1. s.old = doc /\ s.old # NoFile
        BY <2>9, <3>0 DEF ReplacesReadVersion, s
      <3>2. PICK n \in Times : /\ ~TaskIsUnchanged(doc, ToMd(s.task, TsToString(n)))
                               /\ doc' = PreserveCreated(doc, ToMd(s.task, TsToString(n)))
        BY <2>1, <2>2, <2>3, <3>1 DEF ProcChanged
      <3>3. s.task \in Tasks
        BY <2>2
      <3>4. ASSUME NEW t \in Tasks, NEW c \in {TsToString(k) : k \in Times},
                   NEW u \in {TsToString(k) : k \in Times},
                   NEW x \in {TsToString(k) : k \in Times},
                   NEW y \in {TsToString(k) : k \in Times}, doc = Document(t, c, u)
            PROVE  doc' # Document(t, x, y)
        <4>1. c \in Word /\ u \in Word /\ x \in Word /\ y \in Word
          BY StampsAreWords
        <4> QED BY <3>2, <3>3, <3>4, <4>1, UpdateChanges
      <3> QED BY <3>4 DEF ChangesTask
    <2>10. UpdateStep
      BY <2>8, <2>9 DEF UpdateStep, ChangesTask
    <2> QED BY <2>7, <2>10
  <1> QED BY <1>2, <1>3 DEF Rename

LEMMA EndKeeps ==
    ASSUME TaskAssumption, TaskInv, NEW p \in Processes, End(p)
    PROVE  TaskInv' /\ UpdateStep
  <1>1. tfaults' \in Nat /\ (tfaults' = 0 => tfaults = 0)
    BY DEF End, TaskInv, TaskTyped
  <1> QED BY <1>1, OneStops DEF End

LEMMA EditTaskKeeps == ASSUME TaskAssumption, TaskInv, EditTask PROVE TaskInv' /\ UpdateStep
  <1>1. /\ UNCHANGED <<doc, temp, proc, tfaults, present>> /\ TaskTyped
        /\ clock \in Nat /\ clock' \in Nat /\ clock <= clock'
    BY DEF EditTask, TaskInv, TaskTyped, TaskAssumption
  <1>2. TaskTyped'
    BY <1>1 DEF TaskTyped, EditTask, TaskAssumption
  <1>3. \A d : IsWhole(d, clock) => IsWhole(d, clock')
    BY <1>1, WholeGrows
  <1>4. \A p \in Processes : ProcWhole(proc[p], temp[p], clock')
    <2> SUFFICES ASSUME NEW p \in Processes PROVE ProcWhole(proc[p], temp[p], clock')
      OBVIOUS
    <2>1. ProcWhole(proc[p], temp[p], clock)
      BY DEF TaskInv
    <2>2. proc[p].at \in Nat
      BY <1>1 DEF TaskTyped, ProcStates, Times, TaskAssumption
    <2>3. proc[p].at <= clock => proc[p].at <= clock'
      BY <1>1, <2>2
    <2> QED BY <1>3, <2>1, <2>3 DEF ProcWhole
  <1>5. TaskInv'
    BY <1>1, <1>2, <1>3, <1>4 DEF TaskInv
  <1>6. UpdateStep
    BY <1>1 DEF UpdateStep, KeepsCreated, ChangesTask, ReplacesReadVersion
  <1> QED BY <1>5, <1>6

LEMMA TaskStep ==
    ASSUME TaskAssumption, TaskInv, [TaskNext]_taskVars
    PROVE  TaskInv' /\ UpdateStep
  <1>1. CASE EditTask
    BY <1>1, EditTaskKeeps
  <1>2. ASSUME NEW p \in Processes, Publish(p) \/ End(p) PROVE TaskInv' /\ UpdateStep
    BY <1>2, BuildTaskKeeps, TaskReadKeeps, TaskRenderKeeps, WriteTempKeeps, RenameKeeps, EndKeeps DEF Publish
  <1>3. CASE UNCHANGED taskVars
    <2>1. TaskInv'
      BY <1>3 DEF taskVars, TaskInv, TaskTyped
    <2>2. UpdateStep
      BY <1>3 DEF taskVars, UpdateStep, KeepsCreated, ChangesTask, ReplacesReadVersion
    <2> QED BY <2>1, <2>2
  <1> QED BY <1>1, <1>2, <1>3 DEF TaskNext

\* Whatever fails or is killed on the way and however many write, whoever reads the task's
\* file sees one whole rendering; a file that was there keeps its `Created` unless accesses
\* fail, and a compiler replaces the version it has read only if the task has changed
\* (main_macro.rs:128-183).
THEOREM TaskDocumentHolds == ASSUME TaskAssumption PROVE TaskSpec => DocumentHolds
  <1>1. TaskInit => TaskInv
    BY TaskInitInv
  <1>2. TaskInv /\ [TaskNext]_taskVars => TaskInv' /\ UpdateStep
    BY TaskStep
  <1>3. TaskInv => (doc # NoFile => IsRendering(doc))
    <2> SUFFICES ASSUME TaskInv, doc # NoFile PROVE IsRendering(doc)
      OBVIOUS
    <2>1. IsWhole(doc, clock) /\ clock \in Nat
      BY DEF TaskInv, TaskTyped, TaskAssumption
    <2> QED BY <2>1 DEF IsRendering, IsWhole, Times, TaskAssumption
  <1> QED BY <1>1, <1>2, <1>3, PTL DEF TaskSpec, DocumentHolds

----------------------------------------------------------------------------
(* TaskMacro: induction and recursion over numbers, as facts about sets of *)
(* numbers and about functions                                             *)

Less == {ss \in Nat \X Nat : ss[1] < ss[2]}

LEMMA LessIsWellFounded == IsWellFoundedOn(Less, Nat)
  BY NatLessThanWellFounded, SMT DEF OpToRel, Less

LEMMA Induction ==
    ASSUME NEW T, 0 \in T, \A i \in Nat : i \in T => i + 1 \in T
    PROVE  Nat \subseteq T
  <1> DEFINE R == Nat \ T
  <1>1. SUFFICES ASSUME R # {} PROVE FALSE
    BY DEF R
  <1>2. PICK x \in R : \A y \in R : <<y, x>> \notin Less
    BY <1>1, WFMin, LessIsWellFounded, Zenon
  <1>3. x # 0 /\ x \in Nat /\ x - 1 \in Nat /\ (x - 1) + 1 = x
    OBVIOUS
  <1>4. x - 1 \notin R
    <2>1. <<x - 1, x>> \in Less
      BY <1>3 DEF Less
    <2> QED BY <1>2, <2>1
  <1> QED BY <1>2, <1>3, <1>4

\* The values of a loop, one after the other.
Loop(f, n, first, F) == f[0] = first /\ \A i \in 1 .. n : f[i] = F[i][f[i - 1]]

LEMMA LoopExists ==
    ASSUME NEW n \in Nat, NEW X, NEW first \in X, NEW F \in [1 .. n -> [X -> X]]
    PROVE  \E f \in [0 .. n -> X] : Loop(f, n, first, F)
  <1> DEFINE P(k) == \E f \in [0 .. k -> X] : Loop(f, k, first, F)
             T == {k \in Nat : k <= n => P(k)}
  <1>1. 0 \in T
    <2> DEFINE f == [i \in 0 .. 0 |-> first]
    <2>1. f \in [0 .. 0 -> X] /\ f[0] = first
      OBVIOUS
    <2> HIDE DEF f
    <2>2. P(0)
      BY <2>1 DEF Loop
    <2> QED BY <2>2
  <1>2. ASSUME NEW k \in Nat, k \in T PROVE k + 1 \in T
    <2> SUFFICES ASSUME k + 1 <= n PROVE P(k + 1)
      OBVIOUS
    <2>1. PICK f \in [0 .. k -> X] : Loop(f, k, first, F)
      BY <1>2
    <2> DEFINE g == [i \in 0 .. k + 1 |-> IF i <= k THEN f[i] ELSE F[k + 1][f[k]]]
    <2>2. g \in [0 .. k + 1 -> X]
      BY <2>1
    <2>3. g[0] = first
      BY <2>1 DEF Loop
    <2>4. ASSUME NEW i \in 1 .. k + 1 PROVE g[i] = F[i][g[i - 1]]
      <3>1. CASE i <= k
        BY <2>1, <3>1 DEF Loop
      <3>2. CASE i = k + 1
        BY <2>1, <3>2
      <3> QED BY <3>1, <3>2
    <2> HIDE DEF g
    <2> QED BY <2>2, <2>3, <2>4 DEF Loop
  <1>3. Nat \subseteq T
    <2> HIDE DEF T
    <2> QED BY <1>1, <1>2, Induction
  <1>4. n \in T
    BY <1>3
  <1> QED BY <1>4

----------------------------------------------------------------------------
(* TaskMacro: the scan for paths                                           *)

LEMMA TokenIs ==
    ASSUME MacroAssumption
    PROVE  /\ Comma \in Token /\ Colon \in Token /\ Comma # Colon
           /\ ~IsIdent(Comma) /\ ~IsIdent(Colon)
           /\ "__incomplete" \in Spellings /\ \A t \in Token : t.text \in Spellings
  <1>1. Comma \in Token /\ Colon \in Token
    BY DEF Comma, Colon, Punct, Token, MacroAssumption
  <1>2. Comma # Colon
    BY Zenon DEF Comma, Colon, Punct
  <1>3. ~IsIdent(Comma) /\ ~IsIdent(Colon)
    BY DEF Comma, Colon, Punct, IsIdent
  <1>4. "__incomplete" \in Spellings /\ \A t \in Token : t.text \in Spellings
    BY DEF MacroAssumption, Token
  <1> QED BY <1>1, <1>2, <1>3, <1>4

\* The paths found from each token on.
Found(ts, i, f) ==
    IF i > Len(ts) THEN <<>>
    ELSE IF ~IsPathHead(ts, i) THEN f[i + 1]
    ELSE IF HasVariant(ts, i) THEN << <<ts[i].text, ts[i + 3].text>> >> \o f[i + 4]
    ELSE << <<ts[i].text, "__incomplete">> >> \o f[i + 3]

AllPaths == Seq(Seq(Spellings))

Scans(f, ts) ==
    /\ f \in [1 .. Len(ts) + 4 -> AllPaths]
    /\ \A i \in 1 .. Len(ts) + 4 : f[i] = Found(ts, i, f)

LEMMA FoundIsPaths ==
    ASSUME MacroAssumption, NEW ts \in Seq(Token), NEW i \in 1 .. Len(ts) + 4, NEW f,
           \A j \in i + 1 .. Len(ts) + 4 : f[j] \in AllPaths
    PROVE  /\ Found(ts, i, f) \in AllPaths
           /\ \A g : (\A j \in i + 1 .. Len(ts) + 4 : g[j] = f[j]) => Found(ts, i, g) = Found(ts, i, f)
  <1> DEFINE n == Len(ts)
  <1>1. n \in Nat /\ i \in Nat /\ 1 <= i /\ i <= n + 4
    BY LenProperties
  <1>2. CASE i > n
    BY <1>1, <1>2 DEF Found, AllPaths
  <1>3. CASE i <= n
    <2>1. i + 1 \in i + 1 .. n + 4 /\ i + 3 \in i + 1 .. n + 4 /\ i + 4 \in i + 1 .. n + 4
      BY <1>1, <1>3
    <2>2. f[i + 1] \in AllPaths /\ f[i + 3] \in AllPaths /\ f[i + 4] \in AllPaths
      BY <2>1
    <2>3. ts[i] \in Token /\ (HasVariant(ts, i) => ts[i + 3] \in Token)
      <3>1. i \in 1 .. n
        BY <1>1, <1>3
      <3>2. HasVariant(ts, i) => i + 3 \in 1 .. n
        BY <1>1 DEF HasVariant
      <3> QED BY <3>1, <3>2, ElementOfSeq
    <2> HIDE DEF n
    <2> DEFINE p == << <<ts[i].text, ts[i + 3].text>> >>
               q == << <<ts[i].text, "__incomplete">> >>
    <2>4. q \in AllPaths
      <3>1. ts[i].text \in Spellings /\ "__incomplete" \in Spellings
        BY <2>3, TokenIs
      <3> HIDE DEF q
      <3>2. <<ts[i].text, "__incomplete">> \in Seq(Spellings)
        BY <3>1
      <3> QED BY <3>2 DEF q, AllPaths
    <2>5. HasVariant(ts, i) => p \in AllPaths
      <3> SUFFICES ASSUME HasVariant(ts, i) PROVE p \in AllPaths
        OBVIOUS
      <3>1. ts[i].text \in Spellings /\ ts[i + 3].text \in Spellings
        BY <2>3, TokenIs
      <3>2. <<ts[i].text, ts[i + 3].text>> \in Seq(Spellings)
        BY <3>1
      <3> QED BY <3>2 DEF AllPaths
    <2> HIDE DEF p, q
    <2>6. q \o f[i + 3] \in AllPaths /\ (HasVariant(ts, i) => p \o f[i + 4] \in AllPaths)
      BY <2>2, <2>4, <2>5, ConcatProperties DEF AllPaths
    <2>7. \A g : Found(ts, i, g) = IF ~IsPathHead(ts, i) THEN g[i + 1]
                                  ELSE IF HasVariant(ts, i) THEN p \o g[i + 4] ELSE q \o g[i + 3]
      BY <1>1, <1>3 DEF Found, p, q, n
    <2> QED BY <2>1, <2>2, <2>6, <2>7 DEF n
  <1> QED BY <1>1, <1>2, <1>3

LEMMA ScanExists ==
    ASSUME MacroAssumption, NEW ts \in Seq(Token)
    PROVE  \E f : Scans(f, ts)
  <1> DEFINE n == Len(ts)
             P(k) == \E f \in [1 .. n + 4 -> AllPaths] :
                        \A i \in 1 .. n + 4 : i > n + 4 - k => f[i] = Found(ts, i, f)
             T == {k \in Nat : k <= n + 4 => P(k)}
  <1>1. n \in Nat
    BY LenProperties
  <1>2. 0 \in T
    <2> DEFINE f == [i \in 1 .. n + 4 |-> <<>>]
    <2>1. f \in [1 .. n + 4 -> AllPaths]
      BY DEF AllPaths
    <2>2. \A i \in 1 .. n + 4 : ~(i > n + 4 - 0)
      BY <1>1
    <2> HIDE DEF f
    <2>3. P(0)
      BY <2>1, <2>2
    <2> QED BY <2>3
  <1>3. ASSUME NEW k \in Nat, k \in T PROVE k + 1 \in T
    <2> SUFFICES ASSUME k + 1 <= n + 4 PROVE P(k + 1)
      OBVIOUS
    <2>1. PICK f \in [1 .. n + 4 -> AllPaths] :
             \A i \in 1 .. n + 4 : i > n + 4 - k => f[i] = Found(ts, i, f)
      <3>1. k <= n + 4
        BY <1>1
      <3> QED BY <1>3, <3>1
    <2> DEFINE nb == n + 4 - k
               g == [f EXCEPT ![nb] = Found(ts, nb, f)]
    <2>2. nb \in 1 .. n + 4 /\ n + 4 - (k + 1) = nb - 1
      BY <1>1
    <2> HIDE DEF nb
    <2>3. \A i \in 1 .. n + 4 : i > nb => f[i] = Found(ts, i, f)
      BY <2>1 DEF nb
    <2>4. Found(ts, nb, f) \in AllPaths
      <3>1. \A j \in nb + 1 .. n + 4 : j \in 1 .. n + 4
        BY <1>1, <2>2
      <3> QED BY <2>2, <3>1, FoundIsPaths
    <2>5. g \in [1 .. n + 4 -> AllPaths]
      BY <2>4
    <2>6. g[nb] = Found(ts, nb, f) /\ \A i \in 1 .. n + 4 : i # nb => g[i] = f[i]
      BY <2>2
    <2> HIDE DEF g, n
    <2>7. ASSUME NEW i \in 1 .. n + 4, i > nb - 1 PROVE g[i] = Found(ts, i, g)
      <3>1. i >= nb /\ \A j \in i + 1 .. n + 4 : j # nb /\ j \in 1 .. n + 4
        BY <1>1, <2>2, <2>7
      <3>2. \A j \in i + 1 .. n + 4 : g[j] = f[j] /\ f[j] \in AllPaths
        BY <2>6, <3>1
      <3>3. Found(ts, i, g) = Found(ts, i, f)
        BY <3>2, FoundIsPaths DEF n
      <3>4. CASE i = nb
        BY <2>6, <3>3, <3>4
      <3>5. CASE i # nb
        <4>1. i > nb
          BY <2>2, <3>1, <3>5
        <4> QED BY <2>3, <2>6, <3>3, <3>5, <4>1
      <3> QED BY <3>4, <3>5
    <2> QED BY <2>2, <2>5, <2>7 DEF n
  <1>4. Nat \subseteq T
    <2> HIDE DEF T
    <2> QED BY <1>2, <1>3, Induction
  <1>5. P(n + 4)
    <2>1. n + 4 \in Nat /\ n + 4 <= n + 4
      BY <1>1
    <2>2. n + 4 \in T
      BY <1>4, <2>1, Zenon
    <2> QED BY <2>1, <2>2
  <1>6. PICK f \in [1 .. n + 4 -> AllPaths] : \A i \in 1 .. n + 4 : f[i] = Found(ts, i, f)
    <2>1. \A i \in 1 .. n + 4 : i > n + 4 - (n + 4)
      BY <1>1
    <2> QED BY <1>5, <2>1
  <1> QED BY <1>6 DEF Scans

\* There is one scan of a sequence, CollectEnumPaths'.
LEMMA ScanIs ==
    ASSUME MacroAssumption, NEW ts \in Seq(Token), NEW f, Scans(f, ts)
    PROVE  CollectEnumPaths(ts) = f[1]
  <1> DEFINE n == Len(ts)
             body(h) == [i \in 1 .. n + 4 |-> Found(ts, i, h)]
             from == CHOOSE h : h = body(h)
  <1>1. n \in Nat
    BY LenProperties
  <1>2. f = body(f)
    BY DEF Scans
  <1>3. from = body(from)
    <2> HIDE DEF body
    <2> QED BY <1>2
  <1>4. CollectEnumPaths(ts) = from[1]
    BY DEF CollectEnumPaths, Found
  <1>5. f \in [1 .. n + 4 -> AllPaths] /\ \A i \in 1 .. n + 4 : f[i] = Found(ts, i, f)
    BY DEF Scans
  <1> HIDE DEF from
  <1>6. \A i \in 1 .. n + 4 : from[i] = Found(ts, i, from)
    BY <1>3
  <1> HIDE DEF body, n
  <1> DEFINE T == {k \in Nat : \A i \in 1 .. n + 4 : i > n + 4 - k => from[i] = f[i]}
  <1>7. 0 \in T
    BY <1>1
  <1>8. ASSUME NEW k \in Nat, k \in T PROVE k + 1 \in T
    <2> SUFFICES ASSUME NEW i \in 1 .. n + 4, i > n + 4 - (k + 1) PROVE from[i] = f[i]
      OBVIOUS
    <2>1. \A j \in i + 1 .. n + 4 : j \in 1 .. n + 4 /\ j > n + 4 - k
      BY <1>1
    <2>2. \A j \in i + 1 .. n + 4 : from[j] = f[j] /\ f[j] \in AllPaths
      BY <1>5, <1>8, <2>1
    <2>3. Found(ts, i, from) = Found(ts, i, f)
      BY <2>2, FoundIsPaths DEF n
    <2> QED BY <1>5, <1>6, <2>3
  <1>9. Nat \subseteq T
    <2> HIDE DEF T
    <2> QED BY <1>7, <1>8, Induction
  <1>10. from[1] = f[1]
    <2>1. n + 4 \in Nat /\ 1 \in 1 .. n + 4 /\ 1 > n + 4 - (n + 4)
      BY <1>1
    <2>2. n + 4 \in T
      BY <1>9, <2>1, Zenon
    <2> QED BY <2>1, <2>2
  <1> QED BY <1>4, <1>10

LEMMA PathsJoin ==
    ASSUME NEW S, NEW a \in Seq(S), NEW b \in Seq(S), NEW c \in Seq(S)
    PROVE  a \o b \in Seq(S) /\ (a \o b) \o c = a \o (b \o c) /\ a \o <<>> = a /\ <<>> \o a = a
  BY ConcatProperties, ConcatAssociative, ConcatEmptySeq

LEMMA PathsAssociate ==
    ASSUME NEW x \in AllPaths, NEW y \in AllPaths, NEW z \in AllPaths
    PROVE  (x \o y) \o z = x \o (y \o z)
  <1> DEFINE S == Seq(Spellings)
  <1>1. x \in Seq(S) /\ y \in Seq(S) /\ z \in Seq(S)
    BY DEF AllPaths
  <1> HIDE DEF S
  <1> QED BY <1>1, PathsJoin

\* No path goes across a comma.
LEMMA CollectJoin ==
    ASSUME MacroAssumption, NEW a \in Seq(Token), NEW b \in Seq(Token),
           a # <<>> => a[Len(a)] = Comma
    PROVE  CollectEnumPaths(a \o b) = CollectEnumPaths(a) \o CollectEnumPaths(b)
  <1> DEFINE n == Len(a)
             nb == Len(b)
             c == a \o b
  <1>1. /\ n \in Nat /\ nb \in Nat /\ c \in Seq(Token) /\ Len(c) = n + nb
        /\ \A i \in 1 .. n : c[i] = a[i]
        /\ \A i \in 1 .. nb : c[n + i] = b[i]
    <2>1. n \in Nat /\ nb \in Nat
      BY LenProperties
    <2>2. /\ c \in Seq(Token) /\ Len(c) = n + nb
          /\ \A i \in 1 .. n + nb : c[i] = IF i <= n THEN a[i] ELSE b[i - n]
      BY ConcatProperties
    <2> HIDE DEF c, n, nb
    <2>3. ASSUME NEW i \in 1 .. n PROVE c[i] = a[i]
      BY <2>1, <2>2
    <2>4. ASSUME NEW i \in 1 .. nb PROVE c[n + i] = b[i]
      <3>1. n + i \in 1 .. n + nb /\ ~(n + i <= n) /\ (n + i) - n = i
        BY <2>1
      <3> QED BY <2>2, <3>1
    <2> QED BY <2>1, <2>2, <2>3, <2>4
  <1>2. PICK f : Scans(f, a)
    BY ScanExists
  <1>3. PICK h : Scans(h, b)
    BY ScanExists
  <1>4. CollectEnumPaths(a) = f[1] /\ CollectEnumPaths(b) = h[1]
    BY <1>2, <1>3, ScanIs
  <1>5. /\ f \in [1 .. n + 4 -> AllPaths] /\ \A i \in 1 .. n + 4 : f[i] = Found(a, i, f)
        /\ h \in [1 .. nb + 4 -> AllPaths] /\ \A i \in 1 .. nb + 4 : h[i] = Found(b, i, h)
    BY <1>2, <1>3 DEF Scans
  <1>6. n > 0 => a[n] = Comma
    <2>1. n > 0 => a # <<>>
      BY <1>1
    <2> QED BY <2>1
  <1> HIDE DEF c
  <1> DEFINE g == [i \in 1 .. n + nb + 4 |-> IF i <= n THEN f[i] \o h[1] ELSE h[i - n]]
  <1>7. f[n + 1] = <<>> /\ 1 \in 1 .. nb + 4 /\ h[1] \in AllPaths
    <2>1. n + 1 \in 1 .. n + 4 /\ n + 1 > n /\ 1 \in 1 .. nb + 4
      BY <1>1
    <2>2. Found(a, n + 1, f) = <<>>
      BY <2>1 DEF Found
    <2> QED BY <1>5, <2>1, <2>2
  <1> HIDE DEF n, nb
  <1>8. g \in [1 .. n + nb + 4 -> AllPaths]
    <2>1. ASSUME NEW i \in 1 .. n + nb + 4, i <= n PROVE f[i] \o h[1] \in AllPaths
      <3>1. i \in 1 .. n + 4
        BY <1>1, <2>1
      <3> QED BY <1>5, <1>7, <3>1, ConcatProperties DEF AllPaths
    <2>2. ASSUME NEW i \in 1 .. n + nb + 4, ~(i <= n) PROVE h[i - n] \in AllPaths
      <3>1. i - n \in 1 .. nb + 4
        BY <1>1, <2>2
      <3> QED BY <1>5, <3>1
    <2> QED BY <2>1, <2>2
  <1>9. ASSUME NEW i \in 1 .. n + 1 PROVE g[i] = f[i] \o h[1] /\ f[i] \in AllPaths
    <2>1. CASE i <= n
      <3>1. i \in 1 .. n + nb + 4 /\ i \in 1 .. n + 4
        BY <1>1, <2>1
      <3> QED BY <1>5, <2>1, <3>1
    <2>2. CASE i = n + 1
      <3>1. i \in 1 .. n + nb + 4 /\ i \in 1 .. n + 4 /\ ~(i <= n) /\ i - n = 1
        BY <1>1, <2>2
      <3>2. <<>> \o h[1] = h[1]
        BY <1>7, PathsJoin DEF AllPaths
      <3> QED BY <1>5, <1>7, <2>2, <3>1, <3>2
    <2>3. i <= n \/ i = n + 1
      BY <1>1
    <2> HIDE DEF g
    <2> QED BY <2>1, <2>2, <2>3
  <1>10. ASSUME NEW j \in 1 .. nb + 4 PROVE g[n + j] = h[j]
    <2>1. n + j \in 1 .. n + nb + 4 /\ ~(n + j <= n) /\ (n + j) - n = j
      BY <1>1
    <2> QED BY <2>1
  <1> HIDE DEF g
  <1>11. ASSUME NEW i \in 1 .. n PROVE g[i] = Found(c, i, g)
    <2>1. c[i] = a[i] /\ i <= n /\ i <= Len(c) /\ i \in Nat
      BY <1>1
    <2>2. /\ a[n] = Comma /\ c[n] = Comma /\ ~IsIdent(Comma) /\ Comma # Colon
      <3>1. n \in 1 .. n /\ n > 0
        BY <1>1
      <3> QED BY <1>1, <1>6, <3>1, TokenIs
    <2>3. IsPathHead(a, i) => i + 3 <= n
      <3>1. IsPathHead(a, i) => i + 2 <= n /\ i + 2 # n
        BY <2>2 DEF IsPathHead, IsColon, n
      <3> QED BY <1>1, <3>1
    <2>4. IsPathHead(c, i) => i + 3 <= n
      <3>1. IsPathHead(c, i) => i # n /\ i + 1 # n /\ i + 2 # n
        BY <2>2 DEF IsPathHead, IsColon
      <3> QED BY <1>1, <2>1, <3>1
    <2>5. i + 3 <= n => c[i + 1] = a[i + 1] /\ c[i + 2] = a[i + 2] /\ c[i + 3] = a[i + 3]
      <3>1. i + 3 <= n => i + 1 \in 1 .. n /\ i + 2 \in 1 .. n /\ i + 3 \in 1 .. n
        BY <1>1
      <3> QED BY <1>1, <3>1
    <2>6. /\ IsPathHead(c, i) <=> IsPathHead(a, i)
          /\ IsPathHead(a, i) => (HasVariant(c, i) <=> HasVariant(a, i))
      <3>1. i + 3 <= n => /\ i + 1 <= n /\ i + 2 <= n /\ i + 3 <= Len(c)
                          /\ i + 1 <= Len(c) /\ i + 2 <= Len(c)
        BY <1>1
      <3> QED BY <2>1, <2>3, <2>4, <2>5, <3>1 DEF IsPathHead, HasVariant, IsColon, n
    <2>7. g[i] = f[i] \o h[1] /\ f[i] = Found(a, i, f) /\ ~(i > n) /\ ~(i > Len(c))
      <3>1. i \in 1 .. n + 1 /\ i \in 1 .. n + 4
        BY <1>1
      <3>2. ~(i > n) /\ ~(i > Len(c))
        BY <1>1
      <3>3. f[i] = Found(a, i, f) /\ g[i] = f[i] \o h[1]
        BY <1>5, <1>9, <3>1
      <3> QED BY <3>2, <3>3
    <2>8. CASE ~IsPathHead(a, i)
      <3>1. i + 1 \in 1 .. n + 1
        BY <1>1
      <3>2. f[i] = f[i + 1] /\ Found(c, i, g) = g[i + 1]
        BY <2>6, <2>7, <2>8 DEF Found, n
      <3> QED BY <1>9, <2>7, <3>1, <3>2
    <2>9. CASE IsPathHead(a, i)
      <3> DEFINE p == << <<a[i].text, a[i + 3].text>> >>
                 q == << <<a[i].text, "__incomplete">> >>
      <3>1. i + 3 \in 1 .. n + 1 /\ i + 4 \in 1 .. n + 1 /\ i + 3 \in 1 .. n
        BY <1>1, <2>3, <2>9
      <3>2. f[i] = IF HasVariant(a, i) THEN p \o f[i + 4] ELSE q \o f[i + 3]
        BY <2>7, <2>9 DEF Found, n
      <3>3. Found(c, i, g) = IF HasVariant(a, i) THEN p \o g[i + 4] ELSE q \o g[i + 3]
        BY <1>1, <2>1, <2>6, <2>7, <2>9, <3>1 DEF Found
      <3>4. p \in AllPaths /\ q \in AllPaths
        <4>1. a[i] \in Token /\ a[i + 3] \in Token
          BY <3>1, ElementOfSeq DEF n
        <4>2. a[i].text \in Spellings /\ a[i + 3].text \in Spellings /\ "__incomplete" \in Spellings
          BY <4>1, TokenIs
        <4>3. <<a[i].text, a[i + 3].text>> \in Seq(Spellings) /\ <<a[i].text, "__incomplete">> \in Seq(Spellings)
          BY <4>2
        <4> QED BY <4>3 DEF AllPaths
      <3> HIDE DEF p, q
      <3>5. /\ g[i + 4] = f[i + 4] \o h[1] /\ f[i + 4] \in AllPaths
            /\ g[i + 3] = f[i + 3] \o h[1] /\ f[i + 3] \in AllPaths
        BY <1>9, <3>1
      <3>6. (p \o f[i + 4]) \o h[1] = p \o g[i + 4] /\ (q \o f[i + 3]) \o h[1] = q \o g[i + 3]
        <4> DEFINE y == f[i + 4]
                   z == f[i + 3]
                   e == h[1]
        <4>1. y \in AllPaths /\ z \in AllPaths /\ e \in AllPaths
          BY <1>7, <3>5
        <4>2. g[i + 4] = y \o e /\ g[i + 3] = z \o e
          BY <3>5
        <4> HIDE DEF y, z, e
        <4>3. (p \o y) \o e = p \o (y \o e)
          <5>1. p \in AllPaths /\ y \in AllPaths /\ e \in AllPaths
            BY <3>4, <4>1
          <5> QED BY <5>1, PathsAssociate, Zenon
        <4>4. (q \o z) \o e = q \o (z \o e)
          <5>1. q \in AllPaths /\ z \in AllPaths /\ e \in AllPaths
            BY <3>4, <4>1
          <5> QED BY <5>1, PathsAssociate, Zenon
        <4> QED BY <4>2, <4>3, <4>4 DEF y, z, e
      <3> QED BY <2>7, <3>2, <3>3, <3>6
    <2> QED BY <2>8, <2>9
  <1>12. ASSUME NEW j \in 1 .. nb + 4 PROVE g[n + j] = Found(c, n + j, g)
    <2>1. g[n + j] = h[j] /\ h[j] = Found(b, j, h) /\ (n + j > Len(c) <=> j > nb)
      BY <1>1, <1>5, <1>10
    <2>2. CASE j > nb
      BY <2>1, <2>2 DEF Found, nb
    <2>3. CASE ~(j > nb)
      <3>1. j \in 1 .. nb /\ c[n + j] = b[j]
        <4>1. j \in 1 .. nb
          <5>1. nb \in Nat /\ j \in 1 .. nb + 4 /\ ~(j > nb)
            BY <1>1, <2>3
          <5> QED BY <5>1
        <4> QED BY <1>1, <4>1
      <3>2. /\ (n + j + 1 <= Len(c) <=> j + 1 <= nb) /\ (n + j + 2 <= Len(c) <=> j + 2 <= nb)
            /\ (n + j + 3 <= Len(c) <=> j + 3 <= nb)
        BY <1>1
      <3>3. /\ j + 1 <= nb => c[n + j + 1] = b[j + 1]
            /\ j + 2 <= nb => c[n + j + 2] = b[j + 2]
            /\ j + 3 <= nb => c[n + j + 3] = b[j + 3]
        <4>1. ASSUME NEW k \in 1 .. 3, j + k <= nb PROVE c[n + j + k] = b[j + k]
          <5>1. j + k \in 1 .. nb /\ n + (j + k) = n + j + k
            BY <1>1, <4>1
          <5> QED BY <1>1, <5>1
        <4> QED BY <4>1
      <3>4. IsPathHead(c, n + j) <=> IsPathHead(b, j)
        BY <3>1, <3>2, <3>3 DEF IsPathHead, IsColon, nb
      <3>5. HasVariant(c, n + j) <=> HasVariant(b, j)
        BY <3>2, <3>3 DEF HasVariant, nb
      <3>6. g[n + j + 1] = h[j + 1] /\ g[n + j + 3] = h[j + 3] /\ g[n + j + 4] = h[j + 4]
        <4>1. /\ j + 1 \in 1 .. nb + 4 /\ j + 3 \in 1 .. nb + 4 /\ j + 4 \in 1 .. nb + 4
              /\ n + j + 1 = n + (j + 1) /\ n + j + 3 = n + (j + 3) /\ n + j + 4 = n + (j + 4)
          BY <1>1, <3>1
        <4> QED BY <1>10, <4>1
      <3>7. HasVariant(b, j) => c[n + j + 3] = b[j + 3]
        BY <3>3 DEF HasVariant, nb
      <3> QED BY <2>1, <2>3, <3>1, <3>4, <3>5, <3>6, <3>7 DEF Found, nb
    <2> QED BY <2>2, <2>3
  <1>13. ASSUME NEW i \in 1 .. n + nb + 4 PROVE g[i] = Found(c, i, g)
    <2>1. CASE i <= n
      <3>1. i \in 1 .. n
        BY <1>1, <2>1
      <3> QED BY <1>11, <3>1
    <2>2. CASE ~(i <= n)
      <3>1. i - n \in 1 .. nb + 4 /\ n + (i - n) = i
        BY <1>1, <2>2
      <3> QED BY <1>12, <3>1
    <2> QED BY <2>1, <2>2
  <1>14. Scans(g, c)
    BY <1>1, <1>8, <1>13 DEF Scans
  <1>15. CollectEnumPaths(c) = g[1]
    BY <1>1, <1>14, ScanIs
  <1>16. 1 \in 1 .. n + 1
    BY <1>1
  <1> QED BY <1>4, <1>9, <1>15, <1>16 DEF c

\* The value of a row.
LEMMA ValueIs ==
    ASSUME NEW S, NEW row \in Seq(S), Len(row) >= 2
    PROVE  /\ Value(row) \in Seq(S) /\ Len(Value(row)) = Len(row) - 2
           /\ \A j \in 1 .. Len(row) - 2 : Value(row)[j] = row[j + 2]
  <1> DEFINE n == Len(row)
             v == Value(row)
  <1>1. n \in Nat /\ n >= 2 /\ \A j \in 3 .. n : row[j] \in S
    <2>1. n \in Nat /\ n >= 2 /\ \A j \in 1 .. n : row[j] \in S
      BY LenProperties, ElementOfSeq
    <2> QED BY <2>1
  <1> HIDE DEF n
  <1>2. /\ v \in Seq(S) /\ Len(v) = IF 3 <= n THEN n - 3 + 1 ELSE 0
        /\ \A j \in 1 .. n - 3 + 1 : v[j] = row[3 + j - 1]
    BY <1>1, SubSeqProperties DEF Value, n
  <1> HIDE DEF v
  <1>3. Len(v) = n - 2
    BY <1>1, <1>2
  <1>4. ASSUME NEW j \in 1 .. n - 2 PROVE v[j] = row[j + 2]
    <2>1. j \in 1 .. n - 3 + 1 /\ 3 + j - 1 = j + 2
      BY <1>1
    <2> QED BY <1>2, <2>1
  <1> QED BY <1>2, <1>3, <1>4 DEF v, n

\* The rows that can be read: a path in five tokens, or one token that is no colon.
EnumRow(row) ==
    /\ row[1].text \in DOMAIN EnumOf /\ Len(row) = 6
    /\ IsIdent(row[3]) /\ row[4] = Colon /\ row[5] = Colon /\ IsIdent(row[6])

PlainRow(row) == row[1].text \notin DOMAIN EnumOf /\ Len(row) = 3 /\ row[3] # Colon

\* The three kinds of fields are apart.
LEMMA BuildsApart ==
    ASSUME NEW field, NEW v
    PROVE  /\ field \in DOMAIN EnumOf => BuildValue(field, v) = BuildEnum(v, EnumOf[field])
           /\ field \in LiteralFields => BuildValue(field, v) = BuildLiteral(v)
           /\ field = "panic" => BuildValue(field, v) = BuildBool(v)
  <1>1. field \in DOMAIN EnumOf => field \notin LiteralFields /\ field # "panic"
    BY DEF EnumOf, LiteralFields
  <1>2. field \in LiteralFields => field \notin DOMAIN EnumOf /\ field # "panic"
    BY DEF EnumOf, LiteralFields
  <1>3. field = "panic" => field \notin DOMAIN EnumOf /\ field \notin LiteralFields
    BY DEF EnumOf, LiteralFields
  <1> QED BY <1>1, <1>2, <1>3 DEF BuildValue

LEMMA FineRows ==
    ASSUME NEW row \in Seq(Token), RowIsFine(row)
    PROVE  /\ IsIdent(row[1]) /\ row[1].text \in TaskFields /\ row[2] = Colon
           /\ EnumRow(row) \/ PlainRow(row)
  <1> DEFINE field == row[1].text
             v == Value(row)
             n == Len(row)
  <1>1. /\ IsIdent(row[1]) /\ field \in TaskFields /\ row[2] = Colon /\ n \in Nat /\ n >= 2
        /\ BuildValue(field, v) # Unset
    BY LenProperties DEF RowIsFine
  <1>2. Len(v) = n - 2 /\ \A j \in 1 .. n - 2 : v[j] = row[j + 2]
    BY <1>1, ValueIs
  <1> HIDE DEF v, n, field
  <1>3. CASE field \in DOMAIN EnumOf
    <2>1. BuildEnum(v, EnumOf[field]) # Unset
      BY <1>1, <1>3, BuildsApart
    <2>2. Len(v) = 4 /\ IsIdent(v[1]) /\ v[2] = Colon /\ v[3] = Colon /\ IsIdent(v[4])
      BY <2>1, Zenon DEF BuildEnum
    <2>3. n = 6 /\ 1 \in 1 .. n - 2 /\ 2 \in 1 .. n - 2 /\ 3 \in 1 .. n - 2 /\ 4 \in 1 .. n - 2
      <3>1. n \in Nat /\ n - 2 = 4
        BY <1>1, <1>2, <2>2, Zenon
      <3> QED BY <3>1
    <2>4. v[1] = row[3] /\ v[2] = row[4] /\ v[3] = row[5] /\ v[4] = row[6]
      BY <1>2, <2>3
    <2> QED BY <1>1, <1>3, <2>2, <2>3, <2>4 DEF EnumRow, n, field
  <1>4. CASE field \notin DOMAIN EnumOf
    <2>1. Len(v) = 1 /\ v[1] # Colon
      <3>1. Colon.kind = "punct"
        BY DEF Colon, Punct
      <3>2. CASE field \in LiteralFields
        <4>1. BuildLiteral(v) # Unset
          BY <1>1, <1>4, <3>2, BuildsApart
        <4>2. Len(v) = 1 /\ v[1].kind = "literal"
          BY <4>1, Zenon DEF BuildLiteral
        <4> QED BY <3>1, <4>2
      <3>3. CASE field \notin LiteralFields
        <4>1. field = "panic"
          BY <1>1, <1>4, <3>3, Zenon DEF TaskFields, Required, LiteralFields
        <4>2. BuildBool(v) # Unset
          BY <1>1, <1>4, <3>3, <4>1, BuildsApart
        <4>3. Len(v) = 1 /\ IsIdent(v[1])
          BY <4>2, Zenon DEF BuildBool
        <4> QED BY <3>1, <4>3 DEF IsIdent
      <3> QED BY <3>2, <3>3
    <2>2. n = 3 /\ 1 \in 1 .. n - 2
      <3>1. n \in Nat /\ n - 2 = 1
        BY <1>1, <1>2, <2>1, Zenon
      <3> QED BY <3>1
    <2>3. v[1] = row[3]
      BY <1>2, <2>2
    <2> QED BY <1>1, <1>4, <2>1, <2>2, <2>3 DEF PlainRow, n, field
  <1> QED BY <1>1, <1>3, <1>4 DEF field

\* Behind its rows a call shows what the scan of the row's tokens shows.
LEMMA RowShows ==
    ASSUME MacroAssumption, NEW row \in Seq(Token), RowIsFine(row), NEW end \in {<<>>, <<Comma>>}
    PROVE  row \o end \in Seq(Token) /\ CollectEnumPaths(row \o end) = PathOf(row)
  <1> DEFINE n == Len(row)
             nb == Len(end)
             ts == row \o end
  <1>1. /\ IsIdent(row[1]) /\ row[2] = Colon /\ Colon # Comma /\ ~IsIdent(Colon) /\ ~IsIdent(Comma)
        /\ EnumRow(row) \/ PlainRow(row)
    BY FineRows, TokenIs
  <1>2. n \in Nat /\ end \in Seq(Token) /\ nb \in 0 .. 1 /\ (nb = 1 => end[1] = Comma)
    <2>1. Comma \in Token
      BY TokenIs
    <2>2. CASE end = <<>>
      BY <2>2, LenProperties
    <2>3. CASE end = <<Comma>>
      BY <2>1, <2>3, LenProperties
    <2> QED BY <2>2, <2>3
  <1>3. /\ ts \in Seq(Token) /\ Len(ts) = n + nb
        /\ \A i \in 1 .. n + nb : ts[i] = IF i <= n THEN row[i] ELSE end[i - n]
    BY <1>2, ConcatProperties
  <1> HIDE DEF n, nb, ts
  <1>4. nb = 1 => ts[n + 1] = Comma
    <2>1. nb = 1 => n + 1 \in 1 .. n + nb /\ ~(n + 1 <= n) /\ (n + 1) - n = 1
      BY <1>2
    <2> QED BY <1>2, <1>3, <2>1
  <1>5. PICK f : Scans(f, ts)
    BY <1>3, ScanExists
  <1>6. /\ CollectEnumPaths(ts) = f[1]
        /\ f \in [1 .. n + nb + 4 -> AllPaths] /\ \A i \in 1 .. n + nb + 4 : f[i] = Found(ts, i, f)
    BY <1>3, <1>5, ScanIs DEF Scans
  \* Nothing is found behind the row.
  <1>7. f[n + 1] = <<>>
    <2>1. n + 1 \in 1 .. n + nb + 4 /\ n + nb + 1 \in 1 .. n + nb + 4 /\ n + nb + 1 > n + nb
      BY <1>2
    <2>2. f[n + nb + 1] = <<>>
      BY <1>3, <1>6, <2>1 DEF Found
    <2>3. CASE nb = 0
      BY <1>2, <2>2, <2>3
    <2>4. CASE nb = 1
      <3>1. ~IsPathHead(ts, n + 1)
        BY <1>1, <1>4, <2>4 DEF IsPathHead
      <3>2. ~(n + 1 > Len(ts)) /\ n + 1 + 1 = n + nb + 1
        BY <1>2, <1>3, <2>4
      <3>3. f[n + 1] = f[n + 1 + 1]
        BY <1>6, <2>1, <3>1, <3>2 DEF Found
      <3> QED BY <2>2, <3>2, <3>3
    <2> QED BY <1>2, <2>3, <2>4
  <1>8. ASSUME NEW i \in 1 .. n, ~IsPathHead(ts, i) PROVE f[i] = f[i + 1]
    <2>1. i \in 1 .. n + nb + 4 /\ ~(i > Len(ts))
      BY <1>2, <1>3
    <2> QED BY <1>6, <1>8, <2>1 DEF Found
  <1>9. ASSUME n >= 3, row[3] # Colon PROVE f[1] = f[3]
    <2>1. 1 \in 1 .. n /\ 2 \in 1 .. n /\ \A i \in 1 .. 3 : i \in 1 .. n + nb /\ i <= n
      BY <1>2, <1>9
    <2>2. ts[1] = row[1] /\ ts[2] = Colon /\ ts[3] = row[3]
      BY <1>1, <1>3, <2>1
    <2>3. ~IsPathHead(ts, 1) /\ ~IsPathHead(ts, 2)
      BY <1>1, <1>9, <2>2 DEF IsPathHead, IsColon
    <2>4. f[1] = f[1 + 1] /\ f[2] = f[2 + 1]
      BY <1>8, <2>1, <2>3
    <2> QED BY <2>4
  <1>10. CASE PlainRow(row)
    <2>1. n = 3 /\ row[3] # Colon /\ PathOf(row) = <<>>
      BY <1>10 DEF PlainRow, PathOf, n
    <2>2. ~IsPathHead(ts, 3)
      <3>1. IsColon(ts, 4) => nb = 1 /\ ts[4] = Colon
        BY <1>2, <1>3, <2>1 DEF IsColon
      <3>2. nb = 1 => ts[4] = Comma
        BY <1>4, <2>1
      <3> QED BY <1>1, <3>1, <3>2 DEF IsPathHead
    <2>3. f[3] = f[3 + 1]
      BY <1>8, <2>1, <2>2
    <2> QED BY <1>3, <1>6, <1>7, <1>9, <2>1, <2>3 DEF ts
  <1>11. CASE EnumRow(row)
    <2>1. /\ n = 6 /\ row[1].text \in DOMAIN EnumOf /\ IsIdent(row[3]) /\ row[4] = Colon
          /\ row[5] = Colon /\ IsIdent(row[6])
      BY <1>11 DEF EnumRow, n
    <2>2. \A i \in 1 .. 6 : ts[i] = row[i]
      BY <1>2, <1>3, <2>1
    <2>3. IsPathHead(ts, 3) /\ HasVariant(ts, 3)
      <3>1. ts[3] = row[3] /\ ts[4] = Colon /\ ts[5] = Colon /\ ts[6] = row[6]
        BY <2>1, <2>2
      <3>2. 4 <= Len(ts) /\ 5 <= Len(ts) /\ 6 <= Len(ts)
        BY <1>2, <1>3, <2>1
      <3> QED BY <2>1, <3>1, <3>2 DEF IsPathHead, HasVariant, IsColon
    <2>4. f[3] = << <<row[3].text, row[6].text>> >> \o f[7]
      <3>1. 3 \in 1 .. n + nb + 4 /\ ~(3 > Len(ts))
        BY <1>2, <1>3, <2>1
      <3>2. ts[3] = row[3] /\ ts[6] = row[6] /\ 3 + 3 = 6 /\ 3 + 4 = 7
        BY <2>2
      <3>3. f[3] = Found(ts, 3, f)
        BY <1>6, <3>1
      <3>4. Found(ts, 3, f) = << <<ts[3].text, ts[3 + 3].text>> >> \o f[3 + 4]
        BY <2>3, <3>1, Zenon DEF Found
      <3> QED BY <3>2, <3>3, <3>4
    <2>5. f[7] = <<>> /\ f[1] = f[3]
      <3>1. row[3] # Colon /\ n >= 3
        BY <1>1, <2>1
      <3> QED BY <1>7, <1>9, <2>1, <3>1
    <2>6. << <<row[3].text, row[6].text>> >> \o <<>> = << <<row[3].text, row[6].text>> >>
      OBVIOUS
    <2>7. PathOf(row) = << <<row[3].text, row[6].text>> >>
      <3>1. Value(row)[1] = row[3] /\ Value(row)[4] = row[6]
        <4>1. Len(row) >= 2 /\ 1 \in 1 .. Len(row) - 2 /\ 4 \in 1 .. Len(row) - 2
          BY <2>1 DEF n
        <4> QED BY <4>1, ValueIs
      <3> QED BY <2>1, <3>1 DEF PathOf
    <2> QED BY <1>3, <1>6, <2>4, <2>5, <2>6, <2>7 DEF ts
  <1> QED BY <1>1, <1>10, <1>11

----------------------------------------------------------------------------
(* TaskMacro: what the rows show                                           *)

\* The paths of a call's rows, up to each row.
Shows(f, rs) ==
    /\ f \in [0 .. Len(rs) -> AllPaths] /\ f[0] = <<>>
    /\ \A i \in 1 .. Len(rs) : f[i] = f[i - 1] \o PathOf(rs[i])

FineCall(rs) == rs \in Seq(TypedRows) /\ \A i \in 1 .. Len(rs) : RowIsFine(rs[i])

LEMMA FineCallShows ==
    ASSUME MacroAssumption, NEW rs, FineCall(rs)
    PROVE  \A i \in 1 .. Len(rs) : PathOf(rs[i]) \in AllPaths
  <1> SUFFICES ASSUME NEW i \in 1 .. Len(rs) PROVE PathOf(rs[i]) \in AllPaths
    OBVIOUS
  <1>1. rs[i] \in Seq(Token) /\ RowIsFine(rs[i])
    <2>1. rs[i] \in TypedRows
      BY ElementOfSeq DEF FineCall
    <2> QED BY <2>1 DEF FineCall, MacroAssumption
  <1>2. rs[i] \o <<>> = rs[i] /\ <<>> \in {<<>>, <<Comma>>}
    BY <1>1
  <1>3. CollectEnumPaths(rs[i]) = PathOf(rs[i])
    BY <1>1, <1>2, RowShows
  <1>4. PICK f : Scans(f, rs[i])
    BY <1>1, ScanExists
  <1>5. CollectEnumPaths(rs[i]) = f[1]
    BY <1>1, <1>4, ScanIs
  <1>6. 1 \in 1 .. Len(rs[i]) + 4
    BY <1>1, LenProperties
  <1> QED BY <1>3, <1>4, <1>5, <1>6 DEF Scans

LEMMA ShownExists ==
    ASSUME MacroAssumption, NEW rs, FineCall(rs)
    PROVE  \E f : Shows(f, rs)
  <1> DEFINE n == Len(rs)
             F == [i \in 1 .. n |-> [x \in AllPaths |-> x \o PathOf(rs[i])]]
  <1>1. n \in Nat
    BY LenProperties DEF FineCall
  <1>2. \A i \in 1 .. n : PathOf(rs[i]) \in AllPaths
    BY FineCallShows
  <1> HIDE DEF n
  <1>3. F \in [1 .. n -> [AllPaths -> AllPaths]]
    <2>1. \A i \in 1 .. n : \A x \in AllPaths : x \o PathOf(rs[i]) \in AllPaths
      BY <1>2, ConcatProperties DEF AllPaths
    <2> QED BY <2>1
  <1>4. <<>> \in AllPaths
    BY DEF AllPaths
  <1>5. \A i \in 1 .. n : \A x \in AllPaths : F[i][x] = x \o PathOf(rs[i])
    OBVIOUS
  <1> HIDE DEF F
  <1>6. PICK f \in [0 .. n -> AllPaths] : Loop(f, n, <<>>, F)
    BY <1>1, <1>3, <1>4, LoopExists
  <1>7. ASSUME NEW i \in 1 .. n PROVE f[i] = f[i - 1] \o PathOf(rs[i])
    <2>1. i - 1 \in 0 .. n
      BY <1>1
    <2>2. f[i - 1] \in AllPaths
      BY <2>1
    <2> QED BY <1>5, <1>6, <2>2 DEF Loop
  <1> QED BY <1>6, <1>7 DEF Shows, Loop, n

\* There is one way to list them, ShownPaths'.
LEMMA ShownIs ==
    ASSUME NEW rs, Len(rs) \in Nat, NEW f, Shows(f, rs)
    PROVE  ShownPaths(rs) = f[Len(rs)]
  <1> DEFINE n == Len(rs)
             body(h) == [i \in 0 .. n |-> IF i = 0 THEN <<>> ELSE h[i - 1] \o PathOf(rs[i])]
             of == CHOOSE h : h = body(h)
  <1>1. f = body(f)
    BY DEF Shows
  <1>2. of = body(of)
    <2> HIDE DEF body
    <2> QED BY <1>1
  <1>3. ShownPaths(rs) = of[n]
    BY DEF ShownPaths
  <1> HIDE DEF of
  <1>4. \A i \in 0 .. n : of[i] = IF i = 0 THEN <<>> ELSE of[i - 1] \o PathOf(rs[i])
    BY <1>2
  <1>5. f[0] = <<>> /\ \A i \in 1 .. n : f[i] = f[i - 1] \o PathOf(rs[i])
    BY DEF Shows
  <1>6. n \in Nat
    OBVIOUS
  <1> HIDE DEF body, n
  <1> DEFINE T == {k \in Nat : k <= n => of[k] = f[k]}
  <1>7. 0 \in T
    BY <1>4, <1>5, <1>6
  <1>8. ASSUME NEW k \in Nat, k \in T PROVE k + 1 \in T
    <2> SUFFICES ASSUME k + 1 <= n PROVE of[k + 1] = f[k + 1]
      OBVIOUS
    <2>1. k + 1 \in 0 .. n /\ k + 1 \in 1 .. n /\ k + 1 # 0 /\ (k + 1) - 1 = k /\ k <= n
      BY <1>6
    <2>2. of[k + 1] = of[k] \o PathOf(rs[k + 1]) /\ f[k + 1] = f[k] \o PathOf(rs[k + 1])
      BY <1>4, <1>5, <2>1
    <2> QED BY <1>8, <2>1, <2>2
  <1>9. Nat \subseteq T
    <2> HIDE DEF T
    <2> QED BY <1>7, <1>8, Induction
  <1>10. n \in T /\ n <= n
    BY <1>6, <1>9
  <1> QED BY <1>3, <1>10 DEF n

LEMMA NothingShown == ShownPaths(<<>>) = <<>>
  <1> DEFINE f == [i \in 0 .. 0 |-> <<>>]
  <1>1. Len(<<>>) = 0
    OBVIOUS
  <1>2. f \in [0 .. 0 -> AllPaths] /\ f[0] = <<>>
    BY DEF AllPaths
  <1> HIDE DEF f
  <1>3. Shows(f, <<>>)
    BY <1>1, <1>2 DEF Shows
  <1> QED BY <1>1, <1>2, <1>3, ShownIs

\* A row that is read shows its own path, behind those of the rows before it.
LEMMA ShownAppend ==
    ASSUME MacroAssumption, NEW rs, FineCall(rs), NEW row \in TypedRows, RowIsFine(row)
    PROVE  /\ FineCall(Append(rs, row))
           /\ ShownPaths(Append(rs, row)) = ShownPaths(rs) \o PathOf(row)
  <1> DEFINE n == Len(rs)
             s == Append(rs, row)
  <1>1. /\ n \in Nat /\ s \in Seq(TypedRows) /\ Len(s) = n + 1 /\ s[n + 1] = row
        /\ \A i \in 1 .. n : s[i] = rs[i]
    BY LenProperties, AppendProperties DEF FineCall
  <1> HIDE DEF s
  <1>2. FineCall(s)
    <2>1. ASSUME NEW i \in 1 .. n + 1 PROVE RowIsFine(s[i])
      <3>1. CASE i <= n
        <4>1. i \in 1 .. n
          BY <1>1, <3>1
        <4> QED BY <1>1, <4>1 DEF FineCall
      <3>2. CASE i = n + 1
        BY <1>1, <3>2
      <3> QED BY <1>1, <3>1, <3>2
    <2> QED BY <1>1, <2>1 DEF FineCall
  <1>3. PICK f : Shows(f, rs)
    BY ShownExists
  <1>4. PICK g : Shows(g, s)
    BY <1>2, ShownExists
  <1>5. ShownPaths(rs) = f[n] /\ ShownPaths(s) = g[n + 1]
    BY <1>1, <1>3, <1>4, ShownIs
  <1> DEFINE h == [i \in 0 .. n |-> g[i]]
  <1>6. /\ g \in [0 .. n + 1 -> AllPaths] /\ g[0] = <<>>
        /\ \A i \in 1 .. n + 1 : g[i] = g[i - 1] \o PathOf(s[i])
    BY <1>1, <1>4 DEF Shows
  <1>7. Shows(h, rs)
    <2>1. h \in [0 .. n -> AllPaths]
      <3>1. \A i \in 0 .. n : i \in 0 .. n + 1
        BY <1>1
      <3> QED BY <1>6, <3>1
    <2>2. \A i \in 0 .. n : h[i] = g[i]
      OBVIOUS
    <2>3. 0 \in 0 .. n
      BY <1>1
    <2>4. ASSUME NEW i \in 1 .. n PROVE h[i] = h[i - 1] \o PathOf(rs[i])
      <3>1. i \in 1 .. n + 1 /\ i \in 0 .. n /\ i - 1 \in 0 .. n
        BY <1>1
      <3> HIDE DEF h
      <3> QED BY <1>1, <1>6, <2>2, <3>1
    <2> HIDE DEF h
    <2> QED BY <1>6, <2>1, <2>2, <2>3, <2>4 DEF Shows
  <1>8. f[n] = g[n]
    <2>1. ShownPaths(rs) = h[n]
      BY <1>1, <1>7, ShownIs
    <2> QED BY <1>1, <1>5, <2>1
  <1>9. g[n + 1] = g[n] \o PathOf(row)
    <2>1. n + 1 \in 1 .. n + 1 /\ (n + 1) - 1 = n
      BY <1>1
    <2> QED BY <1>1, <1>6, <2>1
  <1> QED BY <1>2, <1>5, <1>8, <1>9 DEF s

----------------------------------------------------------------------------
(* TaskMacro: the call                                                     *)

\* Every row is fine, the tokens show what the rows show, and the task says what they say.
MacroInv ==
    /\ FineCall(rows) /\ tokens \in Seq(Token)
    /\ builder = [f \in TaskFields |-> builder[f]]
    /\ CollectEnumPaths(tokens) = ShownPaths(rows)
    /\ TaskIsItsRows

LEMMA MacroBegins ==
    ASSUME MacroAssumption, rows = <<>>, tokens = <<>>, builder = EmptyTask
    PROVE  MacroInv
  <1>1. rows \in Seq(TypedRows) /\ Len(rows) = 0 /\ tokens \in Seq(Token) /\ Len(tokens) = 0
    OBVIOUS
  <1>2. FineCall(rows)
    BY <1>1 DEF FineCall
  <1>3. CollectEnumPaths(tokens) = <<>>
    <2>1. PICK f : Scans(f, tokens)
      BY <1>1, ScanExists
    <2>2. CollectEnumPaths(tokens) = f[1]
      BY <1>1, <2>1, ScanIs
    <2>3. 1 \in 1 .. Len(tokens) + 4 /\ 1 > Len(tokens)
      BY <1>1
    <2>4. f[1] = Found(tokens, 1, f)
      BY <2>1, <2>3 DEF Scans
    <2> QED BY <2>2, <2>3, <2>4 DEF Found
  <1>4. TaskIsItsRows
    <2>1. DOMAIN rows = {}
      OBVIOUS
    <2> QED BY <2>1 DEF TaskIsItsRows, EmptyTask
  <1>5. builder = [f \in TaskFields |-> builder[f]]
    BY DEF EmptyTask
  <1> QED BY <1>1, <1>2, <1>3, <1>4, <1>5, NothingShown DEF MacroInv

LEMMA PanicBegins ==
    ASSUME MacroAssumption
    PROVE  Panic => MacroInv'
  <1>1. rows = <<>> /\ tokens = <<>> /\ builder = EmptyTask => MacroInv
    BY MacroBegins
  <1>2. Panic => (rows = <<>> /\ tokens = <<>> /\ builder = EmptyTask)'
    BY DEF Panic
  <1> QED BY <1>1, <1>2, PTL

LEMMA RowIsRead ==
    ASSUME MacroAssumption, MacroInv, NEW row \in TypedRows, NEW end \in {<<>>, <<Comma>>},
           ReadRow(row, end)
    PROVE  MacroInv'
  <1>1. CASE ~RowIsFine(row) /\ Panic
    BY <1>1, PanicBegins
  <1>2. CASE RowIsFine(row) /\ ~Panic
    <2> DEFINE n == Len(rows)
               field == row[1].text
               value == BuildValue(field, Value(row))
    <2>1. /\ tokens # <<>> => tokens[Len(tokens)] = Comma
          /\ builder' = [builder EXCEPT ![field] = value]
          /\ tokens' = tokens \o (row \o end)
          /\ rows' = Append(rows, row)
      BY <1>2, Zenon DEF ReadRow
    <2>2. row \in Seq(Token) /\ field \in TaskFields
      BY <1>2 DEF MacroAssumption, RowIsFine
    <2>3. FineCall(rows') /\ ShownPaths(rows') = ShownPaths(rows) \o PathOf(row)
      BY <1>2, <2>1, ShownAppend DEF MacroInv
    <2>4. tokens' \in Seq(Token) /\ CollectEnumPaths(tokens') = ShownPaths(rows')
      <3>1. row \o end \in Seq(Token) /\ CollectEnumPaths(row \o end) = PathOf(row)
        BY <1>2, <2>2, RowShows
      <3> DEFINE new == row \o end
      <3> HIDE DEF new
      <3>2. tokens \in Seq(Token) /\ new \in Seq(Token) /\ tokens' = tokens \o new
        BY <2>1, <3>1 DEF MacroInv, new
      <3>3. CollectEnumPaths(tokens \o new) = CollectEnumPaths(tokens) \o CollectEnumPaths(new)
        BY <2>1, <3>2, CollectJoin
      <3>4. CollectEnumPaths(new) = PathOf(row) /\ CollectEnumPaths(tokens) = ShownPaths(rows)
        BY <3>1 DEF new, MacroInv
      <3>5. tokens' \in Seq(Token)
        BY <3>2, ConcatProperties
      <3> QED BY <2>3, <3>2, <3>3, <3>4, <3>5
    <2>5. /\ n \in Nat /\ DOMAIN rows = 1 .. n /\ DOMAIN rows' = 1 .. n + 1
          /\ rows'[n + 1] = row /\ \A i \in 1 .. n : rows'[i] = rows[i]
      <3>1. rows \in Seq(TypedRows)
        BY DEF MacroInv, FineCall
      <3> QED BY <2>1, <3>1, LenProperties, AppendProperties
    <2>6. builder' = [f \in TaskFields |-> builder'[f]]
      BY <2>1 DEF MacroInv
    <2>7. \A f \in TaskFields : builder'[f] = IF f = field THEN value ELSE builder[f]
      BY <2>1, <2>2 DEF MacroInv
    <2> HIDE DEF n, field, value
    <2>8. ASSUME NEW f \in TaskFields
          PROVE  LET says == {i \in 1 .. n + 1 : rows'[i][1].text = f}
                 IN  \/ says = {} /\ builder'[f] = Unset
                     \/ \E i \in says : /\ \A j \in says : j <= i
                                       /\ builder'[f] = BuildValue(f, Value(rows'[i]))
      <3> DEFINE says == {i \in 1 .. n : rows[i][1].text = f}
                 next == {i \in 1 .. n + 1 : rows'[i][1].text = f}
      <3>1. CASE f = field
        <4>1. n + 1 \in next /\ \A j \in next : j <= n + 1
          BY <2>5, <3>1 DEF field
        <4>2. builder'[f] = BuildValue(f, Value(rows'[n + 1]))
          BY <2>5, <2>7, <3>1 DEF value
        <4> HIDE DEF next
        <4>3. \E i \in next : (\A j \in next : j <= i) /\ builder'[f] = BuildValue(f, Value(rows'[i]))
          BY <4>1, <4>2, Zenon
        <4> QED BY <4>3 DEF next
      <3>2. CASE f # field
        <4>1. next = says
          <5>1. ASSUME NEW i \in 1 .. n + 1 PROVE rows'[i][1].text = f <=> i \in says
            <6>1. CASE i = n + 1
              BY <2>5, <3>2, <6>1 DEF field
            <6>2. CASE i # n + 1
              <7>1. i \in 1 .. n
                BY <2>5, <6>2
              <7> QED BY <2>5, <7>1
            <6> QED BY <6>1, <6>2
          <5>2. \A i \in says : i \in 1 .. n + 1
            BY <2>5
          <5> QED BY <5>1, <5>2
        <4>2. builder'[f] = builder[f] /\ \A i \in says : rows'[i] = rows[i]
          BY <2>5, <2>7, <3>2
        <4>3. \/ says = {} /\ builder[f] = Unset
              \/ \E i \in says : (\A j \in says : j <= i) /\ builder[f] = BuildValue(f, Value(rows[i]))
          BY <2>5 DEF MacroInv, TaskIsItsRows
        <4> HIDE DEF says
        <4>4. \/ says = {} /\ builder'[f] = Unset
              \/ \E i \in says : (\A j \in says : j <= i) /\ builder'[f] = BuildValue(f, Value(rows'[i]))
          BY <4>2, <4>3
        <4> HIDE DEF next
        <4>5. \/ next = {} /\ builder'[f] = Unset
              \/ \E i \in next : (\A j \in next : j <= i) /\ builder'[f] = BuildValue(f, Value(rows'[i]))
          BY <4>1, <4>4
        <4> QED BY <4>5 DEF next
      <3> QED BY <3>1, <3>2
    <2>9. TaskIsItsRows'
      <3>1. DOMAIN rows' = 1 .. n + 1
        BY <2>5
      <3>2. SUFFICES ASSUME NEW f \in TaskFields
                     PROVE  LET says == {i \in DOMAIN rows' : rows'[i][1].text = f}
                            IN  \/ says = {} /\ builder'[f] = Unset
                                \/ \E i \in says : /\ \A j \in says : j <= i
                                                  /\ builder'[f] = BuildValue(f, Value(rows'[i]))
        BY Zenon DEF TaskIsItsRows
      <3> QED BY <2>8, <3>1, Zenon
    <2> QED BY <2>3, <2>4, <2>6, <2>9 DEF MacroInv
  <1>3. CASE Panic
    BY <1>3, PanicBegins
  <1> QED BY <1>1, <1>2, <1>3, Zenon DEF ReadRow

\* For every call of `task!`, of any rows in any order, right or wrong, with or without
\* the last comma: of a call that builds, the compiler is shown the path of each of its
\* enum rows and nothing else, and the task says what its rows say
\* (main_macro.rs:15, :34-63, core.rs:200-232).
THEOREM CallsAreExact == ASSUME MacroAssumption PROVE MacroSpec => []CallIsExact
  <1>1. MacroInit => MacroInv
    BY MacroBegins DEF MacroInit
  <1>2. ASSUME MacroInv, [MacroNext]_macroVars PROVE MacroInv'
    <2>1. CASE \E row \in TypedRows, end \in {<<>>, <<Comma>>} : ReadRow(row, end)
      BY <1>2, <2>1, RowIsRead
    <2>2. CASE Build
      <3>1. CASE Panic
        BY <3>1, PanicBegins
      <3>2. CASE UNCHANGED <<tokens, rows, builder>>
        BY <1>2, <3>2 DEF MacroInv, FineCall, TaskIsItsRows
      <3> QED BY <2>2, <3>1, <3>2, Zenon DEF Build
    <2>3. CASE UNCHANGED macroVars
      BY <1>2, <2>3 DEF macroVars, MacroInv, FineCall, TaskIsItsRows
    <2> QED BY <1>2, <2>1, <2>2, <2>3, Zenon DEF MacroNext
  <1>3. MacroInv => CallIsExact
    BY DEF MacroInv, CallIsExact, HintsAreTheEnums
  <1> QED BY <1>1, <1>2, <1>3, PTL DEF MacroSpec

=============================================================================
