----------------------------- MODULE FileManager -----------------------------
(***************************************************************************)
(* The logger's output: a byte buffer in front of append-only files that   *)
(* are rotated by size and, when their folder is dated, by day.  Contents  *)
(* are abstracted to lengths.  One thread uses it, so a call is one        *)
(* action; what a call does is a set of outcomes, one for each way its     *)
(* writes, fsyncs and opens may fail and for a midnight between two        *)
(* readings of the clock.  The process may be killed, or the machine lose  *)
(* power, between calls and in the middle of a rotation.                   *)
(***************************************************************************)
EXTENDS Integers, FiniteSets

CONSTANTS Dated,           \* include_date
          BufLen,          \* capacity of the buffer
          MaxSize,         \* max_file_size
          FooterLen,       \* encoded length of a metrics footer
          Lengths,         \* encoded lengths of the messages
          MidnightInCalls, \* may the day change between two clock readings of a call?
          MaxDay, MaxGiven, MaxFaults   \* bounds of the model

FileAssumption ==
    /\ Dated \in BOOLEAN /\ MidnightInCalls \in BOOLEAN
    /\ BufLen \in Nat \ {0} /\ MaxSize \in Nat /\ BufLen <= MaxSize
    /\ FooterLen \in Nat \ {0} /\ Lengths \subseteq Nat \ {0}
    /\ MaxDay \in Nat \ {0} /\ MaxGiven \in Nat /\ MaxFaults \in Nat

ASSUME FileAssumed == FileAssumption

VARIABLES up,   \* the process runs and has a FileManager
          m     \* the file system, the manager and the counters

vars == <<up, m>>

NoBytes == [bytes |-> 0, lost |-> 0]

Init ==
    /\ up = FALSE
    /\ m = [files    |-> << >>,  \* name -> [len, synced]; names are <<day, number>>
            today    |-> 1,
            \* the manager
            cur      |-> <<0, 0>>, len |-> 0, streak |-> 0,
            date     |-> 0, number |-> 0, boundary |-> 0,
            buff     |-> 0, closed |-> FALSE,
            \* the counters and gauges of metrics.rs
            counters |-> NoBytes, sizeGauge |-> 0, streakGauge |-> 0,
            \* history
            given    |-> 0,          \* bytes of the messages and footers
            past     |-> NoBytes,    \* what earlier footers and processes counted
            discarded |-> 0,         \* buffered bytes that died with a process
            truncated |-> 0,         \* file bytes that a power loss took back
            rotated  |-> {},         \* files that were rotated away from
            mine     |-> {},         \* files this process opened
            badSync  |-> FALSE,      \* an fsync of this process failed
            badRotation |-> FALSE,   \* a rotation failed
            openedOn |-> 0,          \* the day on which the current file was opened
            faults   |-> 0]

Plus(a, b) == [bytes |-> a.bytes + b.bytes, lost |-> a.lost + b.lost]

----------------------------------------------------------------------------
(* One step of a call: a set of outcomes                                   *)

\* SystemTime::now(), which may find the next day.
ReadClock(s) ==
    {s} \cup (IF MidnightInCalls /\ s.today < MaxDay
              THEN {[s EXCEPT !.today = @ + 1]} ELSE {})

\* LogFile::open: creates the file, or appends to the one that is there.
Opened(files, name) ==
    [f \in DOMAIN files \cup {name} |->
        IF f \in DOMAIN files THEN files[f] ELSE [len |-> 0, synced |-> 0]]

\* Broken: what the file refused is not counted.
WrittenUncounted(s, n, k) ==
    [s EXCEPT !.files[s.cur].len = @ + k, !.len = @ + k,
              !.counters.bytes = @ + k,
              !.faults = IF k < n THEN @ + 1 ELSE @]

\* LogFile::write of n bytes, of which the file accepts k.
Written(s, n, k) ==
    [s EXCEPT !.files[s.cur].len = @ + k, !.len = @ + k,
              !.counters.bytes = @ + k, !.counters.lost = @ + (n - k),
              !.streak = IF k < n THEN @ + 1 ELSE 0,
              !.streakGauge = IF k < n THEN s.streak + 1
                              ELSE IF s.streak # 0 THEN 0 ELSE @,
              !.faults = IF k < n THEN @ + 1 ELSE @]

WriteFile(s, n) ==
    IF n = 0 THEN {s}
    ELSE {Written(s, n, k) : k \in IF s.faults < MaxFaults THEN 0 .. n ELSE {n}}

Sync(s) ==
    {[s EXCEPT !.files[s.cur].synced = s.files[s.cur].len]}
    \cup (IF s.faults < MaxFaults
          THEN {[s EXCEPT !.badSync = TRUE, !.faults = @ + 1]} ELSE {})

\* NameGenerator::next_file: number + 1, or back to 0 if the day changed.
NextName(s) ==
    UNION {IF t.date = t.today
           THEN {[t EXCEPT !.number = @ + 1]}
           ELSE {[u EXCEPT !.date = u.today, !.number = 0] : u \in ReadClock(t)} :
           t \in ReadClock(s)}

Name(s) == <<IF Dated THEN s.date ELSE 0, s.number>>

\* LogMessage::metrics(): the counters are taken and reset, then the footer is written.
Footer(s) ==
    WriteFile([s EXCEPT !.past = Plus(s.past, s.counters), !.counters = NoBytes,
                        !.given = @ + FooterLen], FooterLen)

Switch(s, name, len) ==
    [s EXCEPT !.cur = name, !.len = len, !.streak = 0, !.sizeGauge = len,
              !.rotated = @ \cup {s.cur}, !.mine = @ \cup {name}, !.openedOn = s.today]

\* The file of the present name is opened, and its length is read.
WithFile(s)    == [s EXCEPT !.files = Opened(s.files, Name(s))]
LengthFound(s) == WithFile(s).files[Name(s)].len

\* Broken: the file that is left is not synced.
GetNextFileUnsynced(s) ==
    UNION {{Switch(u, Name(t), LengthFound(t)) : u \in Footer(WithFile(t))} :
           t \in NextName(s)}

\* get_next_file: the new file is opened first, so that a failure keeps the current one.
\* The number is used up in either case.
Switched(s)    == UNION {{Switch(v, Name(s), LengthFound(s)) : v \in Sync(u)} :
                         u \in Footer(WithFile(s))}
NotSwitched(s) == IF s.faults < MaxFaults
                  THEN {[s EXCEPT !.badRotation = TRUE, !.faults = @ + 1]} ELSE {}
GetNextFile(s) == UNION {Switched(t) \cup NotSwitched(t) : t \in NextName(s)}

\* Broken: the size test leaves the buffered bytes out.
FlushTestsFileOnly(s) ==
    UNION {{[u EXCEPT !.buff = 0, !.sizeGauge = u.len] : u \in WriteFile(t, t.buff)} :
           t \in IF s.len > MaxSize THEN GetNextFile(s) ELSE {s}}

FlushRotatingBySize(s) ==
    UNION {{[u EXCEPT !.buff = 0, !.sizeGauge = u.len] : u \in WriteFile(t, t.buff)} :
           t \in IF s.len + s.buff > MaxSize THEN GetNextFile(s) ELSE {s}}

\* A new UTC day starts a new file, in a new folder when dated.
RotateByDay(s) ==
    UNION {IF Dated /\ t.today >= t.boundary
           THEN UNION {{[v EXCEPT !.boundary = v.today + 1] : v \in ReadClock(u)} :
                       u \in GetNextFile(t)}
           ELSE {t} : t \in ReadClock(s)}

\* write_buff_to_file
Flush(s) == UNION {RotateByDay(t) : t \in FlushRotatingBySize(s)}

\* write: a message at least as long as the buffer goes around it.
WriteMessage(s, n, mustSync) ==
    LET t == [s EXCEPT !.given = @ + n]
        buffered(u) == [u EXCEPT !.buff = @ + n]
    IN  IF n >= BufLen
        THEN UNION {UNION {IF mustSync THEN Sync(v) ELSE {v} : v \in WriteFile(u, n)} :
                    u \in Flush(t)}
        ELSE LET full == t.buff + n >= BufLen
                 in   == {buffered(u) : u \in IF full THEN Flush(t) ELSE {t}}
             IN  IF mustSync THEN UNION {UNION {Sync(v) : v \in Flush(u)} : u \in in} ELSE in

----------------------------------------------------------------------------
(* Calls, and what happens to the process                                  *)

NumbersOf(files, day) == {f[2] : f \in {g \in DOMAIN files : g[1] = day}}
LargestOr0(S) == IF S = {} THEN 0 ELSE CHOOSE x \in S : \A y \in S : y <= x

\* Broken: the number is looked for in the folder above the dated one.
FindMaxUndated(s) == LargestOr0(NumbersOf(s.files, 0))

\* find_max_used_number: in the folder of today, when dated.
FindMaxUsedNumber(s) == LargestOr0(NumbersOf(s.files, IF Dated THEN s.today ELSE 0))

\* FileManager::new.  The clock is read for the folder, for the name and for the boundary.
Start ==
    /\ ~up /\ up' = TRUE
    /\ \E s \in ReadClock(m) : \E t \in ReadClock(s) : \E u \in ReadClock(t) :
         LET g     == [u EXCEPT !.date = t.today, !.number = FindMaxUsedNumber(s)]
             files == Opened(m.files, Name(g))
         IN  m' = [g EXCEPT !.files = files, !.cur = Name(g), !.len = files[Name(g)].len,
                            !.streak = 0, !.boundary = u.today + 1,
                            !.buff = 0, !.closed = FALSE,
                            !.mine = {Name(g)}, !.badSync = FALSE,
                            !.openedOn = u.today]

Write(n, mustSync) ==
    /\ up /\ m.given + n <= MaxGiven
    /\ m' \in WriteMessage(m, n, mustSync)
    /\ UNCHANGED up

Shutdown ==
    /\ up /\ UNCHANGED up
    /\ m' \in IF m.closed THEN {m}
              ELSE UNION {Sync(s) : s \in Flush([m EXCEPT !.closed = TRUE])}

\* The process ends: the buffer and the counters are gone.
Dead(s) == [s EXCEPT !.discarded = @ + s.buff, !.buff = 0, !.closed = FALSE,
                     !.past = Plus(s.past, s.counters), !.counters = NoBytes,
                     !.sizeGauge = 0, !.streakGauge = 0]

\* The manager is dropped after its shutdown, or the process is killed.
Exit  == up /\ m.closed /\ up' = FALSE /\ m' = Dead(m)
Crash == up /\ up' = FALSE /\ m' = Dead(m)

\* Killed in a rotation, after the new file was created and before the footer.
CrashInRotation ==
    /\ up /\ up' = FALSE
    /\ m.len + m.buff > MaxSize \/ (Dated /\ m.today >= m.boundary)
    /\ \E s \in NextName(m) :
          m' = Dead([s EXCEPT !.files = Opened(s.files, Name(s)),
                              !.rotated = @ \cup ({s.cur} \ {Name(s)})])

\* The bytes of all files, each with its place in its file.
BytesOf(files) == UNION {{f} \X (1 .. files[f].len) : f \in DOMAIN files}
OnDisk(files) == Cardinality(BytesOf(files))

PowerLoss ==
    /\ up /\ up' = FALSE
    /\ LET s == Dead(m)
           kept == [f \in DOMAIN s.files |-> [s.files[f] EXCEPT !.len = s.files[f].synced]]
       IN  m' = [s EXCEPT !.files = kept,
                          !.truncated = @ + (OnDisk(s.files) - OnDisk(kept))]

Midnight ==
    /\ m.today < MaxDay
    /\ m' = [m EXCEPT !.today = @ + 1]
    /\ UNCHANGED up

Next ==
    \/ Start \/ Shutdown \/ Exit \/ Crash \/ CrashInRotation \/ PowerLoss \/ Midnight
    \/ \E n \in Lengths, mustSync \in BOOLEAN : Write(n, mustSync)

Spec == Init /\ [][Next]_vars
----------------------------------------------------------------------------
(* Properties                                                              *)

TypeOK ==
    /\ up \in BOOLEAN
    /\ up => m.cur \in DOMAIN m.files /\ m.cur \in m.mine
    /\ \A f \in DOMAIN m.files :
          m.files[f].len \in Nat /\ m.files[f].synced \in 0 .. m.files[f].len
    /\ m.buff \in 0 .. BufLen - 1
    /\ m.today \in 1 .. MaxDay /\ (up => m.len \in Nat)

\* Where every byte is.  The counters and what earlier footers and processes counted
\* are exactly the bytes of the files; and every byte of a message or footer is in a
\* file, in the buffer, counted as lost, or died with a killed process.  Partial
\* writes, failed rotations and messages that go around the buffer are no exception.
Accounted ==
    LET seen == Plus(m.past, m.counters)
    IN  /\ TypeOK
        /\ seen.bytes = OnDisk(m.files) + m.truncated
        /\ m.given = seen.bytes + seen.lost + m.buff + m.discarded

\* The promise of SyncPolicy::OnLevel, "durable exactly where it matters"
\* (file_manager.rs:24-26): when the write of such a message returns, everything this
\* process was given before it is on the disk too, also what a rotation inside the call
\* left in the previous file, unless the file or the disk refused it.
DurableStep ==
    (\E n \in Lengths : Write(n, TRUE)) /\ ~m'.badSync =>
        m'.buff = 0 /\ \A f \in m'.mine : m'.files[f].synced = m'.files[f].len

\* A file is synced when it is rotated away from, and the last one by shutdown
\* (SyncPolicy::OnRotation, file_manager.rs:22-23): with no failed fsync a power loss
\* after a shutdown takes nothing of what this process wrote before it.
ShutdownStep ==
    Shutdown /\ ~m.closed /\ ~m'.badSync =>
        m'.buff = 0 /\ \A f \in m'.mine : m'.files[f].synced = m'.files[f].len

\* What a call has made durable when it returns.
Durable == [][DurableStep /\ ShutdownStep]_vars

\* A file that was rotated away from never grows again, whatever failed and however
\* often the process was killed and started again: tests/file_manager.rs:332 says so
\* within one day and one process.
RotatedStep == \A f \in m.rotated : m'.files[f].len <= m.files[f].len
RotatedFilesStopGrowing == [][RotatedStep]_vars

\* "Rotates once the current file would exceed this many bytes" (builder.rs:100): no
\* file is longer than max_file_size and its footer, unless a rotation failed.
FileWithinMaxSize ==
    up /\ ~m.badRotation => m.files[m.cur].len <= MaxSize + FooterLen

\* "A new UTC day starts a new file" (file_manager.rs:301): a call that flushed returns
\* with a file opened on the present day, unless a rotation failed.
DailyStep ==
    (\E n \in Lengths : Write(n, TRUE)) /\ ~m'.badRotation /\ m'.today = m.today
        => m'.openedOn = m'.today
==============================================================================
