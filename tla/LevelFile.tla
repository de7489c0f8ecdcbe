------------------------------ MODULE LevelFile -------------------------------
(***************************************************************************)
(* The minimum level and its control file: what build() makes of the level *)
(* set in code and of the file, and what the worker makes of it at every   *)
(* poll while an operator edits or removes it.  A poll looks at the        *)
(* modification time first and reads the file in a second step.            *)
(* The file itself is the operating system's; each edit gives it a new     *)
(* modification time.                                                      *)
(***************************************************************************)
EXTENDS Integers

CONSTANTS Levels,     \* as_int: 0 is DEBUG, 4 is CRITICAL
          Default,    \* DEFAULT_MIN_LEVEL
          None, Junk, Absent,
          MaxEdits,   \* bound: edits by the operator
          MaxLevelFaults   \* bound: accesses to the file that fail

LevelAssumption ==
    /\ Levels \subseteq 0 .. 4 /\ Default \in Levels
    /\ {None, Junk, Absent} \cap Levels = {} /\ Absent # Junk
    /\ Absent \notin [word : Levels \cup {Junk}, exact : BOOLEAN] /\ None \notin Nat
    /\ MaxEdits \in Nat /\ MaxLevelFaults \in Nat

ASSUME LevelAssumed == LevelAssumption

VARIABLES explicit,   \* LoggerBuilder::min_level, or None
          file,       \* what the control file holds, and since when
          level,      \* MIN_LEVEL
          pc,         \* "build", then "idle" or, after the metadata, "read"
          seen,       \* last_runtime_modif
          unreadable, \* level_file_unreadable
          edits, faults,
          complaints  \* history: complaints since the file could last be read

levelVars == <<explicit, file, level, pc, seen, unreadable, edits, faults, complaints>>

\* A text names a level or not, in the spelling of as_str or in another one.
Texts == [word : Levels \cup {Junk}, exact : BOOLEAN]
AsStr(l) == [word |-> l, exact |-> TRUE]
FromStr(t) == IF t = Absent \/ t.word = Junk THEN None ELSE t.word

Stored(t) == [text |-> t, modified |-> file.modified + 1]

LevelInit ==
    /\ explicit \in Levels \cup {None}
    /\ file \in [text : Texts \cup {Absent}, modified : {0}]
    /\ level = Default /\ pc = "build" /\ seen = None /\ unreadable = FALSE
    /\ edits = 0 /\ faults = 0 /\ complaints = 0

Fault == faults < MaxLevelFaults /\ faults' = faults + 1
Works == UNCHANGED faults

\* fs::write; one that fails may have truncated the file already.
Torn == [word |-> Junk, exact |-> FALSE]
WriteLevel(l) ==
    \/ Works /\ file' = Stored(AsStr(l))
    \/ Fault /\ file' \in {file, Stored(Torn)}
Readable == file.text # Absent

----------------------------------------------------------------------------

\* A level set in code is authoritative and saved; otherwise the file is, and a missing
\* or unreadable one is seeded.
ResolveMinLevel ==
    /\ pc = "build" /\ pc' = "idle"
    /\ \/ explicit # None /\ WriteLevel(explicit) /\ level' = explicit
       \/ /\ explicit = None /\ Readable /\ Works /\ UNCHANGED file
          /\ level' = IF FromStr(file.text) = None THEN Default ELSE FromStr(file.text)
       \/ explicit = None /\ ~Readable /\ WriteLevel(Default) /\ level' = Default
       \/ /\ explicit = None /\ Readable          \* the read fails, the seeding may as well
          /\ Fault /\ level' = Default
          /\ file' \in {file, Stored(Torn), Stored(AsStr(Default))}
    /\ UNCHANGED <<explicit, seen, unreadable, edits, complaints>>

\* Broken: an unchanged modification time does not end the poll, a changed one does.
StatSkipsChanged ==
    /\ pc = "idle" /\ Readable /\ Works
    /\ IF file.modified = seen THEN pc' = "read" /\ UNCHANGED seen
                               ELSE seen' = file.modified /\ UNCHANGED pc
    /\ UNCHANGED <<explicit, file, level, unreadable, edits, complaints>>

\* The modification time is recorded before the file is read.  Without one the file is
\* read anyway.
Stat ==
    /\ pc = "idle"
    /\ \/ /\ Readable /\ Works /\ file.modified # seen
          /\ seen' = file.modified /\ pc' = "read"
       \/ Readable /\ Works /\ file.modified = seen /\ UNCHANGED <<seen, pc>>
       \/ ~Readable /\ Works /\ pc' = "read" /\ UNCHANGED seen
       \/ Readable /\ Fault /\ pc' = "read" /\ UNCHANGED seen
    /\ UNCHANGED <<explicit, file, level, unreadable, edits, complaints>>

\* The level stays, and the complaint is made on the transition only.
ReadFails ==
    /\ pc = "read" /\ pc' = "idle"
    /\ (Readable /\ Fault) \/ (~Readable /\ Works)
    /\ complaints' = IF unreadable THEN complaints ELSE complaints + 1
    /\ unreadable' = TRUE
    /\ UNCHANGED <<explicit, file, level, seen, edits>>

\* A text that names no level leaves the level alone.
ReadWorks ==
    /\ pc = "read" /\ pc' = "idle" /\ Readable /\ Works
    /\ unreadable' = FALSE /\ complaints' = 0
    /\ level' = IF FromStr(file.text) = None THEN level ELSE FromStr(file.text)
    /\ UNCHANGED <<explicit, file, seen, edits>>

PollMinLevel == Stat \/ ReadFails \/ ReadWorks

\* The operator writes the file, or removes it.
Edit ==
    /\ edits < MaxEdits /\ edits' = edits + 1
    /\ \E t \in Texts \cup {Absent} : file' = Stored(t)
    /\ UNCHANGED <<explicit, level, pc, seen, unreadable, faults, complaints>>

LevelNext == ResolveMinLevel \/ PollMinLevel \/ Edit

LevelSpec == LevelInit /\ [][LevelNext]_levelVars

\* The worker polls again and again (worker.rs:90-93).
LevelFairSpec == LevelSpec /\ WF_levelVars(ResolveMinLevel) /\ WF_levelVars(PollMinLevel)

----------------------------------------------------------------------------
LevelTypeOK ==
    /\ explicit \in Levels \cup {None} /\ level \in Levels
    /\ file.text \in Texts \cup {Absent} /\ file.modified \in 0 .. MaxEdits + 1
    /\ pc \in {"build", "idle", "read"} /\ unreadable \in BOOLEAN
    /\ seen \in 0 .. file.modified \cup {None}
    /\ complaints \in 0 .. 1               \* once, on the transition

\* The modification time on record is never newer than what was read: an edit between
\* the two steps of a poll is seen by this poll or by the next one (worker.rs:106-115).
NothingUnseen ==
    pc = "idle" /\ Readable /\ seen = file.modified =>
        FromStr(file.text) \in {None, level}

\* "The minimum level can be changed without a restart through the file" (lib.rs:31):
\* when the operator is done, the level ends up as the file says, whatever the polls
\* met before.
LevelFollows == <>[](FromStr(file.text) # None => level = FromStr(file.text))

\* "overwrites that file with this value, so the code stays the single source of truth"
\* (builder.rs:133-135): until somebody edits the file, the level set in code holds.
CodeIsTruth ==
    pc # "build" /\ explicit # None /\ edits = 0 => level = explicit

\* Where the level comes from, as long as the file can be accessed.
LevelHolds == LevelTypeOK /\ NothingUnseen /\ CodeIsTruth
==============================================================================
