-------------------------------- MODULE TaskFile ------------------------------
(***************************************************************************)
(* Publication of a task's file by the task! macro.  cargo and an IDE may  *)
(* expand the same macro at once, each in a process of its own: each       *)
(* builds the task with its timestamp, reads the file, renders the task    *)
(* and, unless nothing but the timestamps would change, writes a temporary *)
(* file and renames it over the task's file.                               *)
(* The markdown is a sequence of pieces in which the macro looks for its   *)
(* own markers; file operations are the operating system's.                *)
(***************************************************************************)
EXTENDS Integers, Sequences, TLC

CONSTANTS Processes,
          Pieces,        \* of the markdown
          Paths,         \* where the task! call can be: sequences of pieces
          Lines, Descs, NoFile,
          MaxTime,       \* bound: the clock
          MaxTaskFaults  \* bound: file operations that fail

VARIABLES task,   \* what the source says now
          doc,    \* the task's file, or NoFile
          temp,   \* per process: its temporary file, or NoFile
          proc,   \* per process: where its expansion is, what it has built, read and rendered
          clock, tfaults,
          present \* history: was the task's file there in the beginning?

taskVars == <<task, doc, temp, proc, clock, tfaults, present>>

Tasks == [path : Paths, line : Lines, desc : Descs]

\* Task::to_md, and the file with given timestamps.
Document(t, created, updated) ==
    <<"Task", "Source">> \o t.path
        \o <<t.line, "Created", created, "Updated", updated, "---", t.desc>>
ToMd(t, now) == Document(t, now, now)

\* ts_to_string; one unit of the clock is one minute, the timestamps' resolution.
TsToString(n) == ToString(n)
Times == 0 .. MaxTime

\* The words the macro looks for; a path, a line or a timestamp has none of them.
Markers == {"Created", "Updated", "---"}

TaskAssumption ==
    /\ MaxTime \in Nat \ {0} /\ MaxTaskFaults \in Nat
    /\ {"Task", "Source"} \cup Markers \cup Lines \cup Descs \subseteq Pieces
    /\ \A path \in Paths : path \in Seq(Pieces) /\ \A i \in DOMAIN path : path[i] \notin Markers
    /\ \A line \in Lines : line \notin Markers
    /\ \A n \in Times : TsToString(n) \in Pieces \ Markers
    /\ NoFile \notin Seq(Pieces)

----------------------------------------------------------------------------
(* The search for markers; a marker that is not there is a panic           *)

Has(d, marker) == \E i \in DOMAIN d : d[i] = marker
FindPosition(d, marker) ==
    CHOOSE i \in DOMAIN d : d[i] = marker /\ \A j \in 1 .. i - 1 : d[j] # marker

Upto(d, i) == SubSeq(d, 1, i - 1)
From(d, i) == SubSeq(d, i, Len(d))

\* Broken: only what stands before the timestamps is compared.
HeaderIsUnchanged(old, new) ==
    LET created == FindPosition(new, "Created")
    IN  Upto(old, created) = Upto(new, created)

\* Everything before `Created` and everything from the next `---` on, at the places
\* they have in the new document.
TaskIsUnchanged(old, new) ==
    LET created   == FindPosition(new, "Created")
        separator == created - 1 + FindPosition(From(new, created), "---")
    IN  /\ Len(old) >= separator
        /\ Upto(old, created) = Upto(new, created)
        /\ From(old, separator) = From(new, separator)

\* Slicing from behind `Created` up to `Updated` panics when they come the other way round.
Sliceable(d) ==
    /\ Has(d, "Created") /\ Has(d, "Updated")
    /\ FindPosition(d, "Created") < FindPosition(d, "Updated")

Between(d) ==
    SubSeq(d, FindPosition(d, "Created") + 1, FindPosition(d, "Updated") - 1)

PreserveCreated(old, new) ==
    Upto(new, FindPosition(new, "Created") + 1) \o Between(old)
        \o From(new, FindPosition(new, "Updated"))

----------------------------------------------------------------------------
Idle == [pc |-> "idle", task |-> NoFile, at |-> 0, old |-> NoFile, new |-> NoFile]

TaskInit ==
    /\ task \in Tasks
    /\ present \in BOOLEAN
    /\ doc \in IF present THEN {ToMd(t, TsToString(0)) : t \in Tasks} ELSE {NoFile}
    /\ temp = [p \in Processes |-> NoFile]
    /\ proc = [p \in Processes |-> Idle]
    /\ clock = 1 /\ tfaults = 0

At(p, label) == proc[p].pc = label
Goto(p, label) == proc' = [proc EXCEPT ![p].pc = label]
Leave(p) == proc' = [proc EXCEPT ![p] = Idle]
TaskFault == tfaults < MaxTaskFaults /\ tfaults' = tfaults + 1

\* The compiler expands the macro of the source as it is now; build() takes the time, which
\* is what the rendering will show.
BuildTask(p) ==
    /\ At(p, "idle")
    /\ proc' = [proc EXCEPT ![p] = [pc |-> "built", task |-> task, at |-> clock,
                                     old |-> NoFile, new |-> NoFile]]
    /\ UNCHANGED <<task, doc, temp, clock, tfaults, present>>

\* A file that cannot be read is taken for a missing one.
Read(p) ==
    /\ At(p, "built")
    /\ \/ proc' = [proc EXCEPT ![p].pc = "read", ![p].old = doc] /\ UNCHANGED tfaults
       \/ Goto(p, "read") /\ TaskFault
    /\ UNCHANGED <<task, doc, temp, clock, present>>

Render(p) ==
    /\ At(p, "read")
    /\ LET old == proc[p].old
           new == ToMd(proc[p].task, TsToString(proc[p].at))
       IN  \/ /\ old = NoFile
              /\ proc' = [proc EXCEPT ![p].pc = "write", ![p].new = new]
           \/ old # NoFile /\ TaskIsUnchanged(old, new) /\ Leave(p)
           \/ /\ old # NoFile /\ ~TaskIsUnchanged(old, new)
              /\ IF Sliceable(old) /\ Sliceable(new)
                 THEN proc' = [proc EXCEPT ![p].pc = "write", ![p].new = PreserveCreated(old, new)]
                 ELSE Goto(p, "panicked")
    /\ UNCHANGED <<task, doc, temp, clock, tfaults, present>>

\* Broken: writes the task's file in place, in two steps.
WriteInPlace(p) ==
    /\ At(p, "write")
    /\ doc' = SubSeq(proc[p].new, 1, 3) /\ temp' = [temp EXCEPT ![p] = proc[p].new]
    /\ Goto(p, "rename")
    /\ UNCHANGED <<task, clock, tfaults, present>>

\* fs::write of the temporary file, whose name carries the process id; it may fail half way.
WriteTemp(p) ==
    /\ At(p, "write")
    /\ \/ temp' = [temp EXCEPT ![p] = proc[p].new] /\ Goto(p, "rename") /\ UNCHANGED tfaults
       \/ temp' = [temp EXCEPT ![p] = SubSeq(proc[p].new, 1, 3)] /\ Goto(p, "panicked") /\ TaskFault
    /\ UNCHANGED <<task, doc, clock, present>>

\* The rename is atomic; when it fails the temporary file is removed.
Rename(p) ==
    /\ At(p, "rename")
    /\ \/ doc' = temp[p] /\ Leave(p) /\ UNCHANGED tfaults
       \/ UNCHANGED doc /\ Goto(p, "panicked") /\ TaskFault
    /\ temp' = [temp EXCEPT ![p] = NoFile]
    /\ UNCHANGED <<task, clock, present>>

\* The process is killed, or ends after its panic; its temporary file stays.
End(p) ==
    /\ ~At(p, "idle") /\ (At(p, "panicked") \/ tfaults < MaxTaskFaults)
    /\ tfaults' = IF At(p, "panicked") THEN tfaults ELSE tfaults + 1
    /\ Leave(p)
    /\ UNCHANGED <<task, doc, temp, clock, present>>

\* Time passes and the programmer edits the call.
EditTask ==
    /\ clock < MaxTime /\ clock' = clock + 1
    /\ task' \in Tasks
    /\ UNCHANGED <<doc, temp, proc, tfaults, present>>

Publish(p) == BuildTask(p) \/ Read(p) \/ Render(p) \/ WriteTemp(p) \/ Rename(p)

TaskNext == EditTask \/ \E p \in Processes : Publish(p) \/ End(p)

TaskSpec == TaskInit /\ [][TaskNext]_taskVars

\* An expansion that has started, or that has panicked, comes to its end; nobody promises
\* that another one starts.
Proceed(p) ==
    Read(p) \/ Render(p) \/ WriteTemp(p) \/ Rename(p) \/ (At(p, "panicked") /\ End(p))
FairTaskSpec == TaskSpec /\ \A p \in Processes : WF_taskVars(Proceed(p))

----------------------------------------------------------------------------
(* Properties                                                              *)

\* One whole rendering of a task, with times that have been.  `Created` may be later than
\* `Updated`: who built its task first may write last.
IsRendering(d) ==
    \E t \in Tasks, c, u \in 0 .. clock : d = Document(t, TsToString(c), TsToString(u))

\* "keep its `Created` timestamp and let only `Updated` move" (main_macro.rs:135-136).
KeepsCreated == doc # NoFile /\ doc' # NoFile => Between(doc') = Between(doc)

\* "Two renderings of the same task differ only in their timestamps" (main_macro.rs:148):
\* a compiler that replaces the version it has read does so only if the task has changed.
ReplacesReadVersion(p) == At(p, "rename") /\ ~At(p, "rename")' /\ proc[p].old = doc /\ doc' # doc

ChangesTask ==
    doc # NoFile /\ (\E p \in Processes : ReplacesReadVersion(p)) =>
        \A t \in Tasks, c, u, d, v \in {TsToString(n) : n \in Times} :
            ~(doc = Document(t, c, u) /\ doc' = Document(t, d, v))

\* However many write: a file that was there keeps its `Created` unless accesses fail, and
\* is not written for its timestamps' sake.
UpdateStep == (tfaults' = 0 /\ present => KeepsCreated) /\ ChangesTask

\* Whoever reads the task's file sees one whole rendering, whatever fails or is killed on
\* the way and however many write (main_macro.rs:166-168), and an update changes of it what
\* it should.
DocumentHolds == [](doc # NoFile => IsRendering(doc)) /\ [][UpdateStep]_taskVars

\* What the file should say, and the moment from which it must: the source is at rest and
\* accesses work, the expansions of older versions have ended, and one that has just built
\* the task has not read the file yet.
Follows == doc # NoFile /\ \E c, u \in Times : doc = Document(task, TsToString(c), TsToString(u))
Settled ==
    /\ clock = MaxTime /\ tfaults = MaxTaskFaults
    /\ \A p \in Processes : At(p, "idle") \/ At(p, "panicked") \/ proc[p].task = task
    /\ \E p \in Processes : At(p, "built")

\* From then on the file ends up as the source says and stays so, however many expansions
\* race and whatever was published, failed or killed before (main_macro.rs:110-130, 150-183).
FileFollows == [](Settled => <>[]Follows)
==============================================================================
