------------------------------- MODULE MCFiles --------------------------------
(***************************************************************************)
(* Model-checking instances of the modules about files: the log files, the *)
(* control file of the minimum level, the task! calls and their files, the *)
(* dates in both.  The extended modules are part "faults", with messages   *)
(* that fill the buffer and midnights within a call, and parts "level",    *)
(* "races", "quiet", "macro" and "date".  A behaviour is one of `part`;    *)
(* the others stay in their initial state.                                 *)
(***************************************************************************)
EXTENDS FileManager, LevelFile, CivilDate, TaskFile, TaskMacro, TLC

CONSTANTS p1, p2

VARIABLE part

all == <<part, vars, levelVars, taskVars, macroVars, dateVars>>

\* Messages that fit in the buffer, the clock stands still within a call.
Sizes == INSTANCE FileManager WITH
    Dated <- TRUE, BufLen <- 3, MaxSize <- 4, FooterLen <- 1, Lengths <- {1, 2},
    MidnightInCalls <- FALSE, MaxDay <- 2, MaxGiven <- 7, MaxFaults <- 1

\* The task's file.  In part "races" compilers race, also on a file that is there, while an
\* access may fail; in part "quiet" one compiler runs longer on a source whose lines move.
CallPaths == {<<"src/main.rs">>}
AnyText == STRING
Races == TaskNext /\ clock' <= 2
Quiet ==
    \/ EditTask /\ task'.desc = task.desc
    \/ \E p \in Processes : /\ Publish(p) /\ tfaults' = tfaults
                            /\ \A q \in Processes \ {p} : At(q, "idle")

\* A call with right and wrong rows.  The priority may be repeated; the fields but the
\* name and the priority come in one order.
I(s) == [kind |-> "ident", text |-> s]
L(s) == [kind |-> "literal", text |-> s]
C    == [kind |-> "punct", text |-> ":"]
Row(field, value) == <<I(field), C>> \o value
Path(enum, variant) == <<I(enum), C, C, I(variant)>>
RightRows ==
    {Row("name", <<L("a")>>), Row("panic", <<I("true")>>),
     Row("prio", Path("TaskPriority", "Low")), Row("prio", Path("taskpriority", "HIGH")),
     Row("task_type", Path("TaskType", "Others")), Row("status", Path("TaskStatus", "Todo")),
     Row("effort", Path("TaskEffort", "Quick"))}
WrongRows ==
    {<<>>, <<I("name")>>, Row("name", <<>>), Row("name", <<L("a/b")>>),
     Row("name", <<L("a"), L("a")>>), Row("desc", <<L("5")>>), Row("due", <<L("a")>>), Row("panic", <<I("maybe")>>),
     Row("panic", <<L("true")>>), Row("prio", <<I("TaskPriority"), C, C, L("Low")>>),
     Row("prio", Path("TaskEffort", "Quick")), Row("prio", <<I("TaskPriority"), C, I("Low")>>),
     <<I("prio"), I("TaskPriority"), C, C, I("Low")>>}
CallRows == RightRows \cup WrongRows
InTurn ==
    LET turn == <<"task_type", "status", "effort", "panic">>
        times(f) == Cardinality({i \in DOMAIN rows : rows[i][1].text = f})
    IN  /\ \A k \in 1 .. 4 : /\ times(turn[k]) <= 1
                             /\ k > 1 => times(turn[k]) <= times(turn[k - 1])
        /\ times("name") <= 1 /\ times("prio") <= 2

ASSUME Sizes!FileAssumption
ASSUME TaskAssumption
ASSUME MacroAssumption

PartInit ==
    /\ part \in {"faults", "sizes", "level", "races", "quiet", "macro", "date"}
    /\ Init
    /\ LevelInit /\ (part # "level" => explicit = None /\ file.text = Absent)
    /\ TaskInit
    /\ part # "races" => ~present /\ task.desc = "d1" /\ (part = "quiet" \/ task.line = "L10")
    /\ MacroInit
    /\ DateInit /\ (part # "date" => date.y = 1970)

PartNext ==
    \/ /\ part = "faults" /\ Next
       /\ UNCHANGED <<part, levelVars, taskVars, macroVars, dateVars>>
    \/ /\ part = "sizes" /\ Sizes!Next
       /\ UNCHANGED <<part, levelVars, taskVars, macroVars, dateVars>>
    \/ /\ part = "level" /\ LevelNext
       /\ UNCHANGED <<part, vars, taskVars, macroVars, dateVars>>
    \/ /\ part = "races" /\ Races
       /\ UNCHANGED <<part, vars, levelVars, macroVars, dateVars>>
    \/ /\ part = "quiet" /\ Quiet
       /\ UNCHANGED <<part, vars, levelVars, macroVars, dateVars>>
    \/ /\ part = "macro" /\ MacroNext /\ InTurn'
       /\ UNCHANGED <<part, vars, levelVars, taskVars, dateVars>>
    \/ /\ part = "date" /\ Tick
       /\ UNCHANGED <<part, vars, levelVars, taskVars, macroVars>>

PartSpec == PartInit /\ [][PartNext]_all

----------------------------------------------------------------------------
(* The properties of the parts; Accounted, Durable and                     *)
(* RotatedFilesStopGrowing are FileManager's and hold of both its parts,   *)
(* LevelHolds is LevelFile's, UtcIsGregorian CivilDate's, DocumentHolds    *)
(* TaskFile's, CallIsExact TaskMacro's                                     *)

\* While messages fit in the buffer and no day ends within a call, no file is longer than
\* max_file_size and its footer (builder.rs:100), and a new UTC day starts a new file
\* (file_manager.rs:301).
RotatedInTime ==
    /\ [](part = "sizes" => Sizes!FileWithinMaxSize)
    /\ [][part = "sizes" => Sizes!DailyStep]_all

\* Used whole, or not at all, by a part.
ProcessSymmetry == Permutations({p1, p2})
==============================================================================
