----------------------------- MODULE MCProgress -------------------------------
(***************************************************************************)
(* The cursor ring, and what must eventually happen in the smaller         *)
(* components.  A behaviour is one of `part`, under the fairness that its  *)
(* module states; the others stay in their initial state.  EXTENDS is part *)
(* "ring", with every call, and part "steady", with the steady program.    *)
(***************************************************************************)
EXTENDS Spsc, Integers

CONSTANTS a1, a2, a3, p1, p2, b1, Null, None, Junk, Absent

VARIABLES part,
          data, next, released, wtail, wpc, current, rpc, call, ahead, published, seen, newest,
          holder, pc, sent, queue, orders, expired, worker, out, unreported, frozen,
          history, dropped, closedAt,
          explicit, control, level, lpc, modified, unreadable, edits, lfaults, complaints,
          caller, wanted, child, os, report, slot, touched,
          task, doc, temp, proc, clock, tfaults, present

list    == <<data, next, released, wtail, wpc, current, rpc, call, ahead, published, seen,
             newest>>
logger  == <<holder, pc, sent, queue, orders, expired, worker, out, unreported, frozen,
             history, dropped, closedAt>>
ctl     == <<explicit, control, level, lpc, modified, unreadable, edits, lfaults, complaints>>
thread  == <<caller, wanted, child, os, report, slot, touched>>
tasks   == <<task, doc, temp, proc, clock, tfaults, present>>
all     == <<part, vars, list, logger, ctl, thread, tasks>>

List == INSTANCE Snapshot WITH Addr <- {a1, a2, a3}, MaxVersion <- 4
Log == INSTANCE Logger WITH
    Producers <- {p1, p2}, Builders <- {b1}, Cap <- 1, MaxMsgs <- 1,
    SpawnMayFail <- FALSE, MayFreeze <- FALSE, closed <- orders
Level == INSTANCE LevelFile WITH
    Levels <- {0, 1, 3}, Default <- 1, MaxEdits <- 3, MaxLevelFaults <- 0,
    file <- control, pc <- lpc, seen <- modified, faults <- lfaults
Thread == INSTANCE ThreadSpawn WITH Bits <- 1, Groups <- {0}, MayDie <- TRUE
Task == INSTANCE TaskFile WITH
    Processes <- {p1, p2}, Paths <- {<<"src/main.rs">>}, Lines <- {"L10"},
    Descs <- {"d1", "d2"}, MaxTime <- 2, MaxTaskFaults <- 1,
    NoFile <- None, Pieces <- STRING

PartInit ==
    /\ part \in {"ring", "steady", "list", "logger", "level", "thread", "task"}
    /\ Init
    /\ List!SnapshotInit /\ current = a1
    /\ Log!Init
    /\ Level!LevelInit /\ (part # "level" => explicit = None /\ control.text = Absent)
    /\ Thread!SpawnInit /\ (part # "thread" => \A k \in Thread!Kind : wanted[k] = None)
    /\ Task!TaskInit /\ ~present /\ (part # "task" => task.line = "L10" /\ task.desc = "d1")

PartNext ==
    \/ part = "ring" /\ Next /\ UNCHANGED <<part, list, logger, ctl, thread, tasks>>
    \/ part = "steady" /\ SteadyNext /\ UNCHANGED <<part, list, logger, ctl, thread, tasks>>
    \/ part = "list" /\ List!SnapshotNext /\ UNCHANGED <<part, vars, logger, ctl, thread, tasks>>
    \/ part = "logger" /\ Log!Next /\ UNCHANGED <<part, vars, list, ctl, thread, tasks>>
    \/ part = "level" /\ Level!LevelNext /\ UNCHANGED <<part, vars, list, logger, thread, tasks>>
    \/ part = "thread" /\ Thread!SpawnNext /\ UNCHANGED <<part, vars, list, logger, ctl, tasks>>
    \/ part = "task" /\ Task!TaskNext /\ UNCHANGED <<part, vars, list, logger, ctl, thread>>

\* The fairness of each module: its steps that must happen do, in its part.
RingFairness ==
    /\ WF_vars(part = "steady" /\ (ProducerStep \/ StartPush("push")))
    /\ WF_vars(part = "steady" /\ (ConsumerStep \/ CallPop("pop")))
ListFairness ==
    /\ WF_list(part = "list" /\ List!WriterStep)
    /\ WF_list(part = "list" /\ List!ReaderStep)
LoggerFairness ==
    /\ WF_logger(part = "logger" /\ Log!Work)
    /\ WF_logger(part = "logger" /\ Log!Timeout)
    /\ \A t \in {p1, p2, b1} : WF_logger(part = "logger" /\ Log!Push(t))
    /\ WF_logger(part = "logger" /\ Log!Stop(b1))
LevelFairness ==
    /\ WF_ctl(part = "level" /\ Level!ResolveMinLevel)
    /\ WF_ctl(part = "level" /\ Level!PollMinLevel)
ThreadFairness ==
    /\ WF_thread(part = "thread" /\ Thread!Wait)
    /\ WF_thread(part = "thread" /\ Thread!Configure)
TaskFairness ==
    \A p \in {p1, p2} : WF_tasks(part = "task" /\ Task!Proceed(p))

PartSpec ==
    /\ PartInit /\ [][PartNext]_all
    /\ RingFairness /\ ListFairness /\ LoggerFairness
    /\ LevelFairness /\ ThreadFairness /\ TaskFairness

----------------------------------------------------------------------------
(* The properties of the parts; CursorInv, Ownership, FinalNone and Fifo   *)
(* are those of Spsc                                                       *)

\* A stale cached cursor never stops the flow: the producer never believes for good that
\* the ring is full, nor the consumer that it is empty (spsc/queue.rs:140-160).
Flow == part = "steady" => []<><<tail' # tail>>_vars /\ []<><<head' # head>>_vars

\* update, close and drop of the reader return once publications stop, shutdown() returns
\* with a disk that answers, and spawn() answers also when the thread dies before it
\* reports (snapshot/mod.rs:206-262, logger.rs:60-100, builder.rs:100-125).
CallsAnswered == List!ReaderReturns /\ Log!ShutdownReturns /\ Thread!SpawnAnswers

\* The level ends up as the control file says (worker.rs:95-130), and the task's file as the
\* source says once its last version is expanded (main_macro.rs:110-183).
SourcesFollowed ==
    /\ part = "level" => Level!LevelFollows
    /\ part = "task" => Task!FileFollows
==============================================================================
