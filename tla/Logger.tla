------------------------------- MODULE Logger --------------------------------
(***************************************************************************)
(* The life of the process-wide logger: builders race for the singleton,   *)
(* the winner starts the worker and owns its handle, producer threads log, *)
(* the worker drains the channel into the file manager, and the owner      *)
(* shuts it down.  The channel is the bounded queue of tickets that        *)
(* TicketFifo describes: an entry is open from its reservation to its      *)
(* publication, and the worker cannot look past an open entry.             *)
(***************************************************************************)
EXTENDS Integers, Sequences, FiniteSets

CONSTANTS Producers, Builders,
          Cap,          \* CHANNEL_LEN
          MaxMsgs,      \* bound: messages logged by one producer
          None,
          SpawnMayFail, \* may thread::Builder::spawn fail?
          MayFreeze     \* may the disk stop answering?

LoggerAssumption ==
    /\ Cap \in Nat \ {0} /\ MaxMsgs \in Nat
    /\ None \notin Nat \cup Builders /\ Producers \cap Builders = {}
    /\ SpawnMayFail \in BOOLEAN /\ MayFreeze \in BOOLEAN

ASSUME LoggerAssumed == LoggerAssumption

VARIABLES holder,   \* who set the OnceLock LOGGER
          pc,       \* where each producer and builder is
          sent,     \* messages each producer is done with
          queue, closed,          \* the channel
          expired,                \* SHUTDOWN_SEND_TIMEOUT has passed
          worker, out, unreported,
          frozen,   \* a write is stuck in the operating system for ever
          history,  \* history: payloads in the order of their tickets
          dropped,  \* history: messages refused because the channel was full
          closedAt  \* history: tickets taken when close() was called, or None

channel == <<queue, closed>>
ghosts  == <<history, dropped, closedAt>>
vars == <<holder, pc, sent, channel, expired, worker, out, unreported, frozen, ghosts>>

Threads == Producers \cup Builders

Msg(p, k)  == [kind |-> "message", by |-> p, n |-> k]
Order      == [kind |-> "order"]
Mark(what) == [kind |-> what]
Drops(n)   == [kind |-> "drops", n |-> n]
IsMsg(e)   == e.kind = "message"

Open(t) == [state |-> "open", by |-> t]
Item(x) == [state |-> "item", value |-> x]

Init ==
    /\ holder = None /\ pc = [t \in Threads |-> "idle"] /\ sent = [p \in Producers |-> 0]
    /\ queue = <<>> /\ closed = FALSE /\ expired = FALSE
    /\ worker = [pc |-> "off", phase |-> "run", seenClosed |-> FALSE, left |-> 0, taken |-> 0]
    /\ out = [log |-> <<>>, flushed |-> 0, closed |-> FALSE]
    /\ unreported = 0 /\ frozen = FALSE
    /\ history = <<>> /\ dropped = 0 /\ closedAt = None

Goto(t, label) == pc' = [pc EXCEPT ![t] = label]

----------------------------------------------------------------------------
(* Producer::push, for a message or for the shutdown order                 *)

Payload(t) == IF t \in Producers THEN Msg(t, sent[t] + 1) ELSE Order

\* What a thread does next once its push has answered.
Answered(t, label) ==
    IF t \in Producers
    THEN Goto(t, "idle") /\ sent' = [sent EXCEPT ![t] = @ + 1]
    ELSE Goto(t, label) /\ UNCHANGED sent

\* No logger, or a closed channel: a message goes to stderr, an order has nobody to stop.
TestClosed(t) ==
    /\ pc[t] = "call"
    /\ IF holder = None \/ closed
       THEN Answered(t, "closing")
       ELSE Goto(t, "pushing") /\ UNCHANGED sent
    /\ UNCHANGED <<holder, channel, expired, worker, out, unreported, frozen, ghosts>>

Reserve(t) ==
    /\ pc[t] = "pushing" /\ Len(queue) < Cap
    /\ queue' = Append(queue, Open(t))
    /\ history' = Append(history, Payload(t))
    /\ Goto(t, "open")
    /\ UNCHANGED <<holder, sent, closed, expired, worker, out, unreported, frozen, dropped, closedAt>>

\* A credit held by another push that has no ticket yet makes the channel full as well.
Full(t) ==
    /\ pc[t] = "pushing"
    /\ Len(queue) + Cardinality({u \in Threads \ {t} : pc[u] = "pushing"}) >= Cap
    /\ Answered(t, IF expired THEN "detaching" ELSE "call")
    /\ IF t \in Producers
       THEN dropped' = dropped + 1 /\ unreported' = unreported + 1     \* record_drop
       ELSE UNCHANGED <<dropped, unreported>>
    /\ UNCHANGED <<holder, channel, expired, worker, out, frozen, history, closedAt>>

\* Broken: a published slot makes those before it readable too.
PublishUpTo(t) ==
    /\ pc[t] = "open"
    /\ LET own == CHOOSE i \in DOMAIN queue : queue[i] = Open(t)
       IN  queue' = [i \in DOMAIN queue |->
                       IF i <= own /\ queue[i].state = "open" THEN Item(Payload(queue[i].by))
                       ELSE queue[i]]
    /\ Answered(t, "closing")
    /\ UNCHANGED <<holder, closed, expired, worker, out, unreported, frozen, history, dropped,
                   closedAt>>

Publish(t) ==
    /\ pc[t] = "open"
    /\ queue' = [i \in DOMAIN queue |-> IF queue[i] = Open(t) THEN Item(Payload(t))
                                        ELSE queue[i]]
    /\ Answered(t, "closing")
    /\ UNCHANGED <<holder, closed, expired, worker, out, unreported, frozen, history, dropped,
                   closedAt>>

Push(t) == TestClosed(t) \/ Reserve(t) \/ Full(t) \/ Publish(t)

Log(p) ==
    /\ pc[p] = "idle" /\ sent[p] < MaxMsgs
    /\ Goto(p, "call")
    /\ UNCHANGED <<holder, sent, channel, expired, worker, out, unreported, frozen, ghosts>>

----------------------------------------------------------------------------
(* LoggerBuilder::build                                                    *)

Building(b) == UNCHANGED <<sent, queue, expired, out, unreported, frozen, ghosts>>

CheckInitialized(b) ==
    /\ pc[b] = "idle"
    /\ Goto(b, IF holder = None THEN "opening" ELSE "refused")
    /\ Building(b) /\ UNCHANGED <<holder, closed, worker>>

OpenFile(b) ==
    /\ pc[b] = "opening"
    /\ Goto(b, "opened") \/ Goto(b, "failed")
    /\ Building(b) /\ UNCHANGED <<holder, closed, worker>>

\* Broken: the test made before the file was opened is trusted.
ClaimUnchecked(b) ==
    /\ pc[b] = "opened"
    /\ holder' = b /\ Goto(b, "claimed")
    /\ Building(b) /\ UNCHANGED <<closed, worker>>

\* logger::init: OnceLock::set, which only one builder wins.
Claim(b) ==
    /\ pc[b] = "opened"
    /\ IF holder = None THEN holder' = b /\ Goto(b, "claimed")
                        ELSE Goto(b, "refused") /\ UNCHANGED holder
    /\ Building(b) /\ UNCHANGED <<closed, worker>>

\* If the thread does not start, its closure is dropped and the receiver with it.
Spawn(b) ==
    /\ pc[b] = "claimed"
    /\ \/ Goto(b, "handle") /\ worker' = [worker EXCEPT !.pc = "start"] /\ UNCHANGED closed
       \/ SpawnMayFail /\ Goto(b, "failed") /\ closed' = TRUE /\ UNCHANGED worker
    /\ Building(b) /\ UNCHANGED holder

Build(b) == CheckInitialized(b) \/ OpenFile(b) \/ Claim(b) \/ Spawn(b)

----------------------------------------------------------------------------
(* Logger::shutdown, explicit or on drop, by the one who has the handle    *)

StartShutdown(b) ==
    /\ pc[b] = "handle" /\ Goto(b, "call")
    /\ UNCHANGED <<holder, sent, channel, expired, worker, out, unreported, frozen, ghosts>>

Timeout ==
    /\ \E b \in Builders : pc[b] \in {"call", "pushing"}
    /\ ~expired /\ expired' = TRUE
    /\ UNCHANGED <<holder, pc, sent, channel, worker, out, unreported, frozen, ghosts>>

\* Delivered: close, then join.  Not delivered in time: close and leave the worker alone.
Close(b) ==
    /\ pc[b] \in {"closing", "detaching"}
    /\ closed' = TRUE /\ closedAt' = Len(history)
    /\ Goto(b, IF pc[b] = "closing" THEN "joining" ELSE "done")
    /\ UNCHANGED <<holder, sent, queue, expired, worker, out, unreported, frozen, history,
                   dropped>>

Join(b) ==
    /\ pc[b] = "joining" /\ worker.pc = "ended"
    /\ Goto(b, "done")
    /\ UNCHANGED <<holder, sent, channel, expired, worker, out, unreported, frozen, ghosts>>

Stop(b) == Close(b) \/ Join(b)

----------------------------------------------------------------------------
(* LogWorker                                                               *)

\* FileManager::write: the buffer may have been flushed to make room.
Write(e) ==
    /\ ~frozen
    /\ \E k \in {out.flushed, Len(out.log)} :
          out' = [out EXCEPT !.log = Append(@, e), !.flushed = k]

WorkerAt(label) ==
    /\ worker.pc = label
    /\ UNCHANGED <<holder, pc, sent, expired, frozen, ghosts>>

StartRun ==
    /\ WorkerAt("start") /\ Write(Mark("start"))
    /\ worker' = [worker EXCEPT !.pc = "test"]
    /\ UNCHANGED <<channel, unreported>>

\* `closed` is read before the drain starts.
ReadClosed ==
    /\ WorkerAt("test")
    /\ worker' = [worker EXCEPT !.pc = "snapshot", !.seenClosed = closed]
    /\ UNCHANGED <<channel, out, unreported>>

\* Consumer::drain fixes the number of tickets it will look at.
StartDrain ==
    /\ WorkerAt("snapshot")
    /\ worker' = [worker EXCEPT !.pc = "drain", !.left = Len(queue)]
    /\ UNCHANGED <<channel, out, unreported>>

Drainable == worker.left > 0 /\ queue # <<>> /\ Head(queue).state = "item"

\* In the loop of `run` an order ends the loop; a later drain ignores it.
DrainNext ==
    /\ WorkerAt("drain") /\ Drainable
    /\ queue' = Tail(queue)
    /\ LET e == Head(queue).value
       IN  \/ /\ IsMsg(e) /\ Write(e)
              /\ worker' = [worker EXCEPT !.left = @ - 1]
           \/ /\ e = Order /\ worker.phase = "run" /\ Write(Mark("shutdown"))
              /\ worker' = [worker EXCEPT !.phase = "final", !.pc = "snapshot"]
           \/ /\ e = Order /\ worker.phase # "run" /\ UNCHANGED out
              /\ worker' = [worker EXCEPT !.left = @ - 1]
    /\ UNCHANGED <<closed, unreported>>

EndDrain ==
    /\ WorkerAt("drain") /\ ~Drainable
    /\ worker' = [worker EXCEPT !.pc = "report"]
    /\ UNCHANGED <<channel, out, unreported>>

\* take_unreported_drops: the swap.
TakeDrops ==
    /\ WorkerAt("report")
    /\ worker' = [worker EXCEPT !.pc = "tell", !.taken = unreported]
    /\ unreported' = 0
    /\ UNCHANGED <<channel, out>>

TellDrops ==
    /\ WorkerAt("tell")
    /\ IF worker.taken > 0 THEN Write(Drops(worker.taken)) ELSE UNCHANGED out
    /\ worker' = [worker EXCEPT !.taken = 0,
                                !.pc = IF worker.phase = "run" THEN "check" ELSE "flush"]
    /\ UNCHANGED <<channel, unreported>>

\* Broken: leaves as soon as the channel was seen closed.
CheckClosedOnly ==
    /\ WorkerAt("check")
    /\ IF worker.seenClosed
       THEN /\ Write(Mark("senders_dead"))
            /\ worker' = [worker EXCEPT !.phase = "final", !.pc = "snapshot"]
       ELSE UNCHANGED out /\ worker' = [worker EXCEPT !.pc = "test"]
    /\ UNCHANGED <<channel, unreported>>

\* Leaves only once everything has been read, open entries included.
CheckClosed ==
    /\ WorkerAt("check")
    /\ IF worker.seenClosed /\ queue = <<>>
       THEN /\ Write(Mark("senders_dead"))
            /\ worker' = [worker EXCEPT !.phase = "final", !.pc = "snapshot"]
       ELSE UNCHANGED out /\ worker' = [worker EXCEPT !.pc = "test"]
    /\ UNCHANGED <<channel, unreported>>

\* FileManager::shutdown, once; then the worker is dropped and goes through its
\* shutdown again, and last the receiver is dropped, which closes the channel.
FlushOutput ==
    /\ WorkerAt("flush") /\ ~frozen
    /\ out' = IF out.closed THEN out
              ELSE [out EXCEPT !.flushed = Len(out.log), !.closed = TRUE]
    /\ \/ /\ worker.phase = "final"
          /\ worker' = [worker EXCEPT !.phase = "drop", !.pc = "snapshot"]
          /\ UNCHANGED closed
       \/ /\ worker.phase = "drop"
          /\ worker' = [worker EXCEPT !.pc = "ended"]
          /\ closed' = TRUE
    /\ UNCHANGED <<queue, unreported>>

Work == \/ StartRun \/ ReadClosed \/ StartDrain \/ DrainNext \/ EndDrain
        \/ TakeDrops \/ TellDrops \/ CheckClosed \/ FlushOutput

Freeze ==
    /\ MayFreeze /\ ~frozen /\ frozen' = TRUE
    /\ UNCHANGED <<holder, pc, sent, channel, expired, worker, out, unreported, ghosts>>

----------------------------------------------------------------------------
Next ==
    \/ \E p \in Producers : Log(p)
    \/ \E t \in Threads : Push(t)
    \/ \E b \in Builders : Build(b) \/ StartShutdown(b) \/ Stop(b)
    \/ Timeout \/ Work \/ Freeze

Spec == Init /\ [][Next]_vars

\* Threads are scheduled, sleeps and the deadline end; nobody is obliged to log, to
\* build or to shut down.
FairSpec ==
    /\ Spec
    /\ WF_vars(Work) /\ WF_vars(Timeout)
    /\ \A t \in Threads : WF_vars(Push(t))
    /\ \A b \in Builders : WF_vars(Stop(b))

----------------------------------------------------------------------------
(* Properties                                                              *)

Labels == {"idle", "call", "pushing", "open", "closing", "detaching", "opening", "opened",
           "claimed", "handle", "joining", "done", "refused", "failed"}

TypeOK ==
    /\ holder \in Builders \cup {None}
    /\ pc \in [Threads -> Labels] /\ sent \in [Producers -> 0 .. MaxMsgs]
    /\ Len(queue) <= Cap /\ closed \in BOOLEAN /\ expired \in BOOLEAN /\ frozen \in BOOLEAN
    /\ worker.left \in 0 .. Cap /\ worker.taken \in Nat /\ unreported \in Nat
    /\ out.flushed \in 0 .. Len(out.log)

\* The messages among the first k elements of a sequence, by their places.
MessagesTo(s, k) == {i \in 1 .. k : i \in DOMAIN s /\ IsMsg(s[i])}
MessageCount(s, k) == Cardinality(MessagesTo(s, k))

\* Messages reach the log in the order of their tickets, none twice and none skipped,
\* across the three drains and the open entries they stop at: the k-th message of the log
\* is the k-th that took a ticket.
InOrderOnce ==
    \A i \in DOMAIN out.log : IsMsg(out.log[i]) =>
        \E j \in DOMAIN history :
            /\ history[j] = out.log[i]
            /\ MessageCount(history, j) = MessageCount(out.log, i)

\* The tickets the worker owes to the file: those before the shutdown order, or, if the
\* order could not be delivered, those before close().
Owed ==
    LET orders == {i \in DOMAIN history : history[i] = Order}
    IN  IF orders # {} THEN CHOOSE i \in orders : \A j \in orders : i <= j
        ELSE IF closedAt = None THEN 0 ELSE closedAt

\* A worker that ends has written and flushed every message whose slot was reserved
\* before the order (or before the close), also one published only later
\* (worker.rs:81-84, :146-147).
QueuedIsWritten ==
    worker.pc = "ended" /\ pc[holder] # "failed" =>
        MessageCount(history, Owed) <= MessageCount(out.log, out.flushed)

\* A delivered order is honoured as such: the worker never takes the senders for dead
\* with an order in the channel (worker.rs:59-63).
OrderHonoured ==
    (\E i \in DOMAIN history : history[i] = Order) =>
        \A i \in DOMAIN out.log : out.log[i].kind # "senders_dead"

\* However builders race, only one has a worker, and it is the one in the OnceLock.
OneWorker ==
    \A b \in Builders :
        pc[b] \in {"claimed", "handle", "call", "pushing", "open", "closing", "joining",
                   "detaching", "done"} => b = holder

\* The refused messages the reports in the log speak of: k of them for a report of k.
ReportedDrops ==
    Cardinality(UNION {{i} \X (1 .. out.log[i].n) :
                           i \in {j \in DOMAIN out.log : out.log[j].kind = "drops"}})

\* Each refused message is counted in exactly one report of the log, or still waits to
\* be: producers count while the worker takes and writes.
DropsReportedOnce ==
    dropped = unreported + worker.taken + ReportedDrops

\* What was accepted is written, once and in order, and what was not is reported.
Delivered == InOrderOnce /\ QueuedIsWritten /\ OrderHonoured /\ DropsReportedOnce

\* What the front end and the worker do to the channel, seen as a queue of tickets.
Channel == INSTANCE TicketFifo WITH
    N <- Cap, Producers <- Threads, Uninit <- None, live <- TRUE,
    Values <- {Order} \cup {Msg(p, k) : p \in Producers, k \in 1 .. MaxMsgs},
    delivered <- IF Len(history) = Len(queue) THEN None
                 ELSE history[Len(history) - Len(queue)]

\* The channel of this module is used as the MPSC channel is proved to behave: its
\* queue takes the steps of TicketFifo, which Mpsc implements, and no others
\* (logger.rs:122-146, worker.rs:66-79).
ChannelUsed == []TypeOK /\ Channel!Spec

\* With a disk that answers, shutdown() returns.
ShutdownReturns == \A b \in Builders : pc[b] = "call" ~> pc[b] = "done"

\* "One last drain, so nothing already queued is lost" (worker.rs:147): a message that is
\* in the channel, its push answered, when the last drain before FileManager::shutdown
\* begins, is in the file when the worker has ended.
LastDrain == worker.phase = "final" /\ worker.pc = "snapshot"
Queued(m) == \E i \in DOMAIN queue : queue[i] = Item(m)
Flushed(m) == \E i \in 1 .. out.flushed : out.log[i] = m
DrainedIsFlushed ==
    \A p \in Producers, k \in 1 .. MaxMsgs :
        [](LastDrain /\ Queued(Msg(p, k)) => [](worker.pc = "ended" => Flushed(Msg(p, k))))
==============================================================================
