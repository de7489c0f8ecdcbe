----------------------------- MODULE LoggerProofs -----------------------------
(***************************************************************************)
(* Proofs about Logger, for every number of producers, builders and        *)
(* messages and every capacity: that one builder has the worker, that what *)
(* was accepted is written once and in order and the rest reported, and    *)
(* that the channel between them is used as TicketFifo promises it.        *)
(***************************************************************************)
EXTENDS Logger, FiniteSetTheorems, SequenceTheorems, TLAPS

\* The labels of a builder that has the worker, or is about to.
Owning == {"claimed", "handle", "call", "pushing", "open", "closing", "joining",
           "detaching", "done"}

\* A builder gets to such a label through the OnceLock only, which is set once.
IndInv ==
    /\ pc \in [Threads -> Labels]
    /\ holder \in Builders \cup {None}
    /\ OneWorker

\* Nobody has built anything yet.
LEMMA InitIndInv == Init => IndInv
  <1> SUFFICES ASSUME Init PROVE IndInv
    OBVIOUS
  <1>1. pc \in [Threads -> Labels]
    BY DEF Init, Labels
  <1>2. OneWorker
    BY DEF Init, OneWorker, Threads
  <1> QED BY <1>1, <1>2 DEF Init, IndInv

\* A step that moves one builder, and does not give it the worker, takes it from nobody.
LEMMA MoveKeeps ==
    ASSUME IndInv, UNCHANGED holder, NEW t \in Threads, NEW label \in Labels, Goto(t, label),
           t \in Builders => (label \in Owning => pc[t] \in Owning)
    PROVE  IndInv'
  <1>1. pc' \in [Threads -> Labels]
    BY DEF IndInv, Goto
  <1>2. \A b \in Builders : pc'[b] \in Owning => pc[b] \in Owning
    BY DEF IndInv, Goto, Threads
  <1> QED BY <1>1, <1>2 DEF IndInv, OneWorker, Owning

\* The push of a producer ends where it began, that of an owner goes on with the shutdown.
LEMMA PushKeeps ==
    ASSUME IndInv, NEW t \in Threads, Push(t)
    PROVE  IndInv'
  <1>1. PICK label \in {"idle", "pushing", "open", "closing", "detaching", "call"} :
           /\ Goto(t, label) /\ UNCHANGED holder
           /\ label = "idle" => t \in Producers
    BY DEF Push, TestClosed, Reserve, Full, Publish, Answered
  <1>2. pc[t] \in Owning
    BY DEF Push, TestClosed, Reserve, Full, Publish, Owning
  <1> QED BY <1>1, <1>2, MoveKeeps DEF Labels

\* Claim is where the race is decided.
LEMMA ClaimKeeps ==
    ASSUME IndInv, NEW b \in Builders, Claim(b)
    PROVE  IndInv'
  <1>1. CASE holder = None
    <2>1. \A c \in Builders : pc[c] \notin Owning
      BY <1>1, LoggerAssumed DEF IndInv, OneWorker, Owning, LoggerAssumption
    <2>2. pc' = [pc EXCEPT ![b] = "claimed"] /\ holder' = b
      BY <1>1 DEF Claim, Goto
    <2>3. pc' \in [Threads -> Labels]
      BY <2>2 DEF IndInv, Labels
    <2>4. \A c \in Builders : pc'[c] \in Owning => c = b
      BY <2>1, <2>2 DEF IndInv, Threads
    <2> QED BY <2>2, <2>3, <2>4 DEF IndInv, OneWorker, Owning
  <1>2. CASE holder # None
    <2>1. Goto(b, "refused") /\ UNCHANGED holder
      BY <1>2 DEF Claim
    <2> QED BY <2>1, MoveKeeps DEF Labels, Owning, Threads
  <1> QED BY <1>1, <1>2

\* Every step preserves the invariant.
LEMMA NextIndInv == IndInv /\ [Next]_vars => IndInv'
  <1> SUFFICES ASSUME IndInv, [Next]_vars PROVE IndInv'
    OBVIOUS
  <1>1. ASSUME NEW p \in Producers, Log(p) PROVE IndInv'
    <2>1. Goto(p, "call") /\ UNCHANGED holder /\ p \notin Builders
      BY <1>1, LoggerAssumed DEF Log, LoggerAssumption
    <2> QED BY <2>1, MoveKeeps DEF Threads, Labels
  <1>2. ASSUME NEW t \in Threads, Push(t) PROVE IndInv'
    BY <1>2, PushKeeps
  <1>3. ASSUME NEW b \in Builders, CheckInitialized(b) \/ OpenFile(b) PROVE IndInv'
    <2>1. PICK label \in {"opening", "refused", "opened", "failed"} :
             Goto(b, label) /\ UNCHANGED holder
      BY <1>3 DEF CheckInitialized, OpenFile
    <2> QED BY <2>1, MoveKeeps DEF Threads, Labels, Owning
  <1>4. ASSUME NEW b \in Builders, Claim(b) PROVE IndInv'
    BY <1>4, ClaimKeeps
  <1>5. ASSUME NEW b \in Builders, Spawn(b) PROVE IndInv'
    <2>1. PICK label \in {"handle", "failed"} : Goto(b, label)
      BY <1>5 DEF Spawn
    <2>2. pc[b] \in Owning /\ UNCHANGED holder
      BY <1>5 DEF Spawn, Owning
    <2> QED BY <2>1, <2>2, MoveKeeps DEF Threads, Labels
  <1>6. ASSUME NEW b \in Builders, StartShutdown(b) \/ Stop(b) PROVE IndInv'
    <2>1. PICK label \in {"call", "joining", "done"} : Goto(b, label) /\ UNCHANGED holder
      BY <1>6 DEF StartShutdown, Stop, Close, Join
    <2>2. pc[b] \in Owning
      BY <1>6 DEF StartShutdown, Stop, Close, Join, Owning
    <2> QED BY <2>1, <2>2, MoveKeeps DEF Threads, Labels
  <1>7. CASE Timeout \/ Freeze \/ Work \/ UNCHANGED vars
    <2>1. UNCHANGED <<holder, pc>>
      BY <1>7 DEF Timeout, Freeze, Work, vars, WorkerAt, StartRun, ReadClosed, StartDrain,
         DrainNext, EndDrain, TakeDrops, TellDrops, CheckClosed, FlushOutput
    <2> QED BY <2>1 DEF IndInv, OneWorker
  <1> QED BY <1>1, <1>2, <1>3, <1>4, <1>5, <1>6, <1>7 DEF Next, Build

\* "A build losing the race never runs a second worker on the same file"
\* (builder.rs:204-205): however builders race and whatever fails, at most one of them has
\* a worker, and it is the one in the OnceLock.
THEOREM LoggerOneWorker == Spec => []OneWorker
  <1>1. IndInv => OneWorker
    BY DEF IndInv
  <1> QED BY <1>1, InitIndInv, NextIndInv, PTL DEF Spec

------------------------------------------------------------------------------
(* What is delivered: the inductive invariant.                                *)

Payloads == {Order} \cup {Msg(p, k) : p \in Producers, k \in 1 .. MaxMsgs}
Entries  == {Open(t) : t \in Threads} \cup {Item(x) : x \in Payloads}
Lines    == {Msg(p, k) : p \in Producers, k \in 1 .. MaxMsgs}
                \cup {Mark(what) : what \in {"start", "shutdown", "senders_dead"}}
                \cup {Drops(n) : n \in Nat}

WorkerLabels ==
    {"off", "start", "test", "snapshot", "drain", "report", "tell", "check", "flush", "ended"}

\* The tickets whose entry has left the channel.
Taken == Len(history) - Len(queue)

Shapes ==
    /\ pc \in [Threads -> Labels] /\ sent \in [Producers -> 0 .. MaxMsgs]
    /\ history \in Seq(Payloads) /\ queue \in Seq(Entries) /\ Len(queue) <= Len(history)
    /\ Len(queue) <= Cap /\ closed \in BOOLEAN /\ expired \in BOOLEAN /\ frozen \in BOOLEAN
    /\ worker \in [pc : WorkerLabels, phase : {"run", "final", "drop"}, seenClosed : BOOLEAN,
                    left : 0 .. Cap, taken : Nat]
    /\ out \in [log : Seq(Lines), flushed : Nat, closed : BOOLEAN]
    /\ out.flushed <= Len(out.log)
    /\ unreported \in Nat /\ dropped \in Nat /\ closedAt \in Nat \cup {None}

\* A producer is in no call of an owner, and counts a message once its push has answered.
Senders ==
    \A p \in Producers :
       /\ pc[p] \in {"idle", "call", "pushing", "open"}
       /\ pc[p] # "idle" => sent[p] < MaxMsgs

\* The channel holds what the last tickets stand for, or the open entry of who has it.
Tickets ==
    /\ \A i \in DOMAIN queue :
          \/ queue[i] = Item(history[Taken + i])
          \/ \E t \in Threads : /\ queue[i] = Open(t) /\ pc[t] = "open"
                                /\ history[Taken + i] = Payload(t)
    /\ \A i, j \in DOMAIN queue :
          queue[i] = queue[j] /\ queue[i].state = "open" => i = j

\* The messages among the tickets taken are those of the log.
Writing ==
    /\ MessageCount(history, Taken) = MessageCount(out.log, Len(out.log))
    /\ InOrderOnce

HasOrder(k) == \E i \in 1 .. k : i \in DOMAIN history /\ history[i] = Order

\* The channel was closed without an order, and read to its end.
Gone ==
    /\ closedAt \in 0 .. Taken /\ pc[holder] \in {"joining", "done"}
    /\ ~HasOrder(Len(history))

\* One order is given at most, by the owner.
Orders ==
    /\ \A i, j \in DOMAIN history : history[i] = Order /\ history[j] = Order => i = j
    /\ HasOrder(Len(history)) =>
          holder \in Builders /\ pc[holder] \in {"open", "closing", "joining", "done"}

\* What a worker, a close() and a closed channel say of the owner.
Owner ==
    /\ worker.pc # "off" => holder \in Builders /\ pc[holder] \in Owning \ {"claimed"}
    /\ closedAt # None =>
          /\ holder \in Builders /\ pc[holder] \in {"joining", "done"}
          /\ closedAt <= Len(history)
    /\ closed => \/ worker.pc = "ended"
                 \/ worker.pc = "off" /\ holder \in Builders /\ pc[holder] = "failed"
                 \/ closedAt # None
    /\ worker.seenClosed => closed

\* The worker leaves its loop with an order it has read, or because it is alone.
Phases ==
    /\ worker.phase = "run" => ~HasOrder(Taken)
    /\ worker.phase # "run" => HasOrder(Taken) \/ Gone
    /\ (\E i \in DOMAIN out.log : out.log[i] = Mark("senders_dead")) =>
          worker.phase # "run" /\ Gone
    /\ worker.pc \in {"off", "start", "test", "check"} => worker.phase = "run"
    /\ worker.pc \in {"flush", "ended"} => worker.phase # "run"
    /\ worker.phase = "drop" => out.closed
    /\ worker.pc = "ended" => worker.phase = "drop"

\* A file that was closed holds what is owed.
Paid ==
    out.closed => /\ worker.phase # "run"
                  /\ MessageCount(history, Owed) <= MessageCount(out.log, out.flushed)

\* The refused messages that the reports speak of.
Reported ==
    UNION {{i} \X (1 .. out.log[i].n) : i \in {j \in DOMAIN out.log : out.log[j].kind = "drops"}}

Reports ==
    /\ IsFiniteSet(Reported)
    /\ worker.pc # "tell" => worker.taken = 0
    /\ DropsReportedOnce

Ending == Orders /\ Owner /\ Phases /\ Paid

LogInv == IndInv /\ Shapes /\ Senders /\ Tickets /\ Writing /\ Ending /\ Reports

------------------------------------------------------------------------------
(* Counting messages.                                                         *)

LEMMA MessagesFinite ==
    ASSUME NEW s, NEW k \in Int
    PROVE  IsFiniteSet(MessagesTo(s, k)) /\ MessageCount(s, k) \in Nat
  <1>1. IsFiniteSet(1 .. k)
    BY FS_Interval
  <1>2. MessagesTo(s, k) \in SUBSET (1 .. k)
    BY DEF MessagesTo
  <1>3. IsFiniteSet(MessagesTo(s, k))
    BY <1>1, <1>2, FS_Subset
  <1> QED BY <1>3, FS_CardinalityType DEF MessageCount

LEMMA CountNext ==
    ASSUME NEW s, NEW k \in Nat
    PROVE  MessageCount(s, k + 1) =
              MessageCount(s, k) + IF k + 1 \in DOMAIN s /\ IsMsg(s[k + 1]) THEN 1 ELSE 0
  <1>1. CASE k + 1 \in DOMAIN s /\ IsMsg(s[k + 1])
    <2>1. MessagesTo(s, k + 1) = MessagesTo(s, k) \cup {k + 1} /\ k + 1 \notin MessagesTo(s, k)
      BY <1>1 DEF MessagesTo
    <2> QED BY <1>1, <2>1, MessagesFinite, FS_AddElement DEF MessageCount
  <1>2. CASE ~(k + 1 \in DOMAIN s /\ IsMsg(s[k + 1]))
    <2>1. MessagesTo(s, k + 1) = MessagesTo(s, k)
      BY <1>2 DEF MessagesTo
    <2> QED BY <1>2, <2>1, MessagesFinite DEF MessageCount
  <1> QED BY <1>1, <1>2

LEMMA CountGrows ==
    ASSUME NEW s, NEW j \in Int, NEW k \in Int, j <= k
    PROVE  MessageCount(s, j) <= MessageCount(s, k)
  <1>1. MessagesTo(s, j) \in SUBSET MessagesTo(s, k)
    BY DEF MessagesTo
  <1> QED BY <1>1, MessagesFinite, FS_Subset DEF MessageCount

\* The count looks at the first k elements only.
LEMMA CountPrefix ==
    ASSUME NEW S, NEW s \in Seq(S), NEW e \in S, NEW k \in Int, k <= Len(s)
    PROVE  MessageCount(Append(s, e), k) = MessageCount(s, k)
  <1>1. MessagesTo(Append(s, e), k) = MessagesTo(s, k)
    BY AppendProperties, LenProperties DEF MessagesTo
  <1> QED BY <1>1 DEF MessageCount

LEMMA CountAppend ==
    ASSUME NEW S, NEW s \in Seq(S), NEW e \in S
    PROVE  MessageCount(Append(s, e), Len(s) + 1) =
              MessageCount(s, Len(s)) + IF IsMsg(e) THEN 1 ELSE 0
  <1> DEFINE a == Append(s, e)
  <1>1. /\ Len(s) \in Nat /\ Len(a) = Len(s) + 1 /\ a[Len(s) + 1] = e
        /\ Len(s) + 1 \in DOMAIN a
    BY AppendProperties, LenProperties
  <1>2. MessageCount(a, Len(s)) = MessageCount(s, Len(s))
    BY <1>1, CountPrefix
  <1>3. MessageCount(a, Len(s) + 1) =
           MessageCount(a, Len(s)) + IF IsMsg(a[Len(s) + 1]) THEN 1 ELSE 0
    BY <1>1, CountNext
  <1> QED BY <1>1, <1>2, <1>3

------------------------------------------------------------------------------
(* The shape of what is written.                                              *)

LEMMA Kinds ==
    /\ \A x \in Payloads : x = Order <=> ~IsMsg(x)
    /\ \A x \in Lines : \/ x.kind = "drops" \/ IsMsg(x)
                       \/ \E what \in {"start", "shutdown", "senders_dead"} : x = Mark(what)
    /\ \A x \in Payloads : IsMsg(x) => x \in Lines
    /\ \A what \in {"start", "shutdown", "senders_dead"} :
          Mark(what) \in Lines /\ ~IsMsg(Mark(what)) /\ Mark(what).kind # "drops"
    /\ \A n \in Nat : /\ Drops(n) \in Lines /\ ~IsMsg(Drops(n))
                      /\ Drops(n).kind = "drops" /\ Drops(n).n = n
  <1>1. \A x \in Payloads : x = Order <=> ~IsMsg(x)
    BY DEF Payloads, Order, Msg, IsMsg
  <1>2. \A x \in Lines : \/ x.kind = "drops" \/ IsMsg(x)
                         \/ \E what \in {"start", "shutdown", "senders_dead"} : x = Mark(what)
    <2>1. \A p \in Producers, k \in 1 .. MaxMsgs : IsMsg(Msg(p, k))
      BY DEF Msg, IsMsg
    <2>2. \A n \in Nat : Drops(n).kind = "drops"
      BY DEF Drops
    <2> QED BY <2>1, <2>2 DEF Lines
  <1>3. \A x \in Payloads : IsMsg(x) => x \in Lines
    BY DEF Payloads, Lines, Order, IsMsg
  <1>4. \A what \in {"start", "shutdown", "senders_dead"} :
           Mark(what) \in Lines /\ ~IsMsg(Mark(what)) /\ Mark(what).kind # "drops"
    BY DEF Lines, Mark, IsMsg
  <1>5. \A n \in Nat : /\ Drops(n) \in Lines /\ ~IsMsg(Drops(n))
                       /\ Drops(n).kind = "drops" /\ Drops(n).n = n
    <2> SUFFICES ASSUME NEW n \in Nat
                 PROVE  /\ Drops(n) \in Lines /\ ~IsMsg(Drops(n))
                        /\ Drops(n).kind = "drops" /\ Drops(n).n = n
      OBVIOUS
    <2>1. Drops(n) \in Lines
      BY DEF Lines
    <2> QED BY <2>1 DEF Drops, IsMsg
  <1> QED BY <1>1, <1>2, <1>3, <1>4, <1>5

LEMMA Writes ==
    ASSUME Shapes, NEW e \in Lines, Write(e)
    PROVE  /\ out' \in [log : Seq(Lines), flushed : Nat, closed : BOOLEAN]
           /\ out'.log = Append(out.log, e) /\ out'.closed = out.closed
           /\ Len(out'.log) = Len(out.log) + 1 /\ Len(out.log) \in Nat
           /\ \A i \in 1 .. Len(out.log) : out'.log[i] = out.log[i]
           /\ out'.log[Len(out.log) + 1] = e
           /\ out.flushed <= out'.flushed /\ out'.flushed <= Len(out.log)
  <1>1. /\ out.log \in Seq(Lines) /\ Len(out.log) \in Nat /\ out.flushed \in Nat
        /\ out.flushed <= Len(out.log)
    BY LenProperties DEF Shapes
  <1>2. PICK k \in {out.flushed, Len(out.log)} :
           out' = [out EXCEPT !.log = Append(@, e), !.flushed = k]
    BY DEF Write
  <1>3. Append(out.log, e) \in Seq(Lines) /\ Len(Append(out.log, e)) = Len(out.log) + 1
    BY <1>1, AppendProperties
  <1>4. /\ out'.log = Append(out.log, e) /\ out'.closed = out.closed /\ out'.flushed = k
        /\ out' \in [log : Seq(Lines), flushed : Nat, closed : BOOLEAN]
    BY <1>1, <1>2, <1>3 DEF Shapes
  <1> QED BY <1>1, <1>2, <1>3, <1>4, AppendProperties

------------------------------------------------------------------------------
(* Types.                                                                     *)

\* Who moves, and what a step of the worker leaves alone.
LEMMA WorkLeaves ==
    ASSUME Work
    PROVE  UNCHANGED <<holder, pc, sent, expired, frozen, history, dropped, closedAt>>
  BY DEF Work, WorkerAt, StartRun, ReadClosed, StartDrain, DrainNext, EndDrain, TakeDrops,
         TellDrops, CheckClosed, FlushOutput, ghosts

LEMMA WorkShapes ==
    ASSUME Shapes, Work
    PROVE  Shapes'
  <1>1. /\ pc' = pc /\ sent' = sent /\ history' = history /\ expired' = expired
        /\ frozen' = frozen /\ dropped' = dropped /\ closedAt' = closedAt
    BY WorkLeaves
  <1>2. /\ worker \in [pc : WorkerLabels, phase : {"run", "final", "drop"}, seenClosed : BOOLEAN,
                       left : 0 .. Cap, taken : Nat]
        /\ out \in [log : Seq(Lines), flushed : Nat, closed : BOOLEAN]
        /\ closed \in BOOLEAN /\ unreported \in Nat /\ queue \in Seq(Entries)
        /\ Cap \in Nat /\ Len(queue) \in 0 .. Cap
        /\ Len(out.log) \in Nat /\ out.flushed \in Nat /\ out.flushed <= Len(out.log)
    BY LoggerAssumed, LenProperties DEF Shapes, LoggerAssumption
  <1>3. CASE StartRun
    <2>1. Write(Mark("start")) /\ Mark("start") \in Lines
      BY <1>3, Kinds DEF StartRun
    <2>2. worker' \in [pc : WorkerLabels, phase : {"run", "final", "drop"}, seenClosed : BOOLEAN,
                       left : 0 .. Cap, taken : Nat]
      BY <1>2, <1>3 DEF StartRun, WorkerLabels
    <2>3. UNCHANGED <<queue, closed, unreported>>
      BY <1>3 DEF StartRun, channel
    <2> QED BY <1>1, <2>1, <2>2, <2>3, Writes DEF Shapes
  <1>4. CASE ReadClosed
    <2>1. worker' \in [pc : WorkerLabels, phase : {"run", "final", "drop"}, seenClosed : BOOLEAN,
                       left : 0 .. Cap, taken : Nat]
      BY <1>2, <1>4 DEF ReadClosed, WorkerLabels
    <2> QED BY <1>1, <1>4, <2>1 DEF ReadClosed, Shapes, channel
  <1>5. CASE StartDrain
    <2>1. worker' \in [pc : WorkerLabels, phase : {"run", "final", "drop"}, seenClosed : BOOLEAN,
                       left : 0 .. Cap, taken : Nat]
      BY <1>2, <1>5 DEF StartDrain, WorkerLabels
    <2> QED BY <1>1, <1>5, <2>1 DEF StartDrain, Shapes, channel
  <1>6. CASE DrainNext
    <2>1. /\ queue # <<>> /\ Head(queue).state = "item" /\ worker.left > 0
          /\ queue' = Tail(queue) /\ UNCHANGED <<closed, unreported>>
      BY <1>6 DEF DrainNext, Drainable
    <2>2. /\ Tail(queue) \in Seq(Entries) /\ Len(Tail(queue)) = Len(queue) - 1
          /\ Head(queue) \in Entries
      BY <1>2, <2>1, HeadTailProperties
    <2>3. Head(queue).value \in Payloads
      BY <2>1, <2>2 DEF Entries, Open, Item
    <2>4. worker' \in [pc : WorkerLabels, phase : {"run", "final", "drop"}, seenClosed : BOOLEAN,
                       left : 0 .. Cap, taken : Nat]
      <3>1. /\ worker.left \in 1 .. Cap /\ worker.left - 1 \in 0 .. Cap
            /\ "snapshot" \in WorkerLabels
        BY <1>2, <2>1 DEF WorkerLabels
      <3>2. \/ worker' = [worker EXCEPT !.left = @ - 1]
            \/ worker' = [worker EXCEPT !.phase = "final", !.pc = "snapshot"]
        BY <1>6 DEF DrainNext
      <3> QED BY <1>2, <3>1, <3>2
    <2>5. (\E e \in Lines : Write(e)) \/ out' = out
      BY <1>6, <2>3, Kinds DEF DrainNext
    <2>6. out' \in [log : Seq(Lines), flushed : Nat, closed : BOOLEAN] /\ out'.flushed <= Len(out'.log)
      BY <1>2, <2>5, Writes
    <2> QED BY <1>1, <1>2, <2>1, <2>2, <2>4, <2>6 DEF Shapes
  <1>7. CASE EndDrain
    <2>1. worker' \in [pc : WorkerLabels, phase : {"run", "final", "drop"}, seenClosed : BOOLEAN,
                       left : 0 .. Cap, taken : Nat]
      BY <1>2, <1>7 DEF EndDrain, WorkerLabels
    <2> QED BY <1>1, <1>7, <2>1 DEF EndDrain, Shapes, channel
  <1>8. CASE TakeDrops
    <2>1. worker' \in [pc : WorkerLabels, phase : {"run", "final", "drop"}, seenClosed : BOOLEAN,
                       left : 0 .. Cap, taken : Nat]
      BY <1>2, <1>8 DEF TakeDrops, WorkerLabels
    <2> QED BY <1>1, <1>8, <2>1 DEF TakeDrops, Shapes, channel
  <1>9. CASE TellDrops
    <2>1. worker' \in [pc : WorkerLabels, phase : {"run", "final", "drop"}, seenClosed : BOOLEAN,
                       left : 0 .. Cap, taken : Nat]
      BY <1>2, <1>9 DEF TellDrops, WorkerLabels
    <2>2. (Write(Drops(worker.taken)) /\ Drops(worker.taken) \in Lines) \/ out' = out
      BY <1>2, <1>9, Kinds DEF TellDrops
    <2>3. out' \in [log : Seq(Lines), flushed : Nat, closed : BOOLEAN] /\ out'.flushed <= Len(out'.log)
      BY <1>2, <2>2, Writes
    <2> QED BY <1>1, <1>9, <2>1, <2>3 DEF TellDrops, Shapes, channel
  <1>10. CASE CheckClosed
    <2>1. worker' \in [pc : WorkerLabels, phase : {"run", "final", "drop"}, seenClosed : BOOLEAN,
                       left : 0 .. Cap, taken : Nat]
      BY <1>2, <1>10 DEF CheckClosed, WorkerLabels
    <2>2. (Write(Mark("senders_dead")) /\ Mark("senders_dead") \in Lines) \/ out' = out
      BY <1>10, Kinds DEF CheckClosed
    <2>3. out' \in [log : Seq(Lines), flushed : Nat, closed : BOOLEAN] /\ out'.flushed <= Len(out'.log)
      BY <1>2, <2>2, Writes
    <2> QED BY <1>1, <1>10, <2>1, <2>3 DEF CheckClosed, Shapes, channel
  <1>11. CASE FlushOutput
    <2>1. worker' \in [pc : WorkerLabels, phase : {"run", "final", "drop"}, seenClosed : BOOLEAN,
                       left : 0 .. Cap, taken : Nat]
      BY <1>2, <1>11 DEF FlushOutput, WorkerLabels
    <2>2. closed' \in BOOLEAN
      BY <1>2, <1>11 DEF FlushOutput
    <2>3. out' \in [log : Seq(Lines), flushed : Nat, closed : BOOLEAN] /\ out'.flushed <= Len(out'.log)
      <3>1. out' = out \/ out' = [out EXCEPT !.flushed = Len(out.log), !.closed = TRUE]
        BY <1>11 DEF FlushOutput
      <3>2. CASE out' = [out EXCEPT !.flushed = Len(out.log), !.closed = TRUE]
        <4>1. out'.log = out.log /\ out'.flushed = Len(out.log)
          BY <1>2, <3>2
        <4>2. out' \in [log : Seq(Lines), flushed : Nat, closed : BOOLEAN]
          BY <1>2, <3>2
        <4> QED BY <1>2, <4>1, <4>2
      <3> QED BY <1>2, <3>1, <3>2
    <2> QED BY <1>1, <1>11, <2>1, <2>2, <2>3 DEF FlushOutput, Shapes
  <1> QED BY <1>3, <1>4, <1>5, <1>6, <1>7, <1>8, <1>9, <1>10, <1>11 DEF Work

\* What a push puts in the channel.
LEMMA PayloadType ==
    ASSUME Shapes, Senders, NEW t \in Threads, pc[t] \in {"call", "pushing", "open"}
    PROVE  Payload(t) \in Payloads
  <1>1. CASE t \in Producers
    <2>1. sent[t] \in 0 .. MaxMsgs /\ MaxMsgs \in Nat
      BY <1>1, LoggerAssumed DEF Shapes, LoggerAssumption
    <2>2. sent[t] < MaxMsgs
      BY <1>1 DEF Senders
    <2>3. sent[t] + 1 \in 1 .. MaxMsgs
      BY <2>1, <2>2
    <2> QED BY <1>1, <2>3 DEF Payload, Payloads
  <1> QED BY <1>1 DEF Payload, Payloads

\* What the answer of a push does to the thread that made it.
LEMMA Answers ==
    ASSUME Shapes, Senders, NEW t \in Threads, pc[t] \in {"call", "pushing", "open"},
           NEW label \in Labels, Answered(t, label)
    PROVE  /\ pc' \in [Threads -> Labels] /\ sent' \in [Producers -> 0 .. MaxMsgs]
           /\ Senders'
           /\ \A u \in Threads \ {t} : pc'[u] = pc[u] /\ Payload(u)' = Payload(u)
           /\ t \in Builders => pc'[t] = label
  <1>1. Producers \cap Builders = {} /\ Threads = Producers \cup Builders /\ MaxMsgs \in Nat
    BY LoggerAssumed DEF LoggerAssumption, Threads
  <1>2. CASE t \in Producers
    <2>1. pc' = [pc EXCEPT ![t] = "idle"] /\ sent' = [sent EXCEPT ![t] = @ + 1]
      BY <1>2 DEF Answered, Goto
    <2>2. sent[t] \in 0 .. MaxMsgs /\ sent[t] < MaxMsgs
      BY <1>2 DEF Shapes, Senders
    <2>3. pc' \in [Threads -> Labels] /\ sent' \in [Producers -> 0 .. MaxMsgs]
      <3>1. sent[t] + 1 \in 0 .. MaxMsgs /\ "idle" \in Labels
        BY <1>1, <2>2 DEF Labels
      <3>2. pc \in [Threads -> Labels] /\ sent \in [Producers -> 0 .. MaxMsgs]
        BY DEF Shapes
      <3>3. pc' \in [Threads -> Labels]
        BY <2>1, <3>1, <3>2
      <3> QED BY <1>2, <2>1, <3>1, <3>2, <3>3
    <2>4. \A u \in Threads \ {t} : pc'[u] = pc[u] /\ Payload(u)' = Payload(u)
      BY <1>1, <2>1 DEF Shapes, Payload, Msg
    <2>5. Senders'
      BY <1>1, <2>1 DEF Shapes, Senders
    <2> QED BY <1>1, <1>2, <2>3, <2>4, <2>5
  <1>3. CASE t \notin Producers
    <2>1. pc' = [pc EXCEPT ![t] = label] /\ sent' = sent
      BY <1>3 DEF Answered, Goto
    <2> QED BY <1>1, <1>3, <2>1 DEF Shapes, Senders, Payload, Msg
  <1> QED BY <1>2, <1>3

\* A step that moves one thread, which is no producer or starts a call.
LEMMA Moves ==
    ASSUME Shapes, Senders, NEW t \in Threads, NEW label \in Labels, Goto(t, label),
           UNCHANGED sent,
           t \in Producers => label \in {"call", "pushing", "open"} /\ sent[t] < MaxMsgs
    PROVE  /\ pc' \in [Threads -> Labels] /\ Senders' /\ pc'[t] = label
           /\ \A u \in Threads : Payload(u)' = Payload(u)
           /\ \A u \in Threads \ {t} : pc'[u] = pc[u]
  BY DEF Goto, Shapes, Senders, Threads, Payload, Msg

LEMMA ReserveShapes ==
    ASSUME Shapes, Senders, NEW t \in Threads, Reserve(t)
    PROVE  /\ Shapes' /\ Senders'
           /\ Taken' = Taken /\ Taken \in Nat
           /\ Len(history') = Len(history) + 1 /\ Len(queue') = Len(queue) + 1
           /\ \A i \in 1 .. Len(history) : history'[i] = history[i]
           /\ history'[Len(history) + 1] = Payload(t)
           /\ \A i \in 1 .. Len(queue) : queue'[i] = queue[i]
           /\ queue'[Len(queue) + 1] = Open(t)
           /\ pc'[t] = "open"
           /\ \A u \in Threads : Payload(u)' = Payload(u)
           /\ \A u \in Threads \ {t} : pc'[u] = pc[u]
  <1>1. /\ pc[t] = "pushing" /\ Len(queue) < Cap /\ Goto(t, "open") /\ sent' = sent
        /\ queue' = Append(queue, Open(t)) /\ history' = Append(history, Payload(t))
        /\ UNCHANGED <<closed, expired, worker, out, unreported, frozen, dropped, closedAt>>
    BY DEF Reserve
  <1>2. Payload(t) \in Payloads /\ Open(t) \in Entries
    BY <1>1, PayloadType DEF Entries
  <1>3. /\ history \in Seq(Payloads) /\ queue \in Seq(Entries) /\ Cap \in Nat
        /\ Len(history) \in Nat /\ Len(queue) \in Nat /\ Len(queue) <= Len(history)
    BY LoggerAssumed, LenProperties DEF Shapes, LoggerAssumption
  <1>4. /\ history' \in Seq(Payloads) /\ Len(history') = Len(history) + 1
        /\ \A i \in 1 .. Len(history) : history'[i] = history[i]
        /\ history'[Len(history) + 1] = Payload(t)
    BY <1>1, <1>2, <1>3, AppendProperties
  <1>5. /\ queue' \in Seq(Entries) /\ Len(queue') = Len(queue) + 1
        /\ \A i \in 1 .. Len(queue) : queue'[i] = queue[i]
        /\ queue'[Len(queue) + 1] = Open(t)
    BY <1>1, <1>2, <1>3, AppendProperties
  <1>6. /\ pc' \in [Threads -> Labels] /\ Senders' /\ pc'[t] = "open"
        /\ \A u \in Threads : Payload(u)' = Payload(u)
        /\ \A u \in Threads \ {t} : pc'[u] = pc[u]
    <2>1. t \in Producers => sent[t] < MaxMsgs
      BY <1>1 DEF Senders
    <2> QED BY <1>1, <2>1, Moves DEF Labels
  <1>7. Shapes'
    BY <1>1, <1>3, <1>4, <1>5, <1>6 DEF Shapes
  <1>8. Taken' = Taken /\ Taken \in Nat
    BY <1>3, <1>4, <1>5 DEF Taken
  <1> QED BY <1>4, <1>5, <1>6, <1>7, <1>8

LEMMA PublishShapes ==
    ASSUME Shapes, Senders, NEW t \in Threads, Publish(t)
    PROVE  /\ Shapes' /\ Senders' /\ Len(queue') = Len(queue) /\ DOMAIN queue' = DOMAIN queue
           /\ \A i \in DOMAIN queue :
                 queue'[i] = IF queue[i] = Open(t) THEN Item(Payload(t)) ELSE queue[i]
           /\ \A u \in Threads \ {t} : pc'[u] = pc[u] /\ Payload(u)' = Payload(u)
           /\ t \in Builders => pc'[t] = "closing"
  <1>1. pc[t] = "open" /\ Answered(t, "closing") /\ "closing" \in Labels
    BY DEF Publish, Labels
  <1>2. /\ pc' \in [Threads -> Labels] /\ sent' \in [Producers -> 0 .. MaxMsgs] /\ Senders'
        /\ \A u \in Threads \ {t} : pc'[u] = pc[u] /\ Payload(u)' = Payload(u)
        /\ t \in Builders => pc'[t] = "closing"
    BY <1>1, Answers
  <1>3. /\ queue' = [i \in DOMAIN queue |-> IF queue[i] = Open(t) THEN Item(Payload(t))
                                           ELSE queue[i]]
        /\ UNCHANGED <<closed, expired, worker, out, unreported, frozen, history, dropped,
                       closedAt>>
    BY DEF Publish
  <1>4. /\ queue \in [1 .. Len(queue) -> Entries] /\ Len(queue) \in Nat
        /\ DOMAIN queue = 1 .. Len(queue)
    BY LenProperties DEF Shapes
  <1>5. Item(Payload(t)) \in Entries
    BY <1>1, PayloadType DEF Entries
  <1>6. queue' \in [1 .. Len(queue) -> Entries]
    BY <1>3, <1>4, <1>5
  <1>7. queue' \in Seq(Entries) /\ Len(queue') = Len(queue) /\ DOMAIN queue' = DOMAIN queue
    BY <1>4, <1>6
  <1>8. Shapes'
    BY <1>2, <1>3, <1>7 DEF Shapes
  <1> QED BY <1>2, <1>3, <1>7, <1>8

------------------------------------------------------------------------------
(* The channel.                                                               *)

\* Open entries and items are told apart, and an open entry names its thread.
LEMMA EntryKinds ==
    /\ \A t, u \in Threads : Open(t) = Open(u) => t = u
    /\ \A t \in Threads, x \in Payloads : Open(t) # Item(x) /\ Item(x) # Open(t)
    /\ \A t \in Threads : Open(t).state = "open"
    /\ \A x \in Payloads : Item(x).state = "item" /\ Item(x).value = x
  BY DEF Open, Item

\* The entries and their tickets, in the terms of Shapes.
LEMMA EntryTypes ==
    ASSUME Shapes
    PROVE  /\ Len(queue) \in Nat /\ Len(history) \in Nat /\ Taken \in Nat
           /\ Taken + Len(queue) = Len(history)
           /\ DOMAIN queue = 1 .. Len(queue) /\ DOMAIN history = 1 .. Len(history)
           /\ \A i \in DOMAIN queue : /\ queue[i] \in Entries /\ Taken + i \in DOMAIN history
                                      /\ history[Taken + i] \in Payloads
           /\ \A i \in DOMAIN history : history[i] \in Payloads
  BY LenProperties, ElementOfSeq DEF Shapes, Taken

LEMMA ReserveTickets ==
    ASSUME Shapes, Senders, Tickets, NEW t \in Threads, Reserve(t)
    PROVE  Tickets'
  <1>1. /\ Taken' = Taken
        /\ Len(history') = Len(history) + 1 /\ Len(queue') = Len(queue) + 1
        /\ \A i \in 1 .. Len(history) : history'[i] = history[i]
        /\ history'[Len(history) + 1] = Payload(t)
        /\ \A i \in 1 .. Len(queue) : queue'[i] = queue[i]
        /\ queue'[Len(queue) + 1] = Open(t)
        /\ pc'[t] = "open" /\ Shapes'
        /\ \A u \in Threads : Payload(u)' = Payload(u)
        /\ \A u \in Threads \ {t} : pc'[u] = pc[u]
    BY ReserveShapes
  <1>2. /\ Len(queue) \in Nat /\ Len(history) \in Nat /\ Taken \in Nat
        /\ Taken + Len(queue) = Len(history)
        /\ DOMAIN queue = 1 .. Len(queue) /\ DOMAIN queue' = 1 .. Len(queue) + 1
        /\ \A i \in DOMAIN queue : history[Taken + i] \in Payloads
        /\ pc[t] = "pushing"
    BY <1>1, EntryTypes, LenProperties DEF Shapes, Reserve
  <1>3. \A i \in 1 .. Len(queue) : queue[i] # Open(t)
    BY <1>2, EntryKinds DEF Tickets
  <1>4. ASSUME NEW i \in DOMAIN queue'
        PROVE  \/ queue'[i] = Item(history'[Taken + i])
               \/ \E u \in Threads : /\ queue'[i] = Open(u) /\ pc'[u] = "open"
                                     /\ history'[Taken + i] = Payload(u)'
    <2>1. CASE i = Len(queue) + 1
      BY <1>1, <1>2, <2>1
    <2>2. CASE i # Len(queue) + 1
      <3>1. /\ i \in DOMAIN queue /\ Taken + i \in 1 .. Len(history)
            /\ queue'[i] = queue[i] /\ history'[Taken + i] = history[Taken + i]
        BY <1>1, <1>2, <2>2
      <3>2. CASE queue[i] = Item(history[Taken + i])
        BY <3>1, <3>2
      <3>3. ASSUME NEW u \in Threads, queue[i] = Open(u), pc[u] = "open",
                   history[Taken + i] = Payload(u)
            PROVE  queue'[i] = Open(u) /\ pc'[u] = "open" /\ history'[Taken + i] = Payload(u)'
        BY <1>1, <1>2, <3>1, <3>3
      <3> QED BY <3>1, <3>2, <3>3 DEF Tickets
    <2> QED BY <2>1, <2>2
  <1>5. ASSUME NEW i \in DOMAIN queue', NEW j \in DOMAIN queue',
               queue'[i] = queue'[j], queue'[i].state = "open"
        PROVE  i = j
    <2>1. CASE i \in DOMAIN queue /\ j \in DOMAIN queue
      BY <1>1, <1>2, <1>5, <2>1 DEF Tickets
    <2>2. CASE i \notin DOMAIN queue \/ j \notin DOMAIN queue
      BY <1>1, <1>2, <1>3, <1>5, <2>2
    <2> QED BY <2>1, <2>2
  <1> QED BY <1>1, <1>4, <1>5 DEF Tickets

LEMMA PublishTickets ==
    ASSUME Shapes, Senders, Tickets, NEW t \in Threads, Publish(t)
    PROVE  Tickets'
  <1>1. /\ Len(queue') = Len(queue) /\ DOMAIN queue' = DOMAIN queue
        /\ \A i \in DOMAIN queue :
              queue'[i] = IF queue[i] = Open(t) THEN Item(Payload(t)) ELSE queue[i]
        /\ \A u \in Threads \ {t} : pc'[u] = pc[u] /\ Payload(u)' = Payload(u)
        /\ history' = history
    BY PublishShapes DEF Publish
  <1>2. Taken' = Taken
    BY <1>1 DEF Taken
  <1>3. pc[t] = "open" /\ Payload(t) \in Payloads
    BY PayloadType DEF Publish
  <1>4. \A i \in DOMAIN queue : history[Taken + i] \in Payloads
    BY EntryTypes
  <1>5. ASSUME NEW i \in DOMAIN queue
        PROVE  \/ queue'[i] = Item(history[Taken + i])
               \/ \E u \in Threads : /\ queue'[i] = Open(u) /\ pc'[u] = "open"
                                     /\ history[Taken + i] = Payload(u)'
    <2>1. CASE queue[i] = Item(history[Taken + i])
      BY <1>1, <1>4, <2>1, EntryKinds
    <2>2. ASSUME NEW u \in Threads, queue[i] = Open(u), pc[u] = "open",
                 history[Taken + i] = Payload(u)
          PROVE  \/ queue'[i] = Item(history[Taken + i])
                 \/ queue'[i] = Open(u) /\ pc'[u] = "open" /\ history[Taken + i] = Payload(u)'
      <3>1. CASE u = t
        BY <1>1, <2>2, <3>1
      <3>2. CASE u # t
        BY <1>1, <2>2, <3>2, EntryKinds
      <3> QED BY <3>1, <3>2
    <2> QED BY <2>1, <2>2 DEF Tickets
  <1>6. ASSUME NEW i \in DOMAIN queue, NEW j \in DOMAIN queue,
               queue'[i] = queue'[j], queue'[i].state = "open"
        PROVE  i = j
    <2>1. \A k \in DOMAIN queue : queue'[k].state = "open" => queue'[k] = queue[k]
      BY <1>1, <1>3, EntryKinds
    <2> QED BY <1>6, <2>1 DEF Tickets
  <1> QED BY <1>1, <1>2, <1>5, <1>6 DEF Tickets

\* The worker takes the oldest entry, and what it takes is what its ticket stands for.
LEMMA DrainTickets ==
    ASSUME Shapes, Tickets, DrainNext
    PROVE  /\ Tickets' /\ Taken' = Taken + 1 /\ Taken \in Nat
           /\ Taken + 1 \in DOMAIN history
           /\ history[Taken + 1] \in Payloads /\ Head(queue).value = history[Taken + 1]
  <1>1. /\ queue # <<>> /\ Head(queue).state = "item" /\ queue' = Tail(queue)
        /\ UNCHANGED <<history, pc, sent>>
    BY DEF DrainNext, Drainable, WorkerAt, ghosts
  <1>2. /\ Len(queue) \in Nat /\ Len(history) \in Nat /\ Taken \in Nat
        /\ Taken + Len(queue) = Len(history)
        /\ DOMAIN queue = 1 .. Len(queue)
        /\ \A i \in DOMAIN queue : /\ Taken + i \in DOMAIN history
                                   /\ history[Taken + i] \in Payloads
    BY EntryTypes
  <1>3. queue \in Seq(Entries)
    BY DEF Shapes
  <1>4. /\ Tail(queue) \in Seq(Entries) /\ Len(Tail(queue)) = Len(queue) - 1
        /\ \A i \in 1 .. Len(Tail(queue)) : Tail(queue)[i] = queue[i + 1]
        /\ Head(queue) = queue[1] /\ Len(queue) \in Nat \ {0}
    BY <1>1, <1>3, HeadTailProperties, EmptySeq
  <1>5. Taken' = Taken + 1
    BY <1>1, <1>2, <1>4 DEF Taken
  <1>6. DOMAIN queue' = 1 .. Len(queue) - 1
    BY <1>1, <1>4, LenProperties
  <1>7. 1 \in DOMAIN queue
    BY <1>2, <1>4
  <1>8. queue[1] = Item(history[Taken + 1])
    BY <1>1, <1>4, <1>7, EntryKinds DEF Tickets
  <1>9. \A i \in DOMAIN queue' : i + 1 \in DOMAIN queue /\ queue'[i] = queue[i + 1]
    BY <1>1, <1>2, <1>4, <1>6
  <1>10. \A u \in Threads : Payload(u)' = Payload(u)
    BY <1>1 DEF Payload
  <1>11. ASSUME NEW i \in DOMAIN queue'
         PROVE  \/ queue'[i] = Item(history'[Taken' + i])
                \/ \E u \in Threads : /\ queue'[i] = Open(u) /\ pc'[u] = "open"
                                      /\ history'[Taken' + i] = Payload(u)'
    <2>1. i \in Nat /\ Taken' + i = Taken + (i + 1)
      BY SMTT(30), <1>2, <1>4, <1>5, <1>6
    <2>2. /\ i + 1 \in DOMAIN queue /\ queue'[i] = queue[i + 1]
          /\ history'[Taken' + i] = history[Taken + (i + 1)]
      BY <1>1, <1>9, <2>1
    <2> QED BY <1>1, <1>10, <2>2 DEF Tickets
  <1>12. ASSUME NEW i \in DOMAIN queue', NEW j \in DOMAIN queue',
                queue'[i] = queue'[j], queue'[i].state = "open"
         PROVE  i = j
    BY <1>6, <1>4, <1>9, <1>12 DEF Tickets
  <1>13. Head(queue).value = history[Taken + 1]
    BY <1>2, <1>4, <1>7, <1>8, EntryKinds
  <1> QED BY <1>2, <1>5, <1>7, <1>11, <1>12, <1>13 DEF Tickets

\* Whoever is between reservation and publication stays there.
LEMMA TicketsStay ==
    ASSUME Tickets, UNCHANGED <<queue, history>>,
           \A u \in Threads : pc[u] = "open" => pc'[u] = "open" /\ Payload(u)' = Payload(u)
    PROVE  Tickets' /\ Taken' = Taken
  BY DEF Tickets, Taken

------------------------------------------------------------------------------
(* The log.                                                                   *)

\* A line that is no message leaves the messages of the log as they are.
LEMMA WriteOther ==
    ASSUME Shapes, InOrderOnce, NEW e \in Lines, ~IsMsg(e), Write(e), UNCHANGED history
    PROVE  /\ InOrderOnce'
           /\ MessageCount(out.log, Len(out.log))' = MessageCount(out.log, Len(out.log))
  <1>1. /\ out'.log = Append(out.log, e) /\ Len(out'.log) = Len(out.log) + 1
        /\ Len(out.log) \in Nat
        /\ \A i \in 1 .. Len(out.log) : out'.log[i] = out.log[i]
        /\ out'.log[Len(out.log) + 1] = e
    BY Writes
  <1>2. out.log \in Seq(Lines) /\ out'.log \in Seq(Lines)
    BY <1>1, Writes DEF Shapes
  <1>3. DOMAIN out'.log = 1 .. Len(out.log) + 1 /\ DOMAIN out.log = 1 .. Len(out.log)
    BY <1>1, <1>2, LenProperties
  <1>4. \A k \in Int : k <= Len(out.log) => MessageCount(out'.log, k) = MessageCount(out.log, k)
    BY <1>1, <1>2, CountPrefix
  <1>5. MessageCount(out'.log, Len(out'.log)) = MessageCount(out.log, Len(out.log))
    BY <1>1, <1>2, CountAppend, MessagesFinite
  <1>6. ASSUME NEW i \in DOMAIN out'.log, IsMsg(out'.log[i])
        PROVE  \E j \in DOMAIN history : /\ history[j] = out'.log[i]
                                         /\ MessageCount(history, j) = MessageCount(out'.log, i)
    <2>1. i \in DOMAIN out.log /\ out'.log[i] = out.log[i]
      BY <1>1, <1>3, <1>6
    <2>2. MessageCount(out'.log, i) = MessageCount(out.log, i)
      BY <1>3, <1>4, <2>1
    <2> QED BY <1>6, <2>1, <2>2 DEF InOrderOnce
  <1> QED BY <1>5, <1>6 DEF InOrderOnce

LEMMA ReserveWriting ==
    ASSUME Shapes, Senders, Writing, NEW t \in Threads, Reserve(t)
    PROVE  Writing'
  <1>1. /\ history' = Append(history, Payload(t)) /\ out' = out
        /\ Payload(t) \in Payloads /\ history \in Seq(Payloads)
    BY PayloadType DEF Reserve, Shapes
  <1>2. /\ Taken' = Taken /\ Taken \in Nat /\ Taken <= Len(history)
        /\ Len(history') = Len(history) + 1 /\ Len(history) \in Nat
        /\ \A i \in 1 .. Len(history) : history'[i] = history[i]
    BY ReserveShapes, EntryTypes
  <1>3. DOMAIN history = 1 .. Len(history) /\ DOMAIN history' = 1 .. Len(history) + 1
    BY <1>1, <1>2, AppendProperties, LenProperties
  <1>4. \A k \in Int : k <= Len(history) => MessageCount(history', k) = MessageCount(history, k)
    BY <1>1, CountPrefix
  <1>5. MessageCount(history', Taken') = MessageCount(out.log, Len(out.log))
    BY <1>2, <1>4 DEF Writing
  <1>6. ASSUME NEW i \in DOMAIN out.log, IsMsg(out.log[i])
        PROVE  \E j \in DOMAIN history' : /\ history'[j] = out.log[i]
                                          /\ MessageCount(history', j) = MessageCount(out.log, i)
    <2>1. PICK j \in DOMAIN history : /\ history[j] = out.log[i]
                                      /\ MessageCount(history, j) = MessageCount(out.log, i)
      BY <1>6 DEF Writing, InOrderOnce
    <2>2. /\ j \in DOMAIN history' /\ history'[j] = history[j]
          /\ MessageCount(history', j) = MessageCount(history, j)
      BY <1>2, <1>3, <1>4
    <2> QED BY <2>1, <2>2
  <1> QED BY <1>1, <1>5, <1>6 DEF Writing, InOrderOnce

\* A step of the worker that takes no ticket and writes at most a mark or a report.
LEMMA WritingStays ==
    ASSUME Shapes, Writing, UNCHANGED history, Taken' = Taken,
           \/ UNCHANGED out
           \/ \E e \in Lines : ~IsMsg(e) /\ Write(e)
           \/ out'.log = out.log
    PROVE  Writing'
  <1>1. CASE out'.log = out.log
    BY <1>1 DEF Writing, InOrderOnce
  <1>2. ASSUME NEW e \in Lines, ~IsMsg(e), Write(e) PROVE Writing'
    <2>1. /\ InOrderOnce'
          /\ MessageCount(out.log, Len(out.log))' = MessageCount(out.log, Len(out.log))
      BY <1>2, WriteOther DEF Writing
    <2> QED BY <2>1 DEF Writing
  <1> QED BY <1>1, <1>2

LEMMA DrainWriting ==
    ASSUME Shapes, Tickets, Writing, DrainNext
    PROVE  Writing'
  <1> DEFINE e == Head(queue).value
  <1>1. /\ Taken' = Taken + 1 /\ Taken \in Nat /\ Taken + 1 \in DOMAIN history
        /\ e \in Payloads /\ e = history[Taken + 1]
    BY DrainTickets
  <1>2. history' = history
    BY DEF DrainNext, WorkerAt, ghosts
  <1>3. MessageCount(history, Taken + 1) =
           MessageCount(history, Taken) + IF IsMsg(e) THEN 1 ELSE 0
    BY <1>1, CountNext
  <1>4. MessageCount(history, Taken) = MessageCount(out.log, Len(out.log)) /\ InOrderOnce
    BY DEF Writing
  <1>5. MessageCount(history, Taken) \in Nat
    BY <1>1, MessagesFinite
  <1>6. CASE IsMsg(e) /\ Write(e)
    <2>1. e \in Lines
      BY <1>1, <1>6, Kinds
    <2>2. /\ out'.log = Append(out.log, e) /\ Len(out'.log) = Len(out.log) + 1
          /\ Len(out.log) \in Nat
          /\ \A i \in 1 .. Len(out.log) : out'.log[i] = out.log[i]
          /\ out'.log[Len(out.log) + 1] = e
      BY <1>6, <2>1, Writes
    <2>3. out.log \in Seq(Lines) /\ out'.log \in Seq(Lines)
      BY <1>6, <2>1, Writes DEF Shapes
    <2>4. DOMAIN out'.log = 1 .. Len(out.log) + 1 /\ DOMAIN out.log = 1 .. Len(out.log)
      BY <2>2, <2>3, LenProperties
    <2>5. MessageCount(out'.log, Len(out'.log)) = MessageCount(history, Taken + 1)
      BY <1>3, <1>4, <1>6, <2>1, <2>2, <2>3, CountAppend
    <2>6. ASSUME NEW i \in DOMAIN out'.log, IsMsg(out'.log[i])
          PROVE  \E j \in DOMAIN history :
                    /\ history[j] = out'.log[i]
                    /\ MessageCount(history, j) = MessageCount(out'.log, i)
      <3>1. CASE i = Len(out.log) + 1
        BY <1>1, <2>2, <2>5, <3>1
      <3>2. CASE i # Len(out.log) + 1
        <4>1. i \in DOMAIN out.log /\ i <= Len(out.log) /\ out'.log[i] = out.log[i] /\ i \in Int
          BY <2>2, <2>4, <3>2
        <4>2. MessageCount(out'.log, i) = MessageCount(out.log, i)
          BY <2>1, <2>2, <2>3, <4>1, CountPrefix
        <4> QED BY <1>4, <2>6, <4>1, <4>2 DEF InOrderOnce
      <3> QED BY <3>1, <3>2
    <2> QED BY <1>1, <1>2, <2>5, <2>6 DEF Writing, InOrderOnce
  <1>7. CASE ~IsMsg(e) /\ (Write(Mark("shutdown")) \/ UNCHANGED out)
    <2>1. MessageCount(history, Taken + 1) = MessageCount(out.log, Len(out.log))
      BY <1>3, <1>4, <1>5, <1>7
    <2>2. CASE UNCHANGED out
      BY <1>1, <1>2, <1>4, <2>1, <2>2 DEF Writing, InOrderOnce
    <2>3. CASE Write(Mark("shutdown"))
      <3>1. /\ InOrderOnce'
            /\ MessageCount(out.log, Len(out.log))' = MessageCount(out.log, Len(out.log))
        BY <1>2, <1>4, <2>3, WriteOther, Kinds
      <3> QED BY <1>1, <1>2, <2>1, <3>1 DEF Writing
    <2> QED BY <1>7, <2>2, <2>3
  <1>8. \/ IsMsg(e) /\ Write(e)
        \/ ~IsMsg(e) /\ (Write(Mark("shutdown")) \/ UNCHANGED out)
    BY <1>1, Kinds DEF DrainNext
  <1> QED BY <1>6, <1>7, <1>8

------------------------------------------------------------------------------
(* The end of the logger, as its callers see it.                              *)

\* The tickets owed, for a history and a close().
OwedOf(h, c) ==
    LET orders == {i \in DOMAIN h : h[i] = Order}
    IN  IF orders # {} THEN CHOOSE i \in orders : \A j \in orders : i <= j
        ELSE IF c = None THEN 0 ELSE c

\* With an order, they are those up to it; without one, those the close() found.
LEMMA OwedIs ==
    ASSUME NEW h, NEW n \in Nat, DOMAIN h = 1 .. n, NEW c
    PROVE  /\ \A i \in DOMAIN h :
                 h[i] = Order /\ (\A j \in DOMAIN h : h[j] = Order => j = i) => OwedOf(h, c) = i
           /\ (\A i \in DOMAIN h : h[i] # Order) => OwedOf(h, c) = IF c = None THEN 0 ELSE c
  <1>1. ASSUME NEW i \in DOMAIN h, h[i] = Order, \A j \in DOMAIN h : h[j] = Order => j = i
        PROVE  OwedOf(h, c) = i
    <2>1. {j \in DOMAIN h : h[j] = Order} = {i}
      BY <1>1
    <2>2. OwedOf(h, c) = CHOOSE j \in {i} : \A k \in {i} : j <= k
      BY <2>1 DEF OwedOf
    <2> QED BY <2>2
  <1>2. ASSUME \A i \in DOMAIN h : h[i] # Order
        PROVE  OwedOf(h, c) = IF c = None THEN 0 ELSE c
    <2>1. {j \in DOMAIN h : h[j] = Order} = {}
      BY <1>2
    <2> QED BY <2>1 DEF OwedOf
  <1> QED BY <1>1, <1>2

LEMMA OwedOrder ==
    ASSUME Shapes, Orders, NEW i \in DOMAIN history, history[i] = Order
    PROVE  Owed = i
  <1>1. Owed = OwedOf(history, closedAt)
    BY DEF Owed, OwedOf
  <1> QED BY <1>1, OwedIs, EntryTypes DEF Orders

LEMMA OwedClosed ==
    ASSUME Shapes, ~HasOrder(Len(history))
    PROVE  Owed = IF closedAt = None THEN 0 ELSE closedAt
  <1>1. Owed = OwedOf(history, closedAt)
    BY DEF Owed, OwedOf
  <1> QED BY <1>1, OwedIs, EntryTypes DEF HasOrder

\* A step that changes no part of the system but the place of a thread, other than the
\* holder's, or the holder's along the way to the end.
LEMMA MoveEnds ==
    ASSUME Shapes, Ending, NEW t \in Threads, NEW label \in Labels,
           pc' = [pc EXCEPT ![t] = label],
           UNCHANGED <<holder, history, closed, worker, out, closedAt>>,
           Len(queue') = Len(queue),
           t = holder /\ t \in Builders =>
               /\ pc[t] \in Owning \ {"claimed"} /\ label \in Owning \ {"claimed"}
               /\ pc[t] \in {"joining", "done"} => label \in {"joining", "done"}
               /\ pc[t] \in {"open", "closing"} => label \in {"open", "closing", "joining", "done"}
    PROVE  Ending'
  <1>1. Builders \subseteq Threads
    BY DEF Threads
  <1>2. pc \in [Threads -> Labels]
    BY DEF Shapes
  <1>3. Taken' = Taken /\ Owed' = Owed /\ \A k \in Int : HasOrder(k)' = HasOrder(k)
    BY DEF Taken, Owed, HasOrder
  <1>4. /\ holder \in Builders /\ pc[holder] \in {"joining", "done"} =>
              pc'[holder] \in {"joining", "done"}
        /\ holder \in Builders /\ pc[holder] \in {"open", "closing", "joining", "done"} =>
              pc'[holder] \in {"open", "closing", "joining", "done"}
        /\ holder \in Builders /\ pc[holder] \in Owning \ {"claimed"} =>
              pc'[holder] \in Owning \ {"claimed"}
        /\ holder \in Builders /\ pc[holder] = "failed" => pc'[holder] = "failed"
    BY <1>1, <1>2 DEF Owning
  <1>5. Len(history) \in Int /\ Taken \in Int
    BY EntryTypes
  <1>6. Orders'
    BY <1>3, <1>4, <1>5 DEF Ending, Orders
  <1>7. Owner'
    BY <1>3, <1>4 DEF Ending, Owner
  <1>8. Gone => Gone'
    <2>1. Gone => holder \in Builders
      BY LoggerAssumed, <1>5 DEF Ending, Owner, Gone, LoggerAssumption
    <2> QED BY <2>1, <1>3, <1>4, <1>5 DEF Gone
  <1>9. Phases'
    BY <1>3, <1>5, <1>8 DEF Ending, Phases
  <1>10. Paid'
    BY <1>3 DEF Ending, Paid
  <1> QED BY <1>6, <1>7, <1>9, <1>10 DEF Ending

LEMMA ReserveEnds ==
    ASSUME IndInv, Shapes, Senders, Ending, NEW t \in Threads, Reserve(t)
    PROVE  Ending'
  <1>1. /\ Taken' = Taken /\ Taken \in Nat /\ Taken <= Len(history)
        /\ Len(history') = Len(history) + 1 /\ Len(history) \in Nat
        /\ \A i \in 1 .. Len(history) : history'[i] = history[i]
        /\ history'[Len(history) + 1] = Payload(t)
        /\ pc[t] = "pushing" /\ pc'[t] = "open" /\ Shapes'
        /\ \A u \in Threads \ {t} : pc'[u] = pc[u]
    BY ReserveShapes, EntryTypes DEF Reserve
  <1>2. DOMAIN history = 1 .. Len(history) /\ DOMAIN history' = 1 .. Len(history) + 1
    BY <1>1, LenProperties DEF Shapes
  <1>3. UNCHANGED <<holder, closed, worker, out, closedAt>>
    BY DEF Reserve
  <1>4. Payload(t) = Order => t \in Builders /\ t = holder
    BY <1>1 DEF Payload, Msg, Order, Threads, IndInv, OneWorker
  <1>5. t \in Builders => t = holder /\ ~HasOrder(Len(history)) /\ closedAt = None
    BY <1>1 DEF IndInv, OneWorker, Ending, Orders, Owner
  <1>6. \A k \in 0 .. Len(history) : HasOrder(k)' = HasOrder(k)
    BY <1>1, <1>2 DEF HasOrder
  <1>7. holder \in Builders /\ holder # t => pc'[holder] = pc[holder]
    <2>1. \A u \in Threads \ {t} : pc'[u] = pc[u]
      BY <1>1
    <2> QED BY <2>1 DEF Threads
  <1>8. HasOrder(Len(history))' = HasOrder(Len(history)) \/ (t \in Builders /\ t = holder)
    BY <1>1, <1>2, <1>4 DEF HasOrder
  <1>9. Orders'
    <2>1. CASE t \in Builders
      <3>1. \A i \in DOMAIN history : history[i] # Order
        BY <1>2, <1>5, <2>1 DEF HasOrder
      <3> QED BY <1>1, <1>2, <1>3, <1>5, <2>1, <3>1 DEF Orders
    <2>2. CASE t \notin Builders
      <3>1. history'[Len(history) + 1] # Order
        BY <1>1, <1>4, <2>2
      <3>2. HasOrder(Len(history))' = HasOrder(Len(history))
        BY <1>8, <2>2
      <3> QED BY <1>1, <1>2, <1>3, <1>7, <2>2, <3>1, <3>2 DEF Ending, Orders
    <2> QED BY <2>1, <2>2
  <1>10. Owner'
    <2>1. CASE holder = t /\ t \in Builders
      <3>1. pc'[holder] = "open" /\ pc[holder] = "pushing" /\ closedAt' = None
        BY <1>1, <1>3, <1>5, <2>1
      <3> QED BY <1>3, <1>5, <2>1, <3>1 DEF Ending, Owner, Owning
    <2>2. CASE ~(holder = t /\ t \in Builders)
      <3>1. holder \in Builders => pc'[holder] = pc[holder]
        BY <1>7, <2>2
      <3>2. closedAt # None => closedAt \in Nat
        BY DEF Shapes
      <3> QED BY <1>1, <1>3, <3>1, <3>2 DEF Ending, Owner
    <2> QED BY <2>1, <2>2
  <1>11. Gone => Gone' /\ closedAt # None /\ holder \in Builders /\ ~HasOrder(Len(history))
    <2>1. Gone => closedAt # None /\ holder \in Builders /\ t \notin Builders
      BY <1>1, <1>5, LoggerAssumed DEF Gone, Ending, Owner, LoggerAssumption
    <2> QED BY <1>1, <1>3, <1>7, <1>8, <2>1 DEF Gone
  <1>12. Phases'
    BY <1>1, <1>3, <1>6, <1>11 DEF Ending, Phases
  <1>13. Paid'
    <2>1. SUFFICES ASSUME out.closed PROVE Paid'
      BY <1>3 DEF Paid
    <2>2. /\ worker.phase # "run" /\ (HasOrder(Taken) \/ Gone)
          /\ MessageCount(history, Owed) <= MessageCount(out.log, out.flushed)
      BY <2>1 DEF Ending, Paid, Phases
    <2>3. Owed' = Owed /\ Owed \in Nat /\ Owed <= Len(history)
      <3>1. CASE HasOrder(Taken)
        <4>1. PICK i \in 1 .. Taken : i \in DOMAIN history /\ history[i] = Order
          BY <3>1 DEF HasOrder
        <4>2. i \in DOMAIN history' /\ history'[i] = Order
          BY <1>1, <1>2, <4>1
        <4>3. Owed = i
          BY <4>1, OwedOrder DEF Ending
        <4>4. Owed' = OwedOf(history', closedAt')
          BY DEF Owed, OwedOf
        <4>5. \A j \in DOMAIN history' : history'[j] = Order => j = i
          BY <1>9, <4>2 DEF Orders
        <4>6. Owed' = i
          BY SMTT(30), <1>1, <1>2, <4>2, <4>4, <4>5, OwedIs
        <4> QED BY <1>1, <4>1, <4>3, <4>6
      <3>2. CASE Gone
        <4>1. closedAt # None /\ ~HasOrder(Len(history)) /\ closedAt \in 0 .. Taken
          BY <1>11, <3>2 DEF Gone
        <4>2. ~HasOrder(Len(history))'
          BY <1>11, <3>2 DEF Gone
        <4>3. Owed = closedAt
          BY <4>1, OwedClosed
        <4>4. Owed' = OwedOf(history', closedAt')
          BY DEF Owed, OwedOf
        <4>5. \A j \in DOMAIN history' : history'[j] # Order
          BY <1>1, <1>2, <4>2 DEF HasOrder
        <4>6. Owed' = closedAt
          BY <1>1, <1>2, <1>3, <4>1, <4>4, <4>5, OwedIs
        <4> QED BY <1>1, <4>1, <4>3, <4>6
      <3> QED BY <2>2, <3>1, <3>2
    <2>4. MessageCount(history', Owed) = MessageCount(history, Owed)
      <3>1. history' = Append(history, Payload(t)) /\ Payload(t) \in Payloads
        BY PayloadType DEF Reserve
      <3> QED BY <2>3, <3>1, CountPrefix DEF Shapes
    <2>5. MessageCount(history', Owed') <= MessageCount(out.log, out.flushed)
      BY <2>2, <2>3, <2>4
    <2> QED BY <1>3, <2>2, <2>5 DEF Paid
  <1> QED BY <1>9, <1>10, <1>12, <1>13 DEF Ending

\* Nothing has happened yet when the OnceLock is set.
LEMMA ClaimEnds ==
    ASSUME IndInv, Shapes, Ending, NEW b \in Builders, Claim(b)
    PROVE  Ending'
  <1>1. UNCHANGED <<history, queue, closed, worker, out, closedAt>>
    BY DEF Claim, Building, ghosts
  <1>2. CASE holder # None
    <2>1. pc' = [pc EXCEPT ![b] = "refused"] /\ holder' = holder /\ pc[b] = "opened"
      BY <1>2 DEF Claim, Goto
    <2>2. CASE b # holder
      BY <1>1, <2>1, <2>2, MoveEnds DEF Labels, Threads
    <2>3. CASE b = holder
      <3>1. /\ worker.pc = "off" /\ closedAt = None /\ ~HasOrder(Len(history))
            /\ closed = FALSE /\ worker.seenClosed = FALSE
        BY <2>1, <2>3 DEF Ending, Owner, Orders, Owning, Shapes
      <3>2. ~Gone /\ ~Gone'
        BY <1>1, <3>1, LoggerAssumed, EntryTypes DEF Gone, LoggerAssumption
      <3> QED BY <1>1, <3>1, <3>2 DEF Ending, Orders, Owner, Phases, Paid, HasOrder, Taken, Owed
    <2> QED BY <2>2, <2>3
  <1>3. CASE holder = None
    <2>1. /\ worker.pc = "off" /\ closedAt = None /\ ~HasOrder(Len(history))
          /\ closed = FALSE /\ worker.seenClosed = FALSE
      BY <1>3, LoggerAssumed DEF Ending, Owner, Orders, Shapes, LoggerAssumption
    <2>2. ~Gone /\ ~Gone'
      BY <1>1, <2>1, LoggerAssumed, EntryTypes DEF Gone, LoggerAssumption
    <2> QED BY <1>1, <2>1, <2>2 DEF Ending, Orders, Owner, Phases, Paid, HasOrder, Taken, Owed
  <1> QED BY <1>2, <1>3

LEMMA SpawnEnds ==
    ASSUME IndInv, Shapes, Ending, NEW b \in Builders, Spawn(b)
    PROVE  Ending'
  <1>1. UNCHANGED <<history, queue, out, closedAt, holder>>
    BY DEF Spawn, Building, ghosts
  <1>2. pc[b] = "claimed" /\ holder = b
    BY DEF Spawn, IndInv, OneWorker
  <1>3. /\ worker.pc = "off" /\ closedAt = None /\ ~HasOrder(Len(history))
        /\ closed = FALSE /\ worker.seenClosed = FALSE /\ worker.phase = "run"
    BY <1>2 DEF Ending, Owner, Orders, Phases, Owning, Shapes
  <1>4. ~Gone /\ ~Gone'
    BY <1>1, <1>3, LoggerAssumed, EntryTypes DEF Gone, LoggerAssumption
  <1>5. /\ HasOrder(Len(history))' = HasOrder(Len(history)) /\ HasOrder(Taken)' = HasOrder(Taken)
        /\ Owed' = Owed
    BY <1>1 DEF HasOrder, Taken, Owed
  <1>6. CASE /\ pc' = [pc EXCEPT ![b] = "handle"] /\ worker' = [worker EXCEPT !.pc = "start"]
             /\ closed' = closed
    <2>1. pc'[b] = "handle"
      BY <1>6 DEF Shapes, Threads
    <2>2. /\ worker'.pc = "start" /\ worker'.phase = "run" /\ worker'.seenClosed = FALSE
      BY <1>3, <1>6 DEF Shapes
    <2>3. Orders' /\ Owner'
      BY <1>1, <1>2, <1>3, <1>5, <1>6, <2>1, <2>2 DEF Ending, Orders, Owner, Owning
    <2>4. Phases' /\ Paid'
      BY <1>1, <1>3, <1>4, <1>5, <2>2 DEF Ending, Phases, Paid
    <2> QED BY <2>3, <2>4 DEF Ending
  <1>7. CASE /\ pc' = [pc EXCEPT ![b] = "failed"] /\ worker' = worker /\ closed' = TRUE
    <2>1. pc'[b] = "failed"
      BY <1>7 DEF Shapes, Threads
    <2>2. Orders' /\ Owner'
      BY <1>1, <1>2, <1>3, <1>5, <1>7, <2>1 DEF Ending, Orders, Owner
    <2>3. Phases' /\ Paid'
      BY <1>1, <1>3, <1>4, <1>5, <1>7 DEF Ending, Phases, Paid
    <2> QED BY <2>2, <2>3 DEF Ending
  <1> QED BY <1>6, <1>7 DEF Spawn, Goto

\* Nobody but the holder closes, and it closes once.
LEMMA CloseEnds ==
    ASSUME IndInv, Shapes, Ending, NEW b \in Builders, Close(b)
    PROVE  Ending'
  <1>1. UNCHANGED <<history, queue, out, holder, worker>> /\ closedAt' = Len(history) /\ closed' = TRUE
    BY DEF Close
  <1>2. pc[b] \in {"closing", "detaching"} /\ holder = b
    BY DEF Close, IndInv, OneWorker
  <1>3. closedAt = None /\ closedAt' # None /\ Len(history) \in Nat /\ Taken \in Nat
    BY <1>1, <1>2, EntryTypes, LoggerAssumed DEF Ending, Owner, LoggerAssumption
  <1>4. PICK label \in {"joining", "done"} : pc' = [pc EXCEPT ![b] = label]
    BY DEF Close, Goto
  <1>5. pc'[b] = label
    BY <1>4 DEF Shapes, Threads
  <1>6. ~Gone
    BY <1>3, LoggerAssumed DEF Gone, LoggerAssumption
  <1>7. /\ \A k \in Int : HasOrder(k)' = HasOrder(k)
        /\ Taken' = Taken /\ Len(history') = Len(history)
    BY <1>1 DEF HasOrder, Taken
  <1>8. Orders'
    BY <1>1, <1>2, <1>3, <1>5, <1>7 DEF Ending, Orders
  <1>9. Owner'
    BY <1>1, <1>2, <1>3, <1>5, <1>7 DEF Ending, Owner, Owning
  <1>10. Phases'
    BY <1>1, <1>3, <1>6, <1>7 DEF Ending, Phases
  <1>11. Paid'
    <2>1. SUFFICES ASSUME out.closed PROVE Paid'
      BY <1>1 DEF Paid
    <2>2. /\ worker.phase # "run" /\ HasOrder(Taken)
          /\ MessageCount(history, Owed) <= MessageCount(out.log, out.flushed)
      BY <1>6, <2>1 DEF Ending, Paid, Phases
    <2>3. PICK i \in DOMAIN history : history[i] = Order
      BY <2>2 DEF HasOrder
    <2>4. Owed = i
      BY <2>3, OwedOrder DEF Ending
    <2>5. Owed' = i
      <3>1. \A j \in DOMAIN history : history[j] = Order => j = i
        BY <2>3 DEF Ending, Orders
      <3>2. Owed' = OwedOf(history, closedAt')
        BY <1>1 DEF Owed, OwedOf
      <3>3. DOMAIN history = 1 .. Len(history)
        BY EntryTypes
      <3> QED BY <1>3, <2>3, <3>1, <3>2, <3>3, OwedIs
    <2> QED BY <1>1, <2>2, <2>4, <2>5 DEF Paid
  <1> QED BY <1>8, <1>9, <1>10, <1>11 DEF Ending

------------------------------------------------------------------------------
(* The end of the logger, as the worker sees it.                              *)

\* What the log gains does not take away what was flushed.
LEMMA WriteKeepsPaid ==
    ASSUME Shapes, NEW e \in Lines, Write(e), NEW k \in Int,
           k <= MessageCount(out.log, out.flushed)
    PROVE  k <= MessageCount(out'.log, out'.flushed)
  <1>1. /\ out.log \in Seq(Lines) /\ out'.log = Append(out.log, e)
        /\ out.flushed <= out'.flushed /\ out'.flushed <= Len(out.log)
        /\ out.flushed \in Nat /\ out'.flushed \in Nat
    BY Writes DEF Shapes
  <1>2. MessageCount(out'.log, out'.flushed) = MessageCount(out.log, out'.flushed)
    BY <1>1, CountPrefix
  <1>3. MessageCount(out.log, out.flushed) <= MessageCount(out.log, out'.flushed)
    BY <1>1, CountGrows
  <1> QED BY <1>1, <1>2, <1>3, MessagesFinite

\* A step of the worker that stays in its phase.
LEMMA SamePhase ==
    ASSUME Shapes, Ending, UNCHANGED <<holder, pc, history, closedAt, closed>>,
           UNCHANGED out \/ \E e \in Lines : e # Mark("senders_dead") /\ Write(e),
           Taken' \in Nat, Taken <= Taken', Taken' <= Len(history),
           worker.phase = "run" => ~HasOrder(Taken'),
           worker'.phase = worker.phase, worker'.seenClosed => closed,
           worker.pc # "off", worker.pc # "ended", worker'.pc \notin {"off", "ended"},
           worker'.pc \in {"start", "test", "check"} => worker.phase = "run",
           worker'.pc = "flush" => worker.phase # "run"
    PROVE  Ending'
  <1>1. Owed' = Owed /\ \A k \in Int : HasOrder(k)' = HasOrder(k)
    BY DEF Owed, HasOrder
  <1>2. Len(history) \in Nat /\ Taken \in Nat
    BY EntryTypes
  <1>3. HasOrder(Taken) => HasOrder(Taken)'
    BY <1>2 DEF HasOrder
  <1>4. HasOrder(Taken)' = HasOrder(Taken')
    BY DEF HasOrder
  <1>5. Gone => Gone'
    BY <1>1, <1>2 DEF Gone
  <1>6. (\E i \in DOMAIN out'.log : out'.log[i] = Mark("senders_dead")) =>
           \E i \in DOMAIN out.log : out.log[i] = Mark("senders_dead")
    <2>1. CASE UNCHANGED out
      BY <2>1
    <2>2. ASSUME NEW e \in Lines, e # Mark("senders_dead"), Write(e),
                 NEW i \in DOMAIN out'.log, out'.log[i] = Mark("senders_dead")
          PROVE  i \in DOMAIN out.log /\ out.log[i] = Mark("senders_dead")
      <3>1. /\ DOMAIN out'.log = 1 .. Len(out.log) + 1 /\ DOMAIN out.log = 1 .. Len(out.log)
            /\ Len(out.log) \in Nat
        BY <2>2, Writes, LenProperties DEF Shapes
      <3>2. /\ \A j \in 1 .. Len(out.log) : out'.log[j] = out.log[j]
            /\ out'.log[Len(out.log) + 1] = e
        BY <2>2, Writes
      <3> QED BY <2>2, <3>1, <3>2
    <2> QED BY <2>1, <2>2
  <1>7. out'.closed = out.closed
    BY Writes
  <1>8. Orders'
    BY <1>1, <1>2 DEF Ending, Orders
  <1>9. Owner'
    BY DEF Ending, Owner
  <1>10. Phases'
    BY <1>3, <1>4, <1>5, <1>6, <1>7 DEF Ending, Phases
  <1>11. Paid'
    <2>1. SUFFICES ASSUME out.closed PROVE Paid'
      BY <1>7 DEF Paid
    <2>2. /\ worker.phase # "run" /\ UNCHANGED history
          /\ MessageCount(history, Owed) <= MessageCount(out.log, out.flushed)
      BY <2>1 DEF Ending, Paid
    <2>3. Owed \in Int
      <3>1. CASE \E i \in DOMAIN history : history[i] = Order
        BY <3>1, OwedOrder, EntryTypes DEF Ending
      <3>2. CASE ~\E i \in DOMAIN history : history[i] = Order
        <4>1. Owed = IF closedAt = None THEN 0 ELSE closedAt
          BY <3>2, OwedClosed DEF HasOrder
        <4> QED BY <4>1 DEF Shapes
      <3> QED BY <3>1, <3>2
    <2>4. MessageCount(history, Owed) \in Int
      BY <2>3, MessagesFinite
    <2>5. MessageCount(history, Owed) <= MessageCount(out'.log, out'.flushed)
      BY <2>2, <2>4, WriteKeepsPaid
    <2> QED BY <1>1, <2>2, <2>5 DEF Paid
  <1> QED BY <1>8, <1>9, <1>10, <1>11 DEF Ending

\* The worker leaves its loop: on an order it takes, or on a closed channel read to its end.
LEMMA LeavesLoop ==
    ASSUME Shapes, Ending, UNCHANGED <<holder, pc, history, closedAt, closed>>,
           worker.phase = "run", worker.pc # "off",
           worker' = [worker EXCEPT !.phase = "final", !.pc = "snapshot"],
           \/ Write(Mark("shutdown")) /\ HasOrder(Taken')
           \/ Write(Mark("senders_dead")) /\ Gone'
    PROVE  Ending'
  <1>1. Owed' = Owed /\ \A k \in Int : HasOrder(k)' = HasOrder(k)
    BY DEF Owed, HasOrder
  <1>2. Len(history) \in Nat
    BY EntryTypes
  <1>3. HasOrder(Taken)' = HasOrder(Taken')
    BY DEF HasOrder
  <1>4. /\ worker'.phase = "final" /\ worker'.pc = "snapshot"
        /\ worker'.seenClosed = worker.seenClosed
    BY DEF Shapes
  <1>5. ~out.closed /\ ~\E i \in DOMAIN out.log : out.log[i] = Mark("senders_dead")
    BY DEF Ending, Phases, Paid
  <1>6. PICK what \in {"shutdown", "senders_dead"} :
           Write(Mark(what)) /\ (what = "shutdown" => HasOrder(Taken'))
                             /\ (what = "senders_dead" => Gone')
    OBVIOUS
  <1>7. Mark(what) \in Lines
    BY Kinds
  <1>8. /\ out'.closed = out.closed
        /\ out'.log = Append(out.log, Mark(what)) /\ out.log \in Seq(Lines)
        /\ out'.log[Len(out.log) + 1] = Mark(what) /\ Len(out.log) \in Nat
        /\ \A i \in 1 .. Len(out.log) : out'.log[i] = out.log[i]
        /\ out'.log \in Seq(Lines) /\ Len(out'.log) = Len(out.log) + 1
    BY <1>6, <1>7, Writes DEF Shapes
  <1>9. DOMAIN out'.log = 1 .. Len(out.log) + 1 /\ DOMAIN out.log = 1 .. Len(out.log)
    BY <1>8, LenProperties
  <1>10. (\E i \in DOMAIN out'.log : out'.log[i] = Mark("senders_dead")) => Gone'
    <2>1. ASSUME NEW i \in DOMAIN out'.log, out'.log[i] = Mark("senders_dead")
          PROVE  what = "senders_dead"
      <3>1. i = Len(out.log) + 1
        BY <1>5, <1>8, <1>9, <2>1
      <3> QED BY <1>8, <2>1, <3>1 DEF Mark
    <2> QED BY <1>6, <2>1
  <1>11. Orders'
    BY <1>1, <1>2 DEF Ending, Orders
  <1>12. Owner'
    <2>1. worker.pc # "ended"
      BY DEF Ending, Phases
    <2> QED BY <1>4, <2>1 DEF Ending, Owner
  <1>13. Phases'
    BY <1>3, <1>4, <1>5, <1>6, <1>8, <1>10 DEF Phases
  <1>14. Paid'
    BY <1>5, <1>8 DEF Paid
  <1> QED BY <1>11, <1>12, <1>13, <1>14 DEF Ending

LEMMA DrainEnds ==
    ASSUME Shapes, Tickets, Ending, DrainNext
    PROVE  Ending'
  <1>1. /\ Taken' = Taken + 1 /\ Taken \in Nat /\ Taken + 1 \in DOMAIN history
        /\ history[Taken + 1] \in Payloads /\ Head(queue).value = history[Taken + 1]
    BY DrainTickets
  <1>2. /\ UNCHANGED <<holder, pc, history, closedAt, closed>>
        /\ worker.pc = "drain"
    BY DEF DrainNext, WorkerAt, ghosts
  <1>3. DOMAIN history = 1 .. Len(history) /\ Len(history) \in Nat
    BY EntryTypes
  <1>4. CASE /\ IsMsg(history[Taken + 1]) /\ Write(history[Taken + 1])
             /\ worker' = [worker EXCEPT !.left = @ - 1]
    <2>1. history[Taken + 1] \in Lines /\ history[Taken + 1] # Order
      BY <1>1, <1>4, Kinds
    <2>2. history[Taken + 1] # Mark("senders_dead")
      BY <1>4, Kinds
    <2>3. worker.phase = "run" => ~HasOrder(Taken')
      BY <1>1, <1>3, <2>1 DEF Ending, Phases, HasOrder
    <2>4. /\ worker'.phase = worker.phase /\ worker'.pc = worker.pc
          /\ worker'.seenClosed = worker.seenClosed
      BY <1>4 DEF Shapes
    <2>5. worker'.seenClosed => closed
      BY <2>4 DEF Ending, Owner
    <2> QED BY <1>1, <1>2, <1>3, <1>4, <2>1, <2>2, <2>3, <2>4, <2>5, SamePhase
  <1>5. CASE /\ history[Taken + 1] = Order /\ worker.phase = "run" /\ Write(Mark("shutdown"))
             /\ worker' = [worker EXCEPT !.phase = "final", !.pc = "snapshot"]
    <2>1. HasOrder(Taken')
      BY <1>1, <1>5 DEF HasOrder
    <2> QED BY <1>2, <1>5, <2>1, LeavesLoop
  <1>6. CASE /\ history[Taken + 1] = Order /\ worker.phase # "run" /\ UNCHANGED out
             /\ worker' = [worker EXCEPT !.left = @ - 1]
    <2>1. /\ worker'.phase = worker.phase /\ worker'.pc = worker.pc
          /\ worker'.seenClosed = worker.seenClosed
      BY <1>6 DEF Shapes
    <2>2. worker'.seenClosed => closed
      BY <2>1 DEF Ending, Owner
    <2> QED BY <1>1, <1>2, <1>3, <1>6, <2>1, <2>2, SamePhase
  <1> QED BY <1>1, <1>4, <1>5, <1>6 DEF DrainNext

LEMMA CheckEnds ==
    ASSUME Shapes, Ending, CheckClosed
    PROVE  Ending'
  <1>1. /\ UNCHANGED <<holder, pc, history, closedAt, closed, queue>>
        /\ worker.pc = "check" /\ worker.phase = "run"
    BY DEF CheckClosed, WorkerAt, ghosts, channel, Ending, Phases
  <1>2. Taken' = Taken /\ Taken \in Nat /\ Len(history) \in Nat /\ Taken <= Len(history)
    BY <1>1, EntryTypes DEF Taken
  <1>3. CASE /\ worker.seenClosed /\ queue = <<>> /\ Write(Mark("senders_dead"))
             /\ worker' = [worker EXCEPT !.phase = "final", !.pc = "snapshot"]
    <2>1. Taken = Len(history)
      BY <1>2, <1>3, EntryTypes DEF Taken
    <2>2. closedAt # None
      BY <1>1, <1>3 DEF Ending, Owner
    <2>3. closedAt \in 0 .. Taken /\ pc[holder] \in {"joining", "done"}
      BY <2>1, <2>2 DEF Ending, Owner, Shapes
    <2>4. ~HasOrder(Len(history))
      BY <1>1, <2>1 DEF Ending, Phases
    <2>5. Gone'
      BY <1>1, <1>2, <2>3, <2>4 DEF Gone, HasOrder
    <2> QED BY <1>1, <1>3, <2>5, LeavesLoop
  <1>4. CASE UNCHANGED out /\ worker' = [worker EXCEPT !.pc = "test"]
    <2>1. /\ worker'.phase = worker.phase /\ worker'.pc = "test"
          /\ worker'.seenClosed = worker.seenClosed
      BY <1>4 DEF Shapes
    <2>2. worker'.seenClosed => closed
      BY <2>1 DEF Ending, Owner
    <2>3. ~HasOrder(Taken')
      BY <1>1, <1>2 DEF Ending, Phases
    <2> QED BY <1>1, <1>2, <1>4, <2>1, <2>2, <2>3, SamePhase
  <1> QED BY <1>3, <1>4 DEF CheckClosed

\* What the worker owes has a ticket it has taken.
LEMMA OwedIsTaken ==
    ASSUME Shapes, Ending, worker.phase # "run"
    PROVE  Owed \in Int /\ Owed <= Taken
  <1>1. CASE HasOrder(Taken)
    <2>1. PICK i \in 1 .. Taken : i \in DOMAIN history /\ history[i] = Order
      BY <1>1 DEF HasOrder
    <2> QED BY <2>1, OwedOrder, EntryTypes DEF Ending
  <1>2. CASE Gone
    BY <1>2, OwedClosed, EntryTypes, LoggerAssumed DEF Gone, LoggerAssumption
  <1> QED BY <1>1, <1>2 DEF Ending, Phases

LEMMA FlushEnds ==
    ASSUME Shapes, Writing, Ending, FlushOutput
    PROVE  Ending'
  <1>1. /\ UNCHANGED <<holder, pc, history, closedAt, queue>>
        /\ worker.pc = "flush" /\ worker.phase # "run"
    BY DEF FlushOutput, WorkerAt, ghosts, Ending, Phases
  <1>2. /\ Taken' = Taken /\ Owed' = Owed /\ \A k \in Int : HasOrder(k)' = HasOrder(k)
        /\ Taken \in Nat /\ Len(history) \in Nat
    BY <1>1, EntryTypes DEF Taken, Owed, HasOrder
  <1>3. Gone' = Gone
    BY <1>1, <1>2 DEF Gone
  <1>4. out'.log = out.log /\ out'.closed = TRUE
    BY DEF FlushOutput, Shapes
  <1>5. MessageCount(history, Owed) <= MessageCount(out'.log, out'.flushed)
    <2>1. CASE out.closed
      <3>1. out' = out
        BY <2>1 DEF FlushOutput
      <3> QED BY <2>1, <3>1 DEF Ending, Paid
    <2>2. CASE ~out.closed
      <3>1. out'.flushed = Len(out.log)
        BY <2>2 DEF FlushOutput, Shapes
      <3>2. Owed \in Int /\ Owed <= Taken
        BY <1>1, OwedIsTaken
      <3>3. MessageCount(history, Owed) <= MessageCount(history, Taken)
        BY <1>2, <3>2, CountGrows
      <3> QED BY <1>4, <3>1, <3>3 DEF Writing
    <2> QED BY <2>1, <2>2
  <1>6. CASE worker.phase = "final" /\ UNCHANGED closed
             /\ worker' = [worker EXCEPT !.phase = "drop", !.pc = "snapshot"]
    <2>1. /\ worker'.phase = "drop" /\ worker'.pc = "snapshot"
          /\ worker'.seenClosed = worker.seenClosed
      BY <1>6 DEF Shapes
    <2>2. Orders'
      BY <1>1, <1>2 DEF Ending, Orders
    <2>3. Owner'
      BY <1>1, <1>6, <2>1 DEF Ending, Owner
    <2>4. Phases' /\ Paid'
      BY <1>1, <1>2, <1>3, <1>4, <1>5, <2>1 DEF Ending, Phases, Paid
    <2> QED BY <2>2, <2>3, <2>4 DEF Ending
  <1>7. CASE worker.phase = "drop" /\ closed' = TRUE /\ worker' = [worker EXCEPT !.pc = "ended"]
    <2>1. worker'.phase = "drop" /\ worker'.pc = "ended"
      BY <1>7 DEF Shapes
    <2>2. Orders'
      BY <1>1, <1>2 DEF Ending, Orders
    <2>3. Owner'
      BY <1>1, <1>7, <2>1 DEF Ending, Owner
    <2>4. Phases' /\ Paid'
      BY <1>1, <1>2, <1>3, <1>4, <1>5, <2>1 DEF Ending, Phases, Paid
    <2> QED BY <2>2, <2>3, <2>4 DEF Ending
  <1> QED BY <1>6, <1>7 DEF FlushOutput

\* The other steps of the worker stay in their phase.
LEMMA QuietEnds ==
    ASSUME Shapes, Ending, StartRun \/ ReadClosed \/ StartDrain \/ EndDrain \/ TakeDrops \/ TellDrops
    PROVE  Ending'
  <1>1. /\ UNCHANGED <<holder, pc, history, closedAt, closed, queue>>
        /\ worker.pc \notin {"off", "ended"}
    BY DEF StartRun, ReadClosed, StartDrain, EndDrain, TakeDrops, TellDrops, WorkerAt, ghosts,
           channel
  <1>2. Taken' = Taken /\ Taken \in Nat /\ Len(history) \in Nat /\ Taken <= Len(history)
    BY <1>1, EntryTypes DEF Taken
  <1>3. worker.phase = "run" => ~HasOrder(Taken')
    BY <1>2 DEF Ending, Phases
  <1>4. worker.pc \in {"start", "test"} => worker.phase = "run"
    BY DEF Ending, Phases
  <1>5. /\ worker'.phase = worker.phase
        /\ worker'.pc \in {"test", "snapshot", "drain", "report", "tell", "check", "flush"}
        /\ worker'.pc \in {"test", "check"} => worker.phase = "run"
        /\ worker'.pc = "flush" => worker.phase # "run"
    BY <1>4 DEF StartRun, ReadClosed, StartDrain, EndDrain, TakeDrops, TellDrops, WorkerAt, Shapes
  <1>6. worker'.seenClosed => closed
    <2>1. worker'.seenClosed = worker.seenClosed \/ worker'.seenClosed = closed
      BY DEF StartRun, ReadClosed, StartDrain, EndDrain, TakeDrops, TellDrops, WorkerAt, Shapes
    <2> QED BY <2>1 DEF Ending, Owner
  <1>7. UNCHANGED out \/ \E e \in Lines : e # Mark("senders_dead") /\ Write(e)
    <2>1. \/ UNCHANGED out \/ Write(Mark("start"))
          \/ worker.taken \in Nat /\ Write(Drops(worker.taken))
      BY DEF StartRun, ReadClosed, StartDrain, EndDrain, TakeDrops, TellDrops, Shapes
    <2>2. Mark("start") \in Lines /\ Mark("start") # Mark("senders_dead")
      BY Kinds DEF Mark
    <2>3. worker.taken \in Nat =>
             Drops(worker.taken) \in Lines /\ Drops(worker.taken) # Mark("senders_dead")
      BY Kinds
    <2> QED BY <2>1, <2>2, <2>3
  <1> QED BY <1>1, <1>2, <1>3, <1>5, <1>6, <1>7, SamePhase

LEMMA WorkEnds ==
    ASSUME Shapes, Tickets, Writing, Ending, Work
    PROVE  Ending'
  BY CheckEnds, FlushEnds, QuietEnds, DrainEnds DEF Work

------------------------------------------------------------------------------
(* The reports.                                                               *)

\* A line adds to what is reported what it reports itself.
LEMMA ReportedGrows ==
    ASSUME Shapes, IsFiniteSet(Reported), NEW e \in Lines, Write(e)
    PROVE  /\ IsFiniteSet(Reported') /\ Cardinality(Reported) \in Nat
           /\ Cardinality(Reported') =
                 Cardinality(Reported) + IF e.kind = "drops" THEN e.n ELSE 0
  <1> DEFINE top == Len(out.log) + 1
             of(log, i) == {i} \X (1 .. log[i].n)
             kinds(log) == {j \in DOMAIN log : log[j].kind = "drops"}
             new == {top} \X (1 .. e.n)
  <1>1. /\ out'.log = Append(out.log, e) /\ out.log \in Seq(Lines) /\ out'.log \in Seq(Lines)
        /\ Len(out'.log) = top /\ Len(out.log) \in Nat /\ out'.log[top] = e
        /\ \A i \in 1 .. Len(out.log) : out'.log[i] = out.log[i]
    BY Writes DEF Shapes
  <1>2. DOMAIN out.log = 1 .. Len(out.log) /\ DOMAIN out'.log = 1 .. top
    BY <1>1, LenProperties
  <1>3. /\ Reported = UNION {of(out.log, i) : i \in kinds(out.log)}
        /\ Reported' = UNION {of(out'.log, i) : i \in kinds(out'.log)}
    BY DEF Reported
  <1>4. \A i \in kinds(out.log) : of(out'.log, i) = of(out.log, i)
    BY <1>1, <1>2
  <1>5. CASE e.kind # "drops"
    <2>1. kinds(out'.log) = kinds(out.log)
      BY <1>1, <1>2, <1>5
    <2>2. Reported' = Reported
      BY <1>3, <1>4, <2>1
    <2> QED BY <1>5, <2>2, FS_CardinalityType
  <1>6. CASE e.kind = "drops"
    <2>1. kinds(out'.log) = kinds(out.log) \cup {top} /\ top \notin kinds(out.log)
      BY <1>1, <1>2, <1>6
    <2>2. of(out'.log, top) = new
      BY <1>1
    <2>3. Reported' = Reported \cup new
      <3> HIDE DEF of, kinds, new
      <3> QED BY <1>3, <1>4, <2>1, <2>2
    <2>4. Reported \cap new = {}
      BY <1>3, <2>1
    <2>5. e.n \in Nat
      BY <1>6 DEF Lines, Drops, Msg, Mark
    <2>6. IsFiniteSet(1 .. e.n) /\ Cardinality(1 .. e.n) = e.n
      <3>1. PICK k \in Nat : k = e.n
        BY <2>5
      <3>2. IsFiniteSet(1 .. k) /\ Cardinality(1 .. k) = IF 1 > k THEN 0 ELSE k - 1 + 1
        BY FS_Interval
      <3> QED BY <3>1, <3>2
    <2>7. IsFiniteSet({top}) /\ Cardinality({top}) = 1
      BY FS_Singleton
    <2>8. IsFiniteSet(new) /\ Cardinality(new) = e.n
      <3>1. IsFiniteSet(new) /\ Cardinality(new) = Cardinality({top}) * Cardinality(1 .. e.n)
        <4> HIDE DEF top
        <4> QED BY <2>6, <2>7, FS_Product
      <3>2. 1 * e.n = e.n
        BY <2>5
      <3> QED BY <2>6, <2>7, <3>1, <3>2
    <2>9. /\ IsFiniteSet(Reported \cup new)
          /\ Cardinality(Reported \cup new) =
                Cardinality(Reported) + Cardinality(new) - Cardinality(Reported \cap new)
      BY <2>8, FS_Union
    <2>10. Cardinality({}) = 0 /\ Cardinality(Reported) \in Nat
      BY FS_EmptySet, FS_CardinalityType
    <2> HIDE DEF new
    <2>11. Cardinality(Reported \cup new) = Cardinality(Reported) + e.n
      <3>1. Cardinality(Reported \cap new) = 0
        BY <2>4, <2>10
      <3>2. Cardinality(new) = e.n
        BY <2>8
      <3>3. Cardinality(Reported \cup new) = Cardinality(Reported) + e.n - 0
        BY <2>9, <3>1, <3>2
      <3> QED BY <2>5, <2>10, <3>3
    <2> QED BY <1>6, <2>3, <2>9, <2>10, <2>11
  <1> QED BY <1>5, <1>6

\* A step of the worker that writes at most a line which reports nothing.
LEMMA ReportsStay ==
    ASSUME Shapes, Reports, UNCHANGED <<dropped, unreported>>,
           \/ UNCHANGED out \/ out'.log = out.log
           \/ \E e \in Lines : e.kind # "drops" /\ Write(e),
           worker.pc # "tell", worker'.taken = worker.taken
    PROVE  Reports'
  <1>1. IsFiniteSet(Reported') /\ Cardinality(Reported') = Cardinality(Reported)
    <2>1. CASE out'.log = out.log
      BY <2>1 DEF Reported, Reports
    <2>2. ASSUME NEW e \in Lines, e.kind # "drops", Write(e)
          PROVE  IsFiniteSet(Reported') /\ Cardinality(Reported') = Cardinality(Reported)
      BY <2>2, ReportedGrows DEF Reports
    <2> QED BY <2>1, <2>2
  <1>2. ReportedDrops = Cardinality(Reported) /\ ReportedDrops' = Cardinality(Reported')
    BY DEF Reported, ReportedDrops
  <1>3. worker.taken = 0
    BY DEF Reports
  <1> QED BY <1>1, <1>2, <1>3 DEF Reports, DropsReportedOnce

LEMMA WorkReports ==
    ASSUME Shapes, Tickets, Reports, Work
    PROVE  Reports'
  <1>1. dropped' = dropped
    BY WorkLeaves
  <1>2. worker.taken \in Nat /\ unreported \in Nat /\ dropped \in Nat
    BY DEF Shapes
  <1>3. ReportedDrops = Cardinality(Reported) /\ ReportedDrops' = Cardinality(Reported')
    BY DEF Reported, ReportedDrops
  <1>4. CASE StartRun \/ ReadClosed \/ StartDrain \/ EndDrain \/ CheckClosed \/ FlushOutput
    <2>1. unreported' = unreported /\ worker'.taken = worker.taken /\ worker.pc # "tell"
      BY <1>4 DEF StartRun, ReadClosed, StartDrain, EndDrain, CheckClosed, FlushOutput, WorkerAt,
                  Shapes
    <2>2. \/ UNCHANGED out \/ out'.log = out.log
          \/ Write(Mark("start")) \/ Write(Mark("senders_dead"))
      BY <1>4 DEF StartRun, ReadClosed, StartDrain, EndDrain, CheckClosed, FlushOutput, Shapes
    <2> QED BY <1>1, <2>1, <2>2, Kinds, ReportsStay
  <1>5. CASE DrainNext
    <2>1. Head(queue).value \in Payloads
      BY <1>5, DrainTickets
    <2>2. unreported' = unreported /\ worker'.taken = worker.taken /\ worker.pc # "tell"
      BY <1>5 DEF DrainNext, WorkerAt, Shapes
    <2>3. IsMsg(Head(queue).value) => Head(queue).value \in Lines /\ Head(queue).value.kind # "drops"
      BY <2>1, Kinds DEF IsMsg
    <2>4. \/ UNCHANGED out \/ Write(Mark("shutdown"))
          \/ IsMsg(Head(queue).value) /\ Write(Head(queue).value)
      BY <1>5 DEF DrainNext
    <2> QED BY <1>1, <2>2, <2>3, <2>4, Kinds, ReportsStay
  <1>6. CASE TakeDrops
    <2>1. /\ worker.pc = "report" /\ unreported' = 0 /\ worker'.taken = unreported
          /\ worker'.pc = "tell" /\ out' = out
      BY <1>6 DEF TakeDrops, WorkerAt, Shapes, channel
    <2>2. Reported' = Reported
      BY <2>1 DEF Reported
    <2> QED BY <1>1, <1>2, <1>3, <2>1, <2>2 DEF Reports, DropsReportedOnce
  <1>7. CASE TellDrops
    <2>1. /\ unreported' = unreported /\ worker'.taken = 0
          /\ IF worker.taken > 0 THEN Write(Drops(worker.taken)) ELSE UNCHANGED out
      BY <1>7 DEF TellDrops, WorkerAt, Shapes
    <2>2. /\ IsFiniteSet(Reported')
          /\ Cardinality(Reported') = Cardinality(Reported) + worker.taken
      <3>1. CASE worker.taken > 0
        BY <1>2, <2>1, <3>1, Kinds, ReportedGrows DEF Reports
      <3>2. CASE ~(worker.taken > 0)
        <4>1. Reported' = Reported /\ worker.taken = 0
          BY <1>2, <2>1, <3>2 DEF Reported
        <4> QED BY <4>1, FS_CardinalityType DEF Reports
      <3> QED BY <3>1, <3>2
    <2>3. Cardinality(Reported) \in Nat
      BY FS_CardinalityType DEF Reports
    <2> QED BY <1>1, <1>2, <1>3, <2>1, <2>2, <2>3 DEF Reports, DropsReportedOnce
  <1> QED BY <1>4, <1>5, <1>6, <1>7 DEF Work

------------------------------------------------------------------------------
(* Every step.                                                                *)

LEMMA InitLogInv == Init => LogInv
  <1> SUFFICES ASSUME Init PROVE LogInv
    OBVIOUS
  <1>1. /\ history = <<>> /\ queue = <<>> /\ out = [log |-> <<>>, flushed |-> 0, closed |-> FALSE]
        /\ worker = [pc |-> "off", phase |-> "run", seenClosed |-> FALSE, left |-> 0, taken |-> 0]
        /\ closedAt = None /\ closed = FALSE /\ dropped = 0 /\ unreported = 0
        /\ \A t \in Threads : pc[t] = "idle"
    BY DEF Init
  <1>2. /\ \A S : <<>> \in Seq(S)
        /\ Len(<<>>) = 0 /\ DOMAIN <<>> = {}
    OBVIOUS
  <1>3. Cap \in Nat \ {0} /\ MaxMsgs \in Nat /\ None \notin Nat \cup Builders
    BY LoggerAssumed DEF LoggerAssumption
  <1>4. IndInv
    BY InitIndInv
  <1>5. Shapes
    <2>1. /\ pc \in [Threads -> Labels] /\ expired \in BOOLEAN /\ frozen \in BOOLEAN
      BY DEF Init, Labels
    <2>4. sent \in [Producers -> 0 .. MaxMsgs]
      <3>1. sent = [p \in Producers |-> 0] /\ 0 \in 0 .. MaxMsgs
        BY <1>3 DEF Init
      <3> QED BY <3>1
    <2>5. /\ history \in Seq(Payloads) /\ queue \in Seq(Entries) /\ Len(queue) <= Len(history)
          /\ Len(queue) <= Cap /\ closed \in BOOLEAN
          /\ unreported \in Nat /\ dropped \in Nat /\ closedAt \in Nat \cup {None}
      <3>1. <<>> \in Seq(Payloads) /\ <<>> \in Seq(Entries) /\ Len(<<>>) <= Cap
        BY <1>3, EmptySeq
      <3>2. history = <<>> /\ queue = <<>>
        BY <1>1
      <3>3. history \in Seq(Payloads) /\ queue \in Seq(Entries) /\ Len(queue) <= Cap
        BY <3>1, <3>2
      <3>4. Len(queue) <= Len(history)
        BY <1>2, <3>2
      <3>5. /\ closed \in BOOLEAN /\ unreported \in Nat /\ dropped \in Nat
            /\ closedAt \in Nat \cup {None}
        BY <1>1
      <3> QED BY <3>3, <3>4, <3>5
    <2>2. worker \in [pc : WorkerLabels, phase : {"run", "final", "drop"}, seenClosed : BOOLEAN,
                      left : 0 .. Cap, taken : Nat]
      BY <1>1, <1>3 DEF WorkerLabels
    <2>3. out \in [log : Seq(Lines), flushed : Nat, closed : BOOLEAN] /\ out.flushed <= Len(out.log)
      BY <1>1, <1>2
    <2> QED BY <2>1, <2>2, <2>3, <2>4, <2>5 DEF Shapes
  <1>6. Senders
    BY <1>1 DEF Senders, Threads
  <1>7. Tickets
    BY <1>1, <1>2 DEF Tickets
  <1>8. Writing
    <2>1. out.log = <<>> /\ Taken = 0
      BY <1>1, <1>2 DEF Taken
    <2> QED BY <1>1, <1>2, <2>1 DEF Writing, InOrderOnce
  <1>9. \A k : ~HasOrder(k)
    BY <1>1, <1>2 DEF HasOrder
  <1>10. Ending
    BY <1>1, <1>2, <1>9 DEF Ending, Orders, Owner, Phases, Paid
  <1>11. Reports
    <2>1. {j \in DOMAIN out.log : out.log[j].kind = "drops"} = {}
      BY <1>1, <1>2
    <2>2. Reported = {}
      BY <2>1 DEF Reported
    <2>3. ReportedDrops = Cardinality(Reported)
      BY DEF Reported, ReportedDrops
    <2> QED BY <1>1, <2>2, <2>3, FS_EmptySet DEF Reports, DropsReportedOnce
  <1> QED BY <1>4, <1>5, <1>6, <1>7, <1>8, <1>10, <1>11 DEF LogInv, Ending

\* A push.
LEMMA PushLogInv ==
    ASSUME LogInv, NEW t \in Threads, Push(t)
    PROVE  LogInv'
  <1>1. IndInv'
    BY PushKeeps DEF LogInv
  <1>2. /\ IndInv /\ Shapes /\ Senders /\ Tickets /\ Writing /\ Ending /\ Reports
    BY DEF LogInv, Ending
  <1>3. CASE Reserve(t)
    <2>1. Shapes' /\ Senders' /\ Tickets' /\ Writing' /\ Ending'
      BY <1>2, <1>3, ReserveShapes, ReserveTickets, ReserveWriting, ReserveEnds
    <2>2. Reports'
      BY <1>2, <1>3 DEF Reserve, Reports, Reported, DropsReportedOnce, ReportedDrops
    <2> QED BY <1>1, <2>1, <2>2 DEF LogInv, Ending
  <1>4. CASE TestClosed(t) \/ Full(t) \/ Publish(t)
    <2>1. /\ pc[t] \in {"call", "pushing", "open"}
          /\ UNCHANGED <<holder, history, closed, expired, worker, out, frozen, closedAt>>
      BY <1>4 DEF TestClosed, Full, Publish, channel, ghosts
    <2>2. \/ Goto(t, "pushing") /\ UNCHANGED sent /\ pc[t] = "call"
          \/ \E label \in {"closing", "detaching", "call"} :
                /\ Answered(t, label)
                /\ pc[t] = "open" => label = "closing"
      BY <1>4 DEF TestClosed, Full, Publish
    <2>3. /\ pc' \in [Threads -> Labels] /\ sent' \in [Producers -> 0 .. MaxMsgs] /\ Senders'
          /\ \A u \in Threads \ {t} : pc'[u] = pc[u] /\ Payload(u)' = Payload(u)
      <3>1. CASE Goto(t, "pushing") /\ UNCHANGED sent /\ pc[t] = "call"
        <4>1. t \in Producers => sent[t] < MaxMsgs
          BY <1>2, <3>1 DEF Senders
        <4> QED BY <1>2, <3>1, <4>1, Moves DEF Labels, Shapes
      <3>2. ASSUME NEW label \in {"closing", "detaching", "call"}, Answered(t, label)
            PROVE  /\ pc' \in [Threads -> Labels] /\ sent' \in [Producers -> 0 .. MaxMsgs]
                   /\ Senders'
                   /\ \A u \in Threads \ {t} : pc'[u] = pc[u] /\ Payload(u)' = Payload(u)
        BY <1>2, <2>1, <3>2, Answers DEF Labels
      <3> QED BY <2>2, <3>1, <3>2
    <2>4. Shapes' /\ Tickets' /\ Len(queue') = Len(queue) /\ Taken' = Taken
      <3>1. CASE Publish(t)
        <4>1. Shapes' /\ Tickets' /\ Len(queue') = Len(queue)
          BY <1>2, <3>1, PublishShapes, PublishTickets
        <4> QED BY <2>1, <4>1 DEF Taken
      <3>2. CASE TestClosed(t) \/ Full(t)
        <4>1. UNCHANGED queue /\ pc[t] # "open"
          BY <3>2 DEF TestClosed, Full, channel
        <4>2. Tickets' /\ Taken' = Taken
          BY <1>2, <2>1, <2>3, <4>1, TicketsStay
        <4>3. dropped' \in Nat /\ unreported' \in Nat
          BY <1>2, <3>2 DEF TestClosed, Full, Shapes, ghosts
        <4> QED BY <1>2, <2>1, <2>3, <4>1, <4>2, <4>3 DEF Shapes
      <3> QED BY <1>4, <3>1, <3>2
    <2>5. Writing'
      BY <1>2, <2>1, <2>4, WritingStays
    <2>6. Ending'
      <3>1. PICK label \in {"pushing", "closing", "detaching", "call", "idle"} :
               /\ pc' = [pc EXCEPT ![t] = label]
               /\ label = "idle" => t \in Producers
               /\ pc[t] = "open" /\ t \in Builders => label = "closing"
        BY <2>2, LoggerAssumed DEF Answered, Goto, LoggerAssumption
      <3>2. label \in Labels
        BY DEF Labels
      <3>3. t \in Builders => label \in Owning \ {"claimed"} /\ pc[t] \in Owning \ {"claimed"}
        BY <2>1, <3>1, LoggerAssumed DEF Owning, LoggerAssumption
      <3> QED BY <1>2, <2>1, <2>4, <3>1, <3>2, <3>3, MoveEnds
    <2>7. Reports'
      <3>1. dropped' - dropped = unreported' - unreported
        BY <1>2, <1>4 DEF TestClosed, Full, Publish, ghosts, Shapes
      <3>2. /\ dropped \in Nat /\ unreported \in Nat /\ dropped' \in Nat /\ unreported' \in Nat
            /\ worker.taken \in Nat
        BY <1>2, <2>4 DEF Shapes
      <3>3. Reported' = Reported /\ ReportedDrops' = ReportedDrops
        BY <2>1 DEF Reported, ReportedDrops
      <3>4. ReportedDrops \in Nat
        BY <1>2, FS_CardinalityType DEF Reports, Reported, ReportedDrops
      <3> QED BY <1>2, <2>1, <3>1, <3>2, <3>3, <3>4 DEF Reports, DropsReportedOnce
    <2> QED BY <1>1, <2>3, <2>4, <2>5, <2>6, <2>7 DEF LogInv, Ending
  <1> QED BY <1>3, <1>4 DEF Push

\* A step of a builder or an owner outside its push.
LEMMA BuilderLogInv ==
    ASSUME LogInv, NEW b \in Builders, Build(b) \/ StartShutdown(b) \/ Stop(b)
    PROVE  LogInv'
  <1>1. IndInv'
    <2>1. Next
      BY DEF Next
    <2> QED BY <2>1, NextIndInv DEF LogInv
  <1>2. IndInv /\ Shapes /\ Senders /\ Tickets /\ Writing /\ Ending /\ Reports
    BY DEF LogInv, Ending
  <1>3. b \in Threads /\ b \notin Producers
    BY LoggerAssumed DEF Threads, LoggerAssumption
  <1>4. UNCHANGED <<sent, history, queue, out, dropped, unreported, expired, frozen>>
    BY DEF Build, CheckInitialized, OpenFile, Claim, Spawn, StartShutdown, Stop, Close, Join,
           Building, channel, ghosts
  <1>5. \E label \in Labels : Goto(b, label)
    BY DEF Build, CheckInitialized, OpenFile, Claim, Spawn, StartShutdown, Stop, Close, Join, Labels
  <1>6. /\ pc' \in [Threads -> Labels] /\ Senders'
        /\ \A u \in Threads : Payload(u)' = Payload(u)
        /\ \A u \in Threads \ {b} : pc'[u] = pc[u]
    BY <1>2, <1>3, <1>4, <1>5, Moves
  <1>7. pc[b] # "open"
    BY DEF Build, CheckInitialized, OpenFile, Claim, Spawn, StartShutdown, Stop, Close, Join
  <1>8. Tickets' /\ Taken' = Taken
    BY <1>2, <1>4, <1>6, <1>7, TicketsStay
  <1>9. Writing'
    BY <1>2, <1>4, <1>8, WritingStays
  <1>10. Shapes'
    <2>1. /\ closed' \in BOOLEAN /\ closedAt' \in Nat \cup {None}
      BY <1>2, EntryTypes DEF Build, CheckInitialized, OpenFile, Claim, Spawn, StartShutdown, Stop,
         Close, Join, Building, channel, ghosts, Shapes
    <2>2. worker' = worker \/ worker' = [worker EXCEPT !.pc = "start"]
      BY DEF Build, CheckInitialized, OpenFile, Claim, Spawn, StartShutdown, Stop, Close, Join
    <2>3. worker' \in [pc : WorkerLabels, phase : {"run", "final", "drop"}, seenClosed : BOOLEAN,
                       left : 0 .. Cap, taken : Nat]
      BY <1>2, <2>2 DEF Shapes, WorkerLabels
    <2> QED BY <1>2, <1>4, <1>6, <2>1, <2>3 DEF Shapes
  <1>11. Reports'
    <2>1. Reported' = Reported /\ ReportedDrops' = ReportedDrops
      BY <1>4 DEF Reported, ReportedDrops
    <2>2. worker'.taken = worker.taken /\ (worker'.pc = worker.pc \/ worker.pc # "tell")
      BY <1>2 DEF Build, CheckInitialized, OpenFile, Claim, Spawn, StartShutdown, Stop, Close, Join,
         Ending, Owner, IndInv, OneWorker, Owning, Shapes
    <2> QED BY <1>2, <1>4, <2>1, <2>2 DEF Reports, DropsReportedOnce
  <1>12. Ending'
    <2>1. CASE Claim(b) \/ Spawn(b) \/ Close(b)
      BY <1>2, <2>1, ClaimEnds, SpawnEnds, CloseEnds
    <2>2. CASE CheckInitialized(b) \/ OpenFile(b)
      <3>1. PICK label \in {"opening", "refused", "opened", "failed"} :
               pc' = [pc EXCEPT ![b] = label]
        BY <2>2 DEF CheckInitialized, OpenFile, Goto
      <3>2. /\ pc[b] \in {"idle", "opening"}
            /\ UNCHANGED <<holder, history, closed, worker, out, closedAt, queue>>
        BY <2>2 DEF CheckInitialized, OpenFile, Building, ghosts
      <3>3. CASE b # holder
        BY <1>2, <1>3, <3>1, <3>2, <3>3, MoveEnds DEF Labels
      <3>4. CASE b = holder
        <4>1. /\ worker.pc = "off" /\ closedAt = None /\ ~HasOrder(Len(history))
              /\ closed = FALSE /\ worker.seenClosed = FALSE
          BY <1>2, <3>2, <3>4 DEF Ending, Owner, Orders, Owning, Shapes
        <4>2. ~Gone /\ ~Gone'
          BY <3>2, <4>1, LoggerAssumed, <1>2, EntryTypes DEF Gone, LoggerAssumption
        <4> QED BY <1>2, <3>2, <4>1, <4>2
                DEF Ending, Orders, Owner, Phases, Paid, HasOrder, Taken, Owed
      <3> QED BY <3>3, <3>4
    <2>3. CASE StartShutdown(b)
      <3>1. /\ pc[b] = "handle" /\ pc' = [pc EXCEPT ![b] = "call"]
            /\ UNCHANGED <<holder, history, closed, worker, out, closedAt, queue>>
        BY <2>3 DEF StartShutdown, Goto, channel, ghosts
      <3> QED BY <1>2, <1>3, <3>1, MoveEnds DEF Labels, Owning
    <2>4. CASE Join(b)
      <3>1. /\ pc[b] = "joining" /\ pc' = [pc EXCEPT ![b] = "done"]
            /\ UNCHANGED <<holder, history, closed, worker, out, closedAt, queue>>
        BY <2>4 DEF Join, Goto, channel, ghosts
      <3> QED BY <1>2, <1>3, <3>1, MoveEnds DEF Labels, Owning
    <2> QED BY <2>1, <2>2, <2>3, <2>4 DEF Build, Stop
  <1> QED BY <1>1, <1>6, <1>8, <1>9, <1>10, <1>11, <1>12 DEF LogInv, Ending

\* A call, or a step that touches nothing the invariant speaks of.
LEMMA OtherLogInv ==
    ASSUME LogInv, (\E p \in Producers : Log(p)) \/ Timeout \/ Freeze \/ UNCHANGED vars
    PROVE  LogInv'
  <1>1. IndInv'
    <2>1. [Next]_vars
      BY DEF Next
    <2> QED BY <2>1, NextIndInv DEF LogInv
  <1>2. IndInv /\ Shapes /\ Senders /\ Tickets /\ Writing /\ Ending /\ Reports
    BY DEF LogInv, Ending
  <1>3. /\ UNCHANGED <<holder, sent, history, queue, closed, worker, out, dropped, unreported,
                       closedAt>>
        /\ expired' \in BOOLEAN /\ frozen' \in BOOLEAN
    BY <1>2 DEF Log, Timeout, Freeze, vars, channel, ghosts, Shapes
  <1>4. Reports'
    BY <1>2, <1>3 DEF Reports, Reported, DropsReportedOnce, ReportedDrops
  <1>5. CASE UNCHANGED pc
    <2>1. Shapes' /\ Senders'
      BY <1>2, <1>3, <1>5 DEF Shapes, Senders
    <2>2. Tickets' /\ Writing'
      BY <1>2, <1>3, <1>5, TicketsStay, WritingStays DEF Payload
    <2>3. Taken' = Taken /\ Owed' = Owed /\ \A k : HasOrder(k)' = HasOrder(k)
      BY <1>3 DEF Taken, Owed, HasOrder
    <2>4. Ending'
      BY <1>2, <1>3, <1>5, <2>3 DEF Ending, Orders, Owner, Phases, Paid, Gone
    <2> QED BY <1>1, <1>4, <2>1, <2>2, <2>4 DEF LogInv, Ending
  <1>6. ASSUME NEW p \in Producers, Log(p) PROVE LogInv'
    <2>1. /\ Goto(p, "call") /\ sent[p] < MaxMsgs /\ pc[p] = "idle"
          /\ p \in Threads /\ p \notin Builders /\ "call" \in Labels
      BY <1>6, LoggerAssumed DEF Log, Threads, Labels, LoggerAssumption
    <2>2. /\ pc' \in [Threads -> Labels] /\ Senders'
          /\ \A u \in Threads : Payload(u)' = Payload(u)
          /\ \A u \in Threads \ {p} : pc'[u] = pc[u]
      BY <1>2, <1>3, <2>1, Moves
    <2>3. Shapes'
      BY <1>2, <1>3, <2>2 DEF Shapes
    <2>4. Tickets' /\ Taken' = Taken
      BY <1>2, <1>3, <2>1, <2>2, TicketsStay
    <2>5. Writing'
      BY <1>2, <1>3, <2>4, WritingStays
    <2>6. Ending'
      BY <1>2, <1>3, <2>1, MoveEnds DEF Goto
    <2> QED BY <1>1, <1>4, <2>2, <2>3, <2>4, <2>5, <2>6 DEF LogInv, Ending
  <1>7. UNCHANGED pc \/ \E p \in Producers : Log(p)
    BY DEF Timeout, Freeze, vars
  <1> QED BY <1>5, <1>6, <1>7

LEMMA WorkLogInv ==
    ASSUME LogInv, Work
    PROVE  LogInv'
  <1>1. IndInv'
    <2>1. Next
      BY DEF Next
    <2> QED BY <2>1, NextIndInv DEF LogInv
  <1>2. IndInv /\ Shapes /\ Senders /\ Tickets /\ Writing /\ Ending /\ Reports
    BY DEF LogInv, Ending
  <1>3. UNCHANGED <<pc, sent, history>>
    BY WorkLeaves
  <1>4. Shapes' /\ Reports' /\ Ending'
    BY <1>2, WorkShapes, WorkReports, WorkEnds
  <1>5. Senders'
    BY <1>2, <1>3 DEF Senders
  <1>6. Tickets' /\ Writing'
    <2>1. CASE DrainNext
      BY <1>2, <2>1, DrainTickets, DrainWriting
    <2>2. CASE ~DrainNext
      <3>1. UNCHANGED queue
        BY <2>2 DEF Work, StartRun, ReadClosed, StartDrain, EndDrain, TakeDrops, TellDrops,
                    CheckClosed, FlushOutput, channel
      <3>2. Tickets' /\ Taken' = Taken
        BY <1>2, <1>3, <3>1, TicketsStay DEF Payload
      <3>3. \/ UNCHANGED out \/ out'.log = out.log
            \/ Write(Mark("start")) \/ Write(Mark("senders_dead"))
            \/ worker.taken \in Nat /\ Write(Drops(worker.taken))
        BY <1>2, <2>2 DEF Work, StartRun, ReadClosed, StartDrain, EndDrain, TakeDrops, TellDrops,
                          CheckClosed, FlushOutput, Shapes
      <3>4. \/ UNCHANGED out \/ out'.log = out.log
            \/ \E e \in Lines : ~IsMsg(e) /\ Write(e)
        BY <3>3, Kinds
      <3> QED BY <1>2, <1>3, <3>2, <3>4, WritingStays
    <2> QED BY <2>1, <2>2
  <1> QED BY <1>1, <1>4, <1>5, <1>6 DEF LogInv, Ending

LEMMA NextLogInv == LogInv /\ [Next]_vars => LogInv'
  <1> SUFFICES ASSUME LogInv, [Next]_vars PROVE LogInv'
    OBVIOUS
  <1> QED BY PushLogInv, BuilderLogInv, OtherLogInv, WorkLogInv DEF Next

\* The invariant has what is promised.
LEMMA LogInvDelivered == LogInv => TypeOK /\ Delivered
  <1> SUFFICES ASSUME LogInv PROVE TypeOK /\ Delivered
    OBVIOUS
  <1>1. Shapes /\ Ending
    BY DEF LogInv, Ending
  <1>2. TypeOK
    BY <1>1 DEF TypeOK, LogInv, IndInv, Shapes
  <1>3. QueuedIsWritten
    BY <1>1 DEF QueuedIsWritten, Ending, Phases, Paid
  <1>4. OrderHonoured
    <2>1. SUFFICES ASSUME NEW i \in DOMAIN history, history[i] = Order,
                          NEW j \in DOMAIN out.log, out.log[j].kind = "senders_dead"
                   PROVE  FALSE
      BY DEF OrderHonoured
    <2>2. out.log[j] \in Lines
      BY <1>1, ElementOfSeq, LenProperties DEF Shapes
    <2>3. out.log[j] = Mark("senders_dead")
      BY <2>1, <2>2, Kinds DEF IsMsg, Mark
    <2>4. ~HasOrder(Len(history))
      BY <1>1, <2>3 DEF Ending, Phases, Gone
    <2> QED BY <1>1, <2>1, <2>4, EntryTypes DEF HasOrder
  <1> QED BY <1>2, <1>3, <1>4 DEF Delivered, LogInv, Writing, Reports

\* Whatever builders race for the logger and however a shutdown ends: the messages that
\* took a ticket are written in that order, none twice and none skipped; a worker that
\* ends has flushed all it owes; it leaves by the order when there is one
\* (worker.rs:59-63, :81-84, :146-147); and every refused message is in one report, or
\* about to be (worker.rs:137-144).
THEOREM LoggerDelivered == Spec => []Delivered
  <1> QED BY InitLogInv, NextLogInv, LogInvDelivered, PTL DEF Spec

\* The variables keep their types, and the channel its capacity.
THEOREM LoggerTypeCorrect == Spec => []TypeOK
  <1> QED BY InitLogInv, NextLogInv, LogInvDelivered, PTL DEF Spec

------------------------------------------------------------------------------
(* The channel between them is the one TicketFifo promises.                   *)

\* What the channel handed over last, as TicketFifo's variable.
Last == IF Len(history) = Len(queue) THEN None ELSE history[Len(history) - Len(queue)]

LEMMA ReserveOnChannel ==
    ASSUME LogInv, NEW t \in Threads, Reserve(t)
    PROVE  Channel!Reserve(t, 1)
  <1>1. Shapes /\ Senders /\ Tickets
    BY DEF LogInv
  <1>2. /\ queue' = Append(queue, Open(t)) /\ Len(queue) < Cap /\ pc[t] = "pushing"
    BY DEF Reserve
  <1>3. /\ Taken' = Taken /\ Taken \in Nat
        /\ Len(history') = Len(history) + 1 /\ Len(queue') = Len(queue) + 1
        /\ \A i \in 1 .. Len(history) : history'[i] = history[i]
    BY <1>1, ReserveShapes
  <1>4. /\ Len(queue) \in Nat /\ Len(history) \in Nat /\ Taken = Len(history) - Len(queue)
        /\ \A i \in DOMAIN queue : history[Taken + i] \in Payloads
        /\ queue \in Seq(Entries) /\ Cap \in Nat
    BY <1>1, EntryTypes, LoggerAssumed DEF Taken, Shapes, LoggerAssumption
  <1>5. \A i \in DOMAIN queue : queue[i] # Open(t)
    BY <1>1, <1>2, <1>4, EntryKinds DEF Tickets
  <1>6. Channel!OpenAt(t) = {}
    BY <1>5 DEF Channel!OpenAt, Channel!Open, Open
  <1>7. queue' = queue \o [i \in 1 .. 1 |-> Channel!Open(t)]
    <2>1. Open(t) \in Entries
      BY DEF Entries
    <2>2. Append(queue, Open(t)) = queue \o <<Open(t)>>
      BY <1>4, <2>1, AppendIsConcat
    <2>3. <<Open(t)>> = [i \in 1 .. 1 |-> Channel!Open(t)]
      BY DEF Channel!Open, Open
    <2> QED BY <1>2, <2>2, <2>3
  <1>8. Last' = Last
    BY <1>3, <1>4 DEF Last, Taken
  <1>9. Len(queue) + 1 <= Cap
    BY <1>2, <1>4
  <1> QED BY <1>6, <1>7, <1>8, <1>9 DEF Channel!Reserve, Last

LEMMA PublishOnChannel ==
    ASSUME LogInv, NEW t \in Threads, Publish(t)
    PROVE  \/ \E v \in Payloads : Channel!Settle(t, Channel!Item(v))
           \/ UNCHANGED Channel!vars
  <1>1. Shapes /\ Senders /\ Tickets /\ pc[t] = "open"
    BY DEF LogInv, Publish
  <1>2. /\ queue' = [i \in DOMAIN queue |-> IF queue[i] = Open(t) THEN Item(Payload(t))
                                           ELSE queue[i]]
        /\ history' = history
    BY DEF Publish
  <1>3. Len(queue') = Len(queue) /\ Payload(t) \in Payloads
    BY <1>1, PublishShapes, PayloadType
  <1>4. Last' = Last
    BY <1>2, <1>3 DEF Last
  <1>5. queue = [i \in DOMAIN queue |-> queue[i]]
    BY <1>1, LenProperties DEF Shapes
  <1>6. CASE \E i \in DOMAIN queue : queue[i] = Open(t)
    <2>1. PICK i \in DOMAIN queue : queue[i] = Open(t)
      BY <1>6
    <2>2. \A j \in DOMAIN queue : queue[j] = Open(t) => j = i
      BY <1>1, <2>1, EntryKinds DEF Tickets
    <2>3. queue' = [queue EXCEPT ![i] = Item(Payload(t))]
      BY <1>2, <1>5, <2>1, <2>2
    <2>4. Channel!OpenAt(t) = {i}
      BY <2>1, <2>2 DEF Channel!OpenAt, Channel!Open, Open
    <2>5. i <= i
      BY <1>1, EntryTypes
    <2>6. Channel!Settle(t, Channel!Item(Payload(t)))
      BY <1>4, <2>3, <2>4, <2>5 DEF Channel!Settle, Channel!Item, Item, Last
    <2> QED BY <1>3, <2>6
  <1>7. CASE ~\E i \in DOMAIN queue : queue[i] = Open(t)
    <2>1. queue' = queue
      BY <1>2, <1>5, <1>7
    <2> QED BY <1>4, <2>1 DEF Channel!vars, Last
  <1> QED BY <1>6, <1>7

LEMMA DrainOnChannel ==
    ASSUME LogInv, DrainNext
    PROVE  Channel!Pop
  <1>1. Shapes /\ Tickets
    BY DEF LogInv
  <1>2. /\ queue # <<>> /\ Head(queue).state = "item" /\ queue' = Tail(queue)
        /\ history' = history
    BY DEF DrainNext, Drainable, WorkerAt, ghosts
  <1>3. Taken' = Taken + 1 /\ Taken \in Nat /\ Head(queue).value = history[Taken + 1]
    BY <1>1, DrainTickets
  <1>4. Last' = Head(queue).value
    <2>1. Len(history) \in Nat /\ Len(queue') \in Nat
      BY <1>1, <1>2, EntryTypes, HeadTailProperties DEF Shapes
    <2> QED BY <1>2, <1>3, <2>1 DEF Last, Taken
  <1> QED BY <1>2, <1>4 DEF Channel!Pop, Channel!Deliver, Last

LEMMA NextOnChannel == LogInv /\ [Next]_vars => [Channel!Next]_(Channel!vars)
  <1> SUFFICES ASSUME LogInv, [Next]_vars PROVE [Channel!Next]_(Channel!vars)
    OBVIOUS
  <1>1. Payloads = {Order} \cup {Msg(p, k) : p \in Producers, k \in 1 .. MaxMsgs}
    BY DEF Payloads
  <1>2. Cap \in Nat \ {0}
    BY LoggerAssumed DEF LoggerAssumption
  <1>3. ASSUME NEW t \in Threads, Reserve(t) PROVE Channel!Next
    BY <1>2, <1>3, ReserveOnChannel DEF Channel!Next
  <1>4. ASSUME NEW t \in Threads, Publish(t) PROVE [Channel!Next]_(Channel!vars)
    BY <1>1, <1>4, PublishOnChannel DEF Channel!Next
  <1>5. CASE DrainNext
    BY <1>5, DrainOnChannel DEF Channel!Next
  <1>6. CASE UNCHANGED <<queue, history>>
    BY <1>6 DEF Channel!vars
  <1>7. \/ \E t \in Threads : Reserve(t) \/ Publish(t)
        \/ DrainNext
        \/ UNCHANGED <<queue, history>>
    BY DEF Next, Log, Push, TestClosed, Full, Build, CheckInitialized, OpenFile, Claim, Spawn,
           Building, StartShutdown, Stop, Close, Join, Timeout, Freeze, Work, StartRun, ReadClosed,
           StartDrain, EndDrain, TakeDrops, TellDrops, CheckClosed, FlushOutput, WorkerAt,
           vars, channel, ghosts
  <1> QED BY <1>3, <1>4, <1>5, <1>6, <1>7

\* The front end and the worker use the channel as Mpsc is shown to behave: what they do to
\* its queue are steps of TicketFifo (logger.rs:122-146, worker.rs:66-79).
THEOREM LoggerUsesTicketFifo == Spec => ChannelUsed
  <1>1. Init => Channel!Init
    BY DEF Init, Channel!Init
  <1> QED BY <1>1, InitLogInv, NextLogInv, LogInvDelivered, NextOnChannel, PTL
          DEF Spec, ChannelUsed, Channel!Spec

==============================================================================
