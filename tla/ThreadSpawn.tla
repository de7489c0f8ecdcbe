------------------------------ MODULE ThreadSpawn -----------------------------
(***************************************************************************)
(* wincore's thread::Builder::spawn: the new thread applies its settings   *)
(* one after the other, reports what became of each over a channel of one  *)
(* place and then runs the closure; the caller waits for the report and,   *)
(* with it, for the settings.  Windows may refuse any setting; the closure *)
(* may change them again.  Setting and querying is the operating system's. *)
(***************************************************************************)
EXTENDS ThreadSettings

CONSTANTS MayDie     \* may the thread die before it reports?

\* The order of configure_current_thread.
Then == [pin |-> "prio", prio |-> "boost", boost |-> "send"]

VARIABLES caller,    \* the caller of spawn
          wanted,    \* the builder's requests
          child,     \* the new thread: "none", the setting it is at, "send", "run" or an end
          os,        \* the raw values Windows has for the thread
          report,    \* configure_current_thread's report, as far as it is known
          slot,      \* the channel: None, or the report
          touched    \* history: settings changed by the closure

spawnVars == <<caller, wanted, child, os, report, slot, touched>>

SpawnInit ==
    /\ caller = [pc |-> "idle", config |-> None]
    /\ wanted \in [pin : Requests.pin, prio : Requests.prio, boost : Requests.boost]
    /\ child = "none" /\ os = Default
    /\ report = [k \in {} |-> None] /\ slot = None /\ touched = {}

Skipped == [is |-> "skipped"]
Applied(v) == [is |-> "applied", wanted |-> v]
Failed(v) == [is |-> "failed", wanted |-> v]
Wanted(s) == IF s.is = "skipped" THEN None ELSE s.wanted

Failures(config) == {k \in DOMAIN config : config[k].is = "failed"}
IsClean(config) == Failures(config) = {}

----------------------------------------------------------------------------
(* The caller                                                              *)

\* std's spawn fails, or the thread exists.
Spawn ==
    /\ caller.pc = "idle"
    /\ \/ caller' = [caller EXCEPT !.pc = "waiting"] /\ child' = "pin"
       \/ caller' = [caller EXCEPT !.pc = "spawn error"] /\ UNCHANGED child
    /\ UNCHANGED <<wanted, os, report, slot, touched>>

Receive ==
    /\ caller.pc = "waiting" /\ slot # None
    /\ caller' = [pc |-> "spawned", config |-> slot] /\ slot' = None
    /\ UNCHANGED <<wanted, child, os, report, touched>>

\* The sender went with the thread, and left nothing.
ReceiveFails ==
    /\ caller.pc = "waiting" /\ slot = None /\ child = "dead"
    /\ caller' = [caller EXCEPT !.pc = "init failed"]
    /\ UNCHANGED <<wanted, child, os, report, slot, touched>>

Wait == Receive \/ ReceiveFails

----------------------------------------------------------------------------
(* The new thread                                                          *)

Outcome(k, s) == report' = [j \in DOMAIN report \cup {k} |-> IF j = k THEN s ELSE report[j]]

\* Broken: a refused request is forgotten.
ApplyForgets ==
    /\ child \in Kind
    /\ LET k == child IN
       \/ wanted[k] = None /\ Outcome(k, Skipped) /\ UNCHANGED os
       \/ /\ wanted[k] # None
          /\ \/ Outcome(k, Applied(wanted[k])) /\ os' = [os EXCEPT ![k] = AsWin32(k, wanted[k])]
             \/ Outcome(k, Skipped) /\ UNCHANGED os
    /\ child' = Then[child]
    /\ UNCHANGED <<caller, wanted, slot, touched>>

\* Setting::apply of one setting: not requested, granted, or refused.
Apply ==
    /\ child \in Kind
    /\ LET k == child IN
       \/ wanted[k] = None /\ Outcome(k, Skipped) /\ UNCHANGED os
       \/ /\ wanted[k] # None
          /\ \/ Outcome(k, Applied(wanted[k])) /\ os' = [os EXCEPT ![k] = AsWin32(k, wanted[k])]
             \/ Outcome(k, Failed(wanted[k])) /\ UNCHANGED os
    /\ child' = Then[child]
    /\ UNCHANGED <<caller, wanted, slot, touched>>

\* Broken: reports as soon as the thread has its priority.
SendEarly ==
    /\ child \in {"boost", "send"} /\ slot = None /\ caller.pc = "waiting"
    /\ slot' = [k \in Kind |-> IF k \in DOMAIN report THEN report[k] ELSE Skipped]
    /\ child' = IF child = "send" THEN "run" ELSE child
    /\ UNCHANGED <<caller, wanted, os, report, touched>>

Send ==
    /\ child = "send"
    /\ slot' = report /\ child' = "run"
    /\ UNCHANGED <<caller, wanted, os, report, touched>>

\* The closure, or whoever has the handle, sets a value later (control.rs).
SetLater ==
    /\ child = "run"
    /\ \E k \in Kind : \E v \in Requests[k] \ {None} :
          os' = [os EXCEPT ![k] = AsWin32(k, v)] /\ touched' = touched \cup {k}
    /\ UNCHANGED <<caller, wanted, child, report, slot>>

End ==
    /\ \/ child = "run" /\ child' = "ended"
       \/ MayDie /\ child \in Kind \cup {"send"} /\ child' = "dead"
    /\ UNCHANGED <<caller, wanted, os, report, slot, touched>>

Configure == Apply \/ Send

SpawnNext == Spawn \/ Wait \/ Configure \/ SetLater \/ End

SpawnSpec == SpawnInit /\ [][SpawnNext]_spawnVars

\* Both threads are scheduled; the closure need not end.
SpawnFairSpec == SpawnSpec /\ WF_spawnVars(Wait) /\ WF_spawnVars(Configure)

----------------------------------------------------------------------------
SpawnTypeOK ==
    /\ caller.pc \in {"idle", "waiting", "spawned", "spawn error", "init failed"}
    /\ child \in {"none", "send", "run", "ended", "dead"} \cup Kind
    /\ DOMAIN os = Kind
    /\ DOMAIN report \subseteq Kind /\ touched \subseteq Kind
    /\ child \in {"run", "ended"} => DOMAIN report = Kind

\* "the caller cannot observe a partially set up thread" (builder.rs:75-76): with the
\* report in hand, a query of each setting answers what the report says, the default
\* where nothing was applied; but for what the closure did.
NothingPartial ==
    caller.pc = "spawned" =>
        \A k \in Kind \ touched :
            Query(k, os[k]) = IF caller.config[k].is = "applied" THEN Config(k, wanted[k])
                              ELSE Query(k, Default[k])

\* The report says what was asked for, also where Windows refused it (outcome.rs:10-12),
\* and is clean only when everything that was asked for was granted.
ReportComplete ==
    /\ SpawnTypeOK
    /\ caller.pc = "spawned" =>
        /\ \A k \in Kind : Wanted(caller.config[k]) = wanted[k]
        /\ IsClean(caller.config) =>
              \A k \in Kind \ touched :
                  wanted[k] # None => Query(k, os[k]) = Config(k, wanted[k])

\* spawn() answers, also when the thread dies before it reports.
SpawnAnswers == caller.pc = "waiting" ~> caller.pc \in {"spawned", "init failed"}
==============================================================================
