----------------------------- MODULE PriorityClass ----------------------------
(***************************************************************************)
(* process::set_class: the class is set, then read back, because Windows   *)
(* grants High to a process that asks for RealTime without the privilege.  *)
(* The class belongs to the process.  Threads may hold more than one       *)
(* caller; DeniedIsDowngraded is about one, whom nobody disturbs between   *)
(* the two calls.                                                          *)
(***************************************************************************)
EXTENDS Integers

CONSTANTS Threads, Privileged, MaxCalls   \* bound: calls of set_class by one thread

ClassAssumption == Privileged \in BOOLEAN /\ MaxCalls \in Nat

VARIABLES class,   \* the process's class, as Windows stores it
          call,    \* per thread: the call in progress or the last one
          calls

classVars == <<class, call, calls>>

ClassAsWin32 == [Idle |-> 64, BelowNormal |-> 16384, Normal |-> 32, AboveNormal |-> 32768,
            High |-> 128, RealTime |-> 256]
Classes == DOMAIN ClassAsWin32
FromWin32(raw) == IF \E c \in Classes : ClassAsWin32[c] = raw
                  THEN CHOOSE c \in Classes : ClassAsWin32[c] = raw ELSE "unknown"

ClassInit ==
    /\ class \in {ClassAsWin32[c] : c \in Classes}
    /\ call = [t \in Threads |-> [pc |-> "idle", level |-> "Normal", downgraded |-> FALSE]]
    /\ calls = [t \in Threads |-> 0]

Downgrade(c) == c = "RealTime" /\ ~Privileged

SetPriorityClass(t) ==
    /\ call[t].pc # "set" /\ calls[t] < MaxCalls
    /\ \E c \in Classes :
          \/ /\ class' = ClassAsWin32[IF Downgrade(c) THEN "High" ELSE c]
             /\ call' = [call EXCEPT ![t] = [pc |-> "set", level |-> c,
                                             downgraded |-> Downgrade(c)]]
          \/ /\ call' = [call EXCEPT ![t] = [pc |-> "error", level |-> c,
                                             downgraded |-> FALSE]]
             /\ UNCHANGED class
    /\ calls' = [calls EXCEPT ![t] = @ + 1]

\* Broken: believes Windows.
BelieveBack(t) ==
    /\ call[t].pc = "set"
    /\ call' = [call EXCEPT ![t].pc = "ok"]
    /\ UNCHANGED <<class, calls>>

\* class() may fail as well.
ReadBack(t) ==
    /\ call[t].pc = "set"
    /\ \E answer \in {"error", IF FromWin32(class) = call[t].level THEN "ok" ELSE "denied"} :
          call' = [call EXCEPT ![t].pc = answer]
    /\ UNCHANGED <<class, calls>>

ClassNext == \E t \in Threads : SetPriorityClass(t) \/ ReadBack(t)

ClassSpec == ClassInit /\ [][ClassNext]_classVars

----------------------------------------------------------------------------
\* "Windows downgrades RealTime to High without an error when the privilege is missing,
\* and that case is reported here as PermissionDenied" (class.rs:69-71): that case, and
\* no other, as long as one thread sets the class.
DeniedIsDowngraded ==
    \A t \in Threads : /\ call[t].pc = "denied" => call[t].downgraded
                       /\ call[t].pc = "ok" => ~call[t].downgraded
==============================================================================
