---------------------------- MODULE ThreadSettings ---------------------------
(***************************************************************************)
(* The settings of a thread on both sides of a Win32 call: what a program  *)
(* asks for, the raw value Windows keeps, and what a query makes of it.    *)
(* A mask is the set of its bits.                                          *)
(***************************************************************************)
EXTENDS Integers

CONSTANTS Bits,    \* usize::BITS
          Groups,  \* processor groups
          None

Kind == {"pin", "prio", "boost"}

----------------------------------------------------------------------------
(* Placement                                                               *)

\* ProcessorId::try_new: no CPU that does not fit in a mask.
TryNew(number, group) ==
    IF number >= Bits THEN None ELSE [number |-> number, group |-> group]

SingleCpu(cpu) == [mask |-> {cpu.number}, group |-> cpu.group]

Cpus(affinity) ==
    {[number |-> i, group |-> affinity.group] : i \in (0 .. Bits - 1) \cap affinity.mask}

----------------------------------------------------------------------------
(* Priority and boost                                                      *)

ThreadPriority ==
    {"Idle", "Lowest", "BelowNormal", "Normal", "AboveNormal", "Highest", "TimeCritical"}

PrioAsWin32 ==
    [Idle |-> -15, Lowest |-> -2, BelowNormal |-> -1, Normal |-> 0,
     AboveNormal |-> 1, Highest |-> 2, TimeCritical |-> 15]

\* RawThreadPriority::level: the levels -7 to -3 and 3 to 6 have no name.
PrioFromWin32(value) ==
    CASE value = -15 -> "Idle"
      [] value = -2  -> "Lowest"
      [] value = -1  -> "BelowNormal"
      [] value = 0   -> "Normal"
      [] value = 1   -> "AboveNormal"
      [] value = 2   -> "Highest"
      [] value = 15  -> "TimeCritical"
      [] OTHER       -> None

\* bDisablePriorityBoost.
BoostAsWin32(policy) == IF policy = "Disabled" THEN 1 ELSE 0
BoostFromWin32(disabled) == IF disabled = 0 THEN "Enabled" ELSE "Disabled"

----------------------------------------------------------------------------
\* What a program can ask for.
Requests ==
    [pin   |-> {TryNew(n, g) : n \in 0 .. Bits, g \in Groups},
     prio  |-> ThreadPriority \cup {None},
     boost |-> {"Enabled", "Disabled", None}]

\* What Windows gives a thread by itself.
Default == [pin |-> [mask |-> 0 .. Bits - 1, group |-> 0], prio |-> 0, boost |-> 0]

\* The raw value that is passed to Windows.
AsWin32(k, v) ==
    CASE k = "pin"   -> SingleCpu(v)
      [] k = "prio"  -> PrioAsWin32[v]
      [] k = "boost" -> BoostAsWin32(v)

\* What query::affinity, priority and boost_policy make of a raw value.
Query(k, raw) ==
    CASE k = "pin"   -> Cpus(raw)
      [] k = "prio"  -> PrioFromWin32(raw)
      [] k = "boost" -> BoostFromWin32(raw)

\* ThreadConfig, made of a report to be held against the queries.
Config(k, v) == IF k = "pin" THEN Cpus(SingleCpu(v)) ELSE v
==============================================================================
