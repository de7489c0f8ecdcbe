------------------------------- MODULE MCWincore ------------------------------
(***************************************************************************)
(* Model-checking instances of wincore's modules, which share no state.  A *)
(* behaviour is one of `part`: the registry, the start of a thread, the    *)
(* priority class, the page locks.  The other parts stay in their initial  *)
(* state.                                                                  *)
(***************************************************************************)
EXTENDS Registry, ThreadSpawn, PageLock, PriorityClass, TLC

VARIABLE part

all == <<part, spawnVars, registryVars, classVars, pageVars>>

\* Pages of 4 bytes: values that share a page, that span two, an empty one.
MemoryValues ==
    {[addr |-> 0, size |-> 2], [addr |-> 2, size |-> 1], [addr |-> 3, size |-> 3],
     [addr |-> 6, size |-> 4], [addr |-> 12, size |-> 4], [addr |-> 10, size |-> 0]}

ASSUME RegistryAssumption /\ PageAssumption /\ ClassAssumption

PartInit ==
    /\ part \in {"registry", "thread", "class", "page"}
    /\ RegistryInit
    /\ SpawnInit /\ (part # "thread" => \A k \in Kind : wanted[k] = None)
    /\ ClassInit /\ (part # "class" => class = ClassAsWin32.Normal)
    /\ PageInit

PartNext ==
    \/ /\ part = "registry" /\ RegistryNext
       /\ UNCHANGED <<part, spawnVars, classVars, pageVars>>
    \/ /\ part = "thread" /\ SpawnNext
       /\ UNCHANGED <<part, registryVars, classVars, pageVars>>
    \/ /\ part = "class" /\ ClassNext
       /\ UNCHANGED <<part, spawnVars, registryVars, pageVars>>
    \/ /\ part = "page" /\ PageNext
       /\ UNCHANGED <<part, spawnVars, registryVars, classVars>>

PartSpec == PartInit /\ [][PartNext]_all

\* Each of these sets is used whole, or not at all, by a part.
WincoreSymmetry == Permutations(Handles) \cup Permutations(Watchers)
==============================================================================
