------------------------------ MODULE MCMpscLive ------------------------------
(***************************************************************************)
(* The liveness run of Mpsc: a program whose consumer only pops and        *)
(* may stop anywhere, and one that pops for ever (`program`).              *)
(***************************************************************************)
EXTENDS MCMpsc

VARIABLES program

LiveInit == Init /\ program \in {"any", "polls"}

LiveNext ==
    \/ program = "any" /\ Next /\ op' = "pop" /\ UNCHANGED program
    \/ program = "polls" /\ SteadyNext /\ UNCHANGED program

LiveSpec ==
    /\ LiveInit /\ [][LiveNext]_<<vars, program>>
    /\ ProducerFairness
    /\ WF_vars(program = "polls" /\ (ConsumerStep \/ CallPop("pop")))

\* While the program keeps popping, every ticket leaves the ring: published values are
\* consumed and holes never block the values behind them (mpsc/mod.rs:40-46).  Again and
\* again the ring is empty, or its head moves.
TicketsLeave ==
    program = "polls" => []<>(head = tail) \/ []<><<head' # head>>_vars
==============================================================================
