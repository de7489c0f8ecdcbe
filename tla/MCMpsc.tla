-------------------------------- MODULE MCMpsc -------------------------------
(* Model-checking instances of Mpsc.                                        *)
EXTENDS Mpsc, TLC

ProducerSymmetry == Permutations(Producers)
==============================================================================
