-------------------------- MODULE MCChannelHealth ---------------------------
(* ChannelHealth.tla on small instances.                                   *)
EXTENDS ChannelHealth, TLC

\* requests are interchangeable
Symmetry == Permutations(Reqs)
=============================================================================
