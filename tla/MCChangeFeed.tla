----------------------------- MODULE MCChangeFeed -----------------------------
(* Instances of ChangeFeed for TLC.                                          *)
EXTENDS ChangeFeed, TLC

MCSymmetry == Permutations(Pipeline) \cup Permutations(Client)
=============================================================================
