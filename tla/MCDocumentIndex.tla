--------------------------- MODULE MCDocumentIndex ---------------------------
(* Instances of DocumentIndex for TLC.                                       *)
EXTENDS DocumentIndex, TLC

CONSTANTS d1, d2

ReplacesNone == [d \in Doc |-> NoDoc]
ReplacesOne  == [d \in Doc |-> IF d = d2 THEN d1 ELSE NoDoc]

MCSymmetry == Permutations(Worker) \cup Permutations(Content)
=============================================================================
