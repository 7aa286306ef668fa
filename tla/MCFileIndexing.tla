--------------------------- MODULE MCFileIndexing ---------------------------
(***************************************************************************)
(* Instances of FileIndexing for TLC.                                       *)
(***************************************************************************)
EXTENDS FileIndexing, TLC

CONSTANTS a1, a2, r1, x1, x2, t1, t2

Once(events) == [e \in Events |-> IF e \in events THEN 1 ELSE 0]

\* Processes and texts are interchangeable.
Symmetry == Permutations(Apis) \cup Permutations(Texts)

StoreBudgets ==
  {Once({"read", "crash"}), Once({"read", "fault"}), Once({"read", "age"}), Once({"fault", "age"}),
   Once({"lose"})}
=============================================================================
