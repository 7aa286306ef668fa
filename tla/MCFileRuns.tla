----------------------------- MODULE MCFileRuns -----------------------------
(***************************************************************************)
(* Instances of FileRuns for TLC.                                           *)
(***************************************************************************)
EXTENDS FileRuns, TLC

CONSTANTS a1, a2, c1, c2, q1, q2, q3, q4, x1, x2

\* The events of a set, each once.
Once(events) == [e \in Events |-> IF e \in events THEN 1 ELSE 0]

\* Clients, contents and requests are interchangeable.
Symmetry == Permutations(Clients) \cup Permutations(Contents) \cup Permutations(Requests)

RequestsBudgets ==
  {Once({"stop", "unanswered"}), Once({"crash", "unanswered"}), Once({"halt", "unanswered"}),
   Once({"stop", "crash"}), Once({"stop", "age"})}
ProcessesBudgets ==
  {Once({"manage"}), Once({"revoke"}), Once({"lose"}), Once({"halt"}), Once({"crash"}),
   Once({"manage", "stop"})}
RetriesBudgets == {Once({"stop"})}
NoEvents == {Once({})}
LivenessBudgets == {Once({"crash", "halt", "unanswered"})}

=============================================================================
