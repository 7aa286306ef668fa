---------------------------- MODULE MCModelCalls ----------------------------
(***************************************************************************)
(* Instances of ModelCalls for TLC.                                         *)
(***************************************************************************)
EXTENDS ModelCalls, TLC

CONSTANTS c1, c2, a1, a2, a3, e1, e2, t1

\* a requests are answers, e embeddings of documents, t1 an answer about an
\* attachment.
MCPurposeOf ==
  [q \in Requests |-> CASE q \in {a1, a2, a3} -> "rag_answer"
                        [] q = t1 -> "attachment_answer"
                        [] OTHER -> "document_embedding"]
MCReserveOf == [answer |-> 3, embedding |-> 2]

\* The events of a set, each once.
Once(events) == [e \in Events |-> IF e \in events THEN 1 ELSE 0]
SettingsAllowances ==
  {Once({"configure"}), Once({"crash"}), Once({"key"}), Once({"transfer"}), Once({"logout"}),
   Once({"expire"})}
AnswersAllowances == {Once({"crash", "fault"}), Once({"crash", "cancel"}), Once({"fault", "cancel"})}

\* Callers, and requests for the same purpose, are interchangeable.
Symmetry ==
  Permutations(Callers) \cup Permutations(Requests \cap {a1, a2, a3})
    \cup Permutations(Requests \cap {e1, e2})

=============================================================================
