--------------------------- MODULE RunQueueProofs ---------------------------
(***************************************************************************)
(* The promises of RunQueue hold for any number of runs, keys and any       *)
(* limit.                                                                   *)
(***************************************************************************)
EXTENDS RunQueue, FiniteSetTheorems, TLAPS

QueueInv == QueueTypeOK /\ OneRunning /\ OnePerKey /\ Bounded /\ ResultMeansEnded

\* The live runs are finitely many, in every state.
LEMMA LiveFinite ==
  ASSUME QueueAssumption
  PROVE  IsFiniteSet(Live) /\ Cardinality(Live) \in Nat
  <1>1. Live \subseteq Runs BY DEF Live
  <1> QED BY <1>1, FS_Subset, FS_CardinalityType DEF QueueAssumption

\* A step that adds no live run keeps the queue within its limit.
LEMMA FewerLive ==
  ASSUME QueueAssumption, Bounded, Live' \subseteq Live
  PROVE  Bounded'
  <1>1. IsFiniteSet(Live) BY LiveFinite
  <1>2. Cardinality(Live') <= Cardinality(Live) BY <1>1, FS_Subset
  <1>3. IsFiniteSet(Live') BY <1>1, FS_Subset
  <1>4. Cardinality(Live') \in Nat /\ Cardinality(Live) \in Nat
    BY <1>1, <1>3, FS_CardinalityType
  <1> QED BY <1>2, <1>4 DEF QueueAssumption, Bounded

\* A queue with a free place admits one more run.
LEMMA AdmitBounded ==
  ASSUME QueueAssumption, NEW r \in Runs, NEW k \in Keys, QueueTypeOK, Admit(r, k)
  PROVE  Bounded'
  <1>1. Live' = Live \cup {r} BY DEF Live, Admit, QueueTypeOK
  <1>2. IsFiniteSet(Live) /\ Cardinality(Live) \in Nat BY LiveFinite
  <1>3. Cardinality(Live') <= Cardinality(Live) + 1
    <2>1. \/ Cardinality(Live \cup {r}) = Cardinality(Live)
          \/ Cardinality(Live \cup {r}) = Cardinality(Live) + 1
      BY <1>2, FS_AddElement
    <2> QED BY <1>1, <1>2, <2>1
  <1>4. IsFiniteSet(Live') BY <1>1, <1>2, FS_AddElement
  <1>5. Cardinality(Live') \in Nat BY <1>4, FS_CardinalityType
  <1> QED BY <1>2, <1>3, <1>5 DEF QueueAssumption, Bounded, Admit

\* The initial queue is empty.
LEMMA InitQueueInv == ASSUME QueueAssumption, Init PROVE QueueInv
  <1>1. Live = {} BY DEF Init, Live
  <1>2. Cardinality(Live) = 0 BY <1>1, FS_EmptySet
  <1>3. Bounded BY <1>2 DEF QueueAssumption, Bounded
  <1>4. QueueTypeOK BY DEF Init, QueueTypeOK, States
  <1>5. OneRunning /\ OnePerKey /\ ResultMeansEnded
    BY <1>1 DEF Init, OneRunning, OnePerKey, ResultMeansEnded
  <1> QED BY <1>3, <1>4, <1>5 DEF QueueInv

\* Every step of the queue keeps the invariant, action by action.
LEMMA NextQueueInv == ASSUME QueueAssumption, QueueInv, [Next]_vars PROVE QueueInv'
  <1> USE DEF QueueInv
  <1>1. ASSUME NEW r \in Runs, NEW k \in Keys, Admit(r, k) PROVE QueueInv'
    <2>1. Bounded' BY <1>1, AdmitBounded
    <2>2. QueueTypeOK' BY <1>1 DEF QueueTypeOK, States, Admit
    <2>3. OneRunning' BY <1>1 DEF OneRunning, QueueTypeOK, Admit
    <2>4. OnePerKey' BY <1>1 DEF OnePerKey, QueueTypeOK, Admit, Live
    <2>5. ResultMeansEnded' BY <1>1 DEF ResultMeansEnded, QueueTypeOK, Admit
    <2> QED BY <2>1, <2>2, <2>3, <2>4, <2>5
  <1>2. ASSUME NEW r \in Runs, Start(r) PROVE QueueInv'
    <2>1. Live' = Live BY <1>2 DEF Live, Start, Waiting, QueueTypeOK
    <2>2. Bounded' BY <2>1, FewerLive
    <2>3. QueueTypeOK' BY <1>2 DEF QueueTypeOK, States, Start, Waiting
    <2>4. OneRunning' BY <1>2 DEF OneRunning, QueueTypeOK, Start, Waiting
    <2>5. OnePerKey' BY <1>2, <2>1 DEF OnePerKey, Start
    <2>6. ResultMeansEnded' BY <1>2 DEF ResultMeansEnded, QueueTypeOK, Start, Waiting
    <2> QED BY <2>2, <2>3, <2>4, <2>5, <2>6
  <1>3. ASSUME NEW r \in Runs, NEW how \in {"succeeded", "failed"}, Complete(r, how)
        PROVE  QueueInv'
    <2>1. Live' \subseteq Live BY <1>3 DEF Live, Complete, QueueTypeOK
    <2>2. Bounded' BY <2>1, FewerLive
    <2>3. QueueTypeOK' BY <1>3 DEF QueueTypeOK, States, Complete
    <2>4. OneRunning' BY <1>3 DEF OneRunning, QueueTypeOK, Complete
    <2>5. OnePerKey' BY <1>3, <2>1 DEF OnePerKey, Complete
    <2>6. ResultMeansEnded' BY <1>3 DEF ResultMeansEnded, QueueTypeOK, Complete
    <2> QED BY <2>2, <2>3, <2>4, <2>5, <2>6
  <1>4. ASSUME NEW r \in Runs, GiveUp(r) PROVE QueueInv'
    <2>1. Live' \subseteq Live BY <1>4 DEF Live, GiveUp, QueueTypeOK
    <2>2. Bounded' BY <2>1, FewerLive
    <2>3. QueueTypeOK' BY <1>4 DEF QueueTypeOK, States, GiveUp
    <2>4. OneRunning' BY <1>4 DEF OneRunning, QueueTypeOK, GiveUp
    <2>5. OnePerKey' BY <1>4, <2>1 DEF OnePerKey, GiveUp
    <2>6. ResultMeansEnded' BY <1>4 DEF ResultMeansEnded, QueueTypeOK, GiveUp
    <2> QED BY <2>2, <2>3, <2>4, <2>5, <2>6
  <1>5. ASSUME NEW S \in SUBSET Runs, Interrupt(S) PROVE QueueInv'
    <2>1. Live' \subseteq Live BY <1>5 DEF Live, Interrupt
    <2>2. Bounded' BY <2>1, FewerLive
    <2>3. QueueTypeOK' BY <1>5 DEF QueueTypeOK, States, Interrupt
    <2>4. OneRunning' BY <1>5 DEF OneRunning, Interrupt
    <2>5. OnePerKey' BY <1>5, <2>1 DEF OnePerKey, Interrupt
    <2>6. ResultMeansEnded' BY <1>5 DEF ResultMeansEnded, Interrupt, Live
    <2> QED BY <2>2, <2>3, <2>4, <2>5, <2>6
  <1>6. ASSUME NEW S \in SUBSET Runs, Forget(S) PROVE QueueInv'
    <2>1. Live' \subseteq Live BY <1>6 DEF Live, Forget
    <2>2. Bounded' BY <2>1, FewerLive
    <2>3. QueueTypeOK' BY <1>6 DEF QueueTypeOK, States, Forget
    <2>4. OneRunning' BY <1>6 DEF OneRunning, Forget
    <2>5. OnePerKey' BY <1>6, <2>1 DEF OnePerKey, Forget
    <2>6. ResultMeansEnded' BY <1>6 DEF ResultMeansEnded, Forget
    <2> QED BY <2>2, <2>3, <2>4, <2>5, <2>6
  <1>7. CASE UNCHANGED vars
    <2>1. Live' = Live BY <1>7 DEF Live, vars
    <2> QED BY <1>7, <2>1 DEF vars, QueueTypeOK, OneRunning, OnePerKey, Bounded,
                              ResultMeansEnded
  <1> QED BY <1>1, <1>2, <1>3, <1>4, <1>5, <1>6, <1>7 DEF Next

\* The queue executes one run at a time, has at most one live run per target and
\* no more live runs than its limit, and only completed runs have results.
THEOREM QueueSafe == ASSUME QueueAssumption PROVE Spec => []QueueInv
  <1>1. Init => QueueInv BY InitQueueInv
  <1>2. QueueInv /\ [Next]_vars => QueueInv' BY NextQueueInv
  <1> QED BY <1>1, <1>2, PTL DEF Spec

\* What has ended does not change, except that it may be forgotten.
THEOREM QueueEndedIsFinal == ASSUME QueueAssumption PROVE Spec => EndedIsFinal
  <1> DEFINE Kept == \A r \in Runs : st[r] \in {"succeeded", "failed", "interrupted"} =>
                       st'[r] \in {st[r], "gone"} /\ stored'[r] = stored[r]
  <1>1. QueueInv /\ [Next]_vars => [Kept]_vars
    <2> SUFFICES ASSUME QueueInv, Next PROVE Kept OBVIOUS
    <2> USE DEF QueueInv, QueueTypeOK
    <2>1. ASSUME NEW r \in Runs, NEW k \in Keys, Admit(r, k) PROVE Kept
      BY <2>1 DEF Admit
    <2>2. ASSUME NEW r \in Runs, Start(r) PROVE Kept BY <2>2 DEF Start, Waiting
    <2>3. ASSUME NEW r \in Runs, NEW how \in {"succeeded", "failed"}, Complete(r, how)
          PROVE  Kept
      BY <2>3 DEF Complete
    <2>4. ASSUME NEW r \in Runs, GiveUp(r) PROVE Kept BY <2>4 DEF GiveUp
    <2>5. ASSUME NEW S \in SUBSET Runs, Interrupt(S) \/ Forget(S) PROVE Kept
      BY <2>5 DEF Interrupt, Forget, Live
    <2> QED BY <2>1, <2>2, <2>3, <2>4, <2>5 DEF Next
  <1>2. Spec => []QueueInv BY QueueSafe
  <1> QED BY <1>1, <1>2, PTL DEF Spec, EndedIsFinal

=============================================================================
