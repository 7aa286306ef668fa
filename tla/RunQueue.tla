------------------------------ MODULE RunQueue ------------------------------
(***************************************************************************)
(* What the job queue of apps/api/src/files/file-run.service.ts promises    *)
(* to its users, without processes, locks, files or sessions: jobs are      *)
(* admitted in an order, at most one per target and Limit in all; they are  *)
(* executed one at a time in that order; a result appears in the very step  *)
(* that ends its run, and what has ended does not change.                   *)
(***************************************************************************)
EXTENDS Naturals, FiniteSets

CONSTANTS
  Runs,   \* runs, numbered in the order of their creation
  Keys,   \* what a job works on: an original or an upload
  NoKey,  \* the key of a run that does not exist yet
  Limit   \* how many jobs may wait or run

\* What the theorems about queues assume.
QueueAssumption ==
  /\ Runs \subseteq Nat /\ IsFiniteSet(Runs)
  /\ NoKey \notin Keys
  /\ Limit \in Nat

VARIABLES
  st,      \* state of each run
  key,     \* what each run works on
  stored   \* the run stored a result

vars == <<st, key, stored>>

Waiting == {r \in Runs : st[r] = "queued"}
Live == {r \in Runs : st[r] \in {"queued", "running"}}
Ended == {r \in Runs : st[r] \in {"succeeded", "failed", "interrupted"}}

Init ==
  /\ st = [r \in Runs |-> "absent"]
  /\ key = [r \in Runs |-> NoKey]
  /\ stored = [r \in Runs |-> FALSE]

Admit(r, k) ==
  /\ st[r] = "absent" /\ \A s \in Runs : s < r => st[s] # "absent"
  /\ \A s \in Live : key[s] # k
  /\ Cardinality(Live) < Limit
  /\ st' = [st EXCEPT ![r] = "queued"]
  /\ key' = [key EXCEPT ![r] = k]
  /\ UNCHANGED stored

\* The oldest waiting run starts when no other is running.
Start(r) ==
  /\ r \in Waiting /\ \A s \in Waiting : r <= s
  /\ \A s \in Runs : st[s] # "running"
  /\ st' = [st EXCEPT ![r] = "running"]
  /\ UNCHANGED <<key, stored>>

\* A run completes, well or badly, with its result.
Complete(r, how) ==
  /\ st[r] = "running"
  /\ st' = [st EXCEPT ![r] = how]
  /\ stored' = [stored EXCEPT ![r] = TRUE]
  /\ UNCHANGED key

\* The run under way fails and stores nothing.
GiveUp(r) ==
  /\ st[r] = "running"
  /\ st' = [st EXCEPT ![r] = "failed"]
  /\ UNCHANGED <<key, stored>>

\* Any live runs are broken off and store nothing.
Interrupt(S) ==
  /\ S \subseteq Live
  /\ st' = [r \in Runs |-> IF r \in S THEN "interrupted" ELSE st[r]]
  /\ UNCHANGED <<key, stored>>

\* Ended runs are forgotten.
Forget(S) ==
  /\ S \subseteq Ended
  /\ st' = [r \in Runs |-> IF r \in S THEN "gone" ELSE st[r]]
  /\ UNCHANGED <<key, stored>>

Next ==
  \/ \E r \in Runs, k \in Keys : Admit(r, k)
  \/ \E r \in Runs : Start(r) \/ GiveUp(r)
  \/ \E r \in Runs, how \in {"succeeded", "failed"} : Complete(r, how)
  \/ \E S \in SUBSET Runs : Interrupt(S) \/ Forget(S)

Spec == Init /\ [][Next]_vars

-----------------------------------------------------------------------------
States == {"absent", "queued", "running", "succeeded", "failed", "interrupted", "gone"}

QueueTypeOK ==
  /\ st \in [Runs -> States]
  /\ key \in [Runs -> Keys \cup {NoKey}]
  /\ stored \in [Runs -> BOOLEAN]

\* One job is executed at a time.
OneRunning == \A r, s \in Runs : st[r] = "running" /\ st[s] = "running" => r = s

\* Live jobs work on different targets.
OnePerKey == \A r, s \in Live : key[r] = key[s] => r = s

\* The queue is bounded.
Bounded == Cardinality(Live) <= Limit

\* Only a run that completed has a result.
ResultMeansEnded ==
  \A r \in Runs : stored[r] => st[r] \in {"succeeded", "failed", "gone"}

\* What has ended does not change any more.
EndedIsFinal ==
  [][\A r \in Runs : st[r] \in {"succeeded", "failed", "interrupted"} =>
       st'[r] \in {st[r], "gone"} /\ stored'[r] = stored[r]]_vars

=============================================================================
