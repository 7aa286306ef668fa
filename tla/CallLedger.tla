----------------------------- MODULE CallLedger -----------------------------
(***************************************************************************)
(* What ModelExecutionService promises about money, without transactions,   *)
(* callers, deadlines or a provider: a call is admitted in one step, only   *)
(* if what its month was charged, what all open calls may still cost and    *)
(* what it may cost itself stay within the budget, and is closed once, at   *)
(* no more than it reserved.                                                *)
(***************************************************************************)
EXTENDS Naturals, FiniteSetsExt

CONSTANTS
  Calls,         \* requests for a paid call
  Cost(_),       \* the most a call may cost
  MonthStart(_), \* the start of the month of a time
  Limits         \* budgets that can be set, 0 for none

VARIABLES
  time,    \* the clock
  limit,   \* the monthly budget
  state,   \* "free", "open" or "closed"
  since,   \* when a call was admitted
  paid     \* what a closed call was charged

vars == <<time, limit, state, since, paid>>

Init ==
  /\ time \in Nat /\ limit \in Limits
  /\ state = [q \in Calls |-> "free"]
  /\ since = [q \in Calls |-> 0] /\ paid = [q \in Calls |-> 0]

In(s) == {q \in Calls : state[q] = s}

Exposure(t) ==
  MapThenSumSet(LAMBDA q : paid[q], {q \in In("closed") : since[q] >= MonthStart(t)})
    + MapThenSumSet(Cost, In("open"))

\* Admission: the time of a call is that of its transaction, not of the commit.
Open(q, t) ==
  /\ state[q] = "free" /\ t <= time
  /\ Exposure(t) + Cost(q) <= limit
  /\ state' = [state EXCEPT ![q] = "open"]
  /\ since' = [since EXCEPT ![q] = t]
  /\ UNCHANGED <<time, limit, paid>>

Close(q, amount) ==
  /\ state[q] = "open" /\ amount <= Cost(q)
  /\ state' = [state EXCEPT ![q] = "closed"]
  /\ paid' = [paid EXCEPT ![q] = amount]
  /\ UNCHANGED <<time, limit, since>>

Next ==
  \/ \E q \in Calls : \E t \in 0 .. time : Open(q, t)
  \/ \E q \in Calls : \E amount \in 0 .. Cost(q) : Close(q, amount)
  \/ limit' \in Limits /\ UNCHANGED <<time, state, since, paid>>
  \/ time' = time + 1 /\ UNCHANGED <<limit, state, since, paid>>

Spec == Init /\ [][Next]_vars

=============================================================================
