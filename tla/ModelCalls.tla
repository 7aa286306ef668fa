----------------------------- MODULE ModelCalls -----------------------------
(***************************************************************************)
(* Paid calls to the model provider: ModelExecutionService.run() of         *)
(* apps/api/src/model-integration/model-execution.service.ts, with the      *)
(* settings of model-integration.service.ts that it reads.                  *)
(*                                                                         *)
(* A call is admitted in one transaction under the lock of the Installation *)
(* row, which reserves its highest cost; it is sent after the commit, and   *)
(* settled in a second transaction under the same lock.  What happens when  *)
(* a call is not sent, or not answered, is written without that lock.  The  *)
(* admission reads what was charged and what is held with two statements,   *)
(* each with its own snapshot, and is therefore three steps here.           *)
(***************************************************************************)
EXTENDS Integers, FiniteSets, FiniteSetsExt

CONSTANTS
  Callers,    \* threads of control: HTTP requests and the worker of file jobs
  Requests,   \* request identifiers
  PurposeOf,  \* the purpose each request asks for
  ReserveOf,  \* the reservation for a call of each kind
  Limits,     \* monthly budgets the administrator chooses from
  Bills,      \* what the provider may bill for one call
  Timeout,    \* TIMEOUT_MS, in ticks (90 s in the code)
  Window,     \* the window of the rate limit, in ticks (60 s in the code)
  RateLimit,  \* answers created within the window (10 in the code)
  MonthLength,\* ticks of a calendar month
  MaxTime,    \* bound: the last tick of the clock
  Allowances, \* bound: how often each event of Events happens, one of these
  Null,       \* the NULL of chargedNanoUsd
  NoOne,      \* no caller
  NoRequest   \* no request

Purposes == {"document_embedding", "rag_question_embedding", "rag_answer", "attachment_answer"}
Kinds == {"answer", "embedding"}
Flags == {"documentEmbedding", "rag", "attachment"}
Events == {"configure", "key", "transfer", "logout", "expire", "cancel", "crash", "fault"}
NoBudget == 0

ASSUME CallsAssumption ==
  /\ PurposeOf \in [Requests -> Purposes]
  /\ ReserveOf \in [Kinds -> Nat]
  /\ Limits \subseteq Nat \ {0}
  /\ Bills \subseteq Nat
  /\ Timeout \in Nat \ {0} /\ Window \in Nat /\ RateLimit \in Nat
  /\ MonthLength \in Nat \ {0} /\ MaxTime \in Nat
  /\ Null \notin Nat
  /\ NoOne \notin Callers /\ NoRequest \notin Requests

ASSUME AllowancesAssumption == Allowances \subseteq [Events -> Nat]

VARIABLES
  now,        \* clock_timestamp(), which the API's Date.now() agrees with
  \* the administrator's side
  session,    \* the session of the callers: "valid", "revoked" or "expired"
  limit,      \* ModelExecutionSettings: the confirmed budget, or NoBudget
  enabled,    \* ModelCredential.enabled of each kind
  allowed,    \* ModelTransferPolicy
  \* ModelCall
  status,     \* "absent" before the row
  created,    \* createdAt; deadlineAt is Timeout later
  charged,    \* chargedNanoUsd
  budget,     \* the budget of the settings the row was admitted under
  \* the provider
  sent,       \* how often each request was sent
  bill,       \* what the provider bills for it
  \* the callers
  pc,         \* where run() stands
  req,        \* input.requestId
  aborted,    \* boundary.signal
  \* the open admission transaction
  lock,       \* who holds the Installation row
  clock,      \* the time it read
  swept,      \* the overdue rows it updated, locked until it ends
  seen,       \* the sum of charges it read
  left        \* what is left of the allowance of events

rowVars == <<status, created, charged, budget>>
adminVars == <<session, limit, enabled, allowed>>
providerVars == <<sent, bill>>
txVars == <<lock, clock, swept, seen>>
callerVars == <<pc, req, aborted>>
vars == <<now, adminVars, rowVars, providerVars, callerVars, txVars, left>>

Spend(e) == left[e] > 0 /\ left' = [left EXCEPT ![e] = @ - 1]

-----------------------------------------------------------------------------
\* The credential and the transfer flag a request needs, and its reservation.
KindOf(q) ==
  IF PurposeOf[q] \in {"document_embedding", "rag_question_embedding"}
  THEN "embedding" ELSE "answer"
FlagOf(q) ==
  CASE PurposeOf[q] = "document_embedding" -> "documentEmbedding"
    [] PurposeOf[q] = "attachment_answer" -> "attachment"
    [] OTHER -> "rag"
Reserved(q) == ReserveOf[KindOf(q)]

MonthStart(t) == (t \div MonthLength) * MonthLength
Deadline(q) == created[q] + Timeout

Rows == {q \in Requests : status[q] # "absent"}
Answers == {q \in Rows : KindOf(q) = "answer"}
Unsettled == {q \in Rows : charged[q] = Null}
\* Mutants of Overdue: rows are swept before their deadline, or though they ended.
OverdueEarly == {q \in Rows : status[q] = "dispatching"}
OverdueAnyStatus == {q \in Rows : Deadline(q) <= now}

\* What an admission sweeps: updateMany() on the rows past their deadline.
Overdue == {q \in Rows : status[q] = "dispatching" /\ Deadline(q) <= now}

\* preflight(): the settings are confirmed, the transfer is allowed and the
\* credential is enabled.
Sendable(q) == limit # NoBudget /\ allowed[FlagOf(q)] /\ enabled[KindOf(q)]

\* The first sum of exposure(): rows of the month, and rows without a charge,
\* which add nothing.
ChargedSince(start) ==
  MapThenSumSet(LAMBDA q : charged[q], {q \in Rows \ Unsettled : created[q] >= start})

\* A mutant of Held: a call whose outcome is unknown holds nothing.
HeldWhileDispatching ==
  MapThenSumSet(Reserved, {q \in Unsettled : status[q] = "dispatching"})

\* The second sum of exposure(): reservations of any month without a charge.
Held == MapThenSumSet(Reserved, Unsettled)

\* The answers under way once the overdue rows are swept.
Busy == {q \in Answers : status[q] = "dispatching"} \ Overdue

Recent == {q \in Answers : created[q] >= now - Window}

RateReached == Cardinality(Recent) >= RateLimit

-----------------------------------------------------------------------------
Init ==
  /\ now = 0
  /\ session = "valid" /\ limit \in Limits
  /\ enabled = [k \in Kinds |-> TRUE] /\ allowed = [f \in Flags |-> TRUE]
  /\ status = [q \in Requests |-> "absent"]
  /\ created = [q \in Requests |-> 0]
  /\ charged = [q \in Requests |-> Null]
  /\ budget = [q \in Requests |-> NoBudget]
  /\ sent = [q \in Requests |-> 0] /\ bill = [q \in Requests |-> 0]
  /\ pc = [c \in Callers |-> "idle"]
  /\ req = [c \in Callers |-> NoRequest]
  /\ aborted = [c \in Callers |-> FALSE]
  /\ lock = NoOne /\ clock = 0 /\ swept = {} /\ seen = 0
  /\ left \in Allowances

Goto(c, label) == pc' = [pc EXCEPT ![c] = label]

\* run() returns or throws.
Return(c) ==
  /\ Goto(c, "idle")
  /\ req' = [req EXCEPT ![c] = NoRequest]
  /\ aborted' = [aborted EXCEPT ![c] = FALSE]

Release == lock' = NoOne /\ clock' = 0 /\ swept' = {} /\ seen' = 0

\* The update of the overdue rows at the start of an admission takes effect
\* with its commit.
Sweep(S) == status' = [q \in Requests |-> IF q \in S THEN "unknown" ELSE status[q]]

-----------------------------------------------------------------------------
\* A client calls with an identifier, a new one or one it used before.
Begin(c, q) ==
  /\ pc[c] = "idle"
  /\ Goto(c, "preflight")
  /\ req' = [req EXCEPT ![c] = q]
  /\ UNCHANGED <<now, adminVars, rowVars, providerVars, aborted, txVars, left>>

\* existingWork(), a transaction of its own without the Installation lock.
Preflight(c) ==
  /\ pc[c] = "preflight"
  /\ IF /\ session = "valid" /\ ~aborted[c]
        /\ status[req[c]] = "absent" /\ Sendable(req[c])
     THEN Goto(c, "reader") /\ UNCHANGED <<req, aborted>>
     ELSE Return(c)
  /\ UNCHANGED <<now, adminVars, rowVars, providerVars, txVars, left>>

\* The master key is read between the transactions.
ReadMasterKey(c) ==
  /\ pc[c] = "reader"
  /\ \/ Goto(c, "admit") /\ UNCHANGED <<req, aborted, left>>
     \/ Return(c) /\ Spend("fault")
  /\ UNCHANGED <<now, adminVars, rowVars, providerVars, txVars>>

\* A mutant of MayAdmit: what the preflight saw is not looked at again.
MayAdmitUnchecked(q) == status[q] = "absent" /\ (KindOf(q) = "answer" => Busy = {} /\ ~RateReached)

MayAdmit(q) ==
  /\ status[q] = "absent"
  /\ Sendable(q)
  /\ KindOf(q) = "answer" => Busy = {} /\ ~RateReached

MayLock == lock = NoOne

\* The admission up to its limits of rate and concurrency.  A known request
\* commits the sweep and is answered from its row; a refusal rolls it back.
Admit(c) ==
  LET q == req[c] IN
  /\ pc[c] = "admit" /\ MayLock
  /\ \/ /\ session = "valid" /\ ~aborted[c]
        /\ MayAdmit(q)
        /\ Goto(c, "charged")
        /\ lock' = c /\ clock' = now /\ swept' = Overdue
        /\ UNCHANGED <<status, req, aborted, seen>>
     \/ /\ session = "valid" /\ ~aborted[c]
        /\ status[q] # "absent"
        /\ Sweep(Overdue) /\ Return(c) /\ UNCHANGED txVars
     \/ /\ session # "valid" \/ aborted[c] \/ (status[q] = "absent" /\ ~MayAdmit(q))
        /\ Return(c) /\ UNCHANGED <<status, txVars>>
  /\ UNCHANGED <<now, adminVars, created, charged, budget, providerVars, left>>

\* The first statement of exposure().
ReadCharged(c) ==
  /\ pc[c] = "charged"
  /\ seen' = ChargedSince(MonthStart(clock))
  /\ Goto(c, "held")
  /\ UNCHANGED <<now, adminVars, rowVars, providerVars, req, aborted, lock, clock, swept, left>>

\* The second statement, the reservation and the commit, which checks once
\* more that the session has not expired.
Reserve(c) ==
  LET q == req[c] IN
  /\ pc[c] = "held"
  /\ IF seen + Held + Reserved(q) <= limit /\ session = "valid"
     THEN /\ status' = [p \in Requests |->
                          CASE p = q -> "dispatching" [] p \in swept -> "unknown" [] OTHER -> status[p]]
          /\ created' = [created EXCEPT ![q] = clock]
          /\ budget' = [budget EXCEPT ![q] = limit]
          /\ Goto(c, "dispatch") /\ UNCHANGED <<charged, req, aborted>>
     ELSE Return(c) /\ UNCHANGED rowVars
  /\ Release
  /\ UNCHANGED <<now, adminVars, providerVars, left>>

\* A mutant of AdmissionFails: the transaction is left open.
AdmissionFailsOpen(c) ==
  /\ pc[c] \in {"charged", "held"}
  /\ Return(c) /\ Spend("fault")
  /\ UNCHANGED <<now, adminVars, rowVars, providerVars, txVars>>

\* The credential cannot be revealed, a statement fails or the transaction
\* times out: nothing of it remains.
AdmissionFails(c) ==
  /\ pc[c] \in {"charged", "held"}
  /\ Return(c) /\ Release /\ Spend("fault")
  /\ UNCHANGED <<now, adminVars, rowVars, providerVars>>

\* After the commit it may be too late, or the caller may have given up.
\* The row is updated whatever its status.
NotSent(c) ==
  LET q == req[c] IN
  /\ pc[c] = "dispatch" /\ (now >= Deadline(q) \/ aborted[c])
  /\ q \notin swept
  /\ status' = [status EXCEPT ![q] = "not_sent"]
  /\ charged' = [charged EXCEPT ![q] = 0]
  /\ Return(c)
  /\ UNCHANGED <<now, adminVars, created, budget, providerVars, txVars, left>>

\* provider.call(): the request leaves and the provider will bill it, more
\* than was reserved if it does not keep to the limits it was given.
Transmit(c) ==
  LET q == req[c] IN
  /\ pc[c] = "dispatch" /\ now < Deadline(q) /\ ~aborted[c]
  /\ sent' = [sent EXCEPT ![q] = @ + 1]
  /\ \E b \in Bills : bill' = [bill EXCEPT ![q] = @ + b]
  /\ Goto(c, "waiting")
  /\ UNCHANGED <<now, adminVars, rowVars, req, aborted, txVars, left>>

\* A mutant of Answer: the usage is not compared with what was admitted.
AnswerUnchecked(c) ==
  /\ pc[c] = "waiting"
  /\ Goto(c, "settle")
  /\ UNCHANGED <<now, adminVars, rowVars, providerVars, req, aborted, txVars, left>>

\* assertAdmittedUsage(): what the usage costs is within the reservation.
Admitted(q) == bill[q] <= Reserved(q)

\* A complete answer that parseProvider() can read, with a usage that was admitted.
Answer(c) ==
  /\ pc[c] = "waiting" /\ Admitted(req[c])
  /\ Goto(c, "settle")
  /\ UNCHANGED <<now, adminVars, rowVars, providerVars, req, aborted, txVars, left>>

\* A mutant of NoAnswer: a call that failed is sent again.
NoAnswerRetries(c) ==
  /\ pc[c] = "waiting"
  /\ Goto(c, "dispatch")
  /\ UNCHANGED <<now, adminVars, rowVars, providerVars, req, aborted, txVars, left>>

\* The timeout, a cancellation, a failed transport or an answer that is refused.
NoAnswer(c) ==
  /\ pc[c] = "waiting"
  /\ Goto(c, "mark")
  /\ UNCHANGED <<now, adminVars, rowVars, providerVars, req, aborted, txVars, left>>

\* The row of a call without an answer keeps its reservation.
MarkUnknown(c) ==
  LET q == req[c] IN
  /\ pc[c] = "mark" /\ q \notin swept
  /\ \/ /\ status' = [status EXCEPT ![q] = IF @ \in {"dispatching", "unknown"} THEN "unknown" ELSE @]
        /\ UNCHANGED left
     \/ Spend("fault") /\ UNCHANGED status
  /\ Return(c)
  /\ UNCHANGED <<now, adminVars, created, charged, budget, providerVars, txVars>>

\* A mutant of MaySettle: the settlement does not take the Installation lock.
MaySettleAny == TRUE

MaySettle == lock = NoOne

\* The settlement; if it fails, the row and its reservation stay.
Settle(c) ==
  LET q == req[c] IN
  /\ pc[c] = "settle" /\ MaySettle
  /\ \/ /\ \E outcome \in {"succeeded", "incomplete"} : status' = [status EXCEPT ![q] = outcome]
        /\ charged' = [charged EXCEPT ![q] = bill[q]]
        /\ UNCHANGED left
     \/ Spend("fault") /\ UNCHANGED <<status, charged>>
  /\ Return(c)
  /\ UNCHANGED <<now, adminVars, created, budget, providerVars, txVars>>

-----------------------------------------------------------------------------
\* The process of a caller stops; the database ends its transaction.
Crash(c) ==
  /\ pc[c] # "idle" /\ Spend("crash")
  /\ Return(c)
  /\ IF lock = c THEN Release ELSE UNCHANGED txVars
  /\ UNCHANGED <<now, adminVars, rowVars, providerVars>>

\* The caller gives up: a stopped file job, a shutdown.
Cancel(c) ==
  /\ pc[c] # "idle" /\ ~aborted[c] /\ Spend("cancel")
  /\ aborted' = [aborted EXCEPT ![c] = TRUE]
  /\ UNCHANGED <<now, adminVars, rowVars, providerVars, pc, req, txVars>>

\* sensitiveOperation() and logout() take the authentication lock, which an
\* open admission shares; configure() takes the Installation lock as well.
Exclusive == lock = NoOne /\ session = "valid"

Configure(l) ==
  /\ Exclusive /\ Spend("configure") /\ limit' = l
  /\ UNCHANGED <<now, session, enabled, allowed, rowVars, providerVars, callerVars, txVars>>

\* replace() enables the credential of a kind, disable() and remove() end its use.
SetCredential(k, on) ==
  /\ Exclusive /\ Spend("key") /\ enabled' = [enabled EXCEPT ![k] = on]
  /\ UNCHANGED <<now, session, limit, allowed, rowVars, providerVars, callerVars, txVars>>

SetTransfers(flags) ==
  /\ Exclusive /\ Spend("transfer") /\ allowed' = flags
  /\ UNCHANGED <<now, session, limit, enabled, rowVars, providerVars, callerVars, txVars>>

Logout ==
  /\ Exclusive /\ Spend("logout") /\ session' = "revoked"
  /\ UNCHANGED <<now, limit, enabled, allowed, rowVars, providerVars, callerVars, txVars>>

\* Time runs out for a session whatever is under way.
Expire ==
  /\ session = "valid" /\ Spend("expire") /\ session' = "expired"
  /\ UNCHANGED <<now, limit, enabled, allowed, rowVars, providerVars, callerVars, txVars>>

Tick ==
  /\ now < MaxTime /\ now' = now + 1
  /\ UNCHANGED <<adminVars, rowVars, providerVars, callerVars, txVars, left>>

CallerStep(c) ==
  \/ Preflight(c) \/ ReadMasterKey(c) \/ Admit(c) \/ ReadCharged(c) \/ Reserve(c)
  \/ AdmissionFails(c) \/ NotSent(c) \/ Transmit(c) \/ Answer(c) \/ NoAnswer(c)
  \/ MarkUnknown(c) \/ Settle(c)

Next ==
  \/ \E c \in Callers, q \in Requests : Begin(c, q)
  \/ \E c \in Callers : CallerStep(c) \/ Crash(c) \/ Cancel(c)
  \/ \E l \in Limits \cup {NoBudget} : Configure(l)
  \/ \E k \in Kinds, on \in BOOLEAN : SetCredential(k, on)
  \/ \E flags \in [Flags -> BOOLEAN] : SetTransfers(flags)
  \/ Logout \/ Expire \/ Tick

Spec == Init /\ [][Next]_vars

\* Callers go on, and the timeout of a call under way fires.  A row lock is
\* granted to those that wait for it, however often it is taken before.
FairSpec ==
  /\ Spec
  /\ \A c \in Callers : WF_vars(CallerStep(c))
  /\ \A c \in Callers : SF_vars(Admit(c) \/ NotSent(c) \/ MarkUnknown(c) \/ Settle(c))

-----------------------------------------------------------------------------
Statuses == {"absent", "dispatching", "unknown", "not_sent", "succeeded", "incomplete"}
Labels == {"idle", "preflight", "reader", "admit", "charged", "held", "dispatch",
           "waiting", "mark", "settle"}

\* Types of the variables (seen is only compared); an admission is open exactly
\* while its caller holds the Installation row (lock() and its transaction).
TypeOK ==
  /\ now \in Nat /\ clock \in Nat
  /\ session \in {"valid", "revoked", "expired"}
  /\ limit \in Limits \cup {NoBudget}
  /\ enabled \in [Kinds -> BOOLEAN] /\ allowed \in [Flags -> BOOLEAN]
  /\ status \in [Requests -> Statuses]
  /\ created \in [Requests -> Nat]
  /\ charged \in [Requests -> Nat \cup {Null}]
  /\ budget \in [Requests -> Limits \cup {NoBudget}]
  /\ sent \in [Requests -> Nat] /\ bill \in [Requests -> Nat]
  /\ pc \in [Callers -> Labels]
  /\ req \in [Callers -> Requests \cup {NoRequest}]
  /\ aborted \in [Callers -> BOOLEAN]
  /\ \A c \in Callers : req[c] = NoRequest <=> pc[c] = "idle"
  /\ lock \in Callers \cup {NoOne}
  /\ \A c \in Callers : lock = c <=> pc[c] \in {"charged", "held"}
  /\ swept \in SUBSET Requests
  /\ left \in [Events -> Nat]

\* What the calls of a month really cost, as far as the provider keeps to what
\* was reserved, stays within the budget that held for one of its last calls:
\* concurrent admissions, settlements between the two sums, crashes, unknown
\* outcomes and a lowered budget together do not get past exposure().
BudgetKept ==
  LET InMonth(m) == {q \in Rows : MonthStart(created[q]) = m}
      Cost(q) == Min({bill[q], Reserved(q)})
  IN \A m \in {MonthStart(created[q]) : q \in Rows} : \E last \in InMonth(m) :
       /\ \A q \in InMonth(m) : created[q] <= created[last]
       /\ MapThenSumSet(Cost, InMonth(m)) <= budget[last]

\* Money is promised and spent as if calls were admitted and closed in single
\* steps: run() implements the abstract ledger.
Ledger == INSTANCE CallLedger WITH
  Calls <- Requests, Cost <- Reserved, Limits <- Limits \cup {NoBudget}, time <- now,
  state <- [q \in Requests |->
              CASE status[q] = "absent" -> "free" [] q \in Unsettled -> "open" [] OTHER -> "closed"],
  since <- created,
  paid <- [q \in Requests |-> IF charged[q] = Null THEN 0 ELSE charged[q]]
ImplementsLedger == Ledger!Spec

\* Whatever clients repeat and whichever step fails, a request is sent to the
\* provider at most once, only with a committed row, and never when the row
\* says not_sent (findPrior(), and the order of commit and provider.call()).
SentOnce ==
  \A q \in Requests :
    /\ sent[q] <= 1
    /\ sent[q] = 1 => status[q] \notin {"absent", "not_sent"}

\* A charge in the books is what the provider bills: neither the sweep nor a
\* cancelled or failed call releases a reservation that may still be billed.
HonestCharges == \A q \in Rows \ Unsettled : charged[q] = bill[q] /\ charged[q] <= Reserved(q)

\* One answer at a time: until its deadline no second answer is on its way to
\* the provider or back, though rows of failed callers stay behind, and are
\* swept by the next admission.
OnItsWay(c) ==
  /\ pc[c] \in {"dispatch", "waiting", "settle"}
  /\ KindOf(req[c]) = "answer" /\ now < Deadline(req[c])
OneAnswer == \A c, d \in Callers : OnItsWay(c) /\ OnItsWay(d) => c = d

\* When a row is committed, the session, the transfer, the credential and the
\* budget still allow it, however long the request waited after its preflight.
AdmittedUnderPolicy ==
  [][\A q \in Requests :
       status[q] = "absent" /\ status'[q] # "absent" => session = "valid" /\ Sendable(q)]_vars

\* What a caller was told for good stays: a row that was settled or not sent
\* is not changed by a sweep, a late step or a repeated request.
SettledFinal ==
  [][\A q \in Rows \ Unsettled :
       status'[q] = status[q] /\ charged'[q] = charged[q] /\ sent'[q] = sent[q]]_vars

\* Every call of run() returns: no one waits for the Installation row for ever,
\* and a provider that does not answer is given up.
CallsReturn == \A c \in Callers : pc[c] # "idle" ~> pc[c] = "idle"

=============================================================================
