------------------------------ MODULE FileRuns ------------------------------
(***************************************************************************)
(* The persistent queue of file jobs: apps/api/src/files/                   *)
(* file-run.service.ts, with the operations of file-management.service.ts   *)
(* and file-foundation.ts that it interleaves with.                         *)
(*                                                                         *)
(* Database rows, files of the pending directory, advisory locks and the    *)
(* memory of each API process are separate variables: a transaction is one  *)
(* action, and a crash may fall between any two actions.  The locks are     *)
(* 3 = fileLock (a file operation), 4 = owner (the one executing process),  *)
(* 5 = inputLock (admission and cleanup of pending inputs); 6 is held for   *)
(* the length of one transaction, see TxHeld.                               *)
(***************************************************************************)
EXTENDS Naturals, FiniteSets

CONSTANTS
  Apis,        \* API processes that may run against the same database
  Clients,     \* HTTP requests in flight, each a thread of control
  Requests,    \* request identifiers (X-Townbase-Request-Id)
  Contents,    \* what an upload carries: its name and bytes
  ClientOps,   \* the operations clients call, a subset of Operations
  MaxRuns,     \* bound: rows ever created in FileRun
  PendingKeys, \* bound: names of pending files, numbers instead of UUIDs
  QueueLimit,  \* queued and running rows admitted together (20 in the code)
  Budgets,     \* bound: how often each event of Events happens, one of these
  NoOne        \* no process, no client, no request

Operations == {"register", "replace", "reprocess", "index"}
Events == {"stop", "manage", "crash", "halt", "lose", "revoke", "age", "unanswered"}
RunIds == 1 .. MaxRuns
NoRun == 0
NoKey == 0

ASSUME ConstantsAssumption ==
  /\ MaxRuns \in Nat
  /\ QueueLimit \in Nat \ {0}
  /\ PendingKeys \subseteq Nat \ {0}
  /\ ClientOps \subseteq Operations
  /\ Apis \cap Clients = {}
  /\ NoOne \notin Apis \cup Clients \cup Requests \cup Contents

ASSUME BudgetsAssumption == Budgets \subseteq [Events -> Nat]

VARIABLES
  \* FileRun and FileRunRequest; a run's number is its place in creation order
  status,      \* FileRun.status, "absent" before and "gone" after its row
  job,         \* the columns of FileRun that never change
  result,      \* FileRun.resultVersionId: a version number, 0 for NULL
  code,        \* FileRun.errorCode, as far as later decisions read it
  input,       \* FileRun.inputKey
  expired,     \* terminal rows older than the retention of 90 days
  bound,       \* FileRunRequest: the run each request identifier is bound to
  \* FileOriginal and FileVersion; run r registers original r
  latest,      \* the newest version of each original, 0 before it exists
  deleted,     \* FileOriginal.deletedAt IS NOT NULL
  scopeRev,    \* FileOriginal.scopeRevision
  pending,     \* files in the pending directory
  \* advisory locks 3, 4 and 5
  fileLock, owner, inputLock,
  \* one API process: life cycle and memory
  phase, closing, identity,
  wpc, wrun, wsess, wout, abort, full, seen,
  \* one HTTP request
  cpc, creq,
  \* sessions and the events still to come
  epoch, left

rowVars == <<status, job, result, code, input, expired, bound>>
sourceVars == <<latest, deleted, scopeRev>>
lockVars == <<fileLock, owner, inputLock>>
apiVars == <<phase, closing, identity>>
cleanVars == <<full, seen>>
workVars == <<wpc, wrun, wsess, wout, abort, cleanVars>>
clientVars == <<cpc, creq>>
envVars == <<epoch, left>>
vars == <<rowVars, sourceVars, pending, lockVars, apiVars, workVars,
          clientVars, envVars>>

-----------------------------------------------------------------------------
(* Rows *)

Active == {"queued", "running"}
Final == {"succeeded", "failed", "interrupted"}
Rows == {r \in RunIds : status[r] \in Active \cup Final}
ActiveRuns == {r \in RunIds : status[r] \in Active}

NoJob == [op |-> "none", key |-> <<"none", NoRun>>, target |-> NoRun,
          base |-> 0, scope |-> 0, parent |-> NoRun, content |-> NoOne]

\* retained() and owned(): rows a request may still name.
Retained == Rows \ expired

\* target(): an original that exists and is not deleted.
Available(o) == o # NoRun /\ latest[o] > 0 /\ o \notin deleted

\* run.resultOriginalId ?? run.targetOriginalId
SourceOf(r) ==
  IF result[r] # 0 /\ job[r].op = "register" THEN r ELSE job[r].target

\* input.family: retries of an upload that left no version share its targetKey.
NoFamily == <<"none", NoRun>>
Family(r) == IF job[r].op = "register" /\ result[r] = 0
             THEN job[r].key ELSE NoFamily

\* The succeeded runs a retry of parent p is bound to instead of running again.
Recovered(p, family) ==
  {r \in Retained : /\ status[r] = "succeeded"
                    /\ \/ job[r].parent = p
                       \/ family # NoFamily /\ job[r].key = family}

\* ORDER BY createdAt, id
IsNewest(r, S) == r \in S /\ \A s \in S : s <= r
IsOldest(r, S) == r \in S /\ \A s \in S : r <= s

TargetKey(q) ==
  CASE q.target # NoRun -> <<"original", q.target>>
    [] q.target = NoRun /\ q.family # NoFamily -> q.family
    [] OTHER -> <<"upload", q.req>>

JobOf(q) ==
  [op |-> q.op, key |-> TargetKey(q), target |-> q.target, base |-> q.base,
   scope |-> IF q.target = NoRun THEN 0 ELSE scopeRev[q.target],
   parent |-> q.parent, content |-> q.content]

\* complete() and the catch of execute() change a run only while it is running.
StillRunningUnchecked(r) == TRUE  \* mutant: no compare-and-set
StillRunning(r) == status[r] = "running"

\* A row refers to this pending file.
ReferencedByActive(k) == \E r \in ActiveRuns : input[r] = k  \* mutant
Referenced(k) == \E r \in Rows : input[r] = k

\* What one cleanup has still to look at: the rows with an input, as it read them.
NothingSeen == [r \in RunIds |-> "none"]
ReadOf(S) == [r \in RunIds |-> IF r \in S \cap Rows /\ input[r] # NoKey
                               THEN status[r] ELSE "none"]

EndRun(S, st) == [r \in RunIds |-> IF r \in S THEN st ELSE status[r]]
Spend(e) == left[e] > 0 /\ left' = [left EXCEPT ![e] = @ - 1]

-----------------------------------------------------------------------------
(* Processes and locks *)

Serving(a) == phase[a] \in {"up", "halting", "draining"}
Executing(a) == wpc[a] \in {"check", "extract", "commit", "write", "fail", "finish"}
InFile(a) == Executing(a) \/ wpc[a] \in {"claim", "activate"}
InInput(a) == wpc[a] \in {"clean", "discard", "sweep", "drop"}

\* this.active
Current(a) == IF Executing(a) THEN wrun[a] ELSE NoRun

\* Lock 6: every user but the completing worker needs it for one action only.
TxHeld == \E a \in Apis : wpc[a] = "write"

\* checkOwner() succeeds; when the lock is lost it also closes the process.
Owns(a) == owner = a /\ ~closing[a]
CheckOwnerFails(a) ==
  /\ ~Owns(a)
  /\ IF closing[a] THEN UNCHANGED <<closing, abort>>
     ELSE /\ closing' = [closing EXCEPT ![a] = TRUE]
          /\ abort' = [abort EXCEPT ![a] = @ \/ Current(a) # NoRun]

Free(lock, who) == IF lock = who THEN NoOne ELSE lock

NoRequest == [api |-> NoOne, sess |-> 0, req |-> NoOne, op |-> "none",
              content |-> NoOne, target |-> NoRun, base |-> 0,
              parent |-> NoRun, family |-> NoFamily, load |-> NoKey,
              key |-> NoKey, run |-> NoRun]

EndRequest(c) == /\ cpc' = [cpc EXCEPT ![c] = "idle"]
                 /\ creq' = [creq EXCEPT ![c] = NoRequest]
Go(c, at) == cpc' = [cpc EXCEPT ![c] = at] /\ UNCHANGED creq
Work(a, at) == wpc' = [wpc EXCEPT ![a] = at]

Init ==
  /\ status = [r \in RunIds |-> "absent"]
  /\ job = [r \in RunIds |-> NoJob]
  /\ result = [r \in RunIds |-> 0]
  /\ code = [r \in RunIds |-> "none"]
  /\ input = [r \in RunIds |-> NoKey]
  /\ expired = {}
  /\ bound = [q \in Requests |-> NoRun]
  /\ latest = [o \in RunIds |-> 0]
  /\ deleted = {}
  /\ scopeRev = [o \in RunIds |-> 1]
  /\ pending = {}
  /\ fileLock = NoOne /\ owner = NoOne /\ inputLock = NoOne
  /\ phase = [a \in Apis |-> "stopped"]
  /\ closing = [a \in Apis |-> FALSE]
  /\ identity = [a \in Apis |-> [r \in RunIds |-> 0]]
  /\ wpc = [a \in Apis |-> "idle"]
  /\ wrun = [a \in Apis |-> NoRun]
  /\ wsess = [a \in Apis |-> 0]
  /\ wout = [a \in Apis |-> "none"]
  /\ abort = [a \in Apis |-> FALSE]
  /\ full = [a \in Apis |-> FALSE]
  /\ seen = [a \in Apis |-> NothingSeen]
  /\ cpc = [c \in Clients |-> "idle"]
  /\ creq = [c \in Clients |-> NoRequest]
  /\ epoch = 1
  /\ left \in Budgets

-----------------------------------------------------------------------------
(* Requests: the transaction before admission reads what the job will be    *)

Begin(c, a, q) ==
  /\ cpc' = [cpc EXCEPT ![c] = "enter"]
  /\ creq' = [creq EXCEPT ![c] = [q EXCEPT !.api = a, !.sess = epoch]]
  /\ UNCHANGED <<rowVars, sourceVars, pending, lockVars, apiVars, workVars, envVars>>

\* A client takes a new identifier for a new job, also after the retention of an
\* earlier one (docs/implementation/v0.2-d03-file-runs.md:20).
Asks(c, a, q, op) ==
  /\ cpc[c] = "idle" /\ Serving(a) /\ op \in ClientOps
  /\ bound[q] = NoRun /\ \A r \in RunIds : job[r].key # <<"upload", q>>

Register(c, a, q, x) ==
  /\ Asks(c, a, q, "register")
  /\ Begin(c, a, [NoRequest EXCEPT !.req = q, !.op = "register", !.content = x])

Replace(c, a, q, o, x) ==
  /\ Asks(c, a, q, "replace") /\ Available(o)
  /\ Begin(c, a, [NoRequest EXCEPT !.req = q, !.op = "replace", !.content = x,
                                   !.target = o, !.base = latest[o]])

Derive(c, a, q, o, op) ==
  /\ op \in {"reprocess", "index"}
  /\ Asks(c, a, q, op) /\ Available(o)
  /\ Begin(c, a, [NoRequest EXCEPT !.req = q, !.op = op,
                                   !.target = o, !.base = latest[o]])

\* A recovered parent answers the retry at once, without admission.
RetryRecovered(c, a, q, p) ==
  /\ cpc[c] = "idle" /\ Serving(a) /\ bound[q] = NoRun /\ ~TxHeld
  /\ p \in Retained
  /\ \E r \in RunIds : /\ IsNewest(r, Recovered(p, Family(p)))
                      /\ bound' = [bound EXCEPT ![q] = r]
  /\ UNCHANGED <<status, job, result, code, input, expired, sourceVars, pending,
                 lockVars, apiVars, workVars, clientVars, envVars>>

\* A parent that left a version is reprocessed; any other runs again, from its
\* pending input if it had one.
Retry(c, a, q, p) ==
  LET op     == IF result[p] # 0 THEN "reprocess" ELSE job[p].op
      target == SourceOf(p)
      base   == IF result[p] # 0 THEN result[p] ELSE job[p].base
      load   == IF result[p] # 0 THEN NoKey ELSE input[p]
  IN /\ cpc[c] = "idle" /\ Serving(a) /\ bound[q] = NoRun
     /\ p \in Retained /\ Recovered(p, Family(p)) = {}
     /\ status[p] \in {"failed", "interrupted"} /\ code[p] # "sensitive_file"
     /\ target # NoRun => Available(target) /\ latest[target] = base
     /\ load # NoKey \/ op \in {"reprocess", "index"}
     /\ Begin(c, a, [NoRequest EXCEPT !.req = q, !.op = op, !.parent = p,
                !.content = job[p].content, !.target = target, !.base = base,
                !.family = IF op = "register" THEN job[p].key ELSE NoFamily,
                !.load = load])

-----------------------------------------------------------------------------
(* Admission: acknowledged() and reserve()                                  *)

\* staging(): the first owner check and the try-lock; refused when it is held.
Enter(c) ==
  LET a == creq[c].api IN
  /\ cpc[c] = "enter"
  /\ \/ /\ CheckOwnerFails(a) /\ EndRequest(c) /\ UNCHANGED inputLock
     \/ /\ Owns(a) /\ inputLock # NoOne
        /\ EndRequest(c) /\ UNCHANGED <<inputLock, closing, abort>>
     \/ /\ Owns(a) /\ inputLock = NoOne
        /\ inputLock' = c /\ Go(c, "recheck") /\ UNCHANGED <<closing, abort>>
  /\ UNCHANGED <<rowVars, sourceVars, pending, fileLock, owner, phase, identity,
                 wpc, wrun, wsess, wout, cleanVars, envVars>>

\* A mutant of Found: what was read before the input lock is not read again.
FoundEarlier(q) == {}

\* The runs that answer a retry, and what every admission checks first.
Found(q) == IF q.parent = NoRun THEN {} ELSE Recovered(q.parent, q.family)
Known(q) == q.sess = epoch /\ bound[q.req] = NoRun
            /\ q.parent \in Retained \cup {NoRun}

\* Under the input lock: the second owner check, the replay of an earlier
\* request and the binding of a recovered retry.
Recheck(c) ==
  LET q == creq[c]
      leave == EndRequest(c) /\ inputLock' = Free(inputLock, c)
  IN
  /\ cpc[c] = "recheck"
  /\ \/ CheckOwnerFails(q.api) /\ leave /\ UNCHANGED bound
     \/ /\ Owns(q.api) /\ UNCHANGED <<closing, abort>>
        /\ \/ ~Known(q) /\ leave /\ UNCHANGED bound
           \/ /\ Known(q) /\ ~TxHeld
              /\ \E r \in RunIds : /\ IsNewest(r, Found(q))
                                  /\ bound' = [bound EXCEPT ![q.req] = r]
              /\ leave
           \/ /\ Known(q) /\ Found(q) = {}
              /\ Go(c, "stage") /\ UNCHANGED <<bound, inputLock>>
  /\ UNCHANGED <<status, job, result, code, input, expired, sourceVars, pending,
                 fileLock, owner, phase, identity, wpc, wrun, wsess, wout,
                 cleanVars, envVars>>

\* A name no file, row or request refers to; which fresh one is immaterial.
UsedKeys == pending \cup {input[r] : r \in RunIds}
                    \cup {creq[c].load : c \in Clients}
FreshKey(k) ==
  k \in PendingKeys \ UsedKeys /\ \A j \in PendingKeys \ UsedKeys : k <= j

\* bytes() and pending.write(): a retry first loads its parent's input.  Either
\* may fail.
Stage(c) ==
  LET q == creq[c] IN
  /\ cpc[c] = "stage"
  /\ \/ /\ q.op \in {"register", "replace"}
        /\ Go(c, "settle") /\ UNCHANGED pending
     \/ /\ q.op \in {"reprocess", "index"}
        /\ Go(c, "reserve") /\ UNCHANGED pending
     \/ /\ q.op \in {"register", "replace"} /\ (q.load = NoKey \/ q.load \in pending)
        /\ \E k \in PendingKeys :
             /\ FreshKey(k)
             /\ pending' = pending \cup {k}
             /\ creq' = [creq EXCEPT ![c].key = k]
        /\ cpc' = [cpc EXCEPT ![c] = "reserve"]
  /\ UNCHANGED <<rowVars, sourceVars, lockVars, apiVars, workVars, envVars>>

\* The active run of the same target, if any.
Rival(q) == {r \in ActiveRuns : job[r].key = TargetKey(q)}
NextRun == {r \in RunIds : status[r] = "absent" /\ \A s \in 1 .. r - 1 : status[s] # "absent"}

QueueFullOfWaiting ==  \* mutant: the run under way is not counted
  Cardinality({r \in RunIds : status[r] = "queued"}) >= QueueLimit
QueueFull == Cardinality(ActiveRuns) >= QueueLimit

\* The version the request was made for is still the newest.
Fresh(q) ==
  q.target # NoRun => Available(q.target) /\ latest[q.target] = q.base

\* reserve(): one transaction under lock 6.
ReserveCreate(c) ==
  LET q == creq[c] IN
  /\ Known(q) /\ Found(q) = {} /\ Fresh(q) /\ Rival(q) = {} /\ ~QueueFull
  /\ \E r \in NextRun, answered \in BOOLEAN :
       /\ status' = [status EXCEPT ![r] = "queued"]
       /\ job' = [job EXCEPT ![r] = JobOf(q)]
       /\ input' = [input EXCEPT ![r] = q.key]
       /\ bound' = [bound EXCEPT ![q.req] = r]
       \* The commit may succeed and its answer be lost.
       /\ IF answered THEN UNCHANGED left ELSE Spend("unanswered")
       /\ creq' = [creq EXCEPT ![c].run = IF answered THEN r ELSE NoRun]
  /\ cpc' = [cpc EXCEPT ![c] = "settle"]

\* A recovered run answers a retry; an active run joins an identical request.
ReserveBind(c) ==
  LET q == creq[c] IN
  /\ Known(q)
  /\ \E r \in RunIds :
       /\ \/ IsNewest(r, Found(q))
          \/ Found(q) = {} /\ Fresh(q) /\ r \in Rival(q) /\ job[r] = JobOf(q)
       /\ bound' = [bound EXCEPT ![q.req] = r]
  /\ Go(c, "settle")
  /\ UNCHANGED <<status, job, input, left>>

\* source_changed, target_busy, file_queue_full, or an expired session or parent.
ReserveRefuse(c) ==
  LET q == creq[c] IN
  /\ \/ ~Known(q)
     \/ /\ Found(q) = {}
        /\ \/ ~Fresh(q)
           \/ \E r \in Rival(q) : job[r] # JobOf(q)
           \/ Rival(q) = {} /\ (QueueFull \/ NextRun = {})  \* the bound MaxRuns
  /\ Go(c, "settle")
  /\ UNCHANGED <<status, job, input, bound, left>>

Reserve(c) ==
  /\ cpc[c] = "reserve" /\ ~TxHeld
  /\ ReserveCreate(c) \/ ReserveBind(c) \/ ReserveRefuse(c)
  /\ UNCHANGED <<result, code, expired, sourceVars, pending, lockVars, apiVars,
                 workVars, epoch>>

\* Remember the session of a created run, drop an input no row refers to and
\* release the input lock.
Settle(c) ==
  LET q == creq[c] IN
  /\ cpc[c] = "settle"
  /\ identity' = IF q.run = NoRun THEN identity
                 ELSE [identity EXCEPT ![q.api][q.run] = q.sess]
  /\ pending' = IF Referenced(q.key) THEN pending ELSE pending \ {q.key}
  /\ inputLock' = Free(inputLock, c)
  /\ EndRequest(c)
  /\ UNCHANGED <<rowVars, sourceVars, fileLock, owner, phase, closing, workVars, envVars>>

-----------------------------------------------------------------------------
(* Other requests                                                           *)

\* stop(): the database first ...
Stop(c, a, r) ==
  /\ cpc[c] = "idle" /\ Serving(a) /\ ~TxHeld
  /\ r \in Retained /\ status[r] \in Active
  /\ Spend("stop")
  /\ status' = EndRun({r}, "interrupted")
  /\ code' = [code EXCEPT ![r] = "user_stopped"]
  /\ cpc' = [cpc EXCEPT ![c] = "abort"]
  /\ creq' = [creq EXCEPT ![c] = [NoRequest EXCEPT !.api = a, !.run = r]]
  /\ UNCHANGED <<job, result, input, expired, bound, sourceVars, pending, lockVars,
                 apiVars, workVars, epoch>>

\* ... then the work under way in this process.
StopAbort(c) ==
  LET a == creq[c].api
      r == creq[c].run
  IN
  /\ cpc[c] = "abort"
  /\ abort' = [abort EXCEPT ![a] = @ \/ Current(a) = r]
  /\ identity' = [identity EXCEPT ![a][r] = 0]
  /\ EndRequest(c)
  /\ UNCHANGED <<rowVars, sourceVars, pending, lockVars, phase, closing, wpc, wrun,
                 wsess, wout, cleanVars, envVars>>

\* FileManagementService.busy: one file operation per process.
Busy(a) == InFile(a) \/ \E c \in Clients : cpc[c] = "manage" /\ creq[c].api = a

\* remove() and setScope() take the file lock or are refused.
ManageLock(c, a, o, op) ==
  /\ op \in {"remove", "scope"}
  /\ cpc[c] = "idle" /\ Serving(a) /\ latest[o] > 0
  /\ ~Busy(a) /\ fileLock = NoOne
  /\ Spend("manage")
  /\ fileLock' = c
  /\ cpc' = [cpc EXCEPT ![c] = "manage"]
  /\ creq' = [creq EXCEPT ![c] = [NoRequest EXCEPT !.api = a, !.sess = epoch,
                                                   !.op = op, !.target = o]]
  /\ UNCHANGED <<rowVars, sourceVars, pending, owner, inputLock, apiVars, workVars, epoch>>

ManageCommit(c) ==
  LET o == creq[c].target
      valid == creq[c].sess = epoch
  IN
  /\ cpc[c] = "manage"
  /\ deleted' = IF valid /\ creq[c].op = "remove" THEN deleted \cup {o} ELSE deleted
  /\ scopeRev' = IF valid /\ creq[c].op = "scope" /\ Available(o)
                 THEN [scopeRev EXCEPT ![o] = @ + 1] ELSE scopeRev
  /\ fileLock' = Free(fileLock, c)
  /\ EndRequest(c)
  /\ UNCHANGED <<rowVars, latest, pending, owner, inputLock, apiVars, workVars, envVars>>

\* Logout or a password change: every earlier session is refused from now on.
\* Revocation waits for a transaction that already holds the session.
Revoke ==
  /\ ~TxHeld /\ Spend("revoke")
  /\ epoch' = epoch + 1
  /\ UNCHANGED <<rowVars, sourceVars, pending, lockVars, apiVars, workVars, clientVars>>

-----------------------------------------------------------------------------
(* The worker: drain() and execute()                                        *)

\* wake(), every second and after each request: nothing is started while closing.
WakesWhileClosing(a) == wpc[a] = "idle" /\ phase[a] \in {"up", "draining"}  \* mutant
Wakes(a) == wpc[a] = "idle" /\ phase[a] = "up" /\ ~closing[a]

\* The head of the loop: look for queued work without the file lock.
Peek(a) ==
  /\ Wakes(a)
  /\ \/ CheckOwnerFails(a) /\ UNCHANGED wpc
     \/ /\ Owns(a) /\ \E r \in RunIds : status[r] = "queued"
        /\ Work(a, "lock") /\ UNCHANGED <<closing, abort>>
  /\ UNCHANGED <<rowVars, sourceVars, pending, lockVars, phase, identity, wrun,
                 wsess, wout, cleanVars, clientVars, envVars>>

\* withFileOperation(): a busy lock leaves the run queued for a later wake.
TakeFileLock(a) ==
  /\ wpc[a] = "lock" /\ ~Busy(a) /\ fileLock = NoOne
  /\ fileLock' = a
  /\ Work(a, "claim")
  /\ UNCHANGED <<rowVars, sourceVars, pending, owner, inputLock, apiVars, wrun, wsess,
                 wout, abort, cleanVars, clientVars, envVars>>

FileLockBusy(a) ==
  /\ wpc[a] = "lock" /\ (Busy(a) \/ fileLock # NoOne)
  /\ Work(a, "idle")
  /\ UNCHANGED <<rowVars, sourceVars, pending, lockVars, apiVars, wrun, wsess, wout,
                 abort, cleanVars, clientVars, envVars>>

\* The claim transaction: the oldest queued run, unless the process is closing,
\* nothing is queued any more or the index FileRun_one_running refuses.  When the
\* commit's answer is lost the row is running, though nobody works on it.
NextQueued(r, queued) == IsOldest(r, queued)

Claim(a) ==
  LET queued == {r \in RunIds : status[r] = "queued"}
      refused == closing[a] \/ queued = {} \/ \E r \in RunIds : status[r] = "running"
  IN
  /\ wpc[a] = "claim" /\ ~TxHeld
  /\ IF refused
     THEN /\ Work(a, "idle")
          /\ fileLock' = Free(fileLock, a)
          /\ UNCHANGED <<status, wrun, wout, left>>
     ELSE /\ \E r \in RunIds :
               /\ NextQueued(r, queued)
               /\ status' = [status EXCEPT ![r] = "running"]
               /\ wrun' = [wrun EXCEPT ![a] = r]
          /\ \/ /\ Work(a, "activate") /\ wout' = [wout EXCEPT ![a] = "none"]
                /\ UNCHANGED <<fileLock, left>>
             \/ /\ Work(a, "idle") /\ wout' = [wout EXCEPT ![a] = "unsaved"]
                /\ fileLock' = Free(fileLock, a) /\ Spend("unanswered")
  /\ UNCHANGED <<job, result, code, input, expired, bound, sourceVars, pending, owner,
                 inputLock, apiVars, wsess, abort, cleanVars, clientVars, epoch>>

\* this.active, the abort controller and the identity the run was admitted under.
Activate(a) ==
  LET r == wrun[a] IN
  /\ wpc[a] = "activate"
  /\ abort' = [abort EXCEPT ![a] = closing[a]]
  /\ wsess' = [wsess EXCEPT ![a] = identity[a][r]]
  /\ IF identity[a][r] = 0
     THEN Work(a, "fail") /\ wout' = [wout EXCEPT ![a] = "refused"]
     ELSE Work(a, "check") /\ wout' = [wout EXCEPT ![a] = "none"]
  /\ UNCHANGED <<rowVars, sourceVars, pending, lockVars, apiVars, wrun, cleanVars,
                 clientVars, envVars>>

\* The monitor notices that the run it works on was ended by someone else.
Monitor(a) ==
  /\ Executing(a) /\ status[wrun[a]] # "running" /\ ~abort[a]
  /\ abort' = [abort EXCEPT ![a] = TRUE]
  /\ UNCHANGED <<rowVars, sourceVars, pending, lockVars, apiVars, wpc, wrun, wsess,
                 wout, cleanVars, clientVars, envVars>>

\* Mutant: a change of scope goes unnoticed.
UntouchedVersion(r) ==
  job[r].target # NoRun =>
    Available(job[r].target) /\ latest[job[r].target] = job[r].base

\* The target as the run was admitted for it: version, scope, not deleted.
Untouched(r) ==
  job[r].target # NoRun =>
    /\ Available(job[r].target)
    /\ latest[job[r].target] = job[r].base
    /\ scopeRev[job[r].target] = job[r].scope

\* A vanished target interrupts the run, any other obstacle fails it.
Obstacle(a) ==
  LET r == wrun[a] IN
  IF wsess[a] = epoch /\ job[r].target # NoRun /\ ~Available(job[r].target)
  THEN "vanished" ELSE "refused"

Check(a) ==
  LET r == wrun[a]
      ok == Untouched(r) /\ (job[r].target # NoRun => wsess[a] = epoch)
  IN
  /\ wpc[a] = "check"
  /\ Work(a, IF ok THEN "extract" ELSE "fail")
  /\ wout' = [wout EXCEPT ![a] = IF ok THEN "none" ELSE Obstacle(a)]
  /\ UNCHANGED <<rowVars, sourceVars, pending, lockVars, apiVars, wrun, wsess, abort,
                 cleanVars, clientVars, envVars>>

\* Read the input and extract (or index) it.  A content failure is a result to
\* be stored ("bad"); a technical failure, a secret found in the text and a
\* cancellation are not.
Extract(a) ==
  LET r == wrun[a]
      readable == job[r].op \in {"register", "replace"} => input[r] \in pending
      stored == IF job[r].op = "index" THEN {"extracted"} ELSE {"extracted", "bad"}
      lost == {"refused"} \cup (IF readable THEN {"sensitive"} ELSE {})
      outcomes == CASE abort[a] /\ readable -> {"cancelled", "refused"}
                    [] ~readable -> lost
                    [] OTHER -> stored \cup lost
  IN
  /\ wpc[a] = "extract"
  /\ \E out \in outcomes :
       /\ wout' = [wout EXCEPT ![a] = out]
       /\ Work(a, IF out \in stored THEN "commit" ELSE "fail")
  /\ UNCHANGED <<rowVars, sourceVars, pending, lockVars, apiVars, wrun, wsess, abort,
                 cleanVars, clientVars, envVars>>

\* The result transaction up to complete(): session, target, lock 6 and owner.
Commit(a) ==
  LET r == wrun[a]
      valid == wsess[a] = epoch /\ Untouched(r)
      failed == /\ Work(a, "fail")
                /\ wout' = [wout EXCEPT ![a] = IF valid THEN "refused" ELSE Obstacle(a)]
  IN
  /\ wpc[a] = "commit" /\ ~TxHeld
  /\ \/ ~valid /\ failed /\ UNCHANGED <<closing, abort>>
     \/ valid /\ failed /\ CheckOwnerFails(a)
     \/ valid /\ Owns(a) /\ Work(a, "write") /\ UNCHANGED <<wout, closing, abort>>
  /\ UNCHANGED <<rowVars, sourceVars, pending, lockVars, phase, identity, wrun, wsess,
                 cleanVars, clientVars, envVars>>

\* A register or replace adds a version to its original, any other job works on
\* the version it was admitted for.
OriginalOf(r) == IF job[r].op = "register" THEN r ELSE job[r].target
ResultVersionAlwaysNew(r) == latest[OriginalOf(r)] + 1  \* mutant
ResultVersion(r) ==
  IF job[r].op \in {"register", "replace"} THEN latest[OriginalOf(r)] + 1 ELSE job[r].base

\* complete() and the commit: the run must still be running, or all of it rolls
\* back.  A file that cannot be read is a result, too.
Write(a) ==
  LET r == wrun[a] IN
  /\ wpc[a] = "write"
  /\ IF StillRunning(r)
     THEN /\ status' = EndRun({r}, IF wout[a] = "extracted" THEN "succeeded" ELSE "failed")
          /\ result' = [result EXCEPT ![r] = ResultVersion(r)]
          /\ latest' = [latest EXCEPT ![OriginalOf(r)] = ResultVersion(r)]
          /\ Work(a, "finish") /\ UNCHANGED wout
     ELSE /\ Work(a, "fail") /\ wout' = [wout EXCEPT ![a] = "refused"]
          /\ UNCHANGED <<status, result, latest>>
  /\ UNCHANGED <<job, code, input, expired, bound, deleted, scopeRev, pending, lockVars,
                 apiVars, wrun, wsess, abort, cleanVars, clientVars, envVars>>

\* The catch of execute(): recorded only while the run is still running.
Recorded(a) ==
  LET r == wrun[a] IN
  IF StillRunning(r)
  THEN /\ status' = EndRun({r}, IF wout[a] = "vanished" THEN "interrupted" ELSE "failed")
       /\ code' = [code EXCEPT ![r] =
            CASE wout[a] = "sensitive" -> "sensitive_file"
              [] wout[a] = "cancelled" -> "cancelled"
              [] OTHER -> "other"]
  ELSE UNCHANGED <<status, code>>

\* That statement may fail as well, with or without an effect; nothing repeats it.
Fail(a) ==
  /\ wpc[a] = "fail"
  /\ \/ Recorded(a) /\ UNCHANGED <<wout, left>>
     \/ /\ Recorded(a) \/ UNCHANGED <<status, code>>
        /\ Spend("unanswered")
        /\ wout' = [wout EXCEPT ![a] = "unsaved"]
  /\ Work(a, "finish")
  /\ UNCHANGED <<job, result, input, expired, bound, sourceVars, pending, lockVars,
                 apiVars, wrun, wsess, abort, cleanVars, clientVars, epoch>>

\* Leave the file operation and, unless drain() was left by an error or the input
\* lock is taken, clean up this run.
Finish(a) ==
  /\ wpc[a] = "finish"
  /\ identity' = [identity EXCEPT ![a][wrun[a]] = 0]
  /\ abort' = [abort EXCEPT ![a] = FALSE]
  /\ fileLock' = Free(fileLock, a)
  /\ IF inputLock = NoOne /\ wout[a] # "unsaved"
     THEN /\ inputLock' = a /\ Work(a, "clean")
          /\ seen' = [seen EXCEPT ![a] = ReadOf({wrun[a]})]
          /\ full' = [full EXCEPT ![a] = FALSE]
     ELSE Work(a, "idle") /\ UNCHANGED <<inputLock, cleanVars>>
  /\ UNCHANGED <<rowVars, sourceVars, pending, owner, phase, closing, wrun, wsess, wout,
                 clientVars, envVars>>

-----------------------------------------------------------------------------
(* Cleanup of inputs and expired rows: cleanup(), under the input lock      *)

\* The source of this row's file is gone.  A row read while active names no result.
Removed(r, was) ==
  LET o == IF was \in Active THEN job[r].target ELSE SourceOf(r)
  IN o # NoRun /\ ~Available(o)

\* A failed upload that another run of its family has since registered.
Superseded(r) ==
  /\ job[r].op = "register" /\ result[r] = 0
  /\ \E s \in Rows : job[s].key = job[r].key /\ status[s] = "succeeded"

Discardable(r, was) ==
  \/ was \notin Active /\ (\/ Superseded(r) \/ result[r] # 0
                          \/ code[r] = "sensitive_file" \/ r \in expired)
  \/ Removed(r, was)

\* Any next row: unlink its file or pass over it; after the last one go on or end.
Clean(a) ==
  LET rows == {r \in RunIds : seen[a][r] # "none"} IN
  /\ wpc[a] = "clean"
  /\ \/ /\ rows = {}
        /\ IF full[a] THEN Work(a, "sweep") /\ UNCHANGED inputLock
           ELSE Work(a, "idle") /\ inputLock' = Free(inputLock, a)
        /\ UNCHANGED <<pending, wrun, seen>>
     \/ \E r \in rows :
        /\ IF Discardable(r, seen[a][r])
           THEN /\ pending' = pending \ {input[r]}
                /\ wrun' = [wrun EXCEPT ![a] = r]
                /\ Work(a, "discard") /\ UNCHANGED seen
           ELSE /\ seen' = [seen EXCEPT ![a][r] = "none"]
                /\ UNCHANGED <<pending, wrun, wpc>>
        /\ UNCHANGED inputLock
  /\ UNCHANGED <<rowVars, sourceVars, fileLock, owner, apiVars, wsess, wout, abort,
                 full, clientVars, envVars>>

\* The row follows its file, unless its status is no longer the one that was read.
Discard(a) ==
  LET r == wrun[a]
      was == seen[a][r]
  IN
  /\ wpc[a] = "discard"
  /\ IF status[r] = was
     THEN /\ input' = [input EXCEPT ![r] = NoKey]
          /\ IF was \in Active
             THEN /\ status' = EndRun({r}, "interrupted")
                  /\ code' = [code EXCEPT ![r] = "other"]
             ELSE UNCHANGED <<status, code>>
     ELSE UNCHANGED <<status, code, input>>
  /\ seen' = [seen EXCEPT ![a][r] = "none"]
  /\ Work(a, "clean")
  /\ UNCHANGED <<job, result, expired, bound, sourceVars, pending, lockVars, apiVars,
                 wrun, wsess, wout, abort, full, clientVars, envVars>>

\* Files of the pending directory no row refers to.
OrphansOfGoneRows == {k \in pending : \E r \in RunIds \ Rows : input[r] = k}  \* mutant
Orphans == {k \in pending : ~Referenced(k)}

Sweep(a) ==
  /\ wpc[a] = "sweep"
  /\ pending' = pending \ Orphans
  /\ Work(a, "drop")
  /\ UNCHANGED <<rowVars, sourceVars, lockVars, apiVars, wrun, wsess, wout, abort,
                 cleanVars, clientVars, envVars>>

\* Expired rows without an input, with their request identifiers.  The end of
\* the cleanup of a starting process opens it for requests.
Drop(a) ==
  LET gone == {r \in expired \cap Rows : input[r] = NoKey} IN
  /\ wpc[a] = "drop"
  /\ status' = EndRun(gone, "gone")
  /\ bound' = [q \in Requests |-> IF bound[q] \in gone THEN NoRun ELSE bound[q]]
  /\ Work(a, "idle")
  /\ inputLock' = Free(inputLock, a)
  /\ phase' = IF phase[a] = "boot" THEN [phase EXCEPT ![a] = "up"] ELSE phase
  /\ UNCHANGED <<job, result, code, input, expired, sourceVars, pending, fileLock, owner,
                 closing, identity, wrun, wsess, wout, abort, cleanVars, clientVars,
                 envVars>>

\* The periodic full cleanup, at the end of a drain: nothing to claim, or the
\* file lock was busy.
StartCleanup(a) ==
  /\ Wakes(a) /\ inputLock = NoOne
  /\ fileLock # NoOne \/ \A r \in RunIds : status[r] # "queued"
  /\ inputLock' = a
  /\ Work(a, "clean")
  /\ seen' = [seen EXCEPT ![a] = ReadOf(RunIds)]
  /\ full' = [full EXCEPT ![a] = TRUE]
  /\ UNCHANGED <<rowVars, sourceVars, pending, fileLock, owner, apiVars, wrun, wsess,
                 wout, abort, clientVars, envVars>>

-----------------------------------------------------------------------------
(* Life cycle: onModuleInit(), onModuleDestroy(), crashes and lost locks    *)

\* Take lock 4, alone; an old process of this name has ended its requests.
BootOwn(a) ==
  /\ phase[a] \in {"stopped", "crashed"} /\ owner = NoOne
  /\ \A c \in Clients : creq[c].api # a
  /\ owner' = a
  /\ phase' = [phase EXCEPT ![a] = "boot"]
  /\ closing' = [closing EXCEPT ![a] = FALSE]
  /\ wout' = [wout EXCEPT ![a] = "none"]
  /\ UNCHANGED <<rowVars, sourceVars, pending, fileLock, inputLock, identity, wpc, wrun,
                 wsess, abort, cleanVars, clientVars, envVars>>

\* What an earlier process left behind.  Mutants: all of it, or the queue only.
LeftBehindAll == Rows
LeftBehindQueued == {r \in RunIds : status[r] = "queued"}
LeftBehind == ActiveRuns

\* After a first reconcile under lock 3, whatever an earlier process left
\* behind is interrupted; then a full cleanup.
BootInterrupt(a) ==
  /\ phase[a] = "boot" /\ wpc[a] = "idle" /\ fileLock = NoOne
  /\ status' = EndRun(LeftBehind, "interrupted")
  /\ code' = [r \in RunIds |-> IF r \in LeftBehind THEN "api_restarted" ELSE code[r]]
  /\ Work(a, "booted")
  /\ UNCHANGED <<job, result, input, expired, bound, sourceVars, pending, lockVars,
                 apiVars, wrun, wsess, wout, abort, cleanVars, clientVars, envVars>>

BootClean(a) ==
  /\ wpc[a] = "booted" /\ inputLock = NoOne
  /\ inputLock' = a
  /\ Work(a, "clean")
  /\ seen' = [seen EXCEPT ![a] = ReadOf(RunIds)]
  /\ full' = [full EXCEPT ![a] = TRUE]
  /\ UNCHANGED <<rowVars, sourceVars, pending, fileLock, owner, apiVars, wrun, wsess,
                 wout, abort, clientVars, envVars>>

\* Start-up gives up when it cannot have lock 3 or 5 at once.
BootFail(a) ==
  /\ phase[a] = "boot"
  /\ \/ wpc[a] = "idle" /\ fileLock # NoOne
     \/ wpc[a] = "booted" /\ inputLock # NoOne
  /\ phase' = [phase EXCEPT ![a] = "crashed"]
  /\ owner' = Free(owner, a)
  /\ Work(a, "idle")
  /\ UNCHANGED <<rowVars, sourceVars, pending, fileLock, inputLock, closing, identity,
                 wrun, wsess, wout, abort, cleanVars, clientVars, envVars>>

\* Shutdown: refuse new work and, if a run is under way, end it first ...
Halt(a) ==
  /\ phase[a] = "up"
  /\ Spend("halt")
  /\ closing' = [closing EXCEPT ![a] = TRUE]
  /\ phase' = [phase EXCEPT ![a] = IF Executing(a) THEN "halting" ELSE "draining"]
  /\ UNCHANGED <<rowVars, sourceVars, pending, lockVars, identity, workVars, clientVars,
                 epoch>>

HaltCurrent(a) ==
  LET r == wrun[a] IN
  /\ phase[a] = "halting"
  /\ IF status[r] = "running"
     THEN /\ status' = EndRun({r}, "interrupted")
          /\ code' = [code EXCEPT ![r] = "api_stopped"]
     ELSE UNCHANGED <<status, code>>
  /\ abort' = [abort EXCEPT ![a] = @ \/ Executing(a)]
  /\ phase' = [phase EXCEPT ![a] = "draining"]
  /\ UNCHANGED <<job, result, input, expired, bound, sourceVars, pending, lockVars,
                 closing, identity, wpc, wrun, wsess, wout, cleanVars, clientVars, envVars>>

DrainedWorker(a) == wpc[a] = "idle"  \* mutant: an admission is not waited for
Drained(a) == wpc[a] = "idle" /\ inputLock = NoOne

\* ... wait for the worker and for an admission under way, then interrupt what
\* is queued and give up ownership.
HaltQueued(a) ==
  LET queued == {r \in RunIds : status[r] = "queued"} IN
  /\ phase[a] = "draining" /\ Drained(a)
  /\ status' = EndRun(queued, "interrupted")
  /\ code' = [r \in RunIds |-> IF r \in queued THEN "api_stopped" ELSE code[r]]
  /\ phase' = [phase EXCEPT ![a] = "stopped"]
  /\ identity' = [identity EXCEPT ![a] = [r \in RunIds |-> 0]]
  /\ owner' = Free(owner, a)
  /\ UNCHANGED <<job, result, input, expired, bound, sourceVars, pending, fileLock,
                 inputLock, closing, workVars, clientVars, envVars>>

\* The process dies: its memory, its connections and their locks, its requests.
Crash(a) ==
  LET mine == {c \in Clients : creq[c].api = a} IN
  /\ phase[a] \notin {"stopped", "crashed"}
  /\ Spend("crash")
  /\ phase' = [phase EXCEPT ![a] = "crashed"]
  /\ closing' = [closing EXCEPT ![a] = FALSE]
  /\ identity' = [identity EXCEPT ![a] = [r \in RunIds |-> 0]]
  /\ Work(a, "idle")
  /\ abort' = [abort EXCEPT ![a] = FALSE]
  /\ seen' = [seen EXCEPT ![a] = NothingSeen]
  /\ cpc' = [c \in Clients |-> IF c \in mine THEN "idle" ELSE cpc[c]]
  /\ creq' = [c \in Clients |-> IF c \in mine THEN NoRequest ELSE creq[c]]
  /\ owner' = Free(owner, a)
  /\ fileLock' = IF fileLock \in mine \cup {a} THEN NoOne ELSE fileLock
  /\ inputLock' = IF inputLock \in mine \cup {a} THEN NoOne ELSE inputLock
  /\ UNCHANGED <<rowVars, sourceVars, pending, wrun, wsess, wout, full, epoch>>

\* The connection that holds lock 3 or 4 breaks while the process lives on.
LoseLock(a) ==
  /\ Spend("lose")
  /\ \/ owner = a /\ owner' = NoOne /\ UNCHANGED fileLock
     \/ fileLock = a /\ fileLock' = NoOne /\ UNCHANGED owner
  /\ UNCHANGED <<rowVars, sourceVars, pending, inputLock, apiVars, workVars, clientVars,
                 epoch>>

\* Ninety days without a completion: all rows that have ended are past retention.
\* No request lasts so long that an upload of its own identifier is among them.
Age ==
  /\ \A c \in Clients, r \in RunIds :
       status[r] \in Final => job[r].key # <<"upload", creq[c].req>>
  /\ Spend("age")
  /\ expired' = {r \in RunIds : status[r] \in Final \cup {"gone"}}
  /\ UNCHANGED <<status, job, result, code, input, bound, sourceVars, pending, lockVars,
                 apiVars, workVars, clientVars, epoch>>

-----------------------------------------------------------------------------
WorkerStep(a) ==
  \/ Peek(a) \/ FileLockBusy(a) \/ Claim(a) \/ Activate(a) \/ Check(a) \/ Extract(a)
  \/ Commit(a) \/ Write(a) \/ Fail(a) \/ Finish(a)
  \/ Clean(a) \/ Discard(a) \/ Sweep(a) \/ Drop(a)

LifeStep(a) ==
  \/ BootInterrupt(a) \/ BootClean(a) \/ BootFail(a)
  \/ HaltCurrent(a) \/ HaltQueued(a)

ClientStep(c) ==
  \/ Enter(c) \/ Recheck(c) \/ Stage(c) \/ Reserve(c) \/ Settle(c)
  \/ StopAbort(c) \/ ManageCommit(c)

NewRequest(c, a) ==
  \/ \E q \in Requests :
       \/ \E x \in Contents : Register(c, a, q, x)
       \/ \E o \in RunIds, x \in Contents : Replace(c, a, q, o, x)
       \/ \E o \in RunIds, op \in Operations : Derive(c, a, q, o, op)
       \/ \E p \in RunIds : RetryRecovered(c, a, q, p)
       \/ \E p \in RunIds : Retry(c, a, q, p)
  \/ \E r \in RunIds : Stop(c, a, r)
  \/ \E o \in RunIds, op \in {"remove", "scope"} : ManageLock(c, a, o, op)

Next ==
  \/ \E c \in Clients, a \in Apis : NewRequest(c, a)
  \/ \E c \in Clients : ClientStep(c)
  \/ \E a \in Apis :
       \/ WorkerStep(a) \/ TakeFileLock(a) \/ StartCleanup(a) \/ Monitor(a)
       \/ BootOwn(a) \/ LifeStep(a) \/ Halt(a) \/ Crash(a) \/ LoseLock(a)
  \/ Revoke
  \/ Age

Spec == Init /\ [][Next]_vars

\* Code that is running goes on; a process that died is started again (restart:
\* unless-stopped); the one-second and one-minute timers find a try-lock free
\* sooner or later when it is free again and again.
FairSpec ==
  /\ Spec
  /\ \A a \in Apis :
       /\ WF_vars(WorkerStep(a)) /\ WF_vars(LifeStep(a)) /\ WF_vars(BootOwn(a))
       /\ SF_vars(TakeFileLock(a)) /\ SF_vars(StartCleanup(a))
  /\ \A c \in Clients : WF_vars(ClientStep(c))

-----------------------------------------------------------------------------
(* Properties                                                               *)

Keys == {NoFamily} \cup {<<"original", o>> : o \in RunIds}
                   \cup {<<"upload", q>> : q \in Requests}
Jobs == [op : Operations \cup {"none"}, key : Keys, target : RunIds \cup {NoRun},
         base : Nat, scope : Nat, parent : RunIds \cup {NoRun},
         content : Contents \cup {NoOne}]
Calls == [api : Apis \cup {NoOne}, sess : Nat, req : Requests \cup {NoOne},
          op : Operations \cup {"none", "remove", "scope"},
          content : Contents \cup {NoOne}, target : RunIds \cup {NoRun}, base : Nat,
          parent : RunIds \cup {NoRun}, family : Keys, load : PendingKeys \cup {NoKey},
          key : PendingKeys \cup {NoKey}, run : RunIds \cup {NoRun}]

RowTypes ==
  /\ status \in [RunIds -> {"absent", "gone"} \cup Active \cup Final]
  /\ job \in [RunIds -> Jobs]
  /\ result \in [RunIds -> Nat]
  /\ code \in [RunIds -> {"none", "user_stopped", "api_stopped", "api_restarted",
                          "sensitive_file", "cancelled", "other"}]
  /\ input \in [RunIds -> PendingKeys \cup {NoKey}]
  /\ expired \subseteq RunIds
  /\ bound \in [Requests -> RunIds \cup {NoRun}]

SourceTypes ==
  /\ latest \in [RunIds -> Nat] /\ deleted \subseteq RunIds
  /\ scopeRev \in [RunIds -> Nat]
  /\ pending \subseteq PendingKeys

LockTypes ==
  /\ fileLock \in Apis \cup Clients \cup {NoOne}
  /\ owner \in Apis \cup {NoOne}
  /\ inputLock \in Apis \cup Clients \cup {NoOne}

ApiTypes ==
  /\ phase \in [Apis -> {"stopped", "crashed", "boot", "up", "halting", "draining"}]
  /\ closing \in [Apis -> BOOLEAN]
  /\ identity \in [Apis -> [RunIds -> Nat]]

WorkTypes ==
  /\ wpc \in [Apis -> {"idle", "lock", "claim", "activate", "check", "extract", "commit",
                       "write", "fail", "finish", "booted", "clean", "discard", "sweep",
                       "drop"}]
  /\ wrun \in [Apis -> RunIds \cup {NoRun}]
  /\ wsess \in [Apis -> Nat]
  /\ wout \in [Apis -> {"none", "extracted", "bad", "refused", "vanished", "sensitive",
                        "cancelled", "unsaved"}]
  /\ abort \in [Apis -> BOOLEAN] /\ full \in [Apis -> BOOLEAN]
  /\ seen \in [Apis -> [RunIds -> {"none"} \cup Active \cup Final]]

ClientTypes ==
  /\ cpc \in [Clients -> {"idle", "enter", "recheck", "stage", "reserve", "settle",
                          "abort", "manage"}]
  /\ creq \in [Clients -> Calls]

EventTypes == epoch \in Nat /\ left \in [Events -> Nat]

TypeOK == RowTypes /\ SourceTypes /\ LockTypes /\ ApiTypes /\ WorkTypes /\ ClientTypes
          /\ EventTypes

\* The original a register or replace adds its version to.
Uploads == {r \in RunIds : job[r].op \in {"register", "replace"}}

\* Every stored version was produced by exactly one run, and that run is one that
\* completed: a stopped or interrupted run leaves no version behind, however late
\* its worker is (the running CAS of complete() against stop(), shutdown and
\* restart).
VersionsAccounted ==
  /\ \A o \in RunIds : \A v \in 1 .. latest[o] :
       Cardinality({r \in Uploads : OriginalOf(r) = o /\ result[r] = v}) = 1
  /\ \A r \in RunIds : result[r] # 0 => status[r] \in {"succeeded", "failed", "gone"}

\* What reserve() admits: never two active runs of one target and never more than
\* QueueLimit active runs, whatever requests, retries and stops interleave.
AdmissionBounded ==
  /\ \A r, s \in ActiveRuns : job[r].key = job[s].key => r = s
  /\ Cardinality(ActiveRuns) <= QueueLimit

\* The file of an upload is on disk for as long as the upload can still use it:
\* while it is queued or running, and while a retry of it would be admitted.
\* Admission, orphan sweep, cleanup after a run and crashes all touch these files.
InputKept ==
  \A r \in Retained :
    /\ job[r].op \in {"register", "replace"} /\ result[r] = 0
    /\ code[r] # "sensitive_file"
    /\ job[r].target # NoRun => Available(job[r].target)
    /\ status[r] \in Active \/ Recovered(r, Family(r)) = {}
    => input[r] \in pending

\* No upload is registered successfully twice, however often and from wherever its
\* failed runs are retried.
OneSuccessPerUpload ==
  \A r, s \in Retained :
    /\ status[r] = "succeeded" /\ status[s] = "succeeded"
    /\ job[r].op = "register" /\ job[s].op = "register" /\ job[r].key = job[s].key
    => r = s

\* Runs that a failing statement left running: this.active does not name them and no
\* worker has them, so the index FileRun_one_running refuses every later claim.
AtWork(a) == wpc[a] \in {"activate", "check", "extract", "commit", "write", "fail"}
Stranded ==
  {r \in RunIds : /\ status[r] = "running" /\ \E a \in Apis : wout[a] = "unsaved"
                  /\ ~\E a \in Apis : AtWork(a) /\ wrun[a] = r}

\* After an orderly shutdown no run is left queued or running: an admission that
\* raced the shutdown was either refused or interrupted with the rest.  Only what
\* a failing statement stranded stays, for the next start to interrupt.
ShutdownLeavesNothingActive ==
  (\A a \in Apis : phase[a] = "stopped") => ActiveRuns \subseteq Stranded

\* "같은 실패 등록의 진행/성공 복구가 있으면 다른 새 UUID라도 기존 실행에 연결해 원본 중복을
\* 방지한다": an upload that one of its runs registered, and whose recovery succeeded,
\* is not registered a second time.
RecoveredUploadNotRepeated ==
  [][\A r, s, t \in RunIds :
       /\ job[s].op = "register" /\ latest[s] > 0 /\ s \notin deleted
       /\ job[t].target = s /\ job[t].op = "reprocess" /\ status[t] = "succeeded"
       /\ job[r].op = "register" /\ job[r].key = job[s].key /\ r # s
       => latest'[r] = latest[r]]_vars

\* A run that ended stays as it ended until retention removes its row.
EndedRunsFrozen ==
  [][\A r \in RunIds : status[r] \in Final =>
       status'[r] \in {status[r], "gone"} /\ result'[r] = result[r]]_vars

\* A result is stored only for a run that is running, under a session still valid,
\* and on the version and in the scope the run was admitted for.
ResultsCurrent ==
  [][\A r \in RunIds : result[r] = 0 /\ result'[r] # 0 =>
       /\ status[r] = "running"
       /\ \E a \in Apis : wrun[a] = r /\ wsess[a] = epoch
       /\ job[r].target # NoRun =>
            /\ job[r].target \notin deleted
            /\ latest[job[r].target] = job[r].base
            /\ scopeRev[job[r].target] = job[r].scope]_vars

\* The processes, locks and crashes below implement the queue that users see.
Queue == INSTANCE RunQueue WITH
  Runs <- RunIds, Keys <- Keys \ {NoFamily}, NoKey <- NoFamily, Limit <- QueueLimit,
  st <- status, key <- [r \in RunIds |-> job[r].key],
  stored <- [r \in RunIds |-> result[r] # 0]
ImplementsQueue == Queue!Spec

\* Every admitted run ends, unless a stranded run holds up the queue of a process
\* that stays up; a restart ends that as well.
HeldUp == Stranded # {} /\ \E a \in Apis : phase[a] = "up"
RunsEnd ==
  \A r \in RunIds : status[r] \in Active ~> status[r] \notin Active \/ HeldUp

\* A shutdown that began ends, though it waits for worker, admission and cleanup.
ShutdownEnds ==
  \A a \in Apis : phase[a] \in {"halting", "draining"} ~> phase[a] \in {"stopped", "crashed"}

\* A pending file nothing refers to (a crash or a lost answer left it) is removed.
OrphansSwept ==
  \A k \in PendingKeys :
    k \in pending /\ (\A r \in Rows : input[r] # k) ~>
      k \notin pending \/ \E r \in Rows : input[r] = k

=============================================================================
