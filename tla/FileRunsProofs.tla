--------------------------- MODULE FileRunsProofs ---------------------------
(***************************************************************************)
(* Type correctness of FileRuns, for any processes, clients, requests and   *)
(* bounds, from an invariant that every action is shown to keep; that it    *)
(* implements RunQueue; and, with what the queue forbids, an account of     *)
(* every stored version, of every run at a shutdown, of the rights under    *)
(* which a late worker stores its result, of the retries of an upload, and  *)
(* of the file it is read from.                                             *)
(***************************************************************************)
EXTENDS FileRuns, FiniteSetTheorems, TLAPS

\* A request under way names a process, an identifier and a proper job.
ProperJob(j) == j.op \notin {"none", "register"} => j.target \in RunIds /\ j.base # 0

CallsSound ==
  \A c \in Clients :
    /\ cpc[c] \in {"enter", "recheck", "stage", "reserve", "settle"} =>
         /\ creq[c].api \in Apis /\ creq[c].req \in Requests
         /\ creq[c].op \in Operations /\ ProperJob(creq[c])
    /\ cpc[c] = "manage" => creq[c].target \in RunIds

\* A row that exists has a proper job.
JobsSound ==
  \A r \in RunIds : ProperJob(job[r]) /\ (status[r] # "absent" => job[r].op \in Operations)

\* A process that executes or discards a run knows which.
WorkSound ==
  \A a \in Apis : Executing(a) \/ wpc[a] \in {"activate", "discard"} => wrun[a] \in RunIds

\* Only what has ended grows old.
ExpiredEnded == \A r \in expired : status[r] \in Final \cup {"gone"}

IndInv == TypeOK /\ CallsSound /\ JobsSound /\ WorkSound /\ ExpiredEnded

USE DEF Active, Final, NoRun, NoKey, Operations, RunIds, Work, Spend,
        rowVars, sourceVars, lockVars, apiVars, workVars, cleanVars, clientVars, envVars

LEMMA InitIndInv == Init => IndInv
  <1> SUFFICES ASSUME Init PROVE IndInv OBVIOUS
  <1> USE ConstantsAssumption DEF Init
  <1>1. RowTypes BY DEF RowTypes, NoJob, Jobs, Keys, NoFamily
  <1>2. SourceTypes /\ LockTypes /\ EventTypes
    BY BudgetsAssumption DEF SourceTypes, LockTypes, EventTypes
  <1>3. ApiTypes BY DEF ApiTypes
  <1>4. WorkTypes BY DEF WorkTypes, NothingSeen
  <1>5. ClientTypes BY DEF ClientTypes, Calls, NoRequest, Keys, NoFamily
  <1>6. CallsSound BY DEF CallsSound
  <1>7. JobsSound BY DEF JobsSound, ProperJob, NoJob
  <1>8. WorkSound BY DEF WorkSound, Executing
  <1>9. ExpiredEnded BY DEF ExpiredEnded
  <1> QED BY <1>1, <1>2, <1>3, <1>4, <1>5, <1>6, <1>7, <1>8, <1>9 DEF IndInv, TypeOK

LEMMA NoRequestTypes == NoRequest \in Calls
  BY ConstantsAssumption DEF Calls, NoRequest, Keys, NoFamily

\* The requests that the five kinds of calls begin with.
LEMMA RegisterTypes ==
  ASSUME NEW q \in Requests, NEW x \in Contents
  PROVE  [NoRequest EXCEPT !.req = q, !.op = "register", !.content = x] \in Calls
  BY NoRequestTypes DEF Calls

LEMMA ReplaceTypes ==
  ASSUME NEW q \in Requests, NEW x \in Contents, NEW o \in RunIds, NEW base \in Nat
  PROVE  [NoRequest EXCEPT !.req = q, !.op = "replace", !.content = x,
                           !.target = o, !.base = base] \in Calls
  BY NoRequestTypes DEF Calls

LEMMA DeriveTypes ==
  ASSUME NEW q \in Requests, NEW op \in Operations, NEW o \in RunIds, NEW base \in Nat
  PROVE  [NoRequest EXCEPT !.req = q, !.op = op, !.target = o, !.base = base] \in Calls
  BY NoRequestTypes DEF Calls

\* An event of the budget is spent.
LEMMA SpendTypes ==
  ASSUME EventTypes, NEW e \in Events, Spend(e)
  PROVE  left' \in [Events -> Nat]
  BY DEF EventTypes

\* A well-formed request begins.
LEMMA BeginTypes ==
  ASSUME ClientTypes, EventTypes, NEW c \in Clients, NEW a \in Apis, NEW req \in Calls,
         Begin(c, a, req)
  PROVE  ClientTypes'
  <1>1. [req EXCEPT !.api = a, !.sess = epoch] \in Calls
    BY DEF EventTypes, Calls
  <1> QED BY <1>1 DEF Begin, ClientTypes

\* An admitted request becomes a job.
LEMMA JobTypes ==
  ASSUME SourceTypes, NEW q \in Calls, q.req \in Requests, q.op \in Operations
  PROVE  JobOf(q) \in Jobs
  <1>1. TargetKey(q) \in Keys BY DEF Calls, Keys, TargetKey
  <1>2. (IF q.target = NoRun THEN 0 ELSE scopeRev[q.target]) \in Nat BY DEF Calls, SourceTypes
  <1> QED BY <1>1, <1>2 DEF Jobs, JobOf, Calls

\* A proper job ends in a version of an existing original.
LEMMA VersionTypes ==
  ASSUME RowTypes, SourceTypes, JobsSound, NEW r \in RunIds
  PROVE  ResultVersion(r) \in Nat
  <1>1. job[r] \in Jobs BY DEF RowTypes
  <1>2. job[r].op = "replace" => job[r].target \in RunIds BY DEF JobsSound, ProperJob
  <1> QED BY <1>1, <1>2 DEF ResultVersion, OriginalOf, Jobs, SourceTypes

\* A cleanup reads only states that rows have.
LEMMA ReadTypes ==
  ASSUME RowTypes, NEW S
  PROVE  ReadOf(S) \in [RunIds -> {"none"} \cup Active \cup Final]
  BY DEF RowTypes, ReadOf, Rows

LEMMA RegisterIndInv ==
  ASSUME IndInv, NEW c \in Clients, NEW a \in Apis, NEW q \in Requests, NEW x \in Contents, Register(c, a, q, x)
  PROVE  IndInv'
  <1> USE ConstantsAssumption DEF Register, Begin, Asks, IndInv, TypeOK
  <1>1. RowTypes' BY DEF RowTypes
  <1>2. SourceTypes' BY DEF SourceTypes
  <1>3. LockTypes' BY DEF LockTypes
  <1>4. ApiTypes' BY DEF ApiTypes
  <1>5. WorkTypes' BY DEF WorkTypes
  <1>6. ClientTypes'
    <2> DEFINE req == [NoRequest EXCEPT !.req = q, !.op = "register", !.content = x]
    <2>1. req \in Calls BY RegisterTypes
    <2>2. Begin(c, a, req) OBVIOUS
    <2> QED BY <2>1, <2>2, BeginTypes
  <1>7. EventTypes' BY DEF EventTypes
  <1>8. CallsSound' BY DEF CallsSound, ProperJob, ClientTypes, NoRequest
  <1>9. JobsSound' BY DEF JobsSound, ProperJob, RowTypes
  <1>10. WorkSound' BY DEF WorkSound, Executing, WorkTypes
  <1>11. ExpiredEnded' BY DEF ExpiredEnded, RowTypes
  <1> QED BY <1>1, <1>2, <1>3, <1>4, <1>5, <1>6, <1>7, <1>8, <1>9, <1>10, <1>11

LEMMA ReplaceIndInv ==
  ASSUME IndInv, NEW c \in Clients, NEW a \in Apis, NEW q \in Requests, NEW o \in RunIds, NEW x \in Contents, Replace(c, a, q, o, x)
  PROVE  IndInv'
  <1> USE ConstantsAssumption DEF Replace, Begin, Asks, Available, IndInv, TypeOK
  <1>1. RowTypes' BY DEF RowTypes
  <1>2. SourceTypes' BY DEF SourceTypes
  <1>3. LockTypes' BY DEF LockTypes
  <1>4. ApiTypes' BY DEF ApiTypes
  <1>5. WorkTypes' BY DEF WorkTypes
  <1>6. ClientTypes'
    <2> DEFINE req == [NoRequest EXCEPT !.req = q, !.op = "replace", !.content = x,
                                        !.target = o, !.base = latest[o]]
    <2>1. latest[o] \in Nat BY DEF SourceTypes
    <2>2. req \in Calls BY <2>1, ReplaceTypes
    <2>3. Begin(c, a, req) OBVIOUS
    <2> QED BY <2>2, <2>3, BeginTypes
  <1>7. EventTypes' BY DEF EventTypes
  <1>8. CallsSound' BY DEF CallsSound, ProperJob, ClientTypes, NoRequest, SourceTypes
  <1>9. JobsSound' BY DEF JobsSound, ProperJob, RowTypes
  <1>10. WorkSound' BY DEF WorkSound, Executing, WorkTypes
  <1>11. ExpiredEnded' BY DEF ExpiredEnded, RowTypes
  <1> QED BY <1>1, <1>2, <1>3, <1>4, <1>5, <1>6, <1>7, <1>8, <1>9, <1>10, <1>11

LEMMA DeriveIndInv ==
  ASSUME IndInv, NEW c \in Clients, NEW a \in Apis, NEW q \in Requests, NEW o \in RunIds, NEW op \in Operations, Derive(c, a, q, o, op)
  PROVE  IndInv'
  <1> USE ConstantsAssumption DEF Derive, Begin, Asks, Available, IndInv, TypeOK
  <1>1. RowTypes' BY DEF RowTypes
  <1>2. SourceTypes' BY DEF SourceTypes
  <1>3. LockTypes' BY DEF LockTypes
  <1>4. ApiTypes' BY DEF ApiTypes
  <1>5. WorkTypes' BY DEF WorkTypes
  <1>6. ClientTypes'
    <2> DEFINE req == [NoRequest EXCEPT !.req = q, !.op = op,
                                        !.target = o, !.base = latest[o]]
    <2>1. latest[o] \in Nat BY DEF SourceTypes
    <2>2. req \in Calls BY <2>1, DeriveTypes
    <2>3. Begin(c, a, req) OBVIOUS
    <2> QED BY <2>2, <2>3, BeginTypes
  <1>7. EventTypes' BY DEF EventTypes
  <1>8. CallsSound' BY DEF CallsSound, ProperJob, ClientTypes, NoRequest, SourceTypes
  <1>9. JobsSound' BY DEF JobsSound, ProperJob, RowTypes
  <1>10. WorkSound' BY DEF WorkSound, Executing, WorkTypes
  <1>11. ExpiredEnded' BY DEF ExpiredEnded, RowTypes
  <1> QED BY <1>1, <1>2, <1>3, <1>4, <1>5, <1>6, <1>7, <1>8, <1>9, <1>10, <1>11

LEMMA RetryRecoveredIndInv ==
  ASSUME IndInv, NEW c \in Clients, NEW a \in Apis, NEW q \in Requests, NEW p \in RunIds, RetryRecovered(c, a, q, p)
  PROVE  IndInv'
  <1> USE ConstantsAssumption DEF RetryRecovered, IndInv, TypeOK
  <1>1. RowTypes' BY DEF RowTypes
  <1>2. SourceTypes' BY DEF SourceTypes
  <1>3. LockTypes' BY DEF LockTypes
  <1>4. ApiTypes' BY DEF ApiTypes
  <1>5. WorkTypes' BY DEF WorkTypes
  <1>6. ClientTypes' BY DEF ClientTypes
  <1>7. EventTypes' BY DEF EventTypes
  <1>8. CallsSound' BY DEF CallsSound, ProperJob, ClientTypes
  <1>9. JobsSound' BY DEF JobsSound, ProperJob, RowTypes
  <1>10. WorkSound' BY DEF WorkSound, Executing, WorkTypes
  <1>11. ExpiredEnded' BY DEF ExpiredEnded, RowTypes
  <1> QED BY <1>1, <1>2, <1>3, <1>4, <1>5, <1>6, <1>7, <1>8, <1>9, <1>10, <1>11

\* The request that a retry begins with.
LEMMA RetryCall ==
  ASSUME IndInv, NEW c \in Clients, NEW a \in Apis, NEW q \in Requests, NEW p \in RunIds,
         Retry(c, a, q, p)
  PROVE  \E req \in Calls : Begin(c, a, req)
  <1> USE ConstantsAssumption DEF Retry, SourceOf, IndInv, TypeOK
  <1> DEFINE op == IF result[p] # 0 THEN "reprocess" ELSE job[p].op
             base == IF result[p] # 0 THEN result[p] ELSE job[p].base
             load == IF result[p] # 0 THEN NoKey ELSE input[p]
             family == IF op = "register" THEN job[p].key ELSE NoFamily
  <1> DEFINE req == [NoRequest EXCEPT !.req = q, !.op = op, !.parent = p,
                       !.content = job[p].content, !.target = SourceOf(p),
                       !.base = base, !.family = family, !.load = load]
  <1>1. job[p] \in Jobs BY DEF RowTypes
  <1>2. op \in Operations \cup {"none"} /\ base \in Nat /\ load \in PendingKeys \cup {NoKey}
    BY <1>1 DEF RowTypes, Jobs
  <1>3. family \in Keys /\ SourceOf(p) \in RunIds \cup {NoRun}
        /\ job[p].content \in Contents \cup {NoOne}
    BY <1>1 DEF Jobs, Keys, NoFamily, SourceOf
  <1> HIDE DEF op, base, load, family, SourceOf, IndInv, TypeOK, Retry, Begin, Retained,
               Rows, Operations, RunIds, NoRun, NoKey
  <1>4. req \in Calls BY <1>2, <1>3, NoRequestTypes DEF Calls
  <1>5. Begin(c, a, req) BY DEF op, base, load, family, Retry
  <1> QED BY <1>4, <1>5

LEMMA RetryIndInv ==
  ASSUME IndInv, NEW c \in Clients, NEW a \in Apis, NEW q \in Requests, NEW p \in RunIds, Retry(c, a, q, p)
  PROVE  IndInv'
  <1> USE ConstantsAssumption DEF Retry, Begin, SourceOf, Retained, Rows, IndInv, TypeOK
  <1>1. RowTypes' BY DEF RowTypes
  <1>2. SourceTypes' BY DEF SourceTypes
  <1>3. LockTypes' BY DEF LockTypes
  <1>4. ApiTypes' BY DEF ApiTypes
  <1>5. WorkTypes' BY DEF WorkTypes
  <1>6. ClientTypes'
    <2> HIDE DEF Retry, Begin, IndInv, TypeOK
    <2>1. PICK req \in Calls : Begin(c, a, req) BY RetryCall
    <2> QED BY <2>1, BeginTypes DEF IndInv, TypeOK
  <1>7. EventTypes' BY DEF EventTypes
  <1>8. CallsSound' BY DEF CallsSound, ProperJob, ClientTypes, JobsSound, RowTypes, Jobs, NoRequest
  <1>9. JobsSound' BY DEF JobsSound, ProperJob, RowTypes
  <1>10. WorkSound' BY DEF WorkSound, Executing, WorkTypes
  <1>11. ExpiredEnded' BY DEF ExpiredEnded, RowTypes
  <1> QED BY <1>1, <1>2, <1>3, <1>4, <1>5, <1>6, <1>7, <1>8, <1>9, <1>10, <1>11

LEMMA EnterIndInv ==
  ASSUME IndInv, NEW c \in Clients, Enter(c)
  PROVE  IndInv'
  <1> USE ConstantsAssumption DEF Enter, CheckOwnerFails, EndRequest, Go, IndInv, TypeOK
  <1>1. RowTypes' BY DEF RowTypes
  <1>2. SourceTypes' BY DEF SourceTypes
  <1>3. LockTypes' BY DEF LockTypes
  <1>4. ApiTypes' BY DEF ApiTypes
  <1>5. WorkTypes' BY DEF WorkTypes
  <1>6. ClientTypes' BY DEF ClientTypes, Calls, NoRequest, Keys, NoFamily
  <1>7. EventTypes' BY DEF EventTypes
  <1>8. CallsSound' BY DEF CallsSound, ProperJob, ClientTypes
  <1>9. JobsSound' BY DEF JobsSound, ProperJob, RowTypes
  <1>10. WorkSound' BY DEF WorkSound, Executing, WorkTypes
  <1>11. ExpiredEnded' BY DEF ExpiredEnded, RowTypes
  <1> QED BY <1>1, <1>2, <1>3, <1>4, <1>5, <1>6, <1>7, <1>8, <1>9, <1>10, <1>11

LEMMA RecheckIndInv ==
  ASSUME IndInv, NEW c \in Clients, Recheck(c)
  PROVE  IndInv'
  <1> USE ConstantsAssumption DEF Recheck, CheckOwnerFails, EndRequest, Go, Free, IndInv, TypeOK
  <1>1. RowTypes' BY DEF RowTypes
  <1>2. SourceTypes' BY DEF SourceTypes
  <1>3. LockTypes' BY DEF LockTypes
  <1>4. ApiTypes' BY DEF ApiTypes
  <1>5. WorkTypes' BY DEF WorkTypes
  <1>6. ClientTypes' BY DEF ClientTypes, Calls, NoRequest, Keys, NoFamily
  <1>7. EventTypes' BY DEF EventTypes
  <1>8. CallsSound' BY DEF CallsSound, ProperJob, ClientTypes
  <1>9. JobsSound' BY DEF JobsSound, ProperJob, RowTypes
  <1>10. WorkSound' BY DEF WorkSound, Executing, WorkTypes
  <1>11. ExpiredEnded' BY DEF ExpiredEnded, RowTypes
  <1> QED BY <1>1, <1>2, <1>3, <1>4, <1>5, <1>6, <1>7, <1>8, <1>9, <1>10, <1>11

LEMMA StageIndInv ==
  ASSUME IndInv, NEW c \in Clients, Stage(c)
  PROVE  IndInv'
  <1> USE ConstantsAssumption DEF Stage, Go, IndInv, TypeOK
  <1>1. RowTypes' BY DEF RowTypes
  <1>2. SourceTypes' BY DEF SourceTypes, ClientTypes, Calls
  <1>3. LockTypes' BY DEF LockTypes
  <1>4. ApiTypes' BY DEF ApiTypes
  <1>5. WorkTypes' BY DEF WorkTypes
  <1>6. ClientTypes' BY DEF ClientTypes, Calls
  <1>7. EventTypes' BY DEF EventTypes
  <1>8. CallsSound' BY DEF CallsSound, ProperJob, ClientTypes, Calls
  <1>9. JobsSound' BY DEF JobsSound, ProperJob, RowTypes
  <1>10. WorkSound' BY DEF WorkSound, Executing, WorkTypes
  <1>11. ExpiredEnded' BY DEF ExpiredEnded, RowTypes
  <1> QED BY <1>1, <1>2, <1>3, <1>4, <1>5, <1>6, <1>7, <1>8, <1>9, <1>10, <1>11

LEMMA ReserveIndInv ==
  ASSUME IndInv, NEW c \in Clients, Reserve(c)
  PROVE  IndInv'
  <1> USE ConstantsAssumption DEF Reserve, ReserveCreate, ReserveBind, ReserveRefuse, Go, NextRun, IndInv, TypeOK
  <1>1. RowTypes'
    <2>1. CASE ReserveCreate(c)
      <3>1. creq[c] \in Calls /\ creq[c].req \in Requests /\ creq[c].op \in Operations
        BY DEF ClientTypes, CallsSound
      <3>2. JobOf(creq[c]) \in Jobs BY <3>1, JobTypes
      <3>3. creq[c].key \in PendingKeys \cup {NoKey} BY <3>1 DEF Calls
      <3>4. UNCHANGED <<result, code, expired>> OBVIOUS
      <3>5. PICK r \in NextRun :
              /\ status' = [status EXCEPT ![r] = "queued"]
              /\ job' = [job EXCEPT ![r] = JobOf(creq[c])]
              /\ input' = [input EXCEPT ![r] = creq[c].key]
              /\ bound' = [bound EXCEPT ![creq[c].req] = r]
        BY <2>1 DEF ReserveCreate
      <3>6. r \in RunIds BY DEF NextRun
      <3> QED BY <3>2, <3>3, <3>4, <3>5, <3>6 DEF RowTypes
    <2>2. CASE ReserveBind(c) \/ ReserveRefuse(c)
      BY <2>2 DEF RowTypes, ReserveBind, ReserveRefuse
    <2> QED BY <2>1, <2>2
  <1>2. SourceTypes' BY DEF SourceTypes
  <1>3. LockTypes' BY DEF LockTypes
  <1>4. ApiTypes' BY DEF ApiTypes
  <1>5. WorkTypes' BY DEF WorkTypes
  <1>6. ClientTypes'
    <2>1. CASE ReserveCreate(c)
      <3>1. creq[c] \in Calls BY DEF ClientTypes
      <3>2. \A r \in RunIds \cup {NoRun} : [creq[c] EXCEPT !.run = r] \in Calls
        BY <3>1 DEF Calls
      <3>3. PICK r \in RunIds \cup {NoRun} : creq' = [creq EXCEPT ![c].run = r]
        BY <2>1 DEF ReserveCreate, NextRun
      <3> QED BY <2>1, <3>2, <3>3 DEF ClientTypes, ReserveCreate
    <2>2. CASE ReserveBind(c) \/ ReserveRefuse(c)
      BY <2>2 DEF ClientTypes, ReserveBind, ReserveRefuse, Go
    <2> QED BY <2>1, <2>2
  <1>7. EventTypes' BY DEF EventTypes
  <1>8. CallsSound' BY DEF CallsSound, ProperJob, ClientTypes, Calls
  <1>9. JobsSound'
    <2>1. CASE ReserveCreate(c)
      <3>1. JobOf(creq[c]).op \in Operations /\ ProperJob(JobOf(creq[c]))
        BY DEF CallsSound, ProperJob, JobOf
      <3>2. PICK r \in NextRun : /\ status' = [status EXCEPT ![r] = "queued"]
                                 /\ job' = [job EXCEPT ![r] = JobOf(creq[c])]
        BY <2>1 DEF ReserveCreate
      <3>3. r \in RunIds BY DEF NextRun
      <3> HIDE DEF JobOf, ProperJob, Operations
      <3> QED BY <3>1, <3>2, <3>3 DEF JobsSound, RowTypes
    <2>2. CASE ReserveBind(c) \/ ReserveRefuse(c)
      BY <2>2 DEF JobsSound, ReserveBind, ReserveRefuse
    <2> QED BY <2>1, <2>2
  <1>10. WorkSound' BY DEF WorkSound, Executing, WorkTypes
  <1>11. ExpiredEnded' BY DEF ExpiredEnded, RowTypes
  <1> QED BY <1>1, <1>2, <1>3, <1>4, <1>5, <1>6, <1>7, <1>8, <1>9, <1>10, <1>11

LEMMA SettleIndInv ==
  ASSUME IndInv, NEW c \in Clients, Settle(c)
  PROVE  IndInv'
  <1> USE ConstantsAssumption DEF Settle, EndRequest, Free, IndInv, TypeOK
  <1>1. RowTypes' BY DEF RowTypes
  <1>2. SourceTypes' BY DEF SourceTypes
  <1>3. LockTypes' BY DEF LockTypes
  <1>4. ApiTypes' BY DEF ApiTypes, ClientTypes, Calls, CallsSound
  <1>5. WorkTypes' BY DEF WorkTypes
  <1>6. ClientTypes' BY DEF ClientTypes, Calls, NoRequest, Keys, NoFamily
  <1>7. EventTypes' BY DEF EventTypes
  <1>8. CallsSound' BY DEF CallsSound, ProperJob, ClientTypes
  <1>9. JobsSound' BY DEF JobsSound, ProperJob, RowTypes
  <1>10. WorkSound' BY DEF WorkSound, Executing, WorkTypes
  <1>11. ExpiredEnded' BY DEF ExpiredEnded, RowTypes
  <1> QED BY <1>1, <1>2, <1>3, <1>4, <1>5, <1>6, <1>7, <1>8, <1>9, <1>10, <1>11

LEMMA StopAbortIndInv ==
  ASSUME IndInv, NEW c \in Clients, StopAbort(c)
  PROVE  IndInv'
  <1> USE ConstantsAssumption DEF StopAbort, EndRequest, IndInv, TypeOK
  <1>1. RowTypes' BY DEF RowTypes
  <1>2. SourceTypes' BY DEF SourceTypes
  <1>3. LockTypes' BY DEF LockTypes
  <1>4. ApiTypes' BY DEF ApiTypes, ClientTypes, Calls
  <1>5. WorkTypes' BY DEF WorkTypes
  <1>6. ClientTypes' BY DEF ClientTypes, Calls, NoRequest, Keys, NoFamily
  <1>7. EventTypes' BY DEF EventTypes
  <1>8. CallsSound' BY DEF CallsSound, ProperJob, ClientTypes
  <1>9. JobsSound' BY DEF JobsSound, ProperJob, RowTypes
  <1>10. WorkSound' BY DEF WorkSound, Executing, WorkTypes
  <1>11. ExpiredEnded' BY DEF ExpiredEnded, RowTypes
  <1> QED BY <1>1, <1>2, <1>3, <1>4, <1>5, <1>6, <1>7, <1>8, <1>9, <1>10, <1>11

LEMMA ManageCommitIndInv ==
  ASSUME IndInv, NEW c \in Clients, ManageCommit(c)
  PROVE  IndInv'
  <1> USE ConstantsAssumption DEF ManageCommit, EndRequest, Free, IndInv, TypeOK
  <1>1. RowTypes' BY DEF RowTypes
  <1>2. SourceTypes'
    <2>1. creq[c].target \in RunIds \cup {NoRun} BY DEF ClientTypes, Calls
    <2>2. deleted' \subseteq RunIds
      <3>1. deleted' = deleted \/ deleted' = deleted \cup {creq[c].target} OBVIOUS
      <3>2. creq[c].target \in RunIds BY DEF CallsSound
      <3> QED BY <3>2, <3>1, <3>2 DEF SourceTypes
    <2>3. scopeRev' \in [RunIds -> Nat] BY <2>1 DEF SourceTypes, Available
    <2> QED BY <2>2, <2>3 DEF SourceTypes
  <1>3. LockTypes' BY DEF LockTypes
  <1>4. ApiTypes' BY DEF ApiTypes
  <1>5. WorkTypes' BY DEF WorkTypes
  <1>6. ClientTypes' BY DEF ClientTypes, Calls, NoRequest, Keys, NoFamily
  <1>7. EventTypes' BY DEF EventTypes
  <1>8. CallsSound' BY DEF CallsSound, ProperJob, ClientTypes
  <1>9. JobsSound' BY DEF JobsSound, ProperJob, RowTypes
  <1>10. WorkSound' BY DEF WorkSound, Executing, WorkTypes
  <1>11. ExpiredEnded' BY DEF ExpiredEnded, RowTypes
  <1> QED BY <1>1, <1>2, <1>3, <1>4, <1>5, <1>6, <1>7, <1>8, <1>9, <1>10, <1>11

LEMMA StopIndInv ==
  ASSUME IndInv, NEW c \in Clients, NEW a \in Apis, NEW r \in RunIds, Stop(c, a, r)
  PROVE  IndInv'
  <1> USE ConstantsAssumption DEF Stop, Retained, Rows, EndRun, IndInv, TypeOK
  <1>1. RowTypes' BY DEF RowTypes
  <1>2. SourceTypes' BY DEF SourceTypes
  <1>3. LockTypes' BY DEF LockTypes
  <1>4. ApiTypes' BY DEF ApiTypes
  <1>5. WorkTypes' BY DEF WorkTypes
  <1>6. ClientTypes' BY DEF ClientTypes, Calls, NoRequest, Keys, NoFamily
  <1>7. EventTypes' BY SpendTypes DEF EventTypes, Events
  <1>8. CallsSound' BY DEF CallsSound, ProperJob, ClientTypes
  <1>9. JobsSound' BY DEF JobsSound, ProperJob, RowTypes
  <1>10. WorkSound' BY DEF WorkSound, Executing, WorkTypes
  <1>11. ExpiredEnded' BY DEF ExpiredEnded, RowTypes
  <1> QED BY <1>1, <1>2, <1>3, <1>4, <1>5, <1>6, <1>7, <1>8, <1>9, <1>10, <1>11

LEMMA ManageLockIndInv ==
  ASSUME IndInv, NEW c \in Clients, NEW a \in Apis, NEW o \in RunIds, NEW op \in {"remove", "scope"}, ManageLock(c, a, o, op)
  PROVE  IndInv'
  <1> USE ConstantsAssumption DEF ManageLock, IndInv, TypeOK
  <1>1. RowTypes' BY DEF RowTypes
  <1>2. SourceTypes' BY DEF SourceTypes
  <1>3. LockTypes' BY DEF LockTypes
  <1>4. ApiTypes' BY DEF ApiTypes
  <1>5. WorkTypes' BY DEF WorkTypes
  <1>6. ClientTypes' BY DEF ClientTypes, Calls, NoRequest, Keys, NoFamily, EventTypes
  <1>7. EventTypes' BY SpendTypes DEF EventTypes, Events
  <1>8. CallsSound' BY DEF CallsSound, ProperJob, ClientTypes
  <1>9. JobsSound' BY DEF JobsSound, ProperJob, RowTypes
  <1>10. WorkSound' BY DEF WorkSound, Executing, WorkTypes
  <1>11. ExpiredEnded' BY DEF ExpiredEnded, RowTypes
  <1> QED BY <1>1, <1>2, <1>3, <1>4, <1>5, <1>6, <1>7, <1>8, <1>9, <1>10, <1>11

LEMMA RevokeIndInv ==
  ASSUME IndInv, Revoke
  PROVE  IndInv'
  <1> USE ConstantsAssumption DEF Revoke, IndInv, TypeOK
  <1>1. RowTypes' BY DEF RowTypes
  <1>2. SourceTypes' BY DEF SourceTypes
  <1>3. LockTypes' BY DEF LockTypes
  <1>4. ApiTypes' BY DEF ApiTypes
  <1>5. WorkTypes' BY DEF WorkTypes
  <1>6. ClientTypes' BY DEF ClientTypes
  <1>7. EventTypes' BY SpendTypes DEF EventTypes, Events
  <1>8. CallsSound' BY DEF CallsSound, ProperJob, ClientTypes
  <1>9. JobsSound' BY DEF JobsSound, ProperJob, RowTypes
  <1>10. WorkSound' BY DEF WorkSound, Executing, WorkTypes
  <1>11. ExpiredEnded' BY DEF ExpiredEnded, RowTypes
  <1> QED BY <1>1, <1>2, <1>3, <1>4, <1>5, <1>6, <1>7, <1>8, <1>9, <1>10, <1>11

LEMMA PeekIndInv ==
  ASSUME IndInv, NEW a \in Apis, Peek(a)
  PROVE  IndInv'
  <1> USE ConstantsAssumption DEF Peek, CheckOwnerFails, IndInv, TypeOK
  <1>1. RowTypes' BY DEF RowTypes
  <1>2. SourceTypes' BY DEF SourceTypes
  <1>3. LockTypes' BY DEF LockTypes
  <1>4. ApiTypes' BY DEF ApiTypes
  <1>5. WorkTypes' BY DEF WorkTypes
  <1>6. ClientTypes' BY DEF ClientTypes
  <1>7. EventTypes' BY DEF EventTypes
  <1>8. CallsSound' BY DEF CallsSound, ProperJob, ClientTypes
  <1>9. JobsSound' BY DEF JobsSound, ProperJob, RowTypes
  <1>10. WorkSound' BY DEF WorkSound, Executing, WorkTypes
  <1>11. ExpiredEnded' BY DEF ExpiredEnded, RowTypes
  <1> QED BY <1>1, <1>2, <1>3, <1>4, <1>5, <1>6, <1>7, <1>8, <1>9, <1>10, <1>11

LEMMA TakeFileLockIndInv ==
  ASSUME IndInv, NEW a \in Apis, TakeFileLock(a)
  PROVE  IndInv'
  <1> USE ConstantsAssumption DEF TakeFileLock, IndInv, TypeOK
  <1>1. RowTypes' BY DEF RowTypes
  <1>2. SourceTypes' BY DEF SourceTypes
  <1>3. LockTypes' BY DEF LockTypes
  <1>4. ApiTypes' BY DEF ApiTypes
  <1>5. WorkTypes' BY DEF WorkTypes
  <1>6. ClientTypes' BY DEF ClientTypes
  <1>7. EventTypes' BY DEF EventTypes
  <1>8. CallsSound' BY DEF CallsSound, ProperJob, ClientTypes
  <1>9. JobsSound' BY DEF JobsSound, ProperJob, RowTypes
  <1>10. WorkSound' BY DEF WorkSound, Executing, WorkTypes
  <1>11. ExpiredEnded' BY DEF ExpiredEnded, RowTypes
  <1> QED BY <1>1, <1>2, <1>3, <1>4, <1>5, <1>6, <1>7, <1>8, <1>9, <1>10, <1>11

LEMMA FileLockBusyIndInv ==
  ASSUME IndInv, NEW a \in Apis, FileLockBusy(a)
  PROVE  IndInv'
  <1> USE ConstantsAssumption DEF FileLockBusy, IndInv, TypeOK
  <1>1. RowTypes' BY DEF RowTypes
  <1>2. SourceTypes' BY DEF SourceTypes
  <1>3. LockTypes' BY DEF LockTypes
  <1>4. ApiTypes' BY DEF ApiTypes
  <1>5. WorkTypes' BY DEF WorkTypes
  <1>6. ClientTypes' BY DEF ClientTypes
  <1>7. EventTypes' BY DEF EventTypes
  <1>8. CallsSound' BY DEF CallsSound, ProperJob, ClientTypes
  <1>9. JobsSound' BY DEF JobsSound, ProperJob, RowTypes
  <1>10. WorkSound' BY DEF WorkSound, Executing, WorkTypes
  <1>11. ExpiredEnded' BY DEF ExpiredEnded, RowTypes
  <1> QED BY <1>1, <1>2, <1>3, <1>4, <1>5, <1>6, <1>7, <1>8, <1>9, <1>10, <1>11

LEMMA ClaimIndInv ==
  ASSUME IndInv, NEW a \in Apis, Claim(a)
  PROVE  IndInv'
  <1> USE ConstantsAssumption DEF Claim, Free, NextQueued, IsOldest, IndInv, TypeOK
  <1>1. RowTypes' BY DEF RowTypes
  <1>2. SourceTypes' BY DEF SourceTypes
  <1>3. LockTypes' BY DEF LockTypes
  <1>4. ApiTypes' BY DEF ApiTypes
  <1>5. WorkTypes'
    <2>1. wrun' \in [Apis -> RunIds \cup {NoRun}] BY DEF WorkTypes
    <2>2. wpc' = wpc \/ wpc' = [wpc EXCEPT ![a] = "idle"] \/ wpc' = [wpc EXCEPT ![a] = "activate"]
      OBVIOUS
    <2>3. wout' = wout \/ \E out \in {"none", "unsaved"} : wout' = [wout EXCEPT ![a] = out]
      OBVIOUS
    <2>4. UNCHANGED <<wsess, abort, full, seen>> BY DEF cleanVars
    <2>5. wout' \in [Apis -> {"none", "extracted", "bad", "refused", "vanished", "sensitive",
                             "cancelled", "unsaved"}]
      BY <2>3 DEF WorkTypes
    <2> HIDE DEF Claim
    <2> QED BY <2>1, <2>2, <2>4, <2>5 DEF WorkTypes
  <1>6. ClientTypes' BY DEF ClientTypes
  <1>7. EventTypes' BY DEF EventTypes
  <1>8. CallsSound' BY DEF CallsSound, ProperJob, ClientTypes
  <1>9. JobsSound' BY DEF JobsSound, ProperJob, RowTypes
  <1>10. WorkSound' BY DEF WorkSound, Executing, WorkTypes
  <1>11. ExpiredEnded' BY DEF ExpiredEnded, RowTypes
  <1> QED BY <1>1, <1>2, <1>3, <1>4, <1>5, <1>6, <1>7, <1>8, <1>9, <1>10, <1>11

LEMMA ActivateIndInv ==
  ASSUME IndInv, NEW a \in Apis, Activate(a)
  PROVE  IndInv'
  <1> USE ConstantsAssumption DEF Activate, IndInv, TypeOK
  <1>1. RowTypes' BY DEF RowTypes
  <1>2. SourceTypes' BY DEF SourceTypes
  <1>3. LockTypes' BY DEF LockTypes
  <1>4. ApiTypes' BY DEF ApiTypes
  <1>5. WorkTypes'
    <2>1. wrun[a] \in RunIds BY DEF WorkSound
    <2>2. identity[a][wrun[a]] \in Nat BY <2>1 DEF ApiTypes
    <2>3. wsess' \in [Apis -> Nat] BY <2>2 DEF WorkTypes
    <2>4. abort' \in [Apis -> BOOLEAN] BY DEF WorkTypes, ApiTypes
    <2>5. wpc' = [wpc EXCEPT ![a] = "fail"] \/ wpc' = [wpc EXCEPT ![a] = "check"] OBVIOUS
    <2>6. wout' = [wout EXCEPT ![a] = "refused"] \/ wout' = [wout EXCEPT ![a] = "none"] OBVIOUS
    <2> QED BY <2>3, <2>4, <2>5, <2>6 DEF WorkTypes
  <1>6. ClientTypes' BY DEF ClientTypes
  <1>7. EventTypes' BY DEF EventTypes
  <1>8. CallsSound' BY DEF CallsSound, ProperJob, ClientTypes
  <1>9. JobsSound' BY DEF JobsSound, ProperJob, RowTypes
  <1>10. WorkSound' BY DEF WorkSound, Executing, WorkTypes
  <1>11. ExpiredEnded' BY DEF ExpiredEnded, RowTypes
  <1> QED BY <1>1, <1>2, <1>3, <1>4, <1>5, <1>6, <1>7, <1>8, <1>9, <1>10, <1>11

LEMMA MonitorIndInv ==
  ASSUME IndInv, NEW a \in Apis, Monitor(a)
  PROVE  IndInv'
  <1> USE ConstantsAssumption DEF Monitor, IndInv, TypeOK
  <1>1. RowTypes' BY DEF RowTypes
  <1>2. SourceTypes' BY DEF SourceTypes
  <1>3. LockTypes' BY DEF LockTypes
  <1>4. ApiTypes' BY DEF ApiTypes
  <1>5. WorkTypes' BY DEF WorkTypes
  <1>6. ClientTypes' BY DEF ClientTypes
  <1>7. EventTypes' BY DEF EventTypes
  <1>8. CallsSound' BY DEF CallsSound, ProperJob, ClientTypes
  <1>9. JobsSound' BY DEF JobsSound, ProperJob, RowTypes
  <1>10. WorkSound' BY DEF WorkSound, Executing, WorkTypes
  <1>11. ExpiredEnded' BY DEF ExpiredEnded, RowTypes
  <1> QED BY <1>1, <1>2, <1>3, <1>4, <1>5, <1>6, <1>7, <1>8, <1>9, <1>10, <1>11

LEMMA CheckIndInv ==
  ASSUME IndInv, NEW a \in Apis, Check(a)
  PROVE  IndInv'
  <1> USE ConstantsAssumption DEF Check, Obstacle, IndInv, TypeOK
  <1>1. RowTypes' BY DEF RowTypes
  <1>2. SourceTypes' BY DEF SourceTypes
  <1>3. LockTypes' BY DEF LockTypes
  <1>4. ApiTypes' BY DEF ApiTypes
  <1>5. WorkTypes' BY DEF WorkTypes
  <1>6. ClientTypes' BY DEF ClientTypes
  <1>7. EventTypes' BY DEF EventTypes
  <1>8. CallsSound' BY DEF CallsSound, ProperJob, ClientTypes
  <1>9. JobsSound' BY DEF JobsSound, ProperJob, RowTypes
  <1>10. WorkSound' BY DEF WorkSound, Executing, WorkTypes
  <1>11. ExpiredEnded' BY DEF ExpiredEnded, RowTypes
  <1> QED BY <1>1, <1>2, <1>3, <1>4, <1>5, <1>6, <1>7, <1>8, <1>9, <1>10, <1>11

LEMMA ExtractIndInv ==
  ASSUME IndInv, NEW a \in Apis, Extract(a)
  PROVE  IndInv'
  <1> USE ConstantsAssumption DEF Extract, IndInv, TypeOK
  <1>1. RowTypes' BY DEF RowTypes
  <1>2. SourceTypes' BY DEF SourceTypes
  <1>3. LockTypes' BY DEF LockTypes
  <1>4. ApiTypes' BY DEF ApiTypes
  <1>5. WorkTypes' BY DEF WorkTypes
  <1>6. ClientTypes' BY DEF ClientTypes
  <1>7. EventTypes' BY DEF EventTypes
  <1>8. CallsSound' BY DEF CallsSound, ProperJob, ClientTypes
  <1>9. JobsSound' BY DEF JobsSound, ProperJob, RowTypes
  <1>10. WorkSound' BY DEF WorkSound, Executing, WorkTypes
  <1>11. ExpiredEnded' BY DEF ExpiredEnded, RowTypes
  <1> QED BY <1>1, <1>2, <1>3, <1>4, <1>5, <1>6, <1>7, <1>8, <1>9, <1>10, <1>11

LEMMA CommitIndInv ==
  ASSUME IndInv, NEW a \in Apis, Commit(a)
  PROVE  IndInv'
  <1> USE ConstantsAssumption DEF Commit, CheckOwnerFails, Obstacle, IndInv, TypeOK
  <1>1. RowTypes' BY DEF RowTypes
  <1>2. SourceTypes' BY DEF SourceTypes
  <1>3. LockTypes' BY DEF LockTypes
  <1>4. ApiTypes' BY DEF ApiTypes
  <1>5. WorkTypes' BY DEF WorkTypes
  <1>6. ClientTypes' BY DEF ClientTypes
  <1>7. EventTypes' BY DEF EventTypes
  <1>8. CallsSound' BY DEF CallsSound, ProperJob, ClientTypes
  <1>9. JobsSound' BY DEF JobsSound, ProperJob, RowTypes
  <1>10. WorkSound' BY DEF WorkSound, Executing, WorkTypes
  <1>11. ExpiredEnded' BY DEF ExpiredEnded, RowTypes
  <1> QED BY <1>1, <1>2, <1>3, <1>4, <1>5, <1>6, <1>7, <1>8, <1>9, <1>10, <1>11

LEMMA WriteIndInv ==
  ASSUME IndInv, NEW a \in Apis, Write(a)
  PROVE  IndInv'
  <1> USE ConstantsAssumption DEF Write, EndRun, StillRunning, IndInv, TypeOK
  <1>1. RowTypes'
    <2>1. CASE StillRunning(wrun[a])
      <3>1. wrun[a] \in RunIds BY DEF WorkSound, Executing
      <3>2. ResultVersion(wrun[a]) \in Nat BY <3>1, VersionTypes
      <3>3. status' \in [RunIds -> {"absent", "gone"} \cup Active \cup Final]
        <4>1. \A r \in RunIds : status'[r] = status[r] \/ status'[r] \in Final BY <2>1
        <4>2. status' = [r \in RunIds |-> status'[r]] BY <2>1
        <4> QED BY <4>1, <4>2 DEF RowTypes
      <3>4. result' \in [RunIds -> Nat] BY <2>1, <3>2 DEF RowTypes
      <3> QED BY <3>3, <3>4 DEF RowTypes
    <2>2. CASE ~StillRunning(wrun[a]) BY <2>2 DEF RowTypes
    <2> QED BY <2>1, <2>2
  <1>2. SourceTypes'
    <2>1. CASE StillRunning(wrun[a])
      <3>1. wrun[a] \in RunIds BY DEF WorkSound, Executing
      <3>2. ResultVersion(wrun[a]) \in Nat BY <3>1, VersionTypes
      <3> QED BY <2>1, <3>2 DEF SourceTypes
    <2>2. CASE ~StillRunning(wrun[a]) BY <2>2 DEF SourceTypes
    <2> QED BY <2>1, <2>2
  <1>3. LockTypes' BY DEF LockTypes
  <1>4. ApiTypes' BY DEF ApiTypes
  <1>5. WorkTypes' BY DEF WorkTypes
  <1>6. ClientTypes' BY DEF ClientTypes
  <1>7. EventTypes' BY DEF EventTypes
  <1>8. CallsSound' BY DEF CallsSound, ProperJob, ClientTypes
  <1>9. JobsSound' BY DEF JobsSound, ProperJob, RowTypes
  <1>10. WorkSound' BY DEF WorkSound, Executing, WorkTypes
  <1>11. ExpiredEnded' BY DEF ExpiredEnded, RowTypes
  <1> QED BY <1>1, <1>2, <1>3, <1>4, <1>5, <1>6, <1>7, <1>8, <1>9, <1>10, <1>11

LEMMA FailIndInv ==
  ASSUME IndInv, NEW a \in Apis, Fail(a)
  PROVE  IndInv'
  <1> USE ConstantsAssumption DEF Fail, Recorded, EndRun, StillRunning, IndInv, TypeOK
  <1>1. RowTypes'
    <2>1. status' \in [RunIds -> {"absent", "gone"} \cup Active \cup Final]
      BY DEF RowTypes
    <2>2. code' \in [RunIds -> {"none", "user_stopped", "api_stopped", "api_restarted",
                               "sensitive_file", "cancelled", "other"}]
      BY DEF RowTypes
    <2> QED BY <2>1, <2>2 DEF RowTypes
  <1>2. SourceTypes' BY DEF SourceTypes
  <1>3. LockTypes' BY DEF LockTypes
  <1>4. ApiTypes' BY DEF ApiTypes
  <1>5. WorkTypes' BY DEF WorkTypes
  <1>6. ClientTypes' BY DEF ClientTypes
  <1>7. EventTypes' BY DEF EventTypes
  <1>8. CallsSound' BY DEF CallsSound, ProperJob, ClientTypes
  <1>9. JobsSound' BY DEF JobsSound, ProperJob, RowTypes
  <1>10. WorkSound' BY DEF WorkSound, Executing, WorkTypes
  <1>11. ExpiredEnded' BY DEF ExpiredEnded, RowTypes
  <1> QED BY <1>1, <1>2, <1>3, <1>4, <1>5, <1>6, <1>7, <1>8, <1>9, <1>10, <1>11

LEMMA FinishIndInv ==
  ASSUME IndInv, NEW a \in Apis, Finish(a)
  PROVE  IndInv'
  <1> USE ConstantsAssumption DEF Finish, Free, IndInv, TypeOK
  <1>1. RowTypes' BY DEF RowTypes
  <1>2. SourceTypes' BY DEF SourceTypes
  <1>3. LockTypes' BY DEF LockTypes
  <1>4. ApiTypes' BY DEF ApiTypes
  <1>5. WorkTypes'
    <2>1. ReadOf({wrun[a]}) \in [RunIds -> {"none"} \cup Active \cup Final] BY ReadTypes
    <2>2. seen' \in [Apis -> [RunIds -> {"none"} \cup Active \cup Final]]
      BY <2>1 DEF WorkTypes
    <2>3. abort' \in [Apis -> BOOLEAN] /\ full' \in [Apis -> BOOLEAN] BY DEF WorkTypes
    <2>4. wpc' = [wpc EXCEPT ![a] = "clean"] \/ wpc' = [wpc EXCEPT ![a] = "idle"] OBVIOUS
    <2> QED BY <2>2, <2>3, <2>4 DEF WorkTypes
  <1>6. ClientTypes' BY DEF ClientTypes
  <1>7. EventTypes' BY DEF EventTypes
  <1>8. CallsSound' BY DEF CallsSound, ProperJob, ClientTypes
  <1>9. JobsSound' BY DEF JobsSound, ProperJob, RowTypes
  <1>10. WorkSound' BY DEF WorkSound, Executing, WorkTypes
  <1>11. ExpiredEnded' BY DEF ExpiredEnded, RowTypes
  <1> QED BY <1>1, <1>2, <1>3, <1>4, <1>5, <1>6, <1>7, <1>8, <1>9, <1>10, <1>11

LEMMA CleanIndInv ==
  ASSUME IndInv, NEW a \in Apis, Clean(a)
  PROVE  IndInv'
  <1> USE ConstantsAssumption DEF Clean, Free, IndInv, TypeOK
  <1>1. RowTypes' BY DEF RowTypes
  <1>2. SourceTypes' BY DEF SourceTypes
  <1>3. LockTypes' BY DEF LockTypes
  <1>4. ApiTypes' BY DEF ApiTypes
  <1>5. WorkTypes'
    <2>1. wrun' \in [Apis -> RunIds \cup {NoRun}] BY DEF WorkTypes
    <2>2. wpc' = wpc \/ \E at \in {"sweep", "idle", "discard"} : wpc' = [wpc EXCEPT ![a] = at]
      OBVIOUS
    <2>3. seen' = seen \/ \E r \in RunIds : seen' = [seen EXCEPT ![a][r] = "none"]
      OBVIOUS
    <2>4. seen' \in [Apis -> [RunIds -> {"none"} \cup Active \cup Final]]
      <3>1. ASSUME NEW r \in RunIds, seen' = [seen EXCEPT ![a][r] = "none"]
            PROVE  seen' \in [Apis -> [RunIds -> {"none"} \cup Active \cup Final]]
        <4>1. [seen[a] EXCEPT ![r] = "none"] \in [RunIds -> {"none"} \cup Active \cup Final]
          BY DEF WorkTypes
        <4> QED BY <3>1, <4>1 DEF WorkTypes
      <3> QED BY <2>3, <3>1 DEF WorkTypes
    <2> QED BY <2>1, <2>2, <2>4 DEF WorkTypes
  <1>6. ClientTypes' BY DEF ClientTypes
  <1>7. EventTypes' BY DEF EventTypes
  <1>8. CallsSound' BY DEF CallsSound, ProperJob, ClientTypes
  <1>9. JobsSound' BY DEF JobsSound, ProperJob, RowTypes
  <1>10. WorkSound'
    <2>1. \/ wrun' = wrun /\ (wpc' = wpc \/ \E at \in {"sweep", "idle"} : Work(a, at))
          \/ \E r \in RunIds : wrun' = [wrun EXCEPT ![a] = r] /\ Work(a, "discard")
      OBVIOUS
    <2> QED BY <2>1 DEF WorkSound, Executing, WorkTypes
  <1>11. ExpiredEnded' BY DEF ExpiredEnded, RowTypes
  <1> QED BY <1>1, <1>2, <1>3, <1>4, <1>5, <1>6, <1>7, <1>8, <1>9, <1>10, <1>11

LEMMA DiscardIndInv ==
  ASSUME IndInv, NEW a \in Apis, Discard(a)
  PROVE  IndInv'
  <1> USE ConstantsAssumption DEF Discard, EndRun, IndInv, TypeOK
  <1>1. RowTypes' BY DEF RowTypes
  <1>2. SourceTypes' BY DEF SourceTypes
  <1>3. LockTypes' BY DEF LockTypes
  <1>4. ApiTypes' BY DEF ApiTypes
  <1>5. WorkTypes' BY DEF WorkTypes
  <1>6. ClientTypes' BY DEF ClientTypes
  <1>7. EventTypes' BY DEF EventTypes
  <1>8. CallsSound' BY DEF CallsSound, ProperJob, ClientTypes
  <1>9. JobsSound' BY DEF JobsSound, ProperJob, RowTypes
  <1>10. WorkSound' BY DEF WorkSound, Executing, WorkTypes
  <1>11. ExpiredEnded' BY DEF ExpiredEnded, RowTypes
  <1> QED BY <1>1, <1>2, <1>3, <1>4, <1>5, <1>6, <1>7, <1>8, <1>9, <1>10, <1>11

LEMMA SweepIndInv ==
  ASSUME IndInv, NEW a \in Apis, Sweep(a)
  PROVE  IndInv'
  <1> USE ConstantsAssumption DEF Sweep, IndInv, TypeOK
  <1>1. RowTypes' BY DEF RowTypes
  <1>2. SourceTypes' BY DEF SourceTypes
  <1>3. LockTypes' BY DEF LockTypes
  <1>4. ApiTypes' BY DEF ApiTypes
  <1>5. WorkTypes' BY DEF WorkTypes
  <1>6. ClientTypes' BY DEF ClientTypes
  <1>7. EventTypes' BY DEF EventTypes
  <1>8. CallsSound' BY DEF CallsSound, ProperJob, ClientTypes
  <1>9. JobsSound' BY DEF JobsSound, ProperJob, RowTypes
  <1>10. WorkSound' BY DEF WorkSound, Executing, WorkTypes
  <1>11. ExpiredEnded' BY DEF ExpiredEnded, RowTypes
  <1> QED BY <1>1, <1>2, <1>3, <1>4, <1>5, <1>6, <1>7, <1>8, <1>9, <1>10, <1>11

LEMMA DropIndInv ==
  ASSUME IndInv, NEW a \in Apis, Drop(a)
  PROVE  IndInv'
  <1> USE ConstantsAssumption DEF Drop, EndRun, Rows, Free, IndInv, TypeOK
  <1>1. RowTypes' BY DEF RowTypes
  <1>2. SourceTypes' BY DEF SourceTypes
  <1>3. LockTypes' BY DEF LockTypes
  <1>4. ApiTypes' BY DEF ApiTypes
  <1>5. WorkTypes' BY DEF WorkTypes
  <1>6. ClientTypes' BY DEF ClientTypes
  <1>7. EventTypes' BY DEF EventTypes
  <1>8. CallsSound' BY DEF CallsSound, ProperJob, ClientTypes
  <1>9. JobsSound' BY DEF JobsSound, ProperJob, RowTypes
  <1>10. WorkSound' BY DEF WorkSound, Executing, WorkTypes
  <1>11. ExpiredEnded' BY DEF ExpiredEnded, RowTypes
  <1> QED BY <1>1, <1>2, <1>3, <1>4, <1>5, <1>6, <1>7, <1>8, <1>9, <1>10, <1>11

LEMMA StartCleanupIndInv ==
  ASSUME IndInv, NEW a \in Apis, StartCleanup(a)
  PROVE  IndInv'
  <1> USE ConstantsAssumption DEF StartCleanup, IndInv, TypeOK
  <1>1. RowTypes' BY DEF RowTypes
  <1>2. SourceTypes' BY DEF SourceTypes
  <1>3. LockTypes' BY DEF LockTypes
  <1>4. ApiTypes' BY DEF ApiTypes
  <1>5. WorkTypes'
    <2>1. ReadOf(RunIds) \in [RunIds -> {"none"} \cup Active \cup Final] BY ReadTypes
    <2> QED BY <2>1 DEF WorkTypes
  <1>6. ClientTypes' BY DEF ClientTypes
  <1>7. EventTypes' BY DEF EventTypes
  <1>8. CallsSound' BY DEF CallsSound, ProperJob, ClientTypes
  <1>9. JobsSound' BY DEF JobsSound, ProperJob, RowTypes
  <1>10. WorkSound' BY DEF WorkSound, Executing, WorkTypes
  <1>11. ExpiredEnded' BY DEF ExpiredEnded, RowTypes
  <1> QED BY <1>1, <1>2, <1>3, <1>4, <1>5, <1>6, <1>7, <1>8, <1>9, <1>10, <1>11

LEMMA BootOwnIndInv ==
  ASSUME IndInv, NEW a \in Apis, BootOwn(a)
  PROVE  IndInv'
  <1> USE ConstantsAssumption DEF BootOwn, IndInv, TypeOK
  <1>1. RowTypes' BY DEF RowTypes
  <1>2. SourceTypes' BY DEF SourceTypes
  <1>3. LockTypes' BY DEF LockTypes
  <1>4. ApiTypes' BY DEF ApiTypes
  <1>5. WorkTypes' BY DEF WorkTypes
  <1>6. ClientTypes' BY DEF ClientTypes
  <1>7. EventTypes' BY DEF EventTypes
  <1>8. CallsSound' BY DEF CallsSound, ProperJob, ClientTypes
  <1>9. JobsSound' BY DEF JobsSound, ProperJob, RowTypes
  <1>10. WorkSound' BY DEF WorkSound, Executing, WorkTypes
  <1>11. ExpiredEnded' BY DEF ExpiredEnded, RowTypes
  <1> QED BY <1>1, <1>2, <1>3, <1>4, <1>5, <1>6, <1>7, <1>8, <1>9, <1>10, <1>11

LEMMA BootInterruptIndInv ==
  ASSUME IndInv, NEW a \in Apis, BootInterrupt(a)
  PROVE  IndInv'
  <1> USE ConstantsAssumption DEF BootInterrupt, EndRun, LeftBehind, ActiveRuns, IndInv, TypeOK
  <1>1. RowTypes' BY DEF RowTypes
  <1>2. SourceTypes' BY DEF SourceTypes
  <1>3. LockTypes' BY DEF LockTypes
  <1>4. ApiTypes' BY DEF ApiTypes
  <1>5. WorkTypes' BY DEF WorkTypes
  <1>6. ClientTypes' BY DEF ClientTypes
  <1>7. EventTypes' BY DEF EventTypes
  <1>8. CallsSound' BY DEF CallsSound, ProperJob, ClientTypes
  <1>9. JobsSound' BY DEF JobsSound, ProperJob, RowTypes
  <1>10. WorkSound' BY DEF WorkSound, Executing, WorkTypes
  <1>11. ExpiredEnded' BY DEF ExpiredEnded, RowTypes
  <1> QED BY <1>1, <1>2, <1>3, <1>4, <1>5, <1>6, <1>7, <1>8, <1>9, <1>10, <1>11

LEMMA BootCleanIndInv ==
  ASSUME IndInv, NEW a \in Apis, BootClean(a)
  PROVE  IndInv'
  <1> USE ConstantsAssumption DEF BootClean, IndInv, TypeOK
  <1>1. RowTypes' BY DEF RowTypes
  <1>2. SourceTypes' BY DEF SourceTypes
  <1>3. LockTypes' BY DEF LockTypes
  <1>4. ApiTypes' BY DEF ApiTypes
  <1>5. WorkTypes'
    <2>1. ReadOf(RunIds) \in [RunIds -> {"none"} \cup Active \cup Final] BY ReadTypes
    <2> QED BY <2>1 DEF WorkTypes
  <1>6. ClientTypes' BY DEF ClientTypes
  <1>7. EventTypes' BY DEF EventTypes
  <1>8. CallsSound' BY DEF CallsSound, ProperJob, ClientTypes
  <1>9. JobsSound' BY DEF JobsSound, ProperJob, RowTypes
  <1>10. WorkSound' BY DEF WorkSound, Executing, WorkTypes
  <1>11. ExpiredEnded' BY DEF ExpiredEnded, RowTypes
  <1> QED BY <1>1, <1>2, <1>3, <1>4, <1>5, <1>6, <1>7, <1>8, <1>9, <1>10, <1>11

LEMMA BootFailIndInv ==
  ASSUME IndInv, NEW a \in Apis, BootFail(a)
  PROVE  IndInv'
  <1> USE ConstantsAssumption DEF BootFail, Free, IndInv, TypeOK
  <1>1. RowTypes' BY DEF RowTypes
  <1>2. SourceTypes' BY DEF SourceTypes
  <1>3. LockTypes' BY DEF LockTypes
  <1>4. ApiTypes' BY DEF ApiTypes
  <1>5. WorkTypes' BY DEF WorkTypes
  <1>6. ClientTypes' BY DEF ClientTypes
  <1>7. EventTypes' BY DEF EventTypes
  <1>8. CallsSound' BY DEF CallsSound, ProperJob, ClientTypes
  <1>9. JobsSound' BY DEF JobsSound, ProperJob, RowTypes
  <1>10. WorkSound' BY DEF WorkSound, Executing, WorkTypes
  <1>11. ExpiredEnded' BY DEF ExpiredEnded, RowTypes
  <1> QED BY <1>1, <1>2, <1>3, <1>4, <1>5, <1>6, <1>7, <1>8, <1>9, <1>10, <1>11

LEMMA HaltIndInv ==
  ASSUME IndInv, NEW a \in Apis, Halt(a)
  PROVE  IndInv'
  <1> USE ConstantsAssumption DEF Halt, IndInv, TypeOK
  <1>1. RowTypes' BY DEF RowTypes
  <1>2. SourceTypes' BY DEF SourceTypes
  <1>3. LockTypes' BY DEF LockTypes
  <1>4. ApiTypes' BY DEF ApiTypes
  <1>5. WorkTypes' BY DEF WorkTypes
  <1>6. ClientTypes' BY DEF ClientTypes
  <1>7. EventTypes' BY SpendTypes DEF EventTypes, Events
  <1>8. CallsSound' BY DEF CallsSound, ProperJob, ClientTypes
  <1>9. JobsSound' BY DEF JobsSound, ProperJob, RowTypes
  <1>10. WorkSound' BY DEF WorkSound, Executing, WorkTypes
  <1>11. ExpiredEnded' BY DEF ExpiredEnded, RowTypes
  <1> QED BY <1>1, <1>2, <1>3, <1>4, <1>5, <1>6, <1>7, <1>8, <1>9, <1>10, <1>11

LEMMA HaltCurrentIndInv ==
  ASSUME IndInv, NEW a \in Apis, HaltCurrent(a)
  PROVE  IndInv'
  <1> USE ConstantsAssumption DEF HaltCurrent, EndRun, IndInv, TypeOK
  <1>1. RowTypes'
    <2>1. status' \in [RunIds -> {"absent", "gone"} \cup Active \cup Final]
      BY DEF RowTypes
    <2>2. code' \in [RunIds -> {"none", "user_stopped", "api_stopped", "api_restarted",
                               "sensitive_file", "cancelled", "other"}]
      BY DEF RowTypes
    <2> QED BY <2>1, <2>2 DEF RowTypes
  <1>2. SourceTypes' BY DEF SourceTypes
  <1>3. LockTypes' BY DEF LockTypes
  <1>4. ApiTypes' BY DEF ApiTypes
  <1>5. WorkTypes' BY DEF WorkTypes
  <1>6. ClientTypes' BY DEF ClientTypes
  <1>7. EventTypes' BY DEF EventTypes
  <1>8. CallsSound' BY DEF CallsSound, ProperJob, ClientTypes
  <1>9. JobsSound' BY DEF JobsSound, ProperJob, RowTypes
  <1>10. WorkSound' BY DEF WorkSound, Executing, WorkTypes
  <1>11. ExpiredEnded' BY DEF ExpiredEnded, RowTypes
  <1> QED BY <1>1, <1>2, <1>3, <1>4, <1>5, <1>6, <1>7, <1>8, <1>9, <1>10, <1>11

LEMMA HaltQueuedIndInv ==
  ASSUME IndInv, NEW a \in Apis, HaltQueued(a)
  PROVE  IndInv'
  <1> USE ConstantsAssumption DEF HaltQueued, EndRun, Free, IndInv, TypeOK
  <1>1. RowTypes' BY DEF RowTypes
  <1>2. SourceTypes' BY DEF SourceTypes
  <1>3. LockTypes' BY DEF LockTypes
  <1>4. ApiTypes' BY DEF ApiTypes
  <1>5. WorkTypes' BY DEF WorkTypes
  <1>6. ClientTypes' BY DEF ClientTypes
  <1>7. EventTypes' BY DEF EventTypes
  <1>8. CallsSound' BY DEF CallsSound, ProperJob, ClientTypes
  <1>9. JobsSound' BY DEF JobsSound, ProperJob, RowTypes
  <1>10. WorkSound' BY DEF WorkSound, Executing, WorkTypes
  <1>11. ExpiredEnded' BY DEF ExpiredEnded, RowTypes
  <1> QED BY <1>1, <1>2, <1>3, <1>4, <1>5, <1>6, <1>7, <1>8, <1>9, <1>10, <1>11

LEMMA CrashIndInv ==
  ASSUME IndInv, NEW a \in Apis, Crash(a)
  PROVE  IndInv'
  <1> USE ConstantsAssumption DEF Crash, Free, NothingSeen, IndInv, TypeOK
  <1>1. RowTypes' BY DEF RowTypes
  <1>2. SourceTypes' BY DEF SourceTypes
  <1>3. LockTypes' BY DEF LockTypes
  <1>4. ApiTypes' BY DEF ApiTypes
  <1>5. WorkTypes' BY DEF WorkTypes, NothingSeen
  <1>6. ClientTypes' BY DEF ClientTypes, Calls, NoRequest, Keys, NoFamily
  <1>7. EventTypes' BY SpendTypes DEF EventTypes, Events
  <1>8. CallsSound' BY DEF CallsSound, ProperJob, ClientTypes
  <1>9. JobsSound' BY DEF JobsSound, ProperJob, RowTypes
  <1>10. WorkSound' BY DEF WorkSound, Executing, WorkTypes
  <1>11. ExpiredEnded' BY DEF ExpiredEnded, RowTypes
  <1> QED BY <1>1, <1>2, <1>3, <1>4, <1>5, <1>6, <1>7, <1>8, <1>9, <1>10, <1>11

LEMMA LoseLockIndInv ==
  ASSUME IndInv, NEW a \in Apis, LoseLock(a)
  PROVE  IndInv'
  <1> USE ConstantsAssumption DEF LoseLock, IndInv, TypeOK
  <1>1. RowTypes' BY DEF RowTypes
  <1>2. SourceTypes' BY DEF SourceTypes
  <1>3. LockTypes' BY DEF LockTypes
  <1>4. ApiTypes' BY DEF ApiTypes
  <1>5. WorkTypes' BY DEF WorkTypes
  <1>6. ClientTypes' BY DEF ClientTypes
  <1>7. EventTypes' BY SpendTypes DEF EventTypes, Events
  <1>8. CallsSound' BY DEF CallsSound, ProperJob, ClientTypes
  <1>9. JobsSound' BY DEF JobsSound, ProperJob, RowTypes
  <1>10. WorkSound' BY DEF WorkSound, Executing, WorkTypes
  <1>11. ExpiredEnded' BY DEF ExpiredEnded, RowTypes
  <1> QED BY <1>1, <1>2, <1>3, <1>4, <1>5, <1>6, <1>7, <1>8, <1>9, <1>10, <1>11

LEMMA AgeIndInv ==
  ASSUME IndInv, Age
  PROVE  IndInv'
  <1> USE ConstantsAssumption DEF Age, IndInv, TypeOK
  <1>1. RowTypes' BY DEF RowTypes
  <1>2. SourceTypes' BY DEF SourceTypes
  <1>3. LockTypes' BY DEF LockTypes
  <1>4. ApiTypes' BY DEF ApiTypes
  <1>5. WorkTypes' BY DEF WorkTypes
  <1>6. ClientTypes' BY DEF ClientTypes
  <1>7. EventTypes' BY SpendTypes DEF EventTypes, Events
  <1>8. CallsSound' BY DEF CallsSound, ProperJob, ClientTypes
  <1>9. JobsSound' BY DEF JobsSound, ProperJob, RowTypes
  <1>10. WorkSound' BY DEF WorkSound, Executing, WorkTypes
  <1>11. ExpiredEnded' BY DEF ExpiredEnded, RowTypes
  <1> QED BY <1>1, <1>2, <1>3, <1>4, <1>5, <1>6, <1>7, <1>8, <1>9, <1>10, <1>11

\* Every step of the program keeps the invariant.
LEMMA NextIndInv == IndInv /\ [Next]_vars => IndInv'
  <1> SUFFICES ASSUME IndInv, [Next]_vars PROVE IndInv' OBVIOUS
  <1>1. ASSUME NEW c \in Clients, NEW a \in Apis, NewRequest(c, a) PROVE IndInv'
    BY <1>1, RegisterIndInv, ReplaceIndInv, DeriveIndInv, RetryRecoveredIndInv, RetryIndInv,
       StopIndInv, ManageLockIndInv DEF NewRequest
  <1>2. ASSUME NEW c \in Clients, ClientStep(c) PROVE IndInv'
    BY <1>2,
      EnterIndInv, RecheckIndInv, StageIndInv, ReserveIndInv, SettleIndInv,
      StopAbortIndInv, ManageCommitIndInv
      DEF ClientStep
  <1>3. ASSUME NEW a \in Apis, WorkerStep(a) PROVE IndInv'
    BY <1>3,
      PeekIndInv, FileLockBusyIndInv, ClaimIndInv, ActivateIndInv, CheckIndInv,
      ExtractIndInv, CommitIndInv, WriteIndInv, FailIndInv, FinishIndInv,
      CleanIndInv, DiscardIndInv, SweepIndInv, DropIndInv
      DEF WorkerStep
  <1>4. ASSUME NEW a \in Apis, LifeStep(a) PROVE IndInv'
    BY <1>4, BootInterruptIndInv, BootCleanIndInv, BootFailIndInv, HaltCurrentIndInv,
       HaltQueuedIndInv DEF LifeStep
  <1>5. ASSUME NEW a \in Apis,
               \/ TakeFileLock(a) \/ StartCleanup(a) \/ Monitor(a) \/ BootOwn(a)
               \/ Halt(a) \/ Crash(a) \/ LoseLock(a)
        PROVE  IndInv'
    BY <1>5, TakeFileLockIndInv, StartCleanupIndInv, MonitorIndInv, BootOwnIndInv,
       HaltIndInv, CrashIndInv, LoseLockIndInv
  <1>6. CASE Revoke \/ Age BY <1>6, RevokeIndInv, AgeIndInv
  <1>7. CASE UNCHANGED vars
    BY <1>7 DEF vars, IndInv, TypeOK, RowTypes, SourceTypes, LockTypes, ApiTypes, WorkTypes,
       ClientTypes, EventTypes, CallsSound, JobsSound, WorkSound, ExpiredEnded, Executing
  <1> QED BY <1>1, <1>2, <1>3, <1>4, <1>5, <1>6, <1>7 DEF Next

LEMMA Invariant == Spec => []IndInv
  <1> QED BY InitIndInv, NextIndInv, PTL DEF Spec

\* Every variable keeps its type, for any processes, clients, requests and bounds.
THEOREM TypeCorrect == Spec => []TypeOK
  <1>1. IndInv => TypeOK BY DEF IndInv
  <1> QED BY <1>1, Invariant, PTL

-----------------------------------------------------------------------------
(* FileRuns implements RunQueue: whatever the processes, locks, crashes and *)
(* late workers do, a user sees a queue that admits, starts, ends and       *)
(* forgets its jobs.  What the queue forbids then need not be proved again  *)
(* of the processes: the later sections build on it.                        *)

HIDE DEF Active, Final, NoRun, NoKey, Operations, RunIds, Work, Spend,
        rowVars, sourceVars, lockVars, apiVars, workVars, cleanVars, clientVars, envVars

LEMMA ActiveFinite == IsFiniteSet(ActiveRuns) /\ Cardinality(ActiveRuns) \in Nat
  <1>1. IsFiniteSet(RunIds) BY ConstantsAssumption, FS_Interval DEF RunIds
  <1>2. ActiveRuns \subseteq RunIds BY DEF ActiveRuns
  <1> QED BY <1>1, <1>2, FS_Subset, FS_CardinalityType

\* The queue counts as this module does.
LEMMA SameCount == \A S : Queue!Cardinality(S) = Cardinality(S)
  BY DEF Queue!Cardinality, Cardinality

\* Steps that leave the rows alone are invisible.
LEMMA Invisible ==
  ASSUME UNCHANGED <<status, job, result>>
  PROVE  UNCHANGED Queue!vars
  BY DEF Queue!vars

LEMMA InitQueue == Init => Queue!Init
  <1> SUFFICES ASSUME Init PROVE Queue!Init OBVIOUS
  <1>1. \A r \in RunIds : job[r].key = NoFamily /\ result[r] = 0
    BY DEF Init, NoJob, NoFamily
  <1>2. [r \in RunIds |-> job[r].key] = [r \in RunIds |-> NoFamily] BY <1>1
  <1>3. [r \in RunIds |-> result[r] # 0] = [r \in RunIds |-> FALSE] BY <1>1
  <1>4. status = [r \in RunIds |-> "absent"] BY DEF Init
  <1> QED BY <1>2, <1>3, <1>4 DEF Queue!Init

\* Runs broken off, and runs forgotten, are steps of the queue.
LEMMA InterruptStep ==
  ASSUME NEW S \in SUBSET RunIds, \A r \in S : status[r] \in Active,
         status' = EndRun(S, "interrupted"), UNCHANGED <<job, result>>
  PROVE  Queue!Next
  <1>1. Queue!Interrupt(S) BY DEF Queue!Interrupt, Queue!Live, EndRun, Active
  <1> QED BY <1>1 DEF Queue!Next

LEMMA ForgetStep ==
  ASSUME NEW S \in SUBSET RunIds, \A r \in S : status[r] \in Final,
         status' = EndRun(S, "gone"), UNCHANGED <<job, result>>
  PROVE  Queue!Next
  <1>1. Queue!Forget(S) BY DEF Queue!Forget, Queue!Ended, EndRun, Final
  <1> QED BY <1>1 DEF Queue!Next

\* Admission is the queue's; joining or refusing a request is invisible.
LEMMA ReserveQueue ==
  ASSUME IndInv, NEW c \in Clients, Reserve(c)
  PROVE  [Queue!Next]_Queue!vars
  <1>1. CASE ReserveCreate(c)
    <2>1. PICK r \in NextRun : /\ status' = [status EXCEPT ![r] = "queued"]
                               /\ job' = [job EXCEPT ![r] = JobOf(creq[c])]
      BY <1>1 DEF ReserveCreate
    <2>2. r \in RunIds /\ status[r] = "absent"
      BY DEF NextRun
    <2>3. \A s \in RunIds : s < r => status[s] # "absent"
      BY <2>2, ConstantsAssumption DEF NextRun, RunIds
    <2>4. creq[c] \in Calls /\ creq[c].req \in Requests
      BY DEF Reserve, IndInv, TypeOK, ClientTypes, CallsSound
    <2>5. PICK k : k = TargetKey(creq[c]) OBVIOUS
    <2>6. k \in Keys \ {NoFamily}
      BY <2>4, <2>5 DEF TargetKey, Keys, NoFamily, Calls, NoRun
    <2>7. \A s \in ActiveRuns : job[s].key # k BY <1>1, <2>5 DEF ReserveCreate, Rival
    <2>8. ActiveRuns = Queue!Live BY DEF ActiveRuns, Queue!Live, Active
    <2>9. Queue!Cardinality(Queue!Live) < QueueLimit
      <3>1. ~QueueFull BY <1>1 DEF ReserveCreate
      <3> QED BY <2>8, <3>1, ActiveFinite, SameCount, ConstantsAssumption DEF QueueFull
    <2>10. \A s \in Queue!Live : [t \in RunIds |-> job[t].key][s] # k
      BY <2>7, <2>8 DEF Queue!Live
    <2>11. JobOf(creq[c]).key = k BY <2>5 DEF JobOf
    <2>12. [t \in RunIds |-> job[t].key]' = [[t \in RunIds |-> job[t].key] EXCEPT ![r] = k]
      BY <2>1, <2>2, <2>11 DEF IndInv, TypeOK, RowTypes
    <2>13. UNCHANGED [t \in RunIds |-> result[t] # 0] BY DEF Reserve
    <2>14. Queue!Admit(r, k)
      BY <2>1, <2>2, <2>3, <2>9, <2>10, <2>12, <2>13 DEF Queue!Admit
    <2> QED BY <2>2, <2>6, <2>14 DEF Queue!Next
  <1>2. CASE ReserveBind(c) \/ ReserveRefuse(c)
    BY <1>2, Invisible DEF ReserveBind, ReserveRefuse, Reserve
  <1> QED BY <1>1, <1>2 DEF Reserve

\* The claim of a worker starts the oldest waiting run.
LEMMA ClaimQueue ==
  ASSUME IndInv, NEW a \in Apis, Claim(a)
  PROVE  [Queue!Next]_Queue!vars
  <1>1. CASE UNCHANGED status BY <1>1, Invisible DEF Claim
  <1>2. CASE status' # status
    <2>1. PICK r \in RunIds : /\ IsOldest(r, {s \in RunIds : status[s] = "queued"})
                              /\ status' = [status EXCEPT ![r] = "running"]
      BY <1>2 DEF Claim, NextQueued
    <2>2. \A s \in RunIds : status[s] # "running" BY <1>2 DEF Claim
    <2>3. UNCHANGED <<job, result>> BY DEF Claim
    <2>4. Queue!Start(r)
      BY <2>1, <2>2, <2>3 DEF Queue!Start, Queue!Waiting, IsOldest
    <2> QED BY <2>1, <2>4 DEF Queue!Next
  <1> QED BY <1>1, <1>2

\* A worker that commits completes its run.
LEMMA WriteQueue ==
  ASSUME IndInv, NEW a \in Apis, Write(a)
  PROVE  [Queue!Next]_Queue!vars
  <1>1. CASE StillRunning(wrun[a])
    <2>1. PICK r : r = wrun[a] OBVIOUS
    <2>2. PICK v : v = ResultVersion(r) OBVIOUS
    <2>3. PICK how \in {"succeeded", "failed"} : status' = EndRun({r}, how)
      BY <1>1, <2>1 DEF Write
    <2>4. r \in RunIds BY <2>1 DEF Write, IndInv, WorkSound, Executing
    <2>5. status[r] = "running" BY <1>1, <2>1 DEF StillRunning
    <2>6. v # 0
      <3>1. job[r] \in Jobs /\ job[r].op \in Operations /\ ProperJob(job[r])
        BY <2>4, <2>5 DEF IndInv, TypeOK, RowTypes, JobsSound
      <3>2. job[r].op \in {"register", "replace"} => OriginalOf(r) \in RunIds
        BY <2>4, <3>1 DEF OriginalOf, ProperJob
      <3>3. job[r].op \in {"register", "replace"} => latest[OriginalOf(r)] \in Nat
        BY <3>2 DEF IndInv, TypeOK, SourceTypes
      <3> QED BY <2>2, <3>1, <3>3 DEF ResultVersion, Operations, ProperJob
    <2>7. result' = [result EXCEPT ![r] = v] /\ UNCHANGED job
      BY <1>1, <2>1, <2>2 DEF Write
    <2>8. status' = [status EXCEPT ![r] = how]
      BY <2>3, <2>4 DEF EndRun, IndInv, TypeOK, RowTypes
    <2>9. [t \in RunIds |-> result[t] # 0]'
            = [[t \in RunIds |-> result[t] # 0] EXCEPT ![r] = TRUE]
      BY <2>4, <2>6, <2>7 DEF IndInv, TypeOK, RowTypes
    <2>10. UNCHANGED [t \in RunIds |-> job[t].key] BY <2>7
    <2>11. Queue!Complete(r, how) BY <2>5, <2>8, <2>9, <2>10 DEF Queue!Complete
    <2> QED BY <2>4, <2>11 DEF Queue!Next
  <1>2. CASE ~StillRunning(wrun[a]) BY <1>2, Invisible DEF Write
  <1> QED BY <1>1, <1>2

\* A worker that cannot commit gives up its run, or nothing is left to give up.
LEMMA FailQueue ==
  ASSUME IndInv, NEW a \in Apis, Fail(a)
  PROVE  [Queue!Next]_Queue!vars
  <1>1. CASE StillRunning(wrun[a]) /\ Recorded(a)
    <2>1. PICK r : r = wrun[a] OBVIOUS
    <2>2. r \in RunIds BY <2>1 DEF Fail, IndInv, WorkSound, Executing
    <2>3. status[r] = "running" BY <1>1, <2>1 DEF StillRunning
    <2>4. UNCHANGED <<job, result>> BY DEF Fail
    <2>5. CASE status' = EndRun({r}, "interrupted")
      BY <2>2, <2>3, <2>4, <2>5, InterruptStep DEF Active
    <2>6. CASE status' = EndRun({r}, "failed")
      <3>1. status' = [status EXCEPT ![r] = "failed"]
        BY <2>2, <2>6 DEF EndRun, IndInv, TypeOK, RowTypes
      <3>2. Queue!GiveUp(r) BY <2>3, <2>4, <3>1 DEF Queue!GiveUp
      <3> QED BY <2>2, <3>2 DEF Queue!Next
    <2> QED BY <1>1, <2>1, <2>5, <2>6 DEF Recorded
  <1>2. CASE UNCHANGED status BY <1>2, Invisible DEF Fail
  <1> QED BY <1>1, <1>2 DEF Fail, Recorded

\* A cleanup breaks off a run only while its row is as the cleanup read it.
LEMMA DiscardQueue ==
  ASSUME IndInv, NEW a \in Apis, Discard(a)
  PROVE  [Queue!Next]_Queue!vars
  <1>1. wrun[a] \in RunIds BY DEF Discard, IndInv, WorkSound
  <1>2. UNCHANGED <<job, result>> BY DEF Discard
  <1>3. CASE status' # status
    <2>1. status[wrun[a]] \in Active /\ status' = EndRun({wrun[a]}, "interrupted")
      BY <1>3 DEF Discard
    <2> QED BY <1>1, <1>2, <2>1, InterruptStep
  <1>4. CASE status' = status BY <1>2, <1>4, Invisible
  <1> QED BY <1>3, <1>4

LEMMA DropQueue ==
  ASSUME IndInv, NEW a \in Apis, Drop(a)
  PROVE  [Queue!Next]_Queue!vars
  <1>1. PICK S : S = {r \in expired \cap Rows : input[r] = NoKey} OBVIOUS
  <1>2. S \in SUBSET RunIds BY <1>1 DEF Rows
  <1>3. \A r \in S : status[r] \in Final
    BY <1>1 DEF Rows, IndInv, ExpiredEnded, Active, Final
  <1>4. status' = EndRun(S, "gone") /\ UNCHANGED <<job, result>> BY <1>1 DEF Drop
  <1> QED BY <1>2, <1>3, <1>4, ForgetStep

\* A stop, a restart and both halves of a shutdown break off active runs.
LEMMA StopQueue ==
  ASSUME NEW c \in Clients, NEW a \in Apis, NEW r \in RunIds, Stop(c, a, r)
  PROVE  [Queue!Next]_Queue!vars
  BY InterruptStep DEF Stop

LEMMA BootInterruptQueue ==
  ASSUME NEW a \in Apis, BootInterrupt(a)
  PROVE  [Queue!Next]_Queue!vars
  <1>1. ActiveRuns \in SUBSET RunIds /\ \A r \in ActiveRuns : status[r] \in Active
    BY DEF ActiveRuns
  <1> QED BY <1>1, InterruptStep DEF BootInterrupt, LeftBehind

LEMMA HaltCurrentQueue ==
  ASSUME IndInv, NEW a \in Apis, HaltCurrent(a)
  PROVE  [Queue!Next]_Queue!vars
  <1>1. UNCHANGED <<job, result>> BY DEF HaltCurrent
  <1>2. CASE status' # status
    <2>1. status[wrun[a]] \in Active /\ status' = EndRun({wrun[a]}, "interrupted")
      BY <1>2 DEF HaltCurrent, Active
    <2>2. wrun[a] \in RunIds BY <1>2, <2>1 DEF EndRun, IndInv, TypeOK, RowTypes
    <2> QED BY <1>1, <2>1, <2>2, InterruptStep
  <1>3. CASE status' = status BY <1>1, <1>3, Invisible
  <1> QED BY <1>2, <1>3

LEMMA HaltQueuedQueue ==
  ASSUME NEW a \in Apis, HaltQueued(a)
  PROVE  [Queue!Next]_Queue!vars
  <1>1. PICK S : S = {r \in RunIds : status[r] = "queued"} OBVIOUS
  <1>2. S \in SUBSET RunIds /\ \A r \in S : status[r] \in Active BY <1>1 DEF Active
  <1>3. status' = EndRun(S, "interrupted") /\ UNCHANGED <<job, result>>
    BY <1>1 DEF HaltQueued
  <1> QED BY <1>2, <1>3, InterruptStep

\* Every step of the program is a step of the queue or invisible to its users.
LEMMA NextQueue == IndInv /\ [Next]_vars => [Queue!Next]_Queue!vars
  <1> SUFFICES ASSUME IndInv, [Next]_vars PROVE [Queue!Next]_Queue!vars OBVIOUS
  <1>1. ASSUME NEW c \in Clients, NEW a \in Apis, NewRequest(c, a)
        PROVE  [Queue!Next]_Queue!vars
    <2>1. ASSUME NEW r \in RunIds, Stop(c, a, r) PROVE [Queue!Next]_Queue!vars
      BY <2>1, StopQueue
    <2>2. CASE UNCHANGED <<status, job, result>> BY <2>2, Invisible
    <2> QED BY <1>1, <2>1, <2>2
         DEF NewRequest, Register, Replace, Derive, Retry, RetryRecovered, Begin,
             ManageLock, rowVars
  <1>2. ASSUME NEW c \in Clients, ClientStep(c) PROVE [Queue!Next]_Queue!vars
    <2>1. CASE UNCHANGED <<status, job, result>> BY <2>1, Invisible
    <2> QED BY <1>2, <2>1, ReserveQueue
         DEF ClientStep, Enter, Recheck, Stage, Settle, StopAbort, ManageCommit, rowVars
  <1>3. ASSUME NEW a \in Apis, WorkerStep(a) PROVE [Queue!Next]_Queue!vars
    <2>1. CASE UNCHANGED <<status, job, result>> BY <2>1, Invisible
    <2> QED BY <1>3, <2>1, ClaimQueue, WriteQueue, FailQueue, DiscardQueue, DropQueue
         DEF WorkerStep, Peek, FileLockBusy, Activate, Check, Extract, Commit, Finish,
             Clean, Sweep, rowVars
  <1>4. ASSUME NEW a \in Apis, LifeStep(a) PROVE [Queue!Next]_Queue!vars
    <2>1. CASE UNCHANGED <<status, job, result>> BY <2>1, Invisible
    <2> QED BY <1>4, <2>1, BootInterruptQueue, HaltCurrentQueue, HaltQueuedQueue
         DEF LifeStep, BootClean, BootFail, rowVars
  <1>5. CASE UNCHANGED <<status, job, result>> BY <1>5, Invisible
  <1>6. ASSUME NEW a \in Apis,
               \/ TakeFileLock(a) \/ StartCleanup(a) \/ Monitor(a) \/ BootOwn(a)
               \/ Halt(a) \/ Crash(a) \/ LoseLock(a)
        PROVE  UNCHANGED <<status, job, result>>
    BY <1>6 DEF TakeFileLock, StartCleanup, Monitor, BootOwn, Halt, Crash, LoseLock, rowVars
  <1>7. Revoke \/ Age \/ UNCHANGED vars => UNCHANGED <<status, job, result>>
    BY DEF Revoke, Age, vars, rowVars
  <1> QED BY <1>1, <1>2, <1>3, <1>4, <1>5, <1>6, <1>7 DEF Next

\* The processes of file-run.service.ts, with their locks, crashes, lost
\* connections and late workers, implement the queue of RunQueue.
THEOREM QueueImplemented == Spec => ImplementsQueue
  <1>1. IndInv /\ [Next]_vars => [Queue!Next]_Queue!vars BY NextQueue
  <1>2. Init => Queue!Init BY InitQueue
  <1>3. Spec => []IndInv BY Invariant
  <1> QED BY <1>1, <1>2, <1>3, PTL DEF Spec, ImplementsQueue, Queue!Spec

-----------------------------------------------------------------------------
(* What follows from the queue for the rows of this module                  *)

\* A step that adds no active run keeps the queue within its limit.
LEMMA FewerActive ==
  ASSUME AdmissionBounded, ActiveRuns' \subseteq ActiveRuns,
         \A r \in ActiveRuns' : job'[r].key = job[r].key
  PROVE  AdmissionBounded'
  <1>1. Cardinality(ActiveRuns') <= Cardinality(ActiveRuns) /\ IsFiniteSet(ActiveRuns')
    BY ActiveFinite, FS_Subset
  <1>2. Cardinality(ActiveRuns') \in Nat BY <1>1, FS_CardinalityType
  <1>3. Cardinality(ActiveRuns') <= QueueLimit
    BY <1>1, <1>2, ActiveFinite, ConstantsAssumption DEF AdmissionBounded
  <1>4. \A r, s \in ActiveRuns' : job'[r].key = job'[s].key => r = s
    BY DEF AdmissionBounded
  <1> QED BY <1>3, <1>4 DEF AdmissionBounded

\* An admission of the queue leaves it within its limit.
LEMMA AdmitKeepsLimit ==
  ASSUME AdmissionBounded, RowTypes, NEW r \in RunIds, NEW k \in Keys, Queue!Admit(r, k)
  PROVE  AdmissionBounded'
  <1> DEFINE keys == [t \in RunIds |-> job[t].key]
  <1>1. status' = [status EXCEPT ![r] = "queued"] /\ keys' = [keys EXCEPT ![r] = k]
    BY DEF Queue!Admit
  <1>2. ActiveRuns = Queue!Live BY DEF ActiveRuns, Queue!Live, Active
  <1>3. ActiveRuns' = ActiveRuns \cup {r} BY <1>1 DEF ActiveRuns, Active, RowTypes
  <1>4. Cardinality(ActiveRuns) < QueueLimit BY <1>2, SameCount DEF Queue!Admit
  <1>5. Cardinality(ActiveRuns') <= Cardinality(ActiveRuns) + 1 /\ IsFiniteSet(ActiveRuns')
    BY <1>3, ActiveFinite, FS_AddElement
  <1>6. Cardinality(ActiveRuns') \in Nat BY <1>5, FS_CardinalityType
  <1>7. Cardinality(ActiveRuns') <= QueueLimit
    BY <1>4, <1>5, <1>6, ActiveFinite, ConstantsAssumption
  <1>8. \A s \in ActiveRuns : keys[s] # k BY <1>2 DEF Queue!Admit
  <1>9. \A s \in RunIds : keys'[s] = IF s = r THEN k ELSE keys[s] BY <1>1
  <1>10. \A s \in RunIds : keys[s] = job[s].key /\ keys'[s] = job'[s].key OBVIOUS
  <1>11. \A s, t \in ActiveRuns' : job'[s].key = job'[t].key => s = t
    <2> SUFFICES ASSUME NEW s \in ActiveRuns', NEW t \in ActiveRuns',
                        job'[s].key = job'[t].key
                 PROVE  s = t
      OBVIOUS
    <2> HIDE DEF keys
    <2>1. s \in RunIds /\ t \in RunIds BY DEF ActiveRuns
    <2>2. keys'[s] = keys'[t] BY <1>10, <2>1
    <2>3. s # r => s \in ActiveRuns BY <1>3
    <2>4. t # r => t \in ActiveRuns BY <1>3
    <2>5. CASE s # r /\ t # r BY <1>9, <1>10, <2>1, <2>2, <2>3, <2>4, <2>5 DEF AdmissionBounded
    <2>6. CASE s = r \/ t = r BY <1>8, <1>9, <2>1, <2>2, <2>3, <2>4, <2>6
    <2> QED BY <2>5, <2>6
  <1> QED BY <1>7, <1>11 DEF AdmissionBounded

\* Any step of the queue, or one its users do not see, keeps it within its limit.
LEMMA QueueKeepsLimit ==
  ASSUME AdmissionBounded, RowTypes, [Queue!Next]_Queue!vars
  PROVE  AdmissionBounded'
  <1> DEFINE keys == [t \in RunIds |-> job[t].key]
  <1>1. ASSUME keys' = keys, ActiveRuns' \subseteq ActiveRuns PROVE AdmissionBounded'
    <2>1. \A r \in RunIds : keys'[r] = keys[r] BY <1>1
    <2>2. \A r \in RunIds : job'[r].key = job[r].key BY <2>1
    <2>3. ActiveRuns' \subseteq RunIds BY DEF ActiveRuns
    <2> QED BY <1>1, <2>2, <2>3, FewerActive
  <1>2. CASE UNCHANGED Queue!vars
    BY <1>1, <1>2 DEF Queue!vars, ActiveRuns
  <1>3. ASSUME NEW r \in RunIds, Queue!Start(r) \/ Queue!GiveUp(r) PROVE AdmissionBounded'
    BY <1>1, <1>3 DEF Queue!Start, Queue!Waiting, Queue!GiveUp, ActiveRuns, Active, RowTypes
  <1>4. ASSUME NEW r \in RunIds, NEW how \in {"succeeded", "failed"}, Queue!Complete(r, how)
        PROVE  AdmissionBounded'
    BY <1>1, <1>4 DEF Queue!Complete, ActiveRuns, Active, RowTypes
  <1>5. ASSUME NEW S \in SUBSET RunIds, Queue!Interrupt(S) \/ Queue!Forget(S)
        PROVE  AdmissionBounded'
    BY <1>1, <1>5 DEF Queue!Interrupt, Queue!Forget, ActiveRuns, Active, RowTypes
  <1> HIDE DEF keys
  <1> QED BY <1>2, <1>3, <1>4, <1>5, AdmitKeepsLimit DEF Queue!Next, Keys

\* The limits of reserve() hold in every state: one active run per target, and
\* never more than QueueLimit of them.
THEOREM AdmissionSafe == Spec => []AdmissionBounded
  <1>1. Init => AdmissionBounded
    <2> SUFFICES ASSUME Init PROVE AdmissionBounded OBVIOUS
    <2>1. ActiveRuns = {} BY DEF Init, ActiveRuns, Active
    <2> QED BY <2>1, FS_EmptySet, ConstantsAssumption DEF AdmissionBounded
  <1>2. IndInv /\ AdmissionBounded /\ [Next]_vars => AdmissionBounded'
    BY NextQueue, QueueKeepsLimit DEF IndInv, TypeOK
  <1>3. Spec => []IndInv BY Invariant
  <1> QED BY <1>1, <1>2, <1>3, PTL DEF Spec

\* Only the commit of a worker stores a result, and only for a running run.
LEMMA ResultsOfRunning ==
  ASSUME IndInv, [Next]_vars, NEW r \in RunIds, status[r] # "running"
  PROVE  result'[r] = result[r]
  <1>1. ASSUME NEW a \in Apis, Write(a) PROVE result'[r] = result[r]
    BY <1>1 DEF Write, StillRunning, IndInv, TypeOK, RowTypes
  <1>2. ASSUME NEW c \in Clients, NEW a \in Apis, NewRequest(c, a) PROVE UNCHANGED result
    BY <1>2 DEF NewRequest, Register, Replace, Derive, Retry, RetryRecovered, Begin,
                ManageLock, Stop, rowVars
  <1>3. ASSUME NEW c \in Clients, ClientStep(c) PROVE UNCHANGED result
    BY <1>3 DEF ClientStep, Enter, Recheck, Stage, Reserve, Settle, StopAbort,
                ManageCommit, rowVars
  <1>4. ASSUME NEW a \in Apis, WorkerStep(a), ~Write(a) PROVE UNCHANGED result
    BY <1>4 DEF WorkerStep, Peek, FileLockBusy, Claim, Activate, Check, Extract, Commit,
                Fail, Finish, Clean, Discard, Sweep, Drop, rowVars
  <1>5. ASSUME NEW a \in Apis, LifeStep(a) PROVE UNCHANGED result
    BY <1>5 DEF LifeStep, BootInterrupt, BootClean, BootFail, HaltCurrent, HaltQueued,
                rowVars
  <1>6. ASSUME NEW a \in Apis,
               \/ TakeFileLock(a) \/ StartCleanup(a) \/ Monitor(a) \/ BootOwn(a)
               \/ Halt(a) \/ Crash(a) \/ LoseLock(a)
        PROVE  UNCHANGED result
    BY <1>6 DEF TakeFileLock, StartCleanup, Monitor, BootOwn, Halt, Crash, LoseLock, rowVars
  <1>7. Revoke \/ Age \/ UNCHANGED vars => UNCHANGED result
    BY DEF Revoke, Age, vars, rowVars
  <1> QED BY <1>1, <1>2, <1>3, <1>4, <1>5, <1>6, <1>7 DEF Next

\* A run that ended is not changed by any later step, however late a worker, a
\* stop or a restart comes.
THEOREM EndedFrozen == Spec => EndedRunsFrozen
  <1> DEFINE Kept == \A r \in RunIds : status[r] \in Final =>
                       status'[r] \in {status[r], "gone"} /\ result'[r] = result[r]
  <1>1. IndInv /\ [Next]_vars => [Kept]_vars
    <2> SUFFICES ASSUME IndInv, [Next]_vars, NEW r \in RunIds, status[r] \in Final
                 PROVE  status'[r] \in {status[r], "gone"} /\ result'[r] = result[r]
      OBVIOUS
    <2>1. result'[r] = result[r] BY ResultsOfRunning DEF Final
    <2>2. [Queue!Next]_Queue!vars BY NextQueue
    <2>3. UNCHANGED Queue!vars => status'[r] \in {status[r], "gone"} BY DEF Queue!vars
    <2>4. Queue!Next => status'[r] \in {status[r], "gone"}
      BY DEF Queue!Next, Queue!Admit, Queue!Start, Queue!GiveUp, Queue!Complete,
                  Queue!Interrupt, Queue!Forget, Queue!Live, Queue!Waiting, IndInv, TypeOK,
                  RowTypes, Final
    <2>5. status'[r] \in {status[r], "gone"} BY <2>2, <2>3, <2>4
    <2> QED BY <2>1, <2>5
  <1>2. Spec => []IndInv BY Invariant
  <1> QED BY <1>1, <1>2, PTL DEF Spec, EndedRunsFrozen

-----------------------------------------------------------------------------
(* Versions                                                                 *)

USE DEF Active, Final, NoRun, NoKey, Operations, RunIds, Work, Spend,
        rowVars, sourceVars, lockVars, apiVars, workVars, cleanVars, clientVars, envVars

Stores(a) == wpc[a] = "write"

\* A run with a result has completed; the uploads of an original have its versions,
\* each one of them and none twice; and while a completion is under way, nothing
\* else changes the version that it found.
VersionsSound ==
  /\ \A r \in RunIds : result[r] # 0 => status[r] \in {"succeeded", "failed", "gone"}
  /\ \A r \in Uploads : result[r] # 0 => result[r] <= latest[OriginalOf(r)]
  /\ \A r, s \in Uploads :
       result[r] # 0 /\ result[r] = result[s] /\ OriginalOf(r) = OriginalOf(s) => r = s
  /\ \A o \in RunIds : \A v \in 1 .. latest[o] :
       \E r \in Uploads : OriginalOf(r) = o /\ result[r] = v
  /\ \A a \in Apis : Executing(a) \/ wpc[a] = "activate" => status[wrun[a]] # "absent"
  /\ \A a, b \in Apis : Stores(a) /\ Stores(b) => a = b
  /\ \A a \in Apis : Stores(a) =>
       LET j == job[wrun[a]] IN j.target # NoRun => latest[j.target] = j.base

\* Only an admission writes a job, that of a row which did not exist; only a
\* completion writes a version.
LEMMA JobsWritten ==
  ASSUME IndInv, [Next]_vars, NEW r \in RunIds, status[r] # "absent"
  PROVE  job'[r] = job[r]
  <1>1. ASSUME NEW c \in Clients, Reserve(c) PROVE job'[r] = job[r]
    BY <1>1 DEF Reserve, ReserveCreate, ReserveBind, ReserveRefuse, NextRun, IndInv, TypeOK, RowTypes
  <1>2. ASSUME NEW c \in Clients, NEW a \in Apis, NewRequest(c, a) PROVE UNCHANGED job
    BY <1>2 DEF NewRequest, Register, Replace, Derive, Retry, RetryRecovered, Begin,
                ManageLock, Stop
  <1>3. ASSUME NEW c \in Clients, ClientStep(c), ~Reserve(c) PROVE UNCHANGED job
    BY <1>3 DEF ClientStep, Enter, Recheck, Stage, Settle, StopAbort, ManageCommit
  <1>4. ASSUME NEW a \in Apis, WorkerStep(a) PROVE UNCHANGED job
    BY <1>4 DEF WorkerStep, Peek, FileLockBusy, Claim, Activate, Check, Extract, Commit,
                Write, Fail, Finish, Clean, Discard, Sweep, Drop
  <1>5. ASSUME NEW a \in Apis, LifeStep(a) PROVE UNCHANGED job
    BY <1>5 DEF LifeStep, BootInterrupt, BootClean, BootFail, HaltCurrent, HaltQueued
  <1>6. ASSUME NEW a \in Apis,
               \/ TakeFileLock(a) \/ StartCleanup(a) \/ Monitor(a) \/ BootOwn(a)
               \/ Halt(a) \/ Crash(a) \/ LoseLock(a)
        PROVE  UNCHANGED job
    BY <1>6 DEF TakeFileLock, StartCleanup, Monitor, BootOwn, Halt, Crash, LoseLock
  <1>7. Revoke \/ Age \/ UNCHANGED vars => UNCHANGED job
    BY DEF Revoke, Age, vars
  <1> QED BY <1>1, <1>2, <1>3, <1>4, <1>5, <1>6, <1>7 DEF Next

LEMMA VersionsWritten ==
  ASSUME [Next]_vars
  PROVE  UNCHANGED <<latest, result>> \/ \E a \in Apis : Write(a)
  <1>2. ASSUME NEW c \in Clients, NEW a \in Apis, NewRequest(c, a) PROVE UNCHANGED <<latest, result>>
    BY <1>2 DEF NewRequest, Register, Replace, Derive, Retry, RetryRecovered, Begin,
                ManageLock, Stop
  <1>3. ASSUME NEW c \in Clients, ClientStep(c) PROVE UNCHANGED <<latest, result>>
    BY <1>3 DEF ClientStep, Enter, Recheck, Stage, Reserve, Settle, StopAbort, ManageCommit
  <1>4. ASSUME NEW a \in Apis, WorkerStep(a), ~Write(a) PROVE UNCHANGED <<latest, result>>
    BY <1>4 DEF WorkerStep, Peek, FileLockBusy, Claim, Activate, Check, Extract, Commit,
                Fail, Finish, Clean, Discard, Sweep, Drop
  <1>5. ASSUME NEW a \in Apis, LifeStep(a) PROVE UNCHANGED <<latest, result>>
    BY <1>5 DEF LifeStep, BootInterrupt, BootClean, BootFail, HaltCurrent, HaltQueued
  <1>6. ASSUME NEW a \in Apis,
               \/ TakeFileLock(a) \/ StartCleanup(a) \/ Monitor(a) \/ BootOwn(a)
               \/ Halt(a) \/ Crash(a) \/ LoseLock(a)
        PROVE  UNCHANGED <<latest, result>>
    BY <1>6 DEF TakeFileLock, StartCleanup, Monitor, BootOwn, Halt, Crash, LoseLock
  <1>7. Revoke \/ Age \/ UNCHANGED vars => UNCHANGED <<latest, result>>
    BY DEF Revoke, Age, vars
  <1> QED BY <1>2, <1>3, <1>4, <1>5, <1>6, <1>7 DEF Next

\* How a row's status goes: it is created, claimed, ended and forgotten, in that
\* order, and what a completion stored stays.
LEMMA StatusGoes ==
  ASSUME IndInv, [Next]_vars, NEW r \in RunIds
  PROVE  /\ status[r] # "absent" => status'[r] # "absent"
         /\ status[r] \in {"succeeded", "failed", "gone"} =>
              status'[r] \in {"succeeded", "failed", "gone"}
  <1>1. [Queue!Next]_Queue!vars BY NextQueue
  <1>2. status[r] \in {"absent", "gone"} \cup Active \cup Final BY DEF IndInv, TypeOK, RowTypes
  <1>3. UNCHANGED Queue!vars => status'[r] = status[r] BY DEF Queue!vars
  <1>4. ASSUME Queue!Next
        PROVE  /\ status[r] # "absent" => status'[r] # "absent"
               /\ status[r] \in {"succeeded", "failed", "gone"} =>
                    status'[r] \in {"succeeded", "failed", "gone"}
    BY <1>4, <1>2
       DEF Queue!Next, Queue!Admit, Queue!Start, Queue!GiveUp, Queue!Complete,
           Queue!Interrupt, Queue!Forget, Queue!Live, Queue!Ended, Queue!Waiting, IndInv, TypeOK,
           RowTypes, Final, Active
  <1> QED BY <1>1, <1>3, <1>4

\* Requests, the environment and parts of the life cycle leave the workers alone;
\* a step of one process leaves the worker of another one alone.
LEMMA WorkUntouched ==
  ASSUME [Next]_vars
  PROVE  \/ UNCHANGED <<wpc, wrun>>
         \/ \E a \in Apis : \/ WorkerStep(a) \/ TakeFileLock(a) \/ StartCleanup(a) \/ Crash(a)
                            \/ BootInterrupt(a) \/ BootClean(a) \/ BootFail(a)
  <1>1. ASSUME NEW c \in Clients, NEW a \in Apis, NewRequest(c, a) PROVE UNCHANGED <<wpc, wrun>>
    BY <1>1 DEF NewRequest, Register, Replace, Derive, Retry, RetryRecovered, Begin,
                ManageLock, Stop
  <1>2. ASSUME NEW c \in Clients, ClientStep(c) PROVE UNCHANGED <<wpc, wrun>>
    BY <1>2 DEF ClientStep, Enter, Recheck, Stage, Reserve, Settle, StopAbort, ManageCommit
  <1>3. ASSUME NEW a \in Apis,
               \/ Monitor(a) \/ BootOwn(a) \/ HaltCurrent(a) \/ HaltQueued(a)
               \/ Halt(a) \/ LoseLock(a)
        PROVE  UNCHANGED <<wpc, wrun>>
    BY <1>3 DEF Monitor, BootOwn, HaltCurrent, HaltQueued, Halt, LoseLock
  <1>4. Revoke \/ Age \/ UNCHANGED vars => UNCHANGED <<wpc, wrun>>
    BY DEF Revoke, Age, vars
  <1> QED BY <1>1, <1>2, <1>3, <1>4 DEF Next, LifeStep

LEMMA OthersWork ==
  ASSUME IndInv, NEW a \in Apis, NEW b \in Apis, a # b,
         \/ WorkerStep(b) \/ TakeFileLock(b) \/ StartCleanup(b) \/ Crash(b)
         \/ BootInterrupt(b) \/ BootClean(b) \/ BootFail(b)
  PROVE  wpc'[a] = wpc[a] /\ wrun'[a] = wrun[a]
  <1>0. WorkTypes BY DEF IndInv, TypeOK
  <1>1. CASE Peek(b) \/ FileLockBusy(b) \/ Claim(b) \/ Activate(b) \/ Check(b)
    BY <1>0, <1>1 DEF Peek, FileLockBusy, Claim, Activate, Check, WorkTypes
  <1>2. CASE Extract(b) \/ Commit(b) \/ Write(b) \/ Fail(b) \/ Finish(b)
    BY <1>0, <1>2 DEF Extract, Commit, Write, Fail, Finish, WorkTypes
  <1>3. CASE Clean(b) \/ Discard(b) \/ Sweep(b) \/ Drop(b)
    BY <1>0, <1>3 DEF Clean, Discard, Sweep, Drop, WorkTypes
  <1>4. CASE \/ TakeFileLock(b) \/ StartCleanup(b) \/ Crash(b)
             \/ BootInterrupt(b) \/ BootClean(b) \/ BootFail(b)
    BY <1>0, <1>4 DEF TakeFileLock, StartCleanup, Crash, BootInterrupt, BootClean, BootFail, WorkTypes
  <1> QED BY <1>1, <1>2, <1>3, <1>4 DEF WorkerStep

\* How a process comes to execute a run, or to the end of a completion.
LEMMA WorkGoes ==
  ASSUME IndInv, [Next]_vars, NEW a \in Apis
  PROVE  /\ Executing(a)' \/ wpc'[a] = "activate" =>
              \/ (Executing(a) \/ wpc[a] = "activate") /\ wrun'[a] = wrun[a]
              \/ wpc'[a] = "activate" /\ status'[wrun'[a]] = "running"
         /\ Stores(a)' => wrun'[a] = wrun[a] /\ (Stores(a) \/ Commit(a))
  <1> USE DEF Executing, Stores
  <1>0. WorkTypes /\ RowTypes BY DEF IndInv, TypeOK
  <1>1. CASE UNCHANGED <<wpc, wrun>>
    BY <1>1
  <1>2. ASSUME NEW b \in Apis, b # a,
               \/ WorkerStep(b) \/ TakeFileLock(b) \/ StartCleanup(b) \/ Crash(b)
               \/ BootInterrupt(b) \/ BootClean(b) \/ BootFail(b)
        PROVE  wpc'[a] = wpc[a] /\ wrun'[a] = wrun[a]
    BY <1>2, OthersWork
  <1>3. CASE Peek(a) \/ FileLockBusy(a) \/ Activate(a) \/ Check(a)
    BY <1>0, <1>3 DEF Peek, FileLockBusy, Activate, Check, WorkTypes
  <1>4. CASE Claim(a)
    <2>1. CASE wpc'[a] = "activate"
      <3>1. wpc[a] = "claim" /\ wpc'[a] # "idle" BY <1>4, <2>1 DEF Claim
      <3>2. PICK r \in RunIds : /\ status' = [status EXCEPT ![r] = "running"]
                               /\ wrun' = [wrun EXCEPT ![a] = r]
        <4>1. ~(closing[a] \/ {r \in RunIds : status[r] = "queued"} = {}
                \/ \E r \in RunIds : status[r] = "running")
          BY <1>0, <1>4, <3>1 DEF Claim, WorkTypes
        <4> QED BY <1>4, <4>1 DEF Claim
      <3>3. wrun'[a] = r /\ status'[r] = "running" BY <1>0, <3>2 DEF WorkTypes, RowTypes
      <3> QED BY <2>1, <3>3
    <2>2. CASE wpc'[a] # "activate"
      BY <1>0, <1>4, <2>2 DEF Claim, WorkTypes
    <2> QED BY <2>1, <2>2
  <1>5. CASE Extract(a) \/ Commit(a) \/ Write(a) \/ Fail(a) \/ Finish(a)
    BY <1>0, <1>5 DEF Extract, Commit, Write, Fail, Finish, WorkTypes
  <1>6. CASE Clean(a) \/ Discard(a) \/ Sweep(a) \/ Drop(a)
    BY <1>0, <1>6 DEF Clean, Discard, Sweep, Drop, WorkTypes
  <1>7. CASE \/ TakeFileLock(a) \/ StartCleanup(a) \/ Crash(a)
             \/ BootInterrupt(a) \/ BootClean(a) \/ BootFail(a)
    BY <1>0, <1>7 DEF TakeFileLock, StartCleanup, Crash, BootInterrupt, BootClean, BootFail, WorkTypes
  <1> QED BY <1>1, <1>2, <1>3, <1>4, <1>5, <1>6, <1>7, WorkUntouched DEF WorkerStep

\* What an upload's row says about its original.
LEMMA UploadsProper ==
  ASSUME IndInv, NEW r \in Uploads
  PROVE  r \in RunIds /\ OriginalOf(r) \in RunIds
  BY DEF IndInv, JobsSound, ProperJob, Uploads, OriginalOf, TypeOK, RowTypes, Jobs

\* A step that completes nothing.
LEMMA OtherVersions ==
  ASSUME IndInv, IndInv', VersionsSound, [Next]_vars, UNCHANGED <<latest, result>>
  PROVE  VersionsSound'
  <1>0. /\ RowTypes /\ RowTypes' /\ WorkTypes /\ JobsSound /\ WorkSound
        /\ \A r \in RunIds : status[r] = "absent" => result[r] = 0
    BY DEF IndInv, TypeOK, VersionsSound
  <1>1. \A r \in RunIds : status[r] # "absent" => job'[r] = job[r] /\ status'[r] # "absent"
    BY JobsWritten, StatusGoes
  <1>2. \A r \in RunIds : result'[r] # 0 => status'[r] \in {"succeeded", "failed", "gone"}
    BY StatusGoes DEF VersionsSound
  <1>3. \A r \in RunIds : result[r] # 0 => (r \in Uploads' <=> r \in Uploads) /\ OriginalOf(r)' = OriginalOf(r)
    BY <1>0, <1>1 DEF Uploads, OriginalOf
  <1>4. Uploads \subseteq RunIds /\ Uploads' \subseteq RunIds
    BY DEF Uploads
  <1>5. \A r \in Uploads' : result'[r] # 0 => result'[r] <= latest'[OriginalOf(r)']
    BY <1>3, <1>4 DEF VersionsSound
  <1>6. \A r, s \in Uploads' :
          result'[r] # 0 /\ result'[r] = result'[s] /\ OriginalOf(r)' = OriginalOf(s)' => r = s
    BY <1>3, <1>4 DEF VersionsSound
  <1>7. ASSUME NEW o \in RunIds, NEW v \in 1 .. latest'[o]
        PROVE  \E r \in Uploads' : OriginalOf(r)' = o /\ result'[r] = v
    <2>1. PICK r \in Uploads : OriginalOf(r) = o /\ result[r] = v
      BY <1>7 DEF VersionsSound
    <2>2. latest'[o] \in Nat
      BY DEF IndInv, TypeOK, SourceTypes
    <2>3. result[r] # 0
      BY <1>7, <2>1, <2>2
    <2> QED BY <1>3, <1>4, <2>1, <2>3
  <1>8. \A a \in Apis : Executing(a)' \/ wpc'[a] = "activate" => status'[wrun'[a]] # "absent"
    <2> SUFFICES ASSUME NEW a \in Apis, Executing(a)' \/ wpc'[a] = "activate"
                 PROVE  status'[wrun'[a]] # "absent"
      OBVIOUS
    <2>1. CASE (Executing(a) \/ wpc[a] = "activate") /\ wrun'[a] = wrun[a]
      BY <1>0, <1>1, <2>1 DEF VersionsSound, WorkSound
    <2>2. CASE status'[wrun'[a]] = "running"
      BY <2>2
    <2> QED BY <2>1, <2>2, WorkGoes
  <1>9. \A a, b \in Apis : Stores(a)' /\ Stores(b)' => a = b
    <2> SUFFICES ASSUME NEW a \in Apis, NEW b \in Apis, Stores(a)', Stores(b)', a # b PROVE FALSE
      OBVIOUS
    <2>1. ~(Stores(a) /\ Stores(b))
      BY DEF VersionsSound
    <2>2. ASSUME NEW d \in Apis, NEW e \in Apis, d # e, Commit(d), Stores(e)' PROVE FALSE
      <3>1. ~TxHeld /\ ~Commit(e) /\ wpc'[e] = wpc[e]
        BY <1>0, <2>2 DEF Commit, WorkTypes
      <3> QED BY <2>2, <3>1 DEF TxHeld, Stores
    <2> QED BY <2>1, <2>2, WorkGoes
  <1>10. ASSUME NEW a \in Apis, Stores(a)', job'[wrun'[a]].target # NoRun
         PROVE  latest'[job'[wrun'[a]].target] = job'[wrun'[a]].base
    <2>1. wrun'[a] = wrun[a] /\ (Stores(a) \/ Commit(a))
      BY <1>10, WorkGoes
    <2>2. wrun[a] \in RunIds /\ status[wrun[a]] # "absent"
      BY <2>1 DEF IndInv, WorkSound, VersionsSound, Executing, Stores, Commit
    <2>3. job'[wrun'[a]] = job[wrun[a]]
      BY <1>1, <2>1, <2>2
    <2>4. CASE Stores(a)
      BY <1>10, <2>3, <2>4 DEF VersionsSound
    <2>5. CASE Commit(a)
      <3>1. Untouched(wrun[a])
        BY <1>0, <1>10, <2>5 DEF Commit, Stores, WorkTypes
      <3> QED BY <1>10, <2>3, <3>1 DEF Untouched
    <2> QED BY <2>1, <2>4, <2>5
  <1> QED BY <1>2, <1>5, <1>6, <1>7, <1>8, <1>9, <1>10 DEF VersionsSound

\* A completion adds the one version it is the result of.
LEMMA WriteVersions ==
  ASSUME IndInv, IndInv', VersionsSound, NEW a \in Apis, Write(a)
  PROVE  VersionsSound'
  <1>0. /\ RowTypes /\ SourceTypes /\ WorkTypes /\ WorkTypes' /\ JobsSound /\ WorkSound
        /\ UNCHANGED <<job, wrun>> /\ wpc[a] = "write" /\ wrun[a] \in RunIds
    BY DEF IndInv, TypeOK, Write, WorkSound, Executing
  <1>1. \A b \in Apis : b # a => wpc'[b] = wpc[b]
    BY <1>0 DEF Write, WorkTypes
  <1>2. wpc'[a] \in {"finish", "fail"}
    BY <1>0 DEF Write, WorkTypes
  <1>3. \A b \in Apis : b # a => ~Stores(b)
    BY <1>0 DEF VersionsSound, Stores
  <1>4. [Next]_vars
    BY DEF Next, WorkerStep
  <1>5. CASE ~StillRunning(wrun[a])
    BY <1>4, <1>5, OtherVersions DEF Write
  <1>6. CASE StillRunning(wrun[a])
    <2>1. PICK r \in RunIds : r = wrun[a] BY <1>0
    <2>2. PICK how \in {"succeeded", "failed"} : status' = EndRun({r}, how)
      BY <1>6, <2>1 DEF Write
    <2>3. PICK v : v = ResultVersion(r) OBVIOUS
    <2>4. PICK o : o = OriginalOf(r) OBVIOUS
    <2>5. result' = [result EXCEPT ![r] = v] /\ latest' = [latest EXCEPT ![o] = v]
      BY <1>6, <2>1, <2>3, <2>4 DEF Write
    <2>6. status[r] = "running" /\ result[r] = 0
      BY <1>6, <2>1 DEF StillRunning, VersionsSound
    <2>7. job[r].op \in Operations /\ ProperJob(job[r]) /\ job[r] \in Jobs
      BY <1>0, <2>6 DEF JobsSound, RowTypes
    <2>8. o \in RunIds
      BY <2>1, <2>4, <2>7 DEF OriginalOf, ProperJob
    <2>9. \A s \in RunIds : status'[s] = IF s = r THEN how ELSE status[s]
      BY <2>2 DEF EndRun
    <2>10. \A s \in RunIds : result'[s] = IF s = r THEN v ELSE result[s]
      BY <1>0, <2>5 DEF RowTypes
    <2>11. \A p \in RunIds : latest'[p] = IF p = o THEN v ELSE latest[p]
      BY <1>0, <2>5 DEF SourceTypes
    <2>12. Uploads' = Uploads /\ Uploads \subseteq RunIds
      BY <1>0 DEF Uploads
    <2>13. \A s \in RunIds : OriginalOf(s)' = OriginalOf(s)
      BY <1>0 DEF OriginalOf
    <2>14. /\ \A b \in Apis : Executing(b)' \/ wpc'[b] = "activate" =>
                               Executing(b) \/ wpc[b] = "activate"
           /\ \A b \in Apis : ~Stores(b)'
      BY <1>0, <1>1, <1>2, <1>3 DEF Executing, Stores
    <2>15. \A b \in Apis : Executing(b) \/ wpc[b] = "activate" => wrun[b] \in RunIds
      BY <1>0 DEF WorkSound
    <2>16. (r \in Uploads /\ v = latest[o] + 1) \/ (r \notin Uploads /\ v = latest[o])
      <3>1. CASE job[r].op \in {"register", "replace"}
        BY <2>3, <2>4, <3>1 DEF ResultVersion, Uploads
      <3>2. CASE job[r].op \notin {"register", "replace"}
        <4>1. o = job[r].target /\ v = job[r].base /\ o # NoRun
          BY <2>3, <2>4, <2>8, <3>2 DEF ResultVersion, OriginalOf
        <4>2. latest[o] = job[r].base
          BY <1>0, <2>1, <4>1 DEF VersionsSound, Stores
        <4> QED BY <3>2, <4>1, <4>2 DEF Uploads
      <3> QED BY <3>1, <3>2
    <2>17. v \in Nat /\ latest[o] \in Nat /\ \A s \in RunIds : result[s] \in Nat
      BY <1>0, <2>8, <2>16 DEF SourceTypes, RowTypes
    <2>18. \A s \in RunIds : result'[s] # 0 => status'[s] \in {"succeeded", "failed", "gone"}
      BY <2>9, <2>10 DEF VersionsSound
    <2>19. \A s \in Uploads : OriginalOf(s) \in RunIds
      BY UploadsProper
    <2>20. \A s \in Uploads : result'[s] # 0 => result'[s] <= latest'[OriginalOf(s)]
      <3> SUFFICES ASSUME NEW s \in Uploads, result'[s] # 0
                   PROVE  result'[s] <= latest'[OriginalOf(s)]
        OBVIOUS
      <3>1. CASE s = r
        BY <2>4, <2>10, <2>11, <2>8, <2>17, <3>1
      <3>2. CASE s # r
        <4>1. PICK p \in RunIds : p = OriginalOf(s) BY <2>19
        <4>2. result'[s] = result[s] /\ result[s] <= latest[p] /\ latest[p] \in Nat
          BY <1>0, <2>10, <2>12, <3>2, <4>1 DEF VersionsSound, SourceTypes
        <4> QED BY <2>11, <2>12, <2>16, <2>17, <4>1, <4>2
      <3> QED BY <3>1, <3>2
    <2>21. \A s, t \in Uploads :
             result'[s] # 0 /\ result'[s] = result'[t] /\ OriginalOf(s) = OriginalOf(t) => s = t
      <3>1. ASSUME NEW s \in Uploads, s # r, r \in Uploads, OriginalOf(s) = o, result[s] = v
            PROVE  FALSE
        <4>1. v = latest[o] + 1 BY <2>16, <3>1
        <4>2. v # 0 BY <2>17, <4>1
        <4>3. result[s] <= latest[o]
          <5>1. result[s] <= latest[OriginalOf(s)] BY <3>1, <4>2 DEF VersionsSound
          <5> QED BY <3>1, <5>1
        <4> QED BY <2>17, <3>1, <4>1, <4>3
      <3>2. ASSUME NEW s \in Uploads, NEW t \in Uploads, s # r, t # r, result[s] # 0,
                   result[s] = result[t], OriginalOf(s) = OriginalOf(t)
            PROVE  s = t
        BY <3>2 DEF VersionsSound
      <3> QED BY <2>4, <2>10, <2>12, <3>1, <3>2
    <2>22. ASSUME NEW p \in RunIds, NEW w \in 1 .. latest'[p]
           PROVE  \E s \in Uploads : OriginalOf(s) = p /\ result'[s] = w
      <3>1. CASE w \in 1 .. latest[p]
        <4>1. PICK s \in Uploads : OriginalOf(s) = p /\ result[s] = w
          BY <3>1 DEF VersionsSound
        <4>2. w # 0 /\ s # r
          BY <1>0, <2>6, <3>1, <4>1 DEF SourceTypes
        <4> QED BY <2>10, <2>12, <4>1, <4>2
      <3>2. CASE w \notin 1 .. latest[p]
        <4>1. p = o /\ w = v /\ r \in Uploads
          BY <2>11, <2>16, <2>17, <2>22, <3>2
        <4> QED BY <2>4, <2>10, <4>1
      <3> QED BY <3>1, <3>2
    <2>23. \A b \in Apis : Executing(b)' \/ wpc'[b] = "activate" => status'[wrun'[b]] # "absent"
      <3> SUFFICES ASSUME NEW b \in Apis, Executing(b)' \/ wpc'[b] = "activate"
                   PROVE  status'[wrun'[b]] # "absent"
        OBVIOUS
      <3>1. Executing(b) \/ wpc[b] = "activate" BY <2>14
      <3>2. wrun[b] \in RunIds /\ status[wrun[b]] # "absent" /\ wrun'[b] = wrun[b]
        BY <1>0, <2>15, <3>1 DEF VersionsSound
      <3> QED BY <2>9, <3>2
    <2>24. \A s \in Uploads' : result'[s] # 0 => result'[s] <= latest'[OriginalOf(s)']
      BY <2>12, <2>13, <2>20
    <2>25. \A s, t \in Uploads' :
             result'[s] # 0 /\ result'[s] = result'[t] /\ OriginalOf(s)' = OriginalOf(t)' => s = t
      BY <2>12, <2>13, <2>21
    <2>26. \A p \in RunIds : \A w \in 1 .. latest'[p] :
             \E s \in Uploads' : OriginalOf(s)' = p /\ result'[s] = w
      BY <2>12, <2>13, <2>22
    <2> QED BY <2>14, <2>18, <2>23, <2>24, <2>25, <2>26 DEF VersionsSound
  <1> QED BY <1>5, <1>6

LEMMA InitVersions == Init => VersionsSound
  <1> SUFFICES ASSUME Init PROVE VersionsSound OBVIOUS
  <1>1. \A r \in RunIds : result[r] = 0 /\ latest[r] = 0 BY DEF Init
  <1>2. \A a \in Apis : wpc[a] = "idle" BY DEF Init
  <1>3. Uploads \subseteq RunIds BY DEF Uploads
  <1> QED BY <1>1, <1>2, <1>3 DEF VersionsSound, Stores, Executing

LEMMA NextVersions ==
  ASSUME IndInv, IndInv', VersionsSound, [Next]_vars
  PROVE  VersionsSound'
  BY VersionsWritten, OtherVersions, WriteVersions

\* Every stored version is the result of exactly one run, and of one that
\* completed: however a stop, a shutdown or a restart races the worker, a run that
\* was broken off leaves no version behind.
THEOREM VersionsAccountedFor == Spec => []VersionsAccounted
  <1>1. IndInv /\ VersionsSound => VersionsAccounted
    <2> SUFFICES ASSUME IndInv, VersionsSound PROVE VersionsAccounted OBVIOUS
    <2>1. ASSUME NEW o \in RunIds, NEW v \in 1 .. latest[o]
          PROVE  Cardinality({r \in Uploads : OriginalOf(r) = o /\ result[r] = v}) = 1
      <3>1. PICK r \in Uploads : OriginalOf(r) = o /\ result[r] = v BY <2>1 DEF VersionsSound
      <3>2. latest[o] \in Nat BY DEF IndInv, TypeOK, SourceTypes
      <3>3. v # 0 BY <2>1, <3>2
      <3>4. {s \in Uploads : OriginalOf(s) = o /\ result[s] = v} = {r}
        BY <3>1, <3>3 DEF VersionsSound
      <3> QED BY <3>4, FS_Singleton
    <2> QED BY <2>1 DEF VersionsAccounted, VersionsSound
  <1>2. IndInv /\ IndInv' /\ VersionsSound /\ [Next]_vars => VersionsSound'
    BY NextVersions
  <1>3. Spec => []IndInv BY Invariant
  <1> QED BY <1>1, <1>2, <1>3, InitVersions, PTL DEF Spec

-----------------------------------------------------------------------------
(* Shutdown                                                                 *)

Admitting(c) == cpc[c] \in {"recheck", "stage", "reserve", "settle"}

\* Only a process that lives has work under way, and it shuts down with its doors
\* closed.
ProcessesSound ==
  /\ \A a \in Apis : wpc[a] # "idle" => phase[a] \notin {"stopped", "crashed"}
  /\ \A a \in Apis : phase[a] \in {"halting", "draining"} => closing[a]

\* A request under way has a process; an admission, which holds the input lock,
\* keeps that process from stopping.
RequestsServed ==
  /\ \A c \in Clients : cpc[c] # "idle" =>
       /\ creq[c].api \in Apis
       /\ phase[creq[c].api] \notin {"boot", "crashed"}
       /\ phase[creq[c].api] = "stopped" => closing[creq[c].api]
  /\ \A c \in Clients : Admitting(c) => inputLock = c /\ phase[creq[c].api] # "stopped"

\* Somebody will still see to every active run: a waiting run has a process that
\* has not stopped; a running one has its worker, or a process that comes back and
\* has yet to interrupt it, or a failing statement stranded it.
Attended(r) ==
  \E a \in Apis : \/ AtWork(a) /\ wrun[a] = r
                  \/ wout[a] = "unsaved"
                  \/ phase[a] = "crashed"
                  \/ phase[a] = "boot" /\ wpc[a] = "idle"
RunsAttended ==
  /\ \A r \in RunIds : status[r] = "queued" => \E a \in Apis : phase[a] # "stopped"
  /\ \A r \in RunIds : status[r] = "running" => Attended(r)

\* The worker that has a run has met no failing statement since it claimed it.
WorkSaved == \A a \in Apis : AtWork(a) => wout[a] # "unsaved"

ShutdownSound == ProcessesSound /\ RequestsServed /\ RunsAttended /\ WorkSaved

LEMMA InitShutdown == Init => ShutdownSound
  BY DEF Init, ShutdownSound, ProcessesSound, RequestsServed, RunsAttended, WorkSaved, AtWork,
         Admitting

\* A step keeps the processes in order.
LEMMA NextProcesses ==
  ASSUME IndInv, ProcessesSound, [Next]_vars
  PROVE  ProcessesSound'
  <1>0. WorkTypes /\ ApiTypes BY DEF IndInv, TypeOK
  <1> USE DEF ProcessesSound
  <1>1. ASSUME NEW c \in Clients, NEW a \in Apis, NewRequest(c, a)
        PROVE  UNCHANGED <<wpc, phase, closing>>
    BY <1>1 DEF NewRequest, Register, Replace, Derive, Retry, RetryRecovered, Begin,
                ManageLock, Stop
  <1>2. ASSUME NEW c \in Clients, ClientStep(c) PROVE ProcessesSound'
    <2>1. CASE Enter(c) \/ Recheck(c)
      BY <1>0, <2>1 DEF Enter, Recheck, CheckOwnerFails, ApiTypes
    <2>2. CASE Stage(c) \/ Reserve(c) \/ Settle(c) \/ StopAbort(c) \/ ManageCommit(c)
      BY <2>2 DEF Stage, Reserve, Settle, StopAbort, ManageCommit
    <2> QED BY <1>2, <2>1, <2>2 DEF ClientStep
  <1>3. ASSUME NEW a \in Apis, WorkerStep(a) PROVE ProcessesSound'
    <2>1. CASE Peek(a)
      <3>1. CASE CheckOwnerFails(a) /\ UNCHANGED <<wpc, phase>>
        BY <1>0, <3>1 DEF CheckOwnerFails, ApiTypes
      <3>2. CASE Work(a, "lock") /\ UNCHANGED <<closing, phase>>
        BY <1>0, <2>1, <3>2 DEF Peek, Wakes, WorkTypes
      <3> QED BY <2>1, <3>1, <3>2 DEF Peek
    <2>2. CASE FileLockBusy(a) \/ Activate(a) \/ Check(a)
      BY <1>0, <2>2 DEF FileLockBusy, Activate, Check, WorkTypes
    <2>7. CASE Claim(a)
      <3>1. wpc[a] = "claim" /\ UNCHANGED <<phase, closing>> BY <2>7 DEF Claim
      <3>2. \A b \in Apis : b # a => wpc'[b] = wpc[b] BY <1>0, <2>7 DEF Claim, WorkTypes
      <3> QED BY <3>1, <3>2
    <2>3. CASE Commit(a)
      <3>1. wpc[a] = "commit" /\ UNCHANGED phase BY <2>3 DEF Commit, CheckOwnerFails
      <3>2. \A b \in Apis : b # a => wpc'[b] = wpc[b]
        BY <1>0, <2>3 DEF Commit, CheckOwnerFails, WorkTypes
      <3>3. \A b \in Apis : closing[b] => closing'[b]
        BY <1>0, <2>3 DEF Commit, CheckOwnerFails, ApiTypes
      <3> QED BY <3>1, <3>2, <3>3
    <2>4. CASE Extract(a) \/ Write(a) \/ Fail(a) \/ Finish(a)
      BY <1>0, <2>4 DEF Extract, Write, Fail, Finish, WorkTypes
    <2>5. CASE Clean(a) \/ Discard(a) \/ Sweep(a)
      BY <1>0, <2>5 DEF Clean, Discard, Sweep, WorkTypes
    <2>6. CASE Drop(a)
      BY <1>0, <2>6 DEF Drop, WorkTypes, ApiTypes
    <2> QED BY <1>3, <2>1, <2>2, <2>3, <2>4, <2>5, <2>6, <2>7 DEF WorkerStep
  <1>4. ASSUME NEW a \in Apis, LifeStep(a) PROVE ProcessesSound'
    <2>1. CASE BootInterrupt(a) \/ BootClean(a)
      BY <1>0, <2>1 DEF BootInterrupt, BootClean, WorkTypes
    <2>2. CASE BootFail(a)
      BY <1>0, <2>2 DEF BootFail, WorkTypes, ApiTypes
    <2>3. CASE HaltCurrent(a)
      BY <1>0, <2>3 DEF HaltCurrent, ApiTypes
    <2>4. CASE HaltQueued(a)
      BY <1>0, <2>4 DEF HaltQueued, Drained, ApiTypes
    <2> QED BY <1>4, <2>1, <2>2, <2>3, <2>4 DEF LifeStep
  <1>5. ASSUME NEW a \in Apis,
               \/ TakeFileLock(a) \/ StartCleanup(a) \/ Monitor(a) \/ BootOwn(a)
               \/ Halt(a) \/ Crash(a) \/ LoseLock(a)
        PROVE  ProcessesSound'
    <2>1. CASE TakeFileLock(a) \/ StartCleanup(a) \/ Monitor(a) \/ LoseLock(a)
      BY <1>0, <2>1 DEF TakeFileLock, StartCleanup, Wakes, Monitor, LoseLock, WorkTypes
    <2>2. CASE BootOwn(a) \/ Halt(a)
      BY <1>0, <2>2 DEF BootOwn, Halt, ApiTypes
    <2>3. CASE Crash(a)
      BY <1>0, <2>3 DEF Crash, WorkTypes, ApiTypes
    <2> QED BY <1>5, <2>1, <2>2, <2>3
  <1>6. Revoke \/ Age \/ UNCHANGED vars => UNCHANGED <<wpc, phase, closing>>
    BY DEF Revoke, Age, vars
  <1> QED BY <1>1, <1>2, <1>3, <1>4, <1>5, <1>6 DEF Next

\* A step keeps the requests served.
LEMMA NextServed ==
  ASSUME IndInv, ProcessesSound, RequestsServed, [Next]_vars
  PROVE  RequestsServed'
  <1>0. /\ ApiTypes /\ ClientTypes /\ LockTypes /\ NoOne \notin Apis \cup Clients
        /\ Apis \cap Clients = {}
    BY ConstantsAssumption DEF IndInv, TypeOK
  <1> USE DEF RequestsServed, Admitting
  <1>1. ASSUME NEW c \in Clients, NEW a \in Apis, NewRequest(c, a) PROVE RequestsServed'
    <2>0. NoRequest \in Calls /\ \A q \in Calls : [q EXCEPT !.api = a, !.sess = epoch].api = a
      BY NoRequestTypes DEF Calls
    <2>1. ASSUME NEW req \in Calls, Begin(c, a, req), cpc[c] = "idle", Serving(a)
          PROVE  RequestsServed'
      <3>1. PICK q : q = [req EXCEPT !.api = a, !.sess = epoch] OBVIOUS
      <3>2. q.api = a BY <2>0, <2>1, <3>1
      <3>3. cpc' = [cpc EXCEPT ![c] = "enter"] /\ creq' = [creq EXCEPT ![c] = q]
            /\ UNCHANGED <<phase, closing, inputLock>>
        BY <2>1, <3>1 DEF Begin
      <3> QED BY <1>0, <2>1, <3>2, <3>3 DEF Serving, ClientTypes
    <2>2. ASSUME NEW q \in Requests, NEW x \in Contents, Register(c, a, q, x)
          PROVE  RequestsServed'
      BY <2>1, <2>2, RegisterTypes DEF Register, Asks
    <2>3. ASSUME NEW q \in Requests, NEW x \in Contents, NEW o \in RunIds, Replace(c, a, q, o, x)
          PROVE  RequestsServed'
      <3>1. latest[o] \in Nat BY DEF IndInv, TypeOK, SourceTypes
      <3> QED BY <2>1, <2>3, <3>1, ReplaceTypes DEF Replace, Asks
    <2>4. ASSUME NEW q \in Requests, NEW o \in RunIds, NEW op \in Operations, Derive(c, a, q, o, op)
          PROVE  RequestsServed'
      <3>1. latest[o] \in Nat BY DEF IndInv, TypeOK, SourceTypes
      <3> QED BY <2>1, <2>4, <3>1, DeriveTypes DEF Derive, Asks
    <2>5. ASSUME NEW q \in Requests, NEW p \in RunIds, Retry(c, a, q, p)
          PROVE  RequestsServed'
      <3>1. PICK req \in Calls : Begin(c, a, req) BY <2>5, RetryCall
      <3> QED BY <2>1, <2>5, <3>1 DEF Retry
    <2>6. ASSUME NEW q \in Requests, NEW p \in RunIds, RetryRecovered(c, a, q, p)
          PROVE  RequestsServed'
      BY <2>6 DEF RetryRecovered
    <2>7. ASSUME NEW r \in RunIds, Stop(c, a, r) PROVE RequestsServed'
      <3>1. [NoRequest EXCEPT !.api = a, !.run = r].api = a BY <2>0 DEF Calls
      <3> QED BY <1>0, <2>7, <3>1 DEF Stop, Serving, ClientTypes
    <2>8. ASSUME NEW o \in RunIds, NEW op \in {"remove", "scope"}, ManageLock(c, a, o, op)
          PROVE  RequestsServed'
      <3>1. [NoRequest EXCEPT !.api = a, !.sess = epoch, !.op = op, !.target = o].api = a
        BY <2>0 DEF Calls
      <3> QED BY <1>0, <2>8, <3>1 DEF ManageLock, Serving, ClientTypes
    <2> QED BY <1>1, <2>2, <2>3, <2>4, <2>5, <2>6, <2>7, <2>8 DEF NewRequest
  <1>2. ASSUME NEW c \in Clients, ClientStep(c) PROVE RequestsServed'
    <2>1. CASE Enter(c)
      BY <1>0, <2>1 DEF Enter, CheckOwnerFails, Owns, EndRequest, Go, ApiTypes, ClientTypes
    <2>2. CASE Recheck(c)
      BY <1>0, <2>2 DEF Recheck, CheckOwnerFails, Free, EndRequest, Go, ApiTypes, ClientTypes
    <2>3. CASE Stage(c)
      BY <1>0, <2>3 DEF Stage, Go, ClientTypes, Calls
    <2>4. CASE Reserve(c)
      BY <1>0, <2>4 DEF Reserve, ReserveCreate, ReserveBind, ReserveRefuse, Go, ClientTypes, Calls
    <2>5. CASE Settle(c)
      BY <1>0, <2>5 DEF Settle, Free, EndRequest, ClientTypes
    <2>6. CASE StopAbort(c) \/ ManageCommit(c)
      BY <1>0, <2>6 DEF StopAbort, ManageCommit, EndRequest, ClientTypes
    <2> QED BY <1>2, <2>1, <2>2, <2>3, <2>4, <2>5, <2>6 DEF ClientStep
  <1>3. ASSUME NEW a \in Apis, WorkerStep(a) PROVE RequestsServed'
    <2>1. CASE Peek(a) \/ Commit(a)
      BY <1>0, <2>1 DEF Peek, Commit, CheckOwnerFails, ApiTypes
    <2>2. CASE FileLockBusy(a) \/ Claim(a) \/ Activate(a) \/ Check(a)
      BY <2>2 DEF FileLockBusy, Claim, Activate, Check
    <2>3. CASE Extract(a) \/ Write(a) \/ Fail(a)
      BY <2>3 DEF Extract, Write, Fail
    <2>4. CASE Finish(a)
      BY <1>0, <2>4 DEF Finish
    <2>5. CASE Clean(a)
      BY <1>0, <2>5 DEF Clean, Free
    <2>6. CASE Discard(a) \/ Sweep(a)
      BY <2>6 DEF Discard, Sweep
    <2>7. CASE Drop(a)
      BY <1>0, <2>7 DEF Drop, Free, ApiTypes
    <2> QED BY <1>3, <2>1, <2>2, <2>3, <2>4, <2>5, <2>6, <2>7 DEF WorkerStep
  <1>4. ASSUME NEW a \in Apis, LifeStep(a) PROVE RequestsServed'
    <2>1. CASE BootInterrupt(a) \/ BootClean(a)
      BY <1>0, <2>1 DEF BootInterrupt, BootClean
    <2>2. CASE BootFail(a) \/ HaltCurrent(a)
      BY <1>0, <2>2 DEF BootFail, HaltCurrent, ApiTypes
    <2>3. CASE HaltQueued(a)
      BY <1>0, <2>3 DEF HaltQueued, Drained, ApiTypes, ProcessesSound
    <2> QED BY <1>4, <2>1, <2>2, <2>3 DEF LifeStep
  <1>5. ASSUME NEW a \in Apis, Crash(a) PROVE RequestsServed'
    BY <1>0, <1>5 DEF Crash, ApiTypes, ClientTypes
  <1>6. ASSUME NEW a \in Apis,
               \/ TakeFileLock(a) \/ StartCleanup(a) \/ Monitor(a) \/ BootOwn(a)
               \/ Halt(a) \/ LoseLock(a)
        PROVE  RequestsServed'
    BY <1>0, <1>6 DEF TakeFileLock, StartCleanup, Monitor, BootOwn, Halt, LoseLock, ApiTypes
  <1>7. Revoke \/ Age \/ UNCHANGED vars => RequestsServed'
    BY DEF Revoke, Age, vars
  <1> QED BY <1>1, <1>2, <1>3, <1>4, <1>5, <1>6, <1>7 DEF Next

\* A step leaves no active run unattended.
LEMMA NextAttended ==
  ASSUME IndInv, ShutdownSound, [Next]_vars
  PROVE  RunsAttended'
  <1>0. RowTypes /\ WorkTypes /\ ApiTypes /\ WorkSound BY DEF IndInv, TypeOK
  <1> USE DEF RunsAttended, Attended, AtWork
  <1>q. ASSUME UNCHANGED <<wpc, wrun, wout, phase>>,
               \A r \in RunIds : status'[r] \in {"queued", "running"} => status'[r] = status[r]
        PROVE  RunsAttended'
    BY <1>q DEF ShutdownSound
  <1>e. \A S : \A st \in {"interrupted", "failed", "succeeded", "gone"} : status' = EndRun(S, st) =>
          \A r \in RunIds : /\ status'[r] \in {"queued", "running"} => status'[r] = status[r]
                            /\ r \in S => status'[r] = st
    BY DEF EndRun
  <1>1. ASSUME NEW c \in Clients, NEW a \in Apis, NewRequest(c, a) PROVE RunsAttended'
    <2>1. ASSUME NEW r \in RunIds, Stop(c, a, r) PROVE RunsAttended'
      BY <1>q, <1>e, <2>1 DEF Stop
    <2>2. CASE UNCHANGED <<wpc, wrun, wout, phase, status>>
      BY <1>q, <2>2
    <2> QED BY <1>1, <2>1, <2>2
         DEF NewRequest, Register, Replace, Derive, Retry, RetryRecovered, Begin, ManageLock
  <1>2. ASSUME NEW c \in Clients, ClientStep(c) PROVE RunsAttended'
    <2>1. CASE Reserve(c)
      <3>1. CASE UNCHANGED status
        BY <1>q, <2>1, <3>1 DEF Reserve
      <3>2. CASE ReserveCreate(c)
        <4>1. PICK r \in RunIds : status' = [status EXCEPT ![r] = "queued"]
          BY <3>2 DEF ReserveCreate, NextRun
        <4>2. creq[c].api \in Apis /\ phase[creq[c].api] # "stopped"
          BY <2>1 DEF Reserve, ShutdownSound, RequestsServed, Admitting
        <4>3. UNCHANGED <<wpc, wrun, wout, phase>> BY <2>1 DEF Reserve
        <4> QED BY <1>0, <4>1, <4>2, <4>3 DEF RowTypes, ShutdownSound
      <3> QED BY <2>1, <3>1, <3>2 DEF Reserve, ReserveBind, ReserveRefuse
    <2>2. CASE UNCHANGED <<wpc, wrun, wout, phase, status>>
      BY <1>q, <2>2
    <2> QED BY <1>2, <2>1, <2>2
         DEF ClientStep, Enter, Recheck, Stage, Settle, StopAbort, ManageCommit
  <1>3. ASSUME NEW a \in Apis, WorkerStep(a) PROVE RunsAttended'
    <2>w. ASSUME \A b \in Apis : /\ phase[b] # "stopped" => phase'[b] # "stopped"
                                 /\ phase[b] = "crashed" => phase'[b] = "crashed",
                 \A b \in Apis \ {a} : wpc'[b] = wpc[b] /\ wrun'[b] = wrun[b] /\ phase'[b] = phase[b],
                 \A b \in Apis : wout[b] = "unsaved" => wout'[b] = "unsaved",
                 ~(phase[a] = "boot" /\ wpc[a] = "idle"),
                 \A r \in RunIds : status'[r] \in {"queued", "running"} => status'[r] = status[r],
                 \A r \in RunIds : status'[r] = "running" /\ AtWork(a) /\ wrun[a] = r =>
                                     wout'[a] = "unsaved" \/ (AtWork(a)' /\ wrun'[a] = r)
          PROVE  RunsAttended'
      <3>1. \A r \in RunIds : status'[r] = "queued" => \E b \in Apis : phase'[b] # "stopped"
        BY <2>w DEF ShutdownSound
      <3>2. ASSUME NEW r \in RunIds, status'[r] = "running" PROVE Attended(r)'
        <4>1. Attended(r) BY <2>w, <3>2 DEF ShutdownSound
        <4> QED BY <2>w, <3>2, <4>1
      <3> QED BY <3>1, <3>2
    <2>u. AtWork(a) => wout[a] # "unsaved" BY DEF ShutdownSound, WorkSaved
    <2>1. CASE Peek(a) \/ FileLockBusy(a)
      BY <1>0, <2>w, <2>1 DEF Peek, FileLockBusy, Wakes, WorkTypes
    <2>2. CASE Activate(a) \/ Check(a)
      BY <1>0, <2>w, <2>u, <2>2 DEF Activate, Check, WorkTypes
    <2>3. CASE Extract(a) \/ Commit(a)
      BY <1>0, <2>w, <2>u, <2>3 DEF Extract, Commit, WorkTypes
    <2>4. CASE Write(a)
      <3>1. wrun[a] \in RunIds /\ wpc[a] = "write" /\ UNCHANGED <<wrun, phase>>
        BY <1>0, <2>4 DEF Write, WorkSound, Executing
      <3>2. CASE StillRunning(wrun[a])
        <4>1. \A r \in RunIds : /\ status'[r] \in {"queued", "running"} => status'[r] = status[r]
                                /\ status'[r] = "running" => r # wrun[a]
          BY <2>4, <3>1, <3>2 DEF Write, EndRun
        <4>2. UNCHANGED wout /\ \A b \in Apis \ {a} : wpc'[b] = wpc[b]
          BY <1>0, <2>4, <3>2 DEF Write, WorkTypes
        <4> QED BY <2>w, <3>1, <4>1, <4>2
      <3>3. CASE ~StillRunning(wrun[a])
        BY <1>0, <2>w, <2>u, <2>4, <3>1, <3>3 DEF Write, WorkTypes
      <3> QED BY <3>2, <3>3
    <2>5. CASE Fail(a)
      <3>1. wrun[a] \in RunIds /\ wpc[a] = "fail" /\ UNCHANGED <<wrun, phase>>
        BY <1>0, <2>5 DEF Fail, WorkSound, Executing
      <3>2. /\ \A b \in Apis \ {a} : wpc'[b] = wpc[b] /\ wout'[b] = wout[b]
            /\ wout[a] # "unsaved"
        BY <1>0, <2>u, <2>5, <3>1 DEF Fail, WorkTypes
      <3>3. \A r \in RunIds : status'[r] \in {"queued", "running"} => status'[r] = status[r]
        BY <2>5 DEF Fail, Recorded, EndRun
      <3>4. wout'[a] = "unsaved" \/ Recorded(a)
        BY <1>0, <2>5 DEF Fail, WorkTypes
      <3>5. Recorded(a) => status'[wrun[a]] # "running"
        BY <3>1 DEF Recorded, StillRunning, EndRun
      <3> QED BY <2>w, <3>1, <3>2, <3>3, <3>4, <3>5
    <2>6. CASE Finish(a)
      BY <1>0, <2>w, <2>6 DEF Finish, WorkTypes
    <2>7. CASE Clean(a) \/ Sweep(a)
      BY <1>0, <2>w, <2>7 DEF Clean, Sweep, WorkTypes
    <2>8. CASE Discard(a)
      BY <1>0, <1>e, <2>w, <2>8 DEF Discard, WorkTypes
    <2>9. CASE Drop(a)
      <3>1. \A r \in RunIds : status'[r] \in {"queued", "running"} => status'[r] = status[r]
        BY <1>e, <2>9 DEF Drop
      <3>2. wpc[a] = "drop" /\ \A b \in Apis \ {a} : /\ wpc'[b] = wpc[b] /\ wrun'[b] = wrun[b]
                                                    /\ phase'[b] = phase[b]
        BY <1>0, <2>9 DEF Drop, WorkTypes, ApiTypes
      <3>3. phase'[a] = phase[a] \/ (phase[a] = "boot" /\ phase'[a] = "up")
        BY <1>0, <2>9 DEF Drop, ApiTypes
      <3>4. UNCHANGED wout BY <2>9 DEF Drop
      <3> QED BY <2>w, <3>1, <3>2, <3>3, <3>4
    <2>10. CASE Claim(a)
      <3>1. wpc[a] = "claim" /\ UNCHANGED phase BY <2>10 DEF Claim
      <3>2. CASE UNCHANGED <<status, wrun, wout>> /\ Work(a, "idle")
        BY <1>0, <2>w, <3>1, <3>2 DEF WorkTypes
      <3>3. CASE ~(UNCHANGED <<status, wrun, wout>> /\ Work(a, "idle"))
        <4>1. PICK r \in RunIds : /\ status' = [status EXCEPT ![r] = "running"]
                                  /\ wrun' = [wrun EXCEPT ![a] = r]
          BY <2>10, <3>3 DEF Claim
        <4>2. /\ \/ Work(a, "activate")
                 \/ wout' = [wout EXCEPT ![a] = "unsaved"]
              /\ \A s \in RunIds : status[s] # "running"
          BY <2>10, <3>3 DEF Claim
        <4>3. wout'[a] = "unsaved" \/ (AtWork(a)' /\ wrun'[a] = r) BY <1>0, <4>1, <4>2 DEF WorkTypes
        <4>4. \A s \in RunIds : status'[s] = "running" => s = r BY <1>0, <4>1, <4>2 DEF RowTypes
        <4>5. phase'[a] # "stopped"
          BY <3>1 DEF ShutdownSound, ProcessesSound
        <4> QED BY <4>3, <4>4, <4>5
      <3> QED BY <3>2, <3>3
    <2> QED BY <1>3, <2>1, <2>2, <2>3, <2>4, <2>5, <2>6, <2>7, <2>8, <2>9, <2>10 DEF WorkerStep
  <1>4. ASSUME NEW a \in Apis, BootInterrupt(a) PROVE RunsAttended'
    BY <1>0, <1>4 DEF BootInterrupt, LeftBehind, ActiveRuns, EndRun
  <1>5. ASSUME NEW a \in Apis, HaltQueued(a) PROVE RunsAttended'
    <2>1. /\ phase' = [phase EXCEPT ![a] = "stopped"] /\ UNCHANGED <<wpc, wrun, wout>>
          /\ phase[a] = "draining" /\ wpc[a] = "idle"
          /\ \A r \in RunIds : status'[r] # "queued" /\ (status'[r] = "running" => status[r] = "running")
      BY <1>5 DEF HaltQueued, Drained, EndRun
    <2> QED BY <1>0, <2>1 DEF ApiTypes, ShutdownSound
  <1>6. ASSUME NEW a \in Apis, HaltCurrent(a) PROVE RunsAttended'
    <2>1. /\ phase' = [phase EXCEPT ![a] = "draining"] /\ phase[a] = "halting" /\ UNCHANGED <<wpc, wrun, wout>>
          /\ \A r \in RunIds : status'[r] \in {"queued", "running"} => status'[r] = status[r]
      BY <1>6, <1>e DEF HaltCurrent
    <2> QED BY <1>0, <2>1 DEF ApiTypes, ShutdownSound
  <1>7. ASSUME NEW a \in Apis, BootFail(a) \/ Crash(a) PROVE RunsAttended'
    <2>1. /\ phase' = [phase EXCEPT ![a] = "crashed"] /\ UNCHANGED status
      BY <1>7 DEF BootFail, Crash
    <2>2. phase'[a] = "crashed" BY <1>0, <2>1 DEF ApiTypes
    <2> QED BY <2>2
  <1>8. ASSUME NEW a \in Apis, BootOwn(a) PROVE RunsAttended'
    <2>1. /\ phase' = [phase EXCEPT ![a] = "boot"] /\ UNCHANGED <<status, wpc, wrun>>
          /\ phase[a] \in {"stopped", "crashed"} /\ wpc[a] = "idle"
      BY <1>8 DEF BootOwn, ShutdownSound, ProcessesSound
    <2>2. phase'[a] = "boot" /\ wpc'[a] = "idle" BY <1>0, <2>1 DEF ApiTypes
    <2> QED BY <2>2
  <1>9. ASSUME NEW a \in Apis, Halt(a) PROVE RunsAttended'
    BY <1>0, <1>9 DEF Halt, ApiTypes, ShutdownSound
  <1>10. ASSUME NEW a \in Apis, TakeFileLock(a) \/ StartCleanup(a) \/ BootClean(a) PROVE RunsAttended'
    <2>1. /\ UNCHANGED <<status, phase, wrun, wout>> /\ ~AtWork(a)
          /\ ~(phase[a] = "boot" /\ wpc[a] = "idle")
      BY <1>10 DEF TakeFileLock, StartCleanup, BootClean, Wakes
    <2>2. \A b \in Apis : b # a => wpc'[b] = wpc[b]
      BY <1>0, <1>10 DEF TakeFileLock, StartCleanup, BootClean, WorkTypes
    <2> QED BY <2>1, <2>2 DEF ShutdownSound
  <1>11. ASSUME NEW a \in Apis, Monitor(a) \/ LoseLock(a) PROVE RunsAttended'
    BY <1>q, <1>11 DEF Monitor, LoseLock
  <1>12. CASE Revoke \/ Age \/ UNCHANGED vars
    BY <1>q, <1>12 DEF Revoke, Age, vars
  <1> QED BY <1>1, <1>2, <1>3, <1>4, <1>5, <1>6, <1>7, <1>8, <1>9, <1>10, <1>11, <1>12
          DEF Next, LifeStep

\* Whoever meets a failing statement has no run afterwards.
LEMMA NextSaved ==
  ASSUME IndInv, WorkSaved, [Next]_vars
  PROVE  WorkSaved'
  <1>0. WorkTypes BY DEF IndInv, TypeOK
  <1> USE DEF WorkSaved, AtWork
  <1>q. UNCHANGED <<wpc, wout>> => WorkSaved' OBVIOUS
  <1>1. ASSUME NEW c \in Clients, NEW a \in Apis, NewRequest(c, a) PROVE UNCHANGED <<wpc, wout>>
    BY <1>1 DEF NewRequest, Register, Replace, Derive, Retry, RetryRecovered, Begin,
                ManageLock, Stop
  <1>2. ASSUME NEW c \in Clients, ClientStep(c) PROVE UNCHANGED <<wpc, wout>>
    BY <1>2 DEF ClientStep, Enter, Recheck, Stage, Reserve, Settle, StopAbort, ManageCommit
  <1>3. ASSUME NEW a \in Apis, WorkerStep(a) PROVE WorkSaved'
    <2>1. CASE Peek(a) \/ FileLockBusy(a) \/ Activate(a) \/ Check(a)
      BY <1>0, <2>1 DEF Peek, FileLockBusy, Activate, Check, Obstacle, WorkTypes
    <2>2. CASE Claim(a)
      BY <1>0, <2>2 DEF Claim, WorkTypes
    <2>3. CASE Extract(a)
      BY <1>0, <2>3 DEF Extract, WorkTypes
    <2>4. CASE Commit(a) \/ Write(a)
      BY <1>0, <2>4 DEF Commit, Write, Obstacle, WorkTypes
    <2>5. CASE Fail(a) \/ Finish(a)
      BY <1>0, <2>5 DEF Fail, Finish, WorkTypes
    <2>6. CASE Clean(a) \/ Discard(a) \/ Sweep(a) \/ Drop(a)
      BY <1>0, <2>6 DEF Clean, Discard, Sweep, Drop, WorkTypes
    <2> QED BY <1>3, <2>1, <2>2, <2>3, <2>4, <2>5, <2>6 DEF WorkerStep
  <1>4. ASSUME NEW a \in Apis, LifeStep(a) PROVE WorkSaved'
    BY <1>0, <1>4 DEF LifeStep, BootInterrupt, BootClean, BootFail, HaltCurrent, HaltQueued, WorkTypes
  <1>5. ASSUME NEW a \in Apis,
               \/ TakeFileLock(a) \/ StartCleanup(a) \/ Monitor(a) \/ BootOwn(a)
               \/ Halt(a) \/ Crash(a) \/ LoseLock(a)
        PROVE  WorkSaved'
    BY <1>0, <1>5 DEF TakeFileLock, StartCleanup, Monitor, BootOwn, Halt, Crash, LoseLock, WorkTypes
  <1>6. Revoke \/ Age \/ UNCHANGED vars => UNCHANGED <<wpc, wout>>
    BY DEF Revoke, Age, vars
  <1> QED BY <1>q, <1>1, <1>2, <1>3, <1>4, <1>5, <1>6 DEF Next

LEMMA NextShutdown == IndInv /\ ShutdownSound /\ [Next]_vars => ShutdownSound'
  BY NextProcesses, NextServed, NextAttended, NextSaved DEF ShutdownSound

\* After an orderly shutdown nothing is left queued or running: an admission that
\* raced the shutdown was refused, waited for, or interrupted with the rest.  Only
\* a run that a failing statement stranded may stay running.
THEOREM ShutdownComplete == Spec => []ShutdownLeavesNothingActive
  <1>1. ShutdownSound => ShutdownLeavesNothingActive
    BY DEF ShutdownSound, ProcessesSound, RunsAttended, Attended, AtWork, Stranded,
           ShutdownLeavesNothingActive, ActiveRuns
  <1>2. Spec => []IndInv BY Invariant
  <1> QED BY <1>1, <1>2, InitShutdown, NextShutdown, PTL DEF Spec

-----------------------------------------------------------------------------
(* The file lock                                                            *)

Managing(c) == cpc[c] = "manage"
LockHeld == \A a \in Apis : InFile(a) => fileLock = a
OwnerOnly == \A a \in Apis : phase[a] \notin {"stopped", "crashed"} => owner = a

\* A removal or a change of scope and the execution of a run exclude each other
\* through lock 3, or, should its connection break, through lock 4 that leaves only
\* one process: it takes two broken connections to lose both.
LeasesSound ==
  /\ \A c \in Clients : Managing(c) => fileLock = c
  /\ \A c \in Clients, a \in Apis : ~(Managing(c) /\ InFile(a))
  /\ \/ left["manage"] = 0 /\ \A c \in Clients : ~Managing(c)
     \/ left["lose"] <= 1 /\ LockHeld /\ OwnerOnly
     \/ left["lose"] = 0 /\ (LockHeld \/ OwnerOnly)

\* Events are only spent.
LEMMA LeftSpent ==
  ASSUME IndInv, [Next]_vars, NEW e \in Events
  PROVE  left'[e] \in Nat /\ left'[e] <= left[e]
  <1>0. left \in [Events -> Nat] BY DEF IndInv, TypeOK, EventTypes
  <1>1. ASSUME NEW s \in Events, Spend(s) PROVE left'[e] \in Nat /\ left'[e] <= left[e]
    BY <1>0, <1>1
  <1>2. CASE UNCHANGED left BY <1>0, <1>2
  <1>3. UNCHANGED left \/ \E s \in Events : Spend(s)
    <2> HIDE DEF Spend
    <2> DEFINE Known3 == UNCHANGED left \/ \E s \in Events : Spend(s)
    <2>1. ASSUME NEW c \in Clients, NEW a \in Apis, NewRequest(c, a) PROVE Known3
      BY <2>1 DEF NewRequest, Register, Replace, Derive, Retry, RetryRecovered, Begin,
                  ManageLock, Stop, Events
    <2>2. ASSUME NEW c \in Clients, ClientStep(c) PROVE Known3
      BY <2>2 DEF ClientStep, Enter, Recheck, Stage, Reserve, ReserveCreate, ReserveBind,
                  ReserveRefuse, Settle, StopAbort, ManageCommit, Events
    <2>3. ASSUME NEW a \in Apis, WorkerStep(a) PROVE Known3
      BY <2>3 DEF WorkerStep, Peek, FileLockBusy, Claim, Activate, Check, Extract, Commit,
                  Write, Fail, Finish, Clean, Discard, Sweep, Drop, Events
    <2>4. ASSUME NEW a \in Apis, LifeStep(a) PROVE Known3
      BY <2>4 DEF LifeStep, BootInterrupt, BootClean, BootFail, HaltCurrent, HaltQueued
    <2>5. ASSUME NEW a \in Apis,
                 \/ TakeFileLock(a) \/ StartCleanup(a) \/ Monitor(a) \/ BootOwn(a)
                 \/ Halt(a) \/ Crash(a) \/ LoseLock(a)
          PROVE  Known3
      BY <2>5 DEF TakeFileLock, StartCleanup, Monitor, BootOwn, Halt, Crash, LoseLock, Events
    <2>6. CASE Revoke \/ Age \/ UNCHANGED vars
      BY <2>6 DEF Revoke, Age, vars, Events
    <2> QED BY <2>1, <2>2, <2>3, <2>4, <2>5, <2>6 DEF Next
  <1> QED BY <1>1, <1>2, <1>3

\* A step that takes and frees neither lock, and nobody begins what needs one.
LEMMA LeasesStay ==
  ASSUME IndInv, LeasesSound, [Next]_vars, UNCHANGED <<fileLock, owner>>,
         \A a \in Apis : InFile(a)' => InFile(a),
         \A c \in Clients : Managing(c)' => Managing(c),
         \A a \in Apis : phase'[a] \notin {"stopped", "crashed"} => phase[a] \notin {"stopped", "crashed"}
  PROVE  LeasesSound'
  <1>1. left'["manage"] <= left["manage"] /\ left'["lose"] <= left["lose"]
        /\ left'["manage"] \in Nat /\ left'["lose"] \in Nat
    BY LeftSpent DEF Events
  <1>2. left["manage"] \in Nat /\ left["lose"] \in Nat
    BY DEF IndInv, TypeOK, EventTypes, Events
  <1>3. LockHeld => LockHeld' BY DEF LockHeld
  <1>4. OwnerOnly => OwnerOnly' BY DEF OwnerOnly
  <1> QED BY <1>1, <1>2, <1>3, <1>4 DEF LeasesSound

\* A step that enters or leaves a file operation, or opens or ends a process.
LEMMA LeasesTaken ==
  ASSUME IndInv, ProcessesSound, LeasesSound, [Next]_vars, NEW a \in Apis,
         \/ \E c \in Clients, o \in RunIds : \E op \in {"remove", "scope"} : ManageLock(c, a, o, op)
         \/ TakeFileLock(a) \/ Claim(a) \/ Finish(a)
  PROVE  LeasesSound'
  <1>0. /\ WorkTypes /\ ApiTypes /\ ClientTypes /\ LockTypes /\ EventTypes
        /\ NoOne \notin Apis \cup Clients /\ Apis \cap Clients = {}
    BY ConstantsAssumption DEF IndInv, TypeOK
  <1>1. left'["manage"] <= left["manage"] /\ left'["lose"] <= left["lose"]
        /\ left'["manage"] \in Nat /\ left'["lose"] \in Nat
        /\ left["manage"] \in Nat /\ left["lose"] \in Nat
    BY <1>0, LeftSpent DEF EventTypes, Events
  <1>2. ASSUME NEW c \in Clients, NEW o \in RunIds, NEW op \in {"remove", "scope"},
               ManageLock(c, a, o, op)
        PROVE  LeasesSound'
    <2>1. /\ fileLock = NoOne /\ fileLock' = c /\ UNCHANGED <<wpc, owner, phase>>
          /\ cpc' = [cpc EXCEPT ![c] = "manage"] /\ left["manage"] > 0 /\ Serving(a) /\ ~InFile(a)
      BY <1>2 DEF ManageLock, Busy
    <2>2. \A d \in Clients : ~Managing(d)
      BY <1>0, <2>1 DEF LeasesSound
    <2>3. \A d \in Clients : Managing(d)' => d = c
      BY <1>0, <2>1, <2>2 DEF Managing, ClientTypes
    <2>4. \A b \in Apis : InFile(b)' = InFile(b) BY <2>1 DEF InFile, Executing
    <2>5. LockHeld \/ OwnerOnly
      BY <1>1, <2>1 DEF LeasesSound
    <2>6. \A b \in Apis : ~InFile(b)
      <3>1. CASE LockHeld BY <1>0, <2>1, <3>1 DEF LockHeld
      <3>2. ASSUME OwnerOnly, NEW b \in Apis, InFile(b) PROVE FALSE
        <4>1. owner = b BY <3>2 DEF OwnerOnly, ProcessesSound, InFile, Executing
        <4>2. owner = a BY <2>1, <3>2 DEF OwnerOnly, Serving
        <4> QED BY <2>1, <3>2, <4>1, <4>2
      <3> QED BY <2>5, <3>1, <3>2
    <2>7. LockHeld' BY <2>4, <2>6 DEF LockHeld
    <2>8. OwnerOnly => OwnerOnly' BY <2>1 DEF OwnerOnly
    <2> QED BY <1>1, <2>1, <2>3, <2>4, <2>6, <2>7, <2>8 DEF LeasesSound
  <1>3. ASSUME TakeFileLock(a) PROVE LeasesSound'
    <2>1. /\ fileLock = NoOne /\ fileLock' = a /\ UNCHANGED <<cpc, owner, phase>>
          /\ \A b \in Apis : b # a => (InFile(b)' <=> InFile(b))
      BY <1>0, <1>3 DEF TakeFileLock, InFile, Executing, WorkTypes
    <2>2. \A c \in Clients : ~Managing(c) /\ ~Managing(c)'
      BY <1>0, <2>1 DEF LeasesSound, Managing
    <2>3. LockHeld => LockHeld'
      BY <1>0, <2>1 DEF LockHeld
    <2>4. OwnerOnly => OwnerOnly' BY <2>1 DEF OwnerOnly
    <2> QED BY <1>1, <2>2, <2>3, <2>4 DEF LeasesSound
  <1>4. ASSUME Claim(a) \/ Finish(a) PROVE LeasesSound'
    <2>1. /\ UNCHANGED <<cpc, owner, phase>> /\ InFile(a)
          /\ fileLock' = fileLock \/ (fileLock' = Free(fileLock, a) /\ ~InFile(a)')
          /\ \A b \in Apis : b # a => (InFile(b)' <=> InFile(b))
      <3>1. CASE Claim(a)
        BY <1>0, <3>1 DEF Claim, InFile, Executing, WorkTypes
      <3>2. CASE Finish(a)
        BY <1>0, <3>2 DEF Finish, InFile, Executing, WorkTypes
      <3> QED BY <1>4, <3>1, <3>2
    <2>2. \A c \in Clients : ~Managing(c) /\ ~Managing(c)'
      BY <2>1 DEF LeasesSound, Managing
    <2>3. LockHeld => LockHeld'
      BY <1>0, <2>1 DEF LockHeld, Free
    <2>4. OwnerOnly => OwnerOnly' BY <2>1 DEF OwnerOnly
    <2> QED BY <1>1, <2>2, <2>3, <2>4 DEF LeasesSound
  <1> QED BY <1>2, <1>3, <1>4

\* The end of a removal or a change of scope.
LEMMA LeasesFreed ==
  ASSUME IndInv, ProcessesSound, LeasesSound, [Next]_vars, NEW c \in Clients,
         ManageCommit(c)
  PROVE  LeasesSound'
  <1>0. /\ WorkTypes /\ ApiTypes /\ ClientTypes /\ LockTypes /\ EventTypes
        /\ NoOne \notin Apis \cup Clients /\ Apis \cap Clients = {}
    BY ConstantsAssumption DEF IndInv, TypeOK
  <1>1. left'["manage"] <= left["manage"] /\ left'["lose"] <= left["lose"]
        /\ left'["manage"] \in Nat /\ left'["lose"] \in Nat
        /\ left["manage"] \in Nat /\ left["lose"] \in Nat
    BY <1>0, LeftSpent DEF EventTypes, Events
  <1>2. /\ fileLock' = Free(fileLock, c) /\ UNCHANGED <<wpc, owner, phase>>
        /\ cpc' = [cpc EXCEPT ![c] = "idle"] /\ Managing(c)
    BY DEF ManageCommit, EndRequest, Managing
  <1>3. fileLock = c /\ \A b \in Apis : ~InFile(b) /\ ~InFile(b)'
    BY <1>2 DEF LeasesSound, InFile, Executing
  <1>4. \A d \in Clients : ~Managing(d)'
    BY <1>0, <1>2, <1>3 DEF LeasesSound, Managing, ClientTypes
  <1>5. LockHeld' BY <1>3 DEF LockHeld
  <1>6. OwnerOnly => OwnerOnly' BY <1>2 DEF OwnerOnly
  <1> QED BY <1>1, <1>3, <1>4, <1>5, <1>6 DEF LeasesSound

\* A start, an end or a crash of a process, and the loss of a connection.
LEMMA LeasesLost ==
  ASSUME IndInv, ProcessesSound, LeasesSound, [Next]_vars, NEW a \in Apis,
         \/ BootOwn(a) \/ BootFail(a) \/ HaltQueued(a) \/ Crash(a) \/ LoseLock(a)
  PROVE  LeasesSound'
  <1>0. /\ WorkTypes /\ ApiTypes /\ ClientTypes /\ LockTypes /\ EventTypes
        /\ NoOne \notin Apis \cup Clients /\ Apis \cap Clients = {}
    BY ConstantsAssumption DEF IndInv, TypeOK
  <1>1. left'["manage"] <= left["manage"] /\ left'["lose"] <= left["lose"]
        /\ left'["manage"] \in Nat /\ left'["lose"] \in Nat
        /\ left["manage"] \in Nat /\ left["lose"] \in Nat
    BY <1>0, LeftSpent DEF EventTypes, Events
  <1>3. ASSUME BootOwn(a) \/ BootFail(a) \/ HaltQueued(a) PROVE LeasesSound'
    <2>1. UNCHANGED <<fileLock, cpc>> /\ \A b \in Apis : InFile(b)' => InFile(b)
      BY <1>0, <1>3 DEF BootOwn, BootFail, HaltQueued, InFile, Executing, WorkTypes
    <2>2. LockHeld => LockHeld' BY <2>1 DEF LockHeld
    <2>3. OwnerOnly => OwnerOnly'
      <3>1. CASE BootOwn(a) BY <1>0, <3>1 DEF BootOwn, OwnerOnly, ApiTypes
      <3>2. CASE BootFail(a) BY <1>0, <3>2 DEF BootFail, Free, OwnerOnly, ApiTypes
      <3>3. CASE HaltQueued(a) BY <1>0, <3>3 DEF HaltQueued, Free, OwnerOnly, ApiTypes
      <3> QED BY <1>3, <3>1, <3>2, <3>3
    <2>4. \A c \in Clients : Managing(c)' = Managing(c) BY <2>1 DEF Managing
    <2> QED BY <1>1, <2>1, <2>2, <2>3, <2>4 DEF LeasesSound
  <1>4. ASSUME Crash(a) PROVE LeasesSound'
    <2>1. PICK mine : mine = {c \in Clients : creq[c].api = a} OBVIOUS
    <2>2. /\ fileLock' = IF fileLock \in mine \cup {a} THEN NoOne ELSE fileLock
          /\ \A c \in Clients : cpc'[c] = IF c \in mine THEN "idle" ELSE cpc[c]
      BY <1>4, <2>1 DEF Crash
    <2>3. /\ ~InFile(a)' /\ \A b \in Apis : b # a => (InFile(b)' <=> InFile(b))
      BY <1>0, <1>4 DEF Crash, InFile, Executing, WorkTypes
    <2>4. \A c \in Clients : Managing(c)' => Managing(c) /\ c \notin mine
      BY <2>2 DEF Managing
    <2>5. \A c \in Clients : Managing(c)' => fileLock' = c
      BY <1>0, <2>1, <2>2, <2>4 DEF LeasesSound
    <2>6. LockHeld => LockHeld'
      BY <1>0, <2>1, <2>2, <2>3 DEF LockHeld
    <2>7. OwnerOnly => OwnerOnly'
      BY <1>0, <1>4 DEF Crash, Free, OwnerOnly, ApiTypes
    <2> QED BY <1>1, <2>3, <2>4, <2>5, <2>6, <2>7 DEF LeasesSound
  <1>5. ASSUME LoseLock(a) PROVE LeasesSound'
    <2>1. /\ UNCHANGED <<wpc, cpc, phase>> /\ left["lose"] > 0 /\ left'["lose"] = left["lose"] - 1
          /\ UNCHANGED fileLock \/ (fileLock = a /\ UNCHANGED owner)
      BY <1>0, <1>5 DEF LoseLock, EventTypes, Events
    <2>2. /\ \A c \in Clients : Managing(c)' = Managing(c)
          /\ \A b \in Apis : InFile(b)' = InFile(b)
      BY <2>1 DEF Managing, InFile, Executing
    <2>3. \A c \in Clients : Managing(c)' => fileLock' = c
      BY <1>0, <2>1, <2>2 DEF LeasesSound
    <2>4. LockHeld /\ UNCHANGED fileLock => LockHeld'
      BY <2>2 DEF LockHeld
    <2>5. OwnerOnly /\ UNCHANGED owner => OwnerOnly'
      BY <2>1 DEF OwnerOnly
    <2> QED BY <1>1, <2>1, <2>2, <2>3, <2>4, <2>5 DEF LeasesSound
  <1> QED BY <1>3, <1>4, <1>5

\* Every step, action by action.
LEMMA NextLeases ==
  ASSUME IndInv, ProcessesSound, LeasesSound, [Next]_vars
  PROVE  LeasesSound'
  <1>0. WorkTypes /\ ApiTypes /\ ClientTypes BY DEF IndInv, TypeOK
  <1> DEFINE Stays == /\ UNCHANGED <<fileLock, owner>>
                      /\ \A a \in Apis : InFile(a)' => InFile(a)
                      /\ \A c \in Clients : Managing(c)' => Managing(c)
                      /\ \A a \in Apis : phase'[a] \notin {"stopped", "crashed"} =>
                                           phase[a] \notin {"stopped", "crashed"}
  <1>s. Stays => LeasesSound' BY LeasesStay
  <1>i. UNCHANGED wpc => \A a \in Apis : InFile(a)' => InFile(a) BY DEF InFile, Executing
  <1>c. UNCHANGED cpc => \A c \in Clients : Managing(c)' => Managing(c) BY DEF Managing
  <1>1. ASSUME NEW c \in Clients, NEW a \in Apis, NewRequest(c, a) PROVE LeasesSound'
    <2>1. ASSUME ~\E o \in RunIds, op \in {"remove", "scope"} : ManageLock(c, a, o, op)
          PROVE  /\ UNCHANGED <<wpc, fileLock, owner, phase>>
                 /\ UNCHANGED cpc \/ \E at \in {"enter", "abort"} : cpc' = [cpc EXCEPT ![c] = at]
      BY <1>1, <2>1 DEF NewRequest, Register, Replace, Derive, Retry, RetryRecovered, Begin, Stop
    <2>2. ASSUME NEW at \in {"enter", "abort"}, cpc' = [cpc EXCEPT ![c] = at], NEW d \in Clients
          PROVE  Managing(d)' => Managing(d)
      BY <1>0, <2>2 DEF Managing, ClientTypes
    <2> HIDE DEF Managing
    <2> QED BY <1>s, <1>i, <1>c, <2>1, <2>2, LeasesTaken
  <1>2. ASSUME NEW c \in Clients, ClientStep(c), ~ManageCommit(c) PROVE LeasesSound'
    <2>1. UNCHANGED <<wpc, fileLock, owner, phase>>
      BY <1>2 DEF ClientStep, Enter, Recheck, Stage, Reserve, Settle, StopAbort
    <2>2. \A d \in Clients : Managing(d)' => Managing(d)
      <3>1. CASE Enter(c) \/ Recheck(c)
        BY <1>0, <3>1 DEF Enter, Recheck, EndRequest, Go, Managing, ClientTypes
      <3>2. CASE Stage(c) \/ Reserve(c)
        BY <1>0, <3>2 DEF Stage, Reserve, ReserveCreate, ReserveBind, ReserveRefuse, Go, Managing, ClientTypes
      <3>3. CASE Settle(c) \/ StopAbort(c)
        BY <1>0, <3>3 DEF Settle, StopAbort, EndRequest, Managing, ClientTypes
      <3> QED BY <1>2, <3>1, <3>2, <3>3 DEF ClientStep
    <2> QED BY <1>s, <1>i, <2>1, <2>2
  <1>3. ASSUME NEW a \in Apis, WorkerStep(a), ~Claim(a), ~Finish(a) PROVE LeasesSound'
    <2>1. UNCHANGED <<cpc, fileLock, owner>>
      BY <1>3 DEF WorkerStep, Peek, FileLockBusy, Activate, Check, Extract, Commit,
                  Write, Fail, Clean, Discard, Sweep, Drop
    <2>2. \A b \in Apis : InFile(b)' => InFile(b)
      <3>1. CASE Peek(a) \/ FileLockBusy(a) \/ Activate(a) \/ Check(a)
        BY <1>0, <3>1 DEF Peek, FileLockBusy, Activate, Check, InFile, Executing, WorkTypes
      <3>2. CASE Extract(a) \/ Commit(a)
        BY <1>0, <3>2 DEF Extract, Commit, InFile, Executing, WorkTypes
      <3>3. CASE Write(a) \/ Fail(a)
        BY <1>0, <3>3 DEF Write, Fail, InFile, Executing, WorkTypes
      <3>4. CASE Clean(a) \/ Discard(a) \/ Sweep(a) \/ Drop(a)
        BY <1>0, <3>4 DEF Clean, Discard, Sweep, Drop, InFile, Executing, WorkTypes
      <3> QED BY <1>3, <3>1, <3>2, <3>3, <3>4 DEF WorkerStep
    <2>3. \A b \in Apis : phase'[b] \notin {"stopped", "crashed"} => phase[b] \notin {"stopped", "crashed"}
      <3>1. CASE Drop(a)
        BY <1>0, <3>1 DEF Drop, ApiTypes
      <3>2. CASE ~Drop(a)
        BY <1>3, <3>2 DEF WorkerStep, Peek, FileLockBusy, Activate, Check, Extract, Commit,
                  Write, Fail, Clean, Discard, Sweep
      <3> QED BY <3>1, <3>2
    <2> QED BY <1>s, <1>c, <2>1, <2>2, <2>3
  <1>4. ASSUME NEW a \in Apis, \/ BootInterrupt(a) \/ BootClean(a) \/ HaltCurrent(a)
                               \/ StartCleanup(a) \/ Monitor(a) \/ Halt(a)
        PROVE  LeasesSound'
    <2>1. UNCHANGED <<cpc, fileLock, owner>>
      BY <1>4 DEF BootInterrupt, BootClean, HaltCurrent, StartCleanup, Monitor, Halt
    <2>2. \A b \in Apis : InFile(b)' => InFile(b)
      BY <1>0, <1>4 DEF BootInterrupt, BootClean, HaltCurrent, StartCleanup, Monitor, Halt, InFile,
                        Executing, WorkTypes
    <2>3. \A b \in Apis : phase'[b] \notin {"stopped", "crashed"} => phase[b] \notin {"stopped", "crashed"}
      BY <1>0, <1>4 DEF BootInterrupt, BootClean, HaltCurrent, StartCleanup, Monitor, Halt, ApiTypes
    <2> QED BY <1>s, <1>c, <2>1, <2>2, <2>3
  <1>5. CASE Revoke \/ Age \/ UNCHANGED vars
    BY <1>s, <1>i, <1>c, <1>5 DEF Revoke, Age, vars
  <1> HIDE DEF Stays
  <1> QED BY <1>1, <1>2, <1>3, <1>4, <1>5, LeasesTaken, LeasesFreed, LeasesLost
          DEF Next, LifeStep, ClientStep, WorkerStep

-----------------------------------------------------------------------------
(* Results                                                                  *)

\* A worker about to store its result: session and target are still what they were
\* when it looked.
Aims(a) ==
  /\ wsess[a] = epoch
  /\ LET j == job[wrun[a]] IN
     j.target # NoRun => j.target \notin deleted /\ scopeRev[j.target] = j.scope
AimsSound == \A a \in Apis : Stores(a) => Aims(a)

\* Who writes sessions, targets and a worker's identity.
LEMMA SessionsWritten ==
  ASSUME [Next]_vars
  PROVE  /\ UNCHANGED epoch \/ Revoke
         /\ UNCHANGED <<deleted, scopeRev>> \/ \E c \in Clients : ManageCommit(c)
         /\ UNCHANGED wsess \/ \E a \in Apis : Activate(a)
  <1> DEFINE Kept == UNCHANGED <<epoch, deleted, scopeRev, wsess>>
  <1>1. ASSUME NEW c \in Clients, NEW a \in Apis, NewRequest(c, a) PROVE Kept
    BY <1>1 DEF NewRequest, Register, Replace, Derive, Retry, RetryRecovered, Begin,
                ManageLock, Stop
  <1>2. ASSUME NEW c \in Clients, ClientStep(c), ~ManageCommit(c) PROVE Kept
    BY <1>2 DEF ClientStep, Enter, Recheck, Stage, Reserve, Settle, StopAbort
  <1>3. ASSUME NEW c \in Clients, ManageCommit(c) PROVE UNCHANGED <<epoch, wsess>>
    BY <1>3 DEF ManageCommit
  <1>4. ASSUME NEW a \in Apis, WorkerStep(a), ~Activate(a) PROVE Kept
    BY <1>4 DEF WorkerStep, Peek, FileLockBusy, Claim, Check, Extract, Commit, Write,
                Fail, Finish, Clean, Discard, Sweep, Drop
  <1>5. ASSUME NEW a \in Apis, Activate(a) PROVE UNCHANGED <<epoch, deleted, scopeRev>>
    BY <1>5 DEF Activate
  <1>6. ASSUME NEW a \in Apis, LifeStep(a) PROVE Kept
    BY <1>6 DEF LifeStep, BootInterrupt, BootClean, BootFail, HaltCurrent, HaltQueued
  <1>7. ASSUME NEW a \in Apis,
               \/ TakeFileLock(a) \/ StartCleanup(a) \/ Monitor(a) \/ BootOwn(a)
               \/ Halt(a) \/ Crash(a) \/ LoseLock(a)
        PROVE  Kept
    BY <1>7 DEF TakeFileLock, StartCleanup, Monitor, BootOwn, Halt, Crash, LoseLock
  <1>8. Age \/ UNCHANGED vars => Kept
    BY DEF Age, vars
  <1>9. Revoke => UNCHANGED <<deleted, scopeRev, wsess>>
    BY DEF Revoke
  <1> QED BY <1>1, <1>2, <1>3, <1>4, <1>5, <1>6, <1>7, <1>8, <1>9 DEF Next

\* Nothing comes between a worker's look at its target and its result.
LEMMA NextAims ==
  ASSUME IndInv, VersionsSound, LeasesSound, AimsSound, [Next]_vars
  PROVE  AimsSound'
  <1> SUFFICES ASSUME NEW a \in Apis, Stores(a)' PROVE Aims(a)'
    BY DEF AimsSound
  <1>0. WorkTypes BY DEF IndInv, TypeOK
  <1>1. wrun'[a] = wrun[a] /\ (Stores(a) \/ Commit(a)) BY WorkGoes
  <1>2. wrun[a] \in RunIds /\ status[wrun[a]] # "absent"
    BY <1>1 DEF IndInv, WorkSound, VersionsSound, Executing, Stores, Commit
  <1>3. job'[wrun'[a]] = job[wrun[a]] BY <1>1, <1>2, JobsWritten
  <1>4. CASE Stores(a)
    <2>1. ~Revoke BY <1>4 DEF Revoke, TxHeld, Stores
    <2>2. \A c \in Clients : ~ManageCommit(c)
      BY <1>4 DEF LeasesSound, ManageCommit, Managing, InFile, Executing, Stores
    <2>3. wsess'[a] = wsess[a]
      BY <1>0, <1>4, SessionsWritten DEF Activate, Stores, WorkTypes
    <2>4. UNCHANGED <<epoch, deleted, scopeRev>> BY <2>1, <2>2, SessionsWritten
    <2>5. Aims(a) BY <1>4 DEF AimsSound
    <2> QED BY <1>3, <2>3, <2>4, <2>5 DEF Aims
  <1>5. CASE Commit(a)
    <2>1. wsess[a] = epoch /\ Untouched(wrun[a])
      BY <1>0, <1>5 DEF Commit, Stores, WorkTypes
    <2>2. UNCHANGED <<wsess, epoch, deleted, scopeRev>> BY <1>5 DEF Commit
    <2> QED BY <1>3, <2>1, <2>2 DEF Aims, Untouched, Available
  <1> QED BY <1>1, <1>4, <1>5

\* The result of a worker is stored for a running run, under a session still valid
\* and on the version and in the scope that the run was admitted for, if at most
\* one lock connection breaks, or nothing is removed or changes its scope.
THEOREM ResultsAreCurrent ==
  ASSUME \A b \in Budgets : b["lose"] <= 1 \/ b["manage"] = 0
  PROVE  Spec => ResultsCurrent
  <1> DEFINE Sound == VersionsSound /\ ShutdownSound /\ LeasesSound /\ AimsSound
             Right == \A r \in RunIds : result[r] = 0 /\ result'[r] # 0 =>
                        /\ status[r] = "running"
                        /\ \E a \in Apis : wrun[a] = r /\ wsess[a] = epoch
                        /\ job[r].target # NoRun =>
                             /\ job[r].target \notin deleted
                             /\ latest[job[r].target] = job[r].base
                             /\ scopeRev[job[r].target] = job[r].scope
  <1>1. Init => Sound
    <2> SUFFICES ASSUME Init PROVE LeasesSound /\ AimsSound
      BY InitVersions, InitShutdown
    <2>1. /\ \A a \in Apis : wpc[a] = "idle" /\ phase[a] = "stopped"
          /\ \A c \in Clients : cpc[c] = "idle"
      BY DEF Init
    <2>2. left["lose"] <= 1 \/ left["manage"] = 0 BY DEF Init
    <2> QED BY <2>1, <2>2 DEF LeasesSound, LockHeld, OwnerOnly, Managing, InFile, Executing,
                              AimsSound, Stores
  <1>2. IndInv /\ IndInv' /\ Sound /\ [Next]_vars => Sound'
    BY NextVersions, NextShutdown, NextLeases, NextAims DEF ShutdownSound
  <1>3. IndInv /\ Sound /\ [Next]_vars => [Right]_vars
    <2> SUFFICES ASSUME IndInv, Sound, [Next]_vars, NEW r \in RunIds, result[r] = 0, result'[r] # 0
                 PROVE  /\ status[r] = "running"
                        /\ \E a \in Apis : wrun[a] = r /\ wsess[a] = epoch
                        /\ job[r].target # NoRun =>
                             /\ job[r].target \notin deleted
                             /\ latest[job[r].target] = job[r].base
                             /\ scopeRev[job[r].target] = job[r].scope
      OBVIOUS
    <2>1. PICK a \in Apis : Write(a) BY VersionsWritten
    <2>2. r = wrun[a] /\ StillRunning(r)
      BY <2>1 DEF Write, IndInv, TypeOK, RowTypes
    <2>3. Stores(a) /\ Aims(a) BY <2>1 DEF Write, Stores, AimsSound
    <2>4. job[r].target # NoRun => latest[job[r].target] = job[r].base
      BY <2>2, <2>3 DEF VersionsSound
    <2> QED BY <2>2, <2>3, <2>4 DEF Aims, StillRunning
  <1>4. Spec => []IndInv BY Invariant
  <1> HIDE DEF Sound
  <1> QED BY <1>1, <1>2, <1>3, <1>4, PTL DEF Spec, ResultsCurrent

-----------------------------------------------------------------------------
(* Uploads and their retries                                                *)

Asking(c) == cpc[c] \in {"enter", "recheck", "stage", "reserve"}
Ended == {"failed", "interrupted", "gone"}
UploadKeys == {<<"upload", q>> : q \in Requests}

\* Registrations, and only they, are filed under an upload; no row has a job before
\* it exists, and one that is gone was past its retention.
UploadJobs ==
  \A r \in RunIds :
    /\ job[r].op = "register" => job[r].key \in UploadKeys /\ job[r].target = NoRun
    /\ job[r].key \in UploadKeys => job[r].op = "register"
    /\ status[r] = "absent" => job[r].op = "none"
    /\ status[r] = "gone" => r \in expired

\* A first upload under way has not been registered under its identifier, or the
\* identifier is taken by a run that retention spares; a retry is of a run of its
\* family that ended without success.
FirstUpload(q) ==
  /\ q.family = NoFamily
  /\ \A r \in RunIds : job[r].key = <<"upload", q.req>> =>
       /\ bound[q.req] \in RunIds \ expired
       /\ job[bound[q.req]].key = <<"upload", q.req>>
RetriedUpload(q) ==
  job[q.parent].op = "register" /\ job[q.parent].key = q.family /\ status[q.parent] \in Ended
UploadCalls ==
  \A c \in Clients : Asking(c) /\ creq[c].op = "register" =>
    /\ creq[c].target = NoRun
    /\ creq[c].parent = NoRun => FirstUpload(creq[c])
    /\ creq[c].parent # NoRun => RetriedUpload(creq[c])

\* Once an upload succeeded all its other runs have ended, and retention forgets
\* them no later than the success.
FamilyEnded ==
  \A s, r \in RunIds :
    /\ status[s] = "succeeded" /\ job[s].op = "register"
    /\ r # s /\ job[r].key = job[s].key
    => status[r] \in Ended /\ (s \in expired => r \in expired)

FamilySound == UploadJobs /\ UploadCalls /\ FamilyEnded

\* What has ended stays ended; a row is removed only past its retention; only a
\* running run succeeds.
LEMMA RowsGo ==
  ASSUME IndInv, [Next]_vars, NEW r \in RunIds
  PROVE  /\ status[r] \in Final \cup {"gone"} => status'[r] \in {status[r], "gone"}
         /\ status'[r] = "succeeded" => status[r] \in {"running", "succeeded"}
         /\ status'[r] = "gone" => status[r] = "gone" \/ r \in expired
         /\ status'[r] \in Active => status[r] \in Active \cup {"absent"}
         /\ status'[r] = "absent" => status[r] = "absent"
  <1>0. RowTypes /\ WorkTypes BY DEF IndInv, TypeOK
  <1>1. [Queue!Next]_Queue!vars BY NextQueue
  <1>2. status[r] \in {"absent", "gone"} \cup Active \cup Final BY <1>0 DEF RowTypes
  <1>3. UNCHANGED Queue!vars => status'[r] = status[r] BY DEF Queue!vars
  <1>4. ASSUME Queue!Next
        PROVE  /\ status[r] \in Final \cup {"gone"} => status'[r] \in {status[r], "gone"}
               /\ status'[r] = "succeeded" => status[r] \in {"running", "succeeded"}
               /\ status'[r] \in Active => status[r] \in Active \cup {"absent"}
               /\ status'[r] = "absent" => status[r] = "absent"
    BY <1>4, <1>2, <1>0
       DEF Queue!Next, Queue!Admit, Queue!Start, Queue!GiveUp, Queue!Complete,
           Queue!Interrupt, Queue!Forget, Queue!Live, Queue!Ended, Queue!Waiting, RowTypes
  <1>5. status'[r] = "gone" => status[r] = "gone" \/ r \in expired
    <2> DEFINE Stays == status'[r] # "gone" \/ status'[r] = status[r]
    <2>1. ASSUME NEW c \in Clients, NEW a \in Apis, NewRequest(c, a) PROVE Stays
      <3>1. ASSUME NEW x \in RunIds, Stop(c, a, x) PROVE Stays BY <3>1, <1>0 DEF Stop, EndRun
      <3>2. ASSUME ~\E x \in RunIds : Stop(c, a, x) PROVE UNCHANGED status
        BY <2>1, <3>2 DEF NewRequest, Register, Replace, Derive, Retry, RetryRecovered, Begin,
                    ManageLock
      <3> QED BY <3>1, <3>2
    <2>2. ASSUME NEW c \in Clients, ClientStep(c) PROVE Stays
      <3>1. CASE Reserve(c)
        BY <3>1, <1>0 DEF Reserve, ReserveCreate, ReserveBind, ReserveRefuse, RowTypes
      <3>2. CASE ~Reserve(c)
        BY <2>2, <3>2 DEF ClientStep, Enter, Recheck, Stage, Settle, StopAbort, ManageCommit
      <3> QED BY <3>1, <3>2
    <2>3. ASSUME NEW a \in Apis, WorkerStep(a), ~Drop(a) PROVE Stays
      <3>1. CASE Claim(a)
        <4>1. UNCHANGED status \/ \E x \in RunIds : status' = [status EXCEPT ![x] = "running"]
          BY <3>1 DEF Claim
        <4> QED BY <4>1, <1>0 DEF RowTypes
      <3>2. CASE Write(a) BY <3>2, <1>0 DEF Write, EndRun
      <3>3. CASE Fail(a) BY <3>3, <1>0 DEF Fail, Recorded, EndRun
      <3>4. CASE Discard(a) BY <3>4, <1>0 DEF Discard, EndRun
      <3>5. ASSUME ~Claim(a), ~Write(a), ~Fail(a), ~Discard(a) PROVE UNCHANGED status
        BY <2>3, <3>5 DEF WorkerStep, Peek, FileLockBusy, Activate, Check, Extract, Commit,
                          Finish, Clean, Sweep
      <3> QED BY <3>1, <3>2, <3>3, <3>4, <3>5
    <2>4. ASSUME NEW a \in Apis, LifeStep(a) PROVE Stays
      <3>1. CASE BootInterrupt(a) BY <3>1 DEF BootInterrupt, EndRun
      <3>2. CASE HaltCurrent(a) BY <3>2 DEF HaltCurrent, EndRun
      <3>3. CASE HaltQueued(a) BY <3>3 DEF HaltQueued, EndRun
      <3>4. CASE BootClean(a) \/ BootFail(a) BY <3>4 DEF BootClean, BootFail
      <3> QED BY <2>4, <3>1, <3>2, <3>3, <3>4 DEF LifeStep
    <2>5. ASSUME NEW a \in Apis,
                 \/ TakeFileLock(a) \/ StartCleanup(a) \/ Monitor(a) \/ BootOwn(a)
                 \/ Halt(a) \/ Crash(a) \/ LoseLock(a)
          PROVE  Stays
      BY <2>5 DEF TakeFileLock, StartCleanup, Monitor, BootOwn, Halt, Crash, LoseLock
    <2>6. CASE Revoke \/ Age \/ UNCHANGED vars
      BY <2>6 DEF Revoke, Age, vars
    <2>7. ASSUME NEW a \in Apis, Drop(a) PROVE Stays \/ r \in expired
      BY <2>7 DEF Drop, EndRun
    <2>8. ASSUME NEW a \in Apis, WorkerStep(a) PROVE Stays \/ r \in expired
      BY <2>3, <2>7, <2>8
    <2>9. (\A c \in Clients, a \in Apis : ~NewRequest(c, a)) \/ Stays \/ r \in expired BY <2>1
    <2>10. (\A c \in Clients : ~ClientStep(c)) \/ Stays \/ r \in expired BY <2>2
    <2> QED BY <2>4, <2>5, <2>6, <2>8, <2>9, <2>10 DEF Next
  <1> QED BY <1>1, <1>3, <1>4, <1>5

\* Only time takes a row past its retention, and only an admission adds a job.
LEMMA AgesWritten ==
  ASSUME [Next]_vars
  PROVE  /\ UNCHANGED expired \/ Age
         /\ UNCHANGED job \/ \E c \in Clients : cpc[c] = "reserve" /\ ReserveCreate(c) /\ UNCHANGED pending
  <1> DEFINE Kept == UNCHANGED <<expired, job>>
  <1>1. ASSUME NEW c \in Clients, NEW a \in Apis, NewRequest(c, a) PROVE Kept
    BY <1>1 DEF NewRequest, Register, Replace, Derive, Retry, RetryRecovered, Begin,
                ManageLock, Stop
  <1>2. ASSUME NEW c \in Clients, ClientStep(c), ~(cpc[c] = "reserve" /\ ReserveCreate(c) /\ UNCHANGED pending)
        PROVE  Kept
    BY <1>2 DEF ClientStep, Enter, Recheck, Stage, Reserve, ReserveBind, ReserveRefuse,
                Settle, StopAbort, ManageCommit
  <1>3. ASSUME NEW c \in Clients, ClientStep(c) PROVE UNCHANGED expired
    BY <1>3 DEF ClientStep, Enter, Recheck, Stage, Reserve, Settle, StopAbort, ManageCommit
  <1>4. ASSUME NEW a \in Apis, WorkerStep(a) PROVE Kept
    BY <1>4 DEF WorkerStep, Peek, FileLockBusy, Claim, Activate, Check, Extract, Commit,
                Write, Fail, Finish, Clean, Discard, Sweep, Drop
  <1>5. ASSUME NEW a \in Apis, LifeStep(a) PROVE Kept
    BY <1>5 DEF LifeStep, BootInterrupt, BootClean, BootFail, HaltCurrent, HaltQueued
  <1>6. ASSUME NEW a \in Apis,
               \/ TakeFileLock(a) \/ StartCleanup(a) \/ Monitor(a) \/ BootOwn(a)
               \/ Halt(a) \/ Crash(a) \/ LoseLock(a)
        PROVE  Kept
    BY <1>6 DEF TakeFileLock, StartCleanup, Monitor, BootOwn, Halt, Crash, LoseLock
  <1>7. Revoke \/ UNCHANGED vars => Kept
    BY DEF Revoke, vars
  <1>8. Age => UNCHANGED job BY DEF Age
  <1> QED BY <1>1, <1>2, <1>3, <1>4, <1>5, <1>6, <1>7, <1>8 DEF Next

\* An identifier stays bound to its run until the run is past its retention.
LEMMA BoundStays ==
  ASSUME IndInv, [Next]_vars, NEW q \in Requests, bound[q] \in RunIds \ expired
  PROVE  bound'[q] = bound[q]
  <1>0. RowTypes BY DEF IndInv, TypeOK
  <1>1. ASSUME NEW c \in Clients, NEW a \in Apis, NewRequest(c, a) PROVE bound'[q] = bound[q]
    <2>1. ASSUME NEW x \in Requests, NEW p \in RunIds, RetryRecovered(c, a, x, p)
          PROVE  bound'[q] = bound[q]
      BY <1>0, <2>1 DEF RetryRecovered, RowTypes
    <2>2. ASSUME ~\E x \in Requests, p \in RunIds : RetryRecovered(c, a, x, p)
          PROVE  UNCHANGED bound
      BY <1>1, <2>2 DEF NewRequest, Register, Replace, Derive, Retry, Begin, ManageLock, Stop
    <2> QED BY <2>1, <2>2
  <1>2. ASSUME NEW c \in Clients, ClientStep(c) PROVE bound'[q] = bound[q]
    <2>1. CASE Recheck(c) \/ Reserve(c)
      BY <1>0, <2>1 DEF Recheck, Reserve, ReserveCreate, ReserveBind, ReserveRefuse, Known, RowTypes
    <2>2. CASE ~Recheck(c) /\ ~Reserve(c)
      BY <1>2, <2>2 DEF ClientStep, Enter, Stage, Settle, StopAbort, ManageCommit
    <2> QED BY <2>1, <2>2
  <1>3. ASSUME NEW a \in Apis, WorkerStep(a) PROVE bound'[q] = bound[q]
    <2>1. CASE Drop(a) BY <2>1 DEF Drop
    <2>2. CASE ~Drop(a)
      BY <1>3, <2>2 DEF WorkerStep, Peek, FileLockBusy, Claim, Activate, Check, Extract, Commit,
                Write, Fail, Finish, Clean, Discard, Sweep
    <2> QED BY <2>1, <2>2
  <1>4. ASSUME NEW a \in Apis, LifeStep(a) PROVE bound'[q] = bound[q]
    BY <1>4 DEF LifeStep, BootInterrupt, BootClean, BootFail, HaltCurrent, HaltQueued
  <1>5. ASSUME NEW a \in Apis,
               \/ TakeFileLock(a) \/ StartCleanup(a) \/ Monitor(a) \/ BootOwn(a)
               \/ Halt(a) \/ Crash(a) \/ LoseLock(a)
        PROVE  bound'[q] = bound[q]
    BY <1>5 DEF TakeFileLock, StartCleanup, Monitor, BootOwn, Halt, Crash, LoseLock
  <1>6. Revoke \/ Age \/ UNCHANGED vars => bound'[q] = bound[q]
    BY DEF Revoke, Age, vars
  <1> QED BY <1>1, <1>2, <1>3, <1>4, <1>5, <1>6 DEF Next

\* A request that admission has not decided keeps asking for the same, or has just
\* begun.
SameCall(c) ==
  /\ creq'[c].op = creq[c].op /\ creq'[c].req = creq[c].req
  /\ creq'[c].target = creq[c].target /\ creq'[c].parent = creq[c].parent
  /\ creq'[c].family = creq[c].family
NewCall(c) ==
  \E a \in Apis, q \in Requests :
    \/ \E x \in Contents : Register(c, a, q, x)
    \/ \E o \in RunIds, x \in Contents : Replace(c, a, q, o, x)
    \/ \E o \in RunIds, op \in Operations : Derive(c, a, q, o, op)
    \/ \E p \in RunIds : Retry(c, a, q, p)

LEMMA CallsGo ==
  ASSUME IndInv, [Next]_vars, NEW c \in Clients, Asking(c)'
  PROVE  \/ /\ Asking(c) /\ SameCall(c)
            /\ \/ creq'[c].key = creq[c].key /\ (cpc'[c] = "reserve" <=> cpc[c] = "reserve")
               \/ Stage(c)
         \/ NewCall(c)
  <1>0. ClientTypes BY DEF IndInv, TypeOK
  <1> DEFINE Same == creq'[c] = creq[c] /\ cpc'[c] = cpc[c]
  <1> DEFINE Keeps == /\ Asking(c) /\ SameCall(c)
                      /\ \/ creq'[c].key = creq[c].key /\ (cpc'[c] = "reserve" <=> cpc[c] = "reserve")
                         \/ Stage(c)
  <1>s. Same => Keeps BY DEF Asking, SameCall
  <1>1. ASSUME NEW d \in Clients, NEW a \in Apis, NewRequest(d, a) PROVE Same \/ NewCall(c)
    <2>1. CASE NewCall(d)
      <3>1. ASSUME NEW b \in Apis, NEW q, Begin(d, b, q), d # c PROVE Same
        BY <1>0, <3>1 DEF Begin, ClientTypes
      <3>2. ASSUME NEW b \in Apis, NEW q \in Requests, d # c,
                   \/ \E x \in Contents : Register(d, b, q, x)
                   \/ \E o \in RunIds, x \in Contents : Replace(d, b, q, o, x)
            PROVE  Same
        BY <3>1, <3>2 DEF Register, Replace
      <3>3. ASSUME NEW b \in Apis, NEW q \in Requests, d # c,
                   \/ \E o \in RunIds, op \in Operations : Derive(d, b, q, o, op)
                   \/ \E p \in RunIds : Retry(d, b, q, p)
            PROVE  Same
        <4> HIDE DEF Same
        <4> QED BY <3>1, <3>3, RetryCall DEF Derive
      <3> HIDE DEF Same
      <3> QED BY <2>1, <3>2, <3>3 DEF NewCall
    <2>2. ASSUME NEW r \in RunIds, Stop(d, a, r) PROVE Same
      BY <1>0, <2>2 DEF Stop, ClientTypes, Asking
    <2>3. ASSUME NEW o \in RunIds, NEW op \in {"remove", "scope"}, ManageLock(d, a, o, op) PROVE Same
      BY <1>0, <2>3 DEF ManageLock, ClientTypes, Asking
    <2>4. ASSUME NEW q \in Requests, NEW p \in RunIds, RetryRecovered(d, a, q, p) PROVE Same
      BY <2>4 DEF RetryRecovered
    <2> HIDE DEF Same
    <2> QED BY <1>1, <2>1, <2>2, <2>3, <2>4 DEF NewRequest, NewCall
  <1>2. ASSUME NEW d \in Clients, ClientStep(d) PROVE Keeps
    <2>1. CASE Enter(d) BY <1>0, <2>1 DEF Enter, EndRequest, Go, Asking, SameCall, ClientTypes
    <2>2. CASE Recheck(d) BY <1>0, <2>2 DEF Recheck, EndRequest, Go, Asking, SameCall, ClientTypes
    <2>3. CASE Stage(d)
      <3>1. SameCall(c) /\ Asking(c)
        BY <1>0, <2>3 DEF Stage, Go, Asking, SameCall, ClientTypes, Calls
      <3>2. CASE d = c BY <2>3, <3>1, <3>2
      <3>3. CASE d # c
        <4>1. Same BY <1>0, <2>3, <3>3 DEF Stage, Go, ClientTypes
        <4> QED BY <1>s, <4>1
      <3> QED BY <3>2, <3>3
    <2>4. CASE Reserve(d)
      BY <1>0, <2>4 DEF Reserve, ReserveCreate, ReserveBind, ReserveRefuse, Go, Asking, SameCall,
                        ClientTypes, Calls
    <2>5. CASE Settle(d) \/ StopAbort(d) \/ ManageCommit(d)
      BY <1>0, <2>5 DEF Settle, StopAbort, ManageCommit, EndRequest, Asking, SameCall, ClientTypes
    <2> QED BY <1>2, <2>1, <2>2, <2>3, <2>4, <2>5 DEF ClientStep
  <1>3. ASSUME NEW a \in Apis, WorkerStep(a) PROVE Same
    BY <1>3 DEF WorkerStep, Peek, FileLockBusy, Claim, Activate, Check, Extract, Commit,
                Write, Fail, Finish, Clean, Discard, Sweep, Drop
  <1>4. ASSUME NEW a \in Apis, LifeStep(a) PROVE Same
    BY <1>4 DEF LifeStep, BootInterrupt, BootClean, BootFail, HaltCurrent, HaltQueued
  <1>5. ASSUME NEW a \in Apis, Crash(a) PROVE Same
    BY <1>0, <1>5 DEF Crash, ClientTypes, Asking
  <1>6. ASSUME NEW a \in Apis,
               \/ TakeFileLock(a) \/ StartCleanup(a) \/ Monitor(a) \/ BootOwn(a)
               \/ Halt(a) \/ LoseLock(a)
        PROVE  Same
    BY <1>6 DEF TakeFileLock, StartCleanup, Monitor, BootOwn, Halt, LoseLock
  <1>7. Revoke \/ Age \/ UNCHANGED vars => Same BY DEF Revoke, Age, vars
  <1> HIDE DEF Same
  <1> QED BY <1>s, <1>1, <1>2, <1>3, <1>4, <1>5, <1>6, <1>7 DEF Next

\* The row that an admission adds.
LEMMA AdmittedRow ==
  ASSUME IndInv, NEW c \in Clients, cpc[c] = "reserve", ReserveCreate(c)
  PROVE  \E r \in NextRun : /\ job' = [job EXCEPT ![r] = JobOf(creq[c])]
                            /\ status' = [status EXCEPT ![r] = "queued"]
                            /\ bound' = [bound EXCEPT ![creq[c].req] = r]
                            /\ status[r] = "absent" /\ r \notin expired
  BY DEF ReserveCreate, NextRun, IndInv, ExpiredEnded

\* What an admitted upload is filed under.
LEMMA UploadFiled ==
  ASSUME IndInv, UploadJobs, UploadCalls, NEW c \in Clients, cpc[c] = "reserve"
  PROVE  LET q == creq[c] IN
         /\ q.op # "register" => TargetKey(q) \notin UploadKeys
         /\ q.op = "register" =>
              /\ q.target = NoRun /\ TargetKey(q) \in UploadKeys
              /\ q.parent = NoRun => TargetKey(q) = <<"upload", q.req>>
              /\ q.parent # NoRun => TargetKey(q) = q.family
  <1>1. /\ creq[c] \in Calls /\ creq[c].req \in Requests /\ creq[c].op \in Operations
        /\ creq[c].op # "register" => creq[c].target \in RunIds
    BY DEF IndInv, TypeOK, ClientTypes, CallsSound, ProperJob
  <1>2. CASE creq[c].op # "register"
    BY <1>1, <1>2, ConstantsAssumption DEF TargetKey, UploadKeys
  <1>3. CASE creq[c].op = "register"
    <2>1. creq[c].target = NoRun BY <1>3 DEF UploadCalls, Asking
    <2>2. CASE creq[c].parent = NoRun
      BY <1>1, <1>3, <2>1, <2>2 DEF UploadCalls, Asking, FirstUpload, TargetKey, UploadKeys
    <2>3. CASE creq[c].parent # NoRun
      <3>1. RetriedUpload(creq[c]) /\ creq[c].parent \in RunIds
        BY <1>1, <1>3, <2>3 DEF UploadCalls, Asking, Calls
      <3>2. creq[c].family \in UploadKeys BY <3>1 DEF RetriedUpload, UploadJobs
      <3>3. creq[c].family # NoFamily BY <3>2 DEF UploadKeys, NoFamily
      <3> QED BY <1>3, <2>1, <2>3, <3>2, <3>3 DEF TargetKey
    <2> QED BY <1>3, <2>1, <2>2, <2>3
  <1> QED BY <1>2, <1>3

\* Every row keeps its family, and gets it only with its job.
LEMMA NextUploadJobs ==
  ASSUME IndInv, UploadJobs, UploadCalls, [Next]_vars
  PROVE  UploadJobs'
  <1> SUFFICES ASSUME NEW r \in RunIds
               PROVE  /\ job'[r].op = "register" => job'[r].key \in UploadKeys /\ job'[r].target = NoRun
                      /\ job'[r].key \in UploadKeys => job'[r].op = "register"
                      /\ status'[r] = "absent" => job'[r].op = "none"
                      /\ status'[r] = "gone" => r \in expired'
    BY DEF UploadJobs, UploadKeys
  <1>0. RowTypes BY DEF IndInv, TypeOK
  <1>1. status'[r] = "gone" => r \in expired'
    <2>1. status'[r] = "gone" => r \in expired BY RowsGo DEF UploadJobs
    <2>2. r \in expired => r \in expired'
      BY AgesWritten DEF Age, IndInv, ExpiredEnded
    <2> QED BY <2>1, <2>2
  <1>2. CASE job'[r] = job[r]
    BY <1>1, <1>2, RowsGo DEF UploadJobs
  <1>3. CASE job'[r] # job[r]
    <2>1. PICK c \in Clients : cpc[c] = "reserve" /\ ReserveCreate(c) BY <1>3, AgesWritten
    <2>2. job'[r] = JobOf(creq[c]) /\ status'[r] = "queued"
      BY <1>0, <1>3, <2>1, AdmittedRow DEF RowTypes, NextRun
    <2> QED BY <1>1, <2>1, <2>2, UploadFiled DEF JobOf
  <1> QED BY <1>2, <1>3

\* A request that begins.
LEMMA NewUpload ==
  ASSUME IndInv, UploadJobs, NEW c \in Clients, NewCall(c), creq'[c].op = "register"
  PROVE  /\ creq'[c].target = NoRun
         /\ creq'[c].parent = NoRun => FirstUpload(creq'[c])
         /\ creq'[c].parent # NoRun => RetriedUpload(creq'[c])
  <1>0. ClientTypes /\ RowTypes BY DEF IndInv, TypeOK
  <1>1. ASSUME NEW a \in Apis, NEW q \in Requests, NEW x \in Contents, Register(c, a, q, x)
        PROVE  creq'[c].target = NoRun /\ creq'[c].parent = NoRun /\ FirstUpload(creq'[c])
    <2>1. creq'[c] = [[NoRequest EXCEPT !.req = q, !.op = "register", !.content = x]
                        EXCEPT !.api = a, !.sess = epoch]
      BY <1>0, <1>1 DEF Register, Begin, ClientTypes
    <2>2. /\ creq'[c].target = NoRun /\ creq'[c].parent = NoRun
          /\ creq'[c].family = NoFamily /\ creq'[c].req = q
      BY <2>1 DEF NoRequest
    <2>3. \A r \in RunIds : job[r].key # <<"upload", q>> BY <1>1 DEF Register, Asks
    <2> QED BY <2>2, <2>3 DEF FirstUpload
  <1>2. ASSUME NEW a \in Apis, NEW q \in Requests, NEW o \in RunIds, NEW x \in Contents,
               Replace(c, a, q, o, x)
        PROVE  FALSE
    BY <1>0, <1>2 DEF Replace, Begin, ClientTypes, NoRequest
  <1>3. ASSUME NEW a \in Apis, NEW q \in Requests, NEW o \in RunIds, NEW op \in Operations,
               Derive(c, a, q, o, op)
        PROVE  FALSE
    BY <1>0, <1>3 DEF Derive, Begin, ClientTypes, NoRequest
  <1>4. ASSUME NEW a \in Apis, NEW q \in Requests, NEW p \in RunIds, Retry(c, a, q, p)
        PROVE  creq'[c].target = NoRun /\ creq'[c].parent # NoRun /\ RetriedUpload(creq'[c])
    <2>1. /\ creq'[c].op = IF result[p] # 0 THEN "reprocess" ELSE job[p].op
          /\ creq'[c].parent = p /\ creq'[c].target = SourceOf(p)
          /\ creq'[c].family = IF creq'[c].op = "register" THEN job[p].key ELSE NoFamily
          /\ status[p] \in {"failed", "interrupted"}
      BY <1>0, <1>4 DEF Retry, Begin, ClientTypes, NoRequest
    <2>2. result[p] = 0 /\ job[p].op = "register" BY <2>1
    <2>3. job[p].target = NoRun BY <2>2 DEF UploadJobs
    <2> QED BY <2>1, <2>2, <2>3 DEF SourceOf, RetriedUpload, Ended
  <1> QED BY <1>1, <1>2, <1>3, <1>4 DEF NewCall

\* A request begins without touching the rows.
LEMMA NewCallRows ==
  ASSUME NEW c \in Clients, NewCall(c)
  PROVE  UNCHANGED rowVars
  <1>1. \A a \in Apis, q \in Requests, x \in Contents : Register(c, a, q, x) => UNCHANGED rowVars
    BY DEF Register, Begin
  <1>2. \A a \in Apis, q \in Requests, o \in RunIds, x \in Contents :
          Replace(c, a, q, o, x) => UNCHANGED rowVars
    BY DEF Replace, Begin
  <1>3. \A a \in Apis, q \in Requests, o \in RunIds, op \in Operations :
          Derive(c, a, q, o, op) => UNCHANGED rowVars
    BY DEF Derive, Begin
  <1>4. \A a \in Apis, q \in Requests, p \in RunIds : Retry(c, a, q, p) => UNCHANGED rowVars
    BY DEF Retry, Begin
  <1> QED BY <1>1, <1>2, <1>3, <1>4 DEF NewCall

\* Whoever runs under the identifier of a first upload has taken it.
LEMMA FirstUploadStays ==
  ASSUME IndInv, UploadJobs, UploadCalls, [Next]_vars,
         NEW q \in Calls, q.req \in Requests, FirstUpload(q),
         NEW c \in Clients, creq[c].req = q.req
  PROVE  FirstUpload(q)'
  <1> SUFFICES ASSUME NEW r \in RunIds, job'[r].key = <<"upload", q.req>>
               PROVE  /\ bound'[q.req] \in RunIds \ expired'
                      /\ job'[bound'[q.req]].key = <<"upload", q.req>>
    BY DEF FirstUpload
  <1>0. RowTypes BY DEF IndInv, TypeOK
  <1>1. ASSUME NEW s \in RunIds, job[s].key = <<"upload", q.req>>
        PROVE  /\ bound'[q.req] \in RunIds \ expired'
               /\ job'[bound'[q.req]].key = <<"upload", q.req>>
    <2>1. PICK b : b = bound[q.req] OBVIOUS
    <2>2. b \in RunIds \ expired /\ job[b].key = <<"upload", q.req>>
      BY <1>1, <2>1 DEF FirstUpload
    <2>3. bound'[q.req] = b BY <2>1, <2>2, BoundStays
    <2>4. status[b] # "absent" /\ status[b] # "gone"
      BY <2>2 DEF UploadJobs, UploadKeys
    <2>5. job'[b] = job[b] BY <2>2, <2>4, JobsWritten
    <2>6. b \notin expired'
      <3>1. CASE UNCHANGED expired BY <2>2, <3>1
      <3>2. CASE Age
        <4>1. status[b] \notin Final BY <2>2, <3>2 DEF Age
        <4> QED BY <2>4, <3>2, <4>1 DEF Age
      <3> QED BY <3>1, <3>2, AgesWritten
    <2> QED BY <2>2, <2>3, <2>5, <2>6
  <1>2. CASE job[r].key = <<"upload", q.req>> BY <1>1, <1>2
  <1>3. CASE job[r].key # <<"upload", q.req>>
    <2>1. PICK d \in Clients : cpc[d] = "reserve" /\ ReserveCreate(d) BY <1>3, AgesWritten
    <2>2. /\ job'[r] = JobOf(creq[d]) /\ status[r] = "absent" /\ r \notin expired
          /\ bound' = [bound EXCEPT ![creq[d].req] = r]
      BY <1>0, <1>3, <2>1, AdmittedRow DEF RowTypes
    <2>3. creq[d].op = "register" /\ TargetKey(creq[d]) = <<"upload", q.req>>
      BY <2>1, <2>2, UploadFiled DEF JobOf, UploadKeys
    <2>4. CASE creq[d].parent = NoRun
      <3>1. creq[d].req = q.req BY <2>1, <2>3, <2>4, UploadFiled
      <3>2. bound'[q.req] = r BY <1>0, <2>2, <3>1 DEF RowTypes
      <3>3. ~Age
        <4>1. bound[q.req] = NoRun BY <2>1, <3>1 DEF ReserveCreate, Known
        <4> QED BY <3>2, <4>1 DEF Age
      <3>4. r \notin expired' BY <2>2, <3>3, AgesWritten
      <3> QED BY <3>2, <3>4
    <2>5. CASE creq[d].parent # NoRun
      <3>1. RetriedUpload(creq[d]) /\ creq[d].parent \in RunIds
        BY <2>1, <2>3, <2>5 DEF UploadCalls, Asking, IndInv, TypeOK, ClientTypes, Calls
      <3>2. job[creq[d].parent].key = <<"upload", q.req>>
        BY <2>1, <2>3, <2>5, <3>1, UploadFiled DEF RetriedUpload
      <3> QED BY <1>1, <3>1, <3>2
    <2> QED BY <2>4, <2>5
  <1> QED BY <1>2, <1>3

\* A run that ended without success stays so, and keeps its family.
LEMMA RetriedUploadStays ==
  ASSUME IndInv, [Next]_vars, NEW q \in Calls, q.parent # NoRun, RetriedUpload(q)
  PROVE  RetriedUpload(q)'
  <1>1. q.parent \in RunIds /\ status[q.parent] \in Ended BY DEF RetriedUpload, Calls
  <1>2. job'[q.parent] = job[q.parent] BY <1>1, JobsWritten DEF Ended
  <1>3. status'[q.parent] \in Ended BY <1>1, RowsGo DEF Ended
  <1> QED BY <1>2, <1>3 DEF RetriedUpload

\* Every step, for the requests that have begun and for one that begins.
LEMMA NextUploadCalls ==
  ASSUME IndInv, IndInv', UploadJobs, UploadCalls, [Next]_vars
  PROVE  UploadCalls'
  <1> SUFFICES ASSUME NEW c \in Clients, Asking(c)', creq'[c].op = "register"
               PROVE  /\ creq'[c].target = NoRun
                      /\ creq'[c].parent = NoRun => FirstUpload(creq[c])'
                      /\ creq'[c].parent # NoRun => RetriedUpload(creq[c])'
    BY DEF UploadCalls
  <1>1. PICK q : q = creq'[c] OBVIOUS
  <1>2. q \in Calls BY <1>1 DEF IndInv, TypeOK, ClientTypes
  <1>3. q.target = NoRun /\ (q.parent = NoRun => FirstUpload(q)') /\ (q.parent # NoRun => RetriedUpload(q)')
    <2>1. CASE NewCall(c)
      <3>1. /\ q.target = NoRun
            /\ q.parent = NoRun => FirstUpload(q)
            /\ q.parent # NoRun => RetriedUpload(q)
        BY <1>1, <2>1, NewUpload
      <3>2. UNCHANGED <<bound, job, status, expired>> BY <2>1, NewCallRows
      <3> QED BY <3>1, <3>2 DEF FirstUpload, RetriedUpload
    <2>2. CASE Asking(c) /\ SameCall(c)
      <3>1. /\ creq[c].op = "register" /\ creq[c].req = q.req /\ creq[c].target = q.target
            /\ creq[c].parent = q.parent /\ creq[c].family = q.family
        BY <1>1, <2>2 DEF SameCall
      <3>2. /\ q.target = NoRun
            /\ q.parent = NoRun => FirstUpload(q)
            /\ q.parent # NoRun => RetriedUpload(q)
        BY <2>2, <3>1 DEF UploadCalls, FirstUpload, RetriedUpload
      <3>3. q.req \in Requests BY <2>2, <3>1 DEF IndInv, CallsSound, Asking
      <3> QED BY <1>2, <3>1, <3>2, <3>3, FirstUploadStays, RetriedUploadStays
    <2> QED BY <2>1, <2>2, CallsGo
  <1> QED BY <1>1, <1>3 DEF FirstUpload, RetriedUpload

\* A success of a family leaves nothing of it that could still run.
LEMMA NextFamilyEnded ==
  ASSUME IndInv, AdmissionBounded, FamilySound, UploadJobs', [Next]_vars
  PROVE  FamilyEnded'
  <1> USE DEF FamilySound
  <1> SUFFICES ASSUME NEW s \in RunIds, NEW r \in RunIds,
                      status'[s] = "succeeded", job'[s].op = "register",
                      r # s, job'[r].key = job'[s].key
               PROVE  status'[r] \in Ended /\ (s \in expired' => r \in expired')
    BY DEF FamilyEnded
  <1>0. RowTypes BY DEF IndInv, TypeOK
  <1>1. status[s] \in {"running", "succeeded"} BY RowsGo
  <1>2. job'[s] = job[s] BY <1>1, JobsWritten
  <1>3. job[s].op = "register" /\ job[s].key \in UploadKeys BY <1>2 DEF UploadJobs
  <1>4. s \in expired' => s \in expired \/ Age BY AgesWritten
  <1>5. CASE job'[r] = job[r]
    <2>1. job[r].key = job[s].key /\ job[r].op = "register" /\ status[r] # "absent"
      BY <1>2, <1>3, <1>5 DEF UploadJobs
    <2>2. status[r] \in Ended
      <3>1. CASE status[s] = "succeeded" BY <1>3, <2>1, <3>1 DEF FamilyEnded
      <3>2. CASE status[s] = "running"
        <4>1. status[r] \notin Active
          BY <2>1, <3>2 DEF AdmissionBounded, ActiveRuns
        <4>2. status[r] # "succeeded"
          BY <2>1, <3>2 DEF FamilyEnded, Ended
        <4> QED BY <1>0, <2>1, <4>1, <4>2 DEF RowTypes, Ended
      <3> QED BY <1>1, <3>1, <3>2
    <2>3. status'[r] \in Ended BY <2>2, RowsGo DEF Ended
    <2>4. ASSUME s \in expired' PROVE r \in expired'
      <3>1. CASE Age BY <2>2, <3>1 DEF Age, Ended
      <3>2. CASE ~Age
        <4>1. s \in expired /\ UNCHANGED expired BY <2>4, <3>2, AgesWritten
        <4>2. status[s] = "succeeded" BY <1>1, <4>1 DEF IndInv, ExpiredEnded
        <4> QED BY <1>3, <2>1, <4>1, <4>2 DEF FamilyEnded
      <3> QED BY <3>1, <3>2
    <2> QED BY <2>3, <2>4
  <1>6. CASE job'[r] # job[r]
    <2>1. PICK c \in Clients : cpc[c] = "reserve" /\ ReserveCreate(c) BY <1>6, AgesWritten
    <2>2. job'[r] = JobOf(creq[c]) /\ status' = [status EXCEPT ![r] = "queued"]
      BY <1>0, <1>6, <2>1, AdmittedRow DEF RowTypes
    <2>3. status[s] = "succeeded" BY <1>0, <2>2 DEF RowTypes
    <2>4. creq[c].op = "register" /\ TargetKey(creq[c]) = job[s].key
      BY <1>2, <1>3, <2>1, <2>2, UploadFiled DEF JobOf
    <2>5. Known(creq[c]) /\ Found(creq[c]) = {} BY <2>1 DEF ReserveCreate
    <2>6. CASE creq[c].parent = NoRun
      <3>1. FirstUpload(creq[c]) /\ job[s].key = <<"upload", creq[c].req>>
        BY <2>1, <2>4, <2>6, UploadFiled DEF UploadCalls, Asking
      <3> QED BY <2>5, <3>1 DEF FirstUpload, Known
    <2>7. CASE creq[c].parent # NoRun
      <3>1. PICK p \in RunIds : p = creq[c].parent
        BY <2>7 DEF IndInv, TypeOK, ClientTypes, Calls
      <3>2. job[p].key = job[s].key /\ status[p] \in Ended /\ creq[c].family = job[s].key
        BY <2>1, <2>4, <2>7, <3>1, UploadFiled DEF UploadCalls, Asking, RetriedUpload
      <3>3. p \in Retained BY <2>5, <2>7, <3>1 DEF Known
      <3>4. s \notin Retained
        <4>1. job[s].key # NoFamily BY <1>3 DEF UploadKeys, NoFamily
        <4>2. s \notin Recovered(p, job[s].key) BY <2>5, <2>7, <3>1, <3>2 DEF Found
        <4> QED BY <2>3, <4>1, <4>2 DEF Recovered
      <3>5. s \in expired BY <2>3, <3>4 DEF Retained, Rows
      <3>6. p # s BY <2>3, <3>2 DEF Ended
      <3>7. p \in expired BY <1>3, <2>3, <3>2, <3>5, <3>6 DEF FamilyEnded
      <3> QED BY <3>3, <3>7 DEF Retained
    <2> QED BY <2>6, <2>7
  <1> QED BY <1>5, <1>6

\* In the beginning there are no rows.
LEMMA InitFamily == Init => FamilySound
  <1> SUFFICES ASSUME Init PROVE FamilySound OBVIOUS
  <1>1. UploadJobs BY DEF Init, UploadJobs, NoJob, UploadKeys
  <1>2. UploadCalls BY DEF Init, UploadCalls, Asking
  <1>3. FamilyEnded BY DEF Init, FamilyEnded
  <1> QED BY <1>1, <1>2, <1>3 DEF FamilySound

\* The three parts together, which rely on one run of a family being active at most.
LEMMA NextFamily ==
  ASSUME IndInv, IndInv', AdmissionBounded, FamilySound, [Next]_vars
  PROVE  FamilySound'
  BY NextUploadJobs, NextUploadCalls, NextFamilyEnded DEF FamilySound

\* However often and from wherever the failed runs of an upload are retried, and
\* however retention thins out its runs, no two retained runs register it.
THEOREM OneSuccess == Spec => []OneSuccessPerUpload
  <1>1. FamilySound => OneSuccessPerUpload
    <2> SUFFICES ASSUME FamilySound, NEW r \in Retained, NEW s \in Retained,
                        status[r] = "succeeded", status[s] = "succeeded",
                        job[r].op = "register", job[s].op = "register", job[r].key = job[s].key,
                        r # s
                 PROVE  FALSE
      BY DEF OneSuccessPerUpload
    <2>1. r \in RunIds /\ s \in RunIds BY DEF Retained, Rows
    <2> QED BY <2>1 DEF FamilySound, FamilyEnded, Ended
  <1>2. Spec => []IndInv BY Invariant
  <1>3. Spec => []AdmissionBounded BY AdmissionSafe
  <1> QED BY <1>1, <1>2, <1>3, InitFamily, NextFamily, PTL DEF Spec

-----------------------------------------------------------------------------
(* Pending inputs                                                           *)

\* The uploads whose input must be kept: they are active, or could be retried.
Needed(r) ==
  /\ r \in Retained
  /\ job[r].op \in {"register", "replace"} /\ result[r] = 0
  /\ code[r] # "sensitive_file"
  /\ job[r].target # NoRun => Available(job[r].target)
  /\ status[r] \in Active \/ Recovered(r, Family(r)) = {}

\* Rows: two rows never share an input, a target exists, and only what ended has a
\* code.
RowsSound ==
  /\ \A r, s \in RunIds : input[r] = input[s] /\ input[r] # NoKey => r = s
  /\ \A r \in RunIds : job[r].target # NoRun => latest[job[r].target] > 0
  /\ \A r \in RunIds : code[r] # "none" => status[r] \in Final \cup {"gone"}

\* An admission owns the file that it has staged.
InputsStaged ==
  \A c \in Clients :
    /\ cpc[c] \in {"enter", "recheck", "stage"} => creq[c].key = NoKey
    /\ cpc[c] = "reserve" =>
         IF creq[c].op \in {"register", "replace"}
         THEN creq[c].key \in pending /\ \A r \in RunIds : input[r] # creq[c].key
         ELSE creq[c].key = NoKey

\* A cleanup holds the input lock; what it has read of a row is still true as far
\* as it decides about its file, and a file that it has removed is not needed.
CleanupsSound ==
  \A a \in Apis :
    /\ InInput(a) => inputLock = a
    /\ \A r \in RunIds : seen[a][r] # "none" =>
         status[r] # "absent" /\ (seen[a][r] \in Final => status[r] \in Final \cup {"gone"})
    /\ wpc[a] = "discard" => status[wrun[a]] # "absent" /\ ~Needed(wrun[a])

InputsSound == RowsSound /\ InputsStaged /\ CleanupsSound

\* An error code is written where a run ends, and stays.
LEMMA CodesGo ==
  ASSUME IndInv, [Next]_vars, NEW r \in RunIds
  PROVE  code'[r] = code[r] \/ (status[r] \in Active /\ status'[r] \in Final)
  <1>0. RowTypes BY DEF IndInv, TypeOK
  <1> DEFINE Goes == code'[r] = code[r] \/ (status[r] \in Active /\ status'[r] \in Final)
  <1>1. ASSUME NEW c \in Clients, NEW a \in Apis, NewRequest(c, a) PROVE Goes
    <2>1. ASSUME NEW x \in RunIds, Stop(c, a, x) PROVE Goes
      BY <1>0, <2>1 DEF Stop, EndRun, RowTypes
    <2>2. ASSUME ~\E x \in RunIds : Stop(c, a, x) PROVE UNCHANGED code
      BY <1>1, <2>2 DEF NewRequest, Register, Replace, Derive, Retry, RetryRecovered, Begin, ManageLock
    <2> QED BY <2>1, <2>2
  <1>2. ASSUME NEW c \in Clients, ClientStep(c) PROVE UNCHANGED code
    BY <1>2 DEF ClientStep, Enter, Recheck, Stage, Reserve, Settle, StopAbort, ManageCommit
  <1>3. ASSUME NEW a \in Apis, WorkerStep(a) PROVE Goes
    <2>1. CASE Fail(a)
      <3>1. PICK x : x = wrun[a] OBVIOUS
      <3>2. UNCHANGED code \/ /\ status[x] = "running"
                              /\ \E st \in {"interrupted", "failed"} : status' = EndRun({x}, st)
                              /\ \E why : code' = [code EXCEPT ![x] = why]
        BY <2>1, <3>1 DEF Fail, Recorded, StillRunning
      <3> QED BY <1>0, <3>2 DEF EndRun, RowTypes
    <2>2. CASE Discard(a)
      <3>1. PICK x : x = wrun[a] OBVIOUS
      <3>2. UNCHANGED code \/ /\ status[x] \in Active
                              /\ status' = EndRun({x}, "interrupted")
                              /\ code' = [code EXCEPT ![x] = "other"]
        BY <2>2, <3>1 DEF Discard
      <3> QED BY <1>0, <3>2 DEF EndRun, RowTypes
    <2>3. ASSUME ~Fail(a), ~Discard(a) PROVE UNCHANGED code
      BY <1>3, <2>3 DEF WorkerStep, Peek, FileLockBusy, Claim, Activate, Check, Extract, Commit,
                        Write, Finish, Clean, Sweep, Drop
    <2> QED BY <2>1, <2>2, <2>3
  <1>4. ASSUME NEW a \in Apis, LifeStep(a) PROVE Goes
    <2>1. CASE BootInterrupt(a)
      BY <1>0, <2>1 DEF BootInterrupt, LeftBehind, ActiveRuns, EndRun, RowTypes
    <2>2. CASE HaltCurrent(a)
      BY <1>0, <2>2 DEF HaltCurrent, EndRun, RowTypes
    <2>3. CASE HaltQueued(a)
      BY <1>0, <2>3 DEF HaltQueued, EndRun, RowTypes
    <2>4. CASE BootClean(a) \/ BootFail(a) BY <2>4 DEF BootClean, BootFail
    <2> QED BY <1>4, <2>1, <2>2, <2>3, <2>4 DEF LifeStep
  <1>5. ASSUME NEW a \in Apis,
               \/ TakeFileLock(a) \/ StartCleanup(a) \/ Monitor(a) \/ BootOwn(a)
               \/ Halt(a) \/ Crash(a) \/ LoseLock(a)
        PROVE  UNCHANGED code
    BY <1>5 DEF TakeFileLock, StartCleanup, Monitor, BootOwn, Halt, Crash, LoseLock
  <1>6. Revoke \/ Age \/ UNCHANGED vars => UNCHANGED code BY DEF Revoke, Age, vars
  <1>7. (\E c \in Clients, a \in Apis : NewRequest(c, a)) => Goes BY <1>1
  <1>8. (\E a \in Apis : WorkerStep(a)) => Goes BY <1>3
  <1>9. (\E a \in Apis : LifeStep(a)) => Goes BY <1>4
  <1> QED BY <1>2, <1>5, <1>6, <1>7, <1>8, <1>9 DEF Next

\* Inputs are written by an admission and emptied by a cleanup.
LEMMA InputsWritten ==
  ASSUME [Next]_vars
  PROVE  \/ UNCHANGED input
         \/ \E c \in Clients : cpc[c] = "reserve" /\ ReserveCreate(c)
         \/ \E a \in Apis : Discard(a)
  <1>1. ASSUME NEW c \in Clients, NEW a \in Apis, NewRequest(c, a) PROVE UNCHANGED input
    BY <1>1 DEF NewRequest, Register, Replace, Derive, Retry, RetryRecovered, Begin,
                ManageLock, Stop
  <1>2. ASSUME NEW c \in Clients, ClientStep(c), ~(cpc[c] = "reserve" /\ ReserveCreate(c))
        PROVE  UNCHANGED input
    BY <1>2 DEF ClientStep, Enter, Recheck, Stage, Reserve, ReserveBind, ReserveRefuse,
                Settle, StopAbort, ManageCommit
  <1>3. ASSUME NEW a \in Apis, WorkerStep(a), ~Discard(a) PROVE UNCHANGED input
    BY <1>3 DEF WorkerStep, Peek, FileLockBusy, Claim, Activate, Check, Extract, Commit,
                Write, Fail, Finish, Clean, Sweep, Drop
  <1>4. ASSUME NEW a \in Apis, LifeStep(a) PROVE UNCHANGED input
    BY <1>4 DEF LifeStep, BootInterrupt, BootClean, BootFail, HaltCurrent, HaltQueued
  <1>5. ASSUME NEW a \in Apis,
               \/ TakeFileLock(a) \/ StartCleanup(a) \/ Monitor(a) \/ BootOwn(a)
               \/ Halt(a) \/ Crash(a) \/ LoseLock(a)
        PROVE  UNCHANGED input
    BY <1>5 DEF TakeFileLock, StartCleanup, Monitor, BootOwn, Halt, Crash, LoseLock
  <1>6. Revoke \/ Age \/ UNCHANGED vars => UNCHANGED input
    BY DEF Revoke, Age, vars
  <1> QED BY <1>1, <1>2, <1>3, <1>4, <1>5, <1>6 DEF Next

\* Files come with an admission and go with its end or with a cleanup.
LEMMA PendingWritten ==
  ASSUME [Next]_vars
  PROVE  \/ UNCHANGED pending
         \/ \E c \in Clients : Stage(c) \/ Settle(c)
         \/ \E a \in Apis : Clean(a) \/ Sweep(a)
  <1>1. ASSUME NEW c \in Clients, NEW a \in Apis, NewRequest(c, a) PROVE UNCHANGED pending
    BY <1>1 DEF NewRequest, Register, Replace, Derive, Retry, RetryRecovered, Begin,
                ManageLock, Stop
  <1>2. ASSUME NEW c \in Clients, ClientStep(c), ~(Stage(c) \/ Settle(c)) PROVE UNCHANGED pending
    BY <1>2 DEF ClientStep, Enter, Recheck, Reserve, StopAbort, ManageCommit
  <1>3. ASSUME NEW a \in Apis, WorkerStep(a), ~(Clean(a) \/ Sweep(a)) PROVE UNCHANGED pending
    BY <1>3 DEF WorkerStep, Peek, FileLockBusy, Claim, Activate, Check, Extract, Commit,
                Write, Fail, Finish, Discard, Drop
  <1>4. ASSUME NEW a \in Apis, LifeStep(a) PROVE UNCHANGED pending
    BY <1>4 DEF LifeStep, BootInterrupt, BootClean, BootFail, HaltCurrent, HaltQueued
  <1>5. ASSUME NEW a \in Apis,
               \/ TakeFileLock(a) \/ StartCleanup(a) \/ Monitor(a) \/ BootOwn(a)
               \/ Halt(a) \/ Crash(a) \/ LoseLock(a)
        PROVE  UNCHANGED pending
    BY <1>5 DEF TakeFileLock, StartCleanup, Monitor, BootOwn, Halt, Crash, LoseLock
  <1>6. Revoke \/ Age \/ UNCHANGED vars => UNCHANGED pending
    BY DEF Revoke, Age, vars
  <1> QED BY <1>1, <1>2, <1>3, <1>4, <1>5, <1>6 DEF Next

\* An original that exists goes on to exist, and once deleted it stays deleted.
LEMMA SourcesGo ==
  ASSUME IndInv, [Next]_vars, NEW o \in RunIds, latest[o] > 0
  PROVE  latest'[o] > 0 /\ (Available(o)' => Available(o))
  <1>0. RowTypes /\ SourceTypes BY DEF IndInv, TypeOK
  <1>1. latest'[o] > 0
    <2>1. CASE UNCHANGED latest BY <2>1
    <2>2. ASSUME NEW a \in Apis, Write(a) PROVE latest'[o] > 0
      <3>1. wrun[a] \in RunIds BY <2>2 DEF Write, IndInv, WorkSound, Executing
      <3>2. PICK r \in RunIds : r = wrun[a] BY <3>1
      <3>3. CASE UNCHANGED latest BY <3>3
      <3>4. CASE latest' = [latest EXCEPT ![OriginalOf(r)] = ResultVersion(r)] /\ status[r] = "running"
        <4>1. CASE OriginalOf(r) # o BY <1>0, <3>4, <4>1 DEF SourceTypes
        <4>2. CASE OriginalOf(r) = o
          <5>1. latest'[o] = ResultVersion(r) BY <1>0, <3>4, <4>2 DEF SourceTypes
          <5>2. CASE job[r].op \in {"register", "replace"}
            BY <1>0, <4>2, <5>1, <5>2 DEF ResultVersion, SourceTypes
          <5>3. CASE job[r].op \notin {"register", "replace"}
            <6>1. job[r].base \in Nat /\ job[r].base # 0
              BY <1>0, <3>4, <5>3 DEF RowTypes, Jobs, IndInv, JobsSound, ProperJob
            <6> QED BY <5>1, <5>3, <6>1 DEF ResultVersion
          <5> QED BY <5>2, <5>3
        <4> QED BY <4>1, <4>2
      <3> QED BY <2>2, <3>2, <3>3, <3>4 DEF Write, StillRunning
    <2> QED BY <2>1, <2>2, VersionsWritten
  <1>2. o \in deleted => o \in deleted'
    BY SessionsWritten DEF ManageCommit
  <1> QED BY <1>1, <1>2 DEF Available

\* Rows stay apart as admissions write inputs and cleanups empty them.
LEMMA NextRows ==
  ASSUME IndInv, RowsSound, InputsStaged, [Next]_vars
  PROVE  RowsSound'
  <1>0. RowTypes BY DEF IndInv, TypeOK
  <1>1. ASSUME NEW r \in RunIds, NEW s \in RunIds, input'[r] = input'[s], input'[r] # NoKey
        PROVE  r = s
    <2>1. CASE UNCHANGED input BY <1>1, <2>1 DEF RowsSound
    <2>2. ASSUME NEW c \in Clients, cpc[c] = "reserve", ReserveCreate(c) PROVE r = s
      <3>1. PICK n \in RunIds : input' = [input EXCEPT ![n] = creq[c].key]
        BY <2>2 DEF ReserveCreate, NextRun
      <3>2. creq[c].key # NoKey => \A t \in RunIds : input[t] # creq[c].key
        BY <2>2 DEF InputsStaged
      <3> QED BY <1>0, <1>1, <3>1, <3>2 DEF RowsSound, RowTypes
    <2>3. ASSUME NEW a \in Apis, Discard(a) PROVE r = s
      <3>1. UNCHANGED input \/ input' = [input EXCEPT ![wrun[a]] = NoKey] BY <2>3 DEF Discard
      <3> QED BY <1>0, <1>1, <3>1 DEF RowsSound, RowTypes
    <2> QED BY <2>1, <2>2, <2>3, InputsWritten
  <1>2. ASSUME NEW r \in RunIds, job'[r].target # NoRun
        PROVE  latest'[job'[r].target] > 0
    <2>1. CASE job'[r] = job[r]
      <3>1. job[r].target \in RunIds BY <1>0, <1>2, <2>1 DEF RowTypes, Jobs
      <3> QED BY <1>2, <2>1, <3>1, SourcesGo DEF RowsSound
    <2>2. CASE job'[r] # job[r]
      <3>1. PICK c \in Clients : cpc[c] = "reserve" /\ ReserveCreate(c) BY <2>2, AgesWritten
      <3>2. job'[r] = JobOf(creq[c]) BY <1>0, <2>2, <3>1, AdmittedRow DEF RowTypes
      <3>3. job'[r].target = creq[c].target /\ creq[c].target \in RunIds
        BY <1>2, <3>2 DEF JobOf, IndInv, TypeOK, ClientTypes, Calls
      <3>4. latest[creq[c].target] > 0
        BY <1>2, <3>1, <3>3 DEF ReserveCreate, Fresh, Available
      <3> QED BY <3>3, <3>4, SourcesGo
    <2> QED BY <2>1, <2>2
  <1>3. ASSUME NEW r \in RunIds, code'[r] # "none"
        PROVE  status'[r] \in Final \cup {"gone"}
    BY <1>3, CodesGo, RowsGo DEF RowsSound
  <1> QED BY <1>1, <1>2, <1>3 DEF RowsSound

\* A row that exists does not come to need its input.
LEMMA NeededGo ==
  ASSUME IndInv, VersionsSound, RowsSound, [Next]_vars, NEW r \in RunIds, status[r] # "absent", Needed(r)'
  PROVE  Needed(r)
  <1>0. RowTypes BY DEF IndInv, TypeOK
  <1>1. job'[r] = job[r] BY JobsWritten
  <1>2. r \in Retained
    <2>1. status[r] # "gone" BY RowsGo DEF Needed, Retained, Rows
    <2>2. r \in expired => r \in expired' BY AgesWritten DEF Age, IndInv, ExpiredEnded
    <2> QED BY <1>0, <2>1, <2>2 DEF Needed, Retained, Rows, RowTypes
  <1>3. job[r].op \in {"register", "replace"} BY <1>1 DEF Needed
  <1>4. result[r] = 0
    <2>1. result[r] # 0 => status[r] # "running" BY DEF VersionsSound
    <2> QED BY <2>1, ResultsOfRunning DEF Needed
  <1>5. code[r] # "sensitive_file" BY CodesGo DEF Needed, RowsSound
  <1>6. job[r].target # NoRun => Available(job[r].target)
    <2> SUFFICES ASSUME job[r].target # NoRun PROVE Available(job[r].target) OBVIOUS
    <2>1. PICK o \in RunIds : o = job[r].target BY <1>0 DEF RowTypes, Jobs
    <2>2. Available(o)' BY <1>1, <2>1 DEF Needed
    <2> QED BY <2>1, <2>2, SourcesGo DEF RowsSound
  <1>7. ASSUME status[r] \notin Active, NEW s \in Recovered(r, Family(r)) PROVE FALSE
    <2>1. status[r] \in Final BY <1>0, <1>2, <1>7 DEF Retained, Rows
    <2>2. status'[r] = status[r] BY <2>1, RowsGo DEF Needed, Retained, Rows
    <2>3. ~Age BY <2>1 DEF Age, Needed, Retained
    <2>4. s \in RunIds /\ status[s] = "succeeded" /\ s \notin expired
      BY <1>7 DEF Recovered, Retained, Rows
    <2>5. status'[s] = "succeeded" /\ s \notin expired' BY <2>3, <2>4, RowsGo, AgesWritten
    <2>6. job'[s] = job[s] BY <2>4, JobsWritten
    <2>7. result'[r] = result[r] BY <2>1, ResultsOfRunning
    <2>8. s \in Recovered(r, Family(r))'
      BY <1>1, <1>7, <2>4, <2>5, <2>6, <2>7 DEF Recovered, Family, Retained, Rows
    <2> QED BY <2>1, <2>2, <2>8 DEF Needed
  <1> QED BY <1>2, <1>3, <1>4, <1>5, <1>6, <1>7 DEF Needed

\* What a cleanup discards is not needed.
LEMMA DiscardableNotNeeded ==
  ASSUME IndInv, UploadJobs, FamilyEnded, CleanupsSound, NEW a \in Apis, NEW r \in RunIds,
         seen[a][r] # "none", Discardable(r, seen[a][r]), Needed(r)
  PROVE  FALSE
  <1>0. RowTypes /\ WorkTypes BY DEF IndInv, TypeOK
  <1>1. result[r] = 0 /\ code[r] # "sensitive_file" /\ r \in Retained BY DEF Needed
  <1>2. ~Removed(r, seen[a][r]) BY <1>1 DEF Removed, SourceOf, Needed
  <1>3. seen[a][r] \notin Active /\ Superseded(r)
    BY <1>1, <1>2 DEF Discardable, Retained
  <1>4. seen[a][r] \in Final BY <1>0, <1>3 DEF WorkTypes
  <1>5. status[r] \in Final \cup {"gone"} BY <1>4 DEF CleanupsSound
  <1>6. Recovered(r, Family(r)) = {} BY <1>5 DEF Needed
  <1>7. PICK s \in Rows : job[s].key = job[r].key /\ status[s] = "succeeded" BY <1>3 DEF Superseded
  <1>8. job[r].op = "register" BY <1>3 DEF Superseded
  <1>9. job[r].key # NoFamily => s \in expired
    BY <1>1, <1>6, <1>7, <1>8 DEF Recovered, Family, Retained
  <1>10. job[r].key # NoFamily BY <1>8 DEF UploadJobs, UploadKeys, NoFamily
  <1>11. job[s].op = "register" BY <1>7, <1>8 DEF UploadJobs, Rows
  <1>12. r \in expired
    BY <1>7, <1>9, <1>10, <1>11 DEF FamilyEnded, Rows
  <1> QED BY <1>1, <1>12 DEF Retained

\* A request begins without a file of its own.
LEMMA NewCallKey ==
  ASSUME IndInv, NEW c \in Clients, NewCall(c)
  PROVE  cpc'[c] = "enter" /\ creq'[c].key = NoKey
  <1>0. ClientTypes BY DEF IndInv, TypeOK
  <1>1. ASSUME NEW a \in Apis, NEW q \in Requests, NEW x \in Contents, Register(c, a, q, x)
        PROVE  cpc'[c] = "enter" /\ creq'[c].key = NoKey
    BY <1>0, <1>1 DEF Register, Begin, ClientTypes, NoRequest
  <1>2. ASSUME NEW a \in Apis, NEW q \in Requests, NEW o \in RunIds, NEW x \in Contents,
               Replace(c, a, q, o, x)
        PROVE  cpc'[c] = "enter" /\ creq'[c].key = NoKey
    BY <1>0, <1>2 DEF Replace, Begin, ClientTypes, NoRequest
  <1>3. ASSUME NEW a \in Apis, NEW q \in Requests, NEW o \in RunIds, NEW op \in Operations,
               Derive(c, a, q, o, op)
        PROVE  cpc'[c] = "enter" /\ creq'[c].key = NoKey
    BY <1>0, <1>3 DEF Derive, Begin, ClientTypes, NoRequest
  <1>4. ASSUME NEW a \in Apis, NEW q \in Requests, NEW p \in RunIds, Retry(c, a, q, p)
        PROVE  cpc'[c] = "enter" /\ creq'[c].key = NoKey
    BY <1>0, <1>4 DEF Retry, Begin, ClientTypes, NoRequest
  <1> QED BY <1>1, <1>2, <1>3, <1>4 DEF NewCall

\* Nobody but the admission that staged a file has it before the row is there.
LEMMA NextStaged ==
  ASSUME IndInv, RequestsServed, CleanupsSound, InputsStaged, [Next]_vars
  PROVE  InputsStaged'
  <1>0. ClientTypes /\ RowTypes /\ SourceTypes /\ Apis \cap Clients = {} /\ NoKey \notin PendingKeys
    BY ConstantsAssumption DEF IndInv, TypeOK
  <1> SUFFICES ASSUME NEW c \in Clients, Asking(c)'
               PROVE  /\ cpc'[c] \in {"enter", "recheck", "stage"} => creq'[c].key = NoKey
                      /\ cpc'[c] = "reserve" =>
                           IF creq'[c].op \in {"register", "replace"}
                           THEN creq'[c].key \in pending' /\ \A r \in RunIds : input'[r] # creq'[c].key
                           ELSE creq'[c].key = NoKey
    BY DEF InputsStaged, Asking
  <1>1. CASE NewCall(c) BY <1>1, NewCallKey
  <1>2. CASE Stage(c)
    <2>1. /\ cpc[c] = "stage" /\ cpc' \in {[cpc EXCEPT ![c] = "settle"], [cpc EXCEPT ![c] = "reserve"]}
          /\ UNCHANGED input
          /\ \/ creq[c].op \in {"reprocess", "index"} /\ UNCHANGED creq
             \/ /\ creq[c].op \in {"register", "replace"}
                /\ \E k \in PendingKeys : /\ FreshKey(k) /\ pending' = pending \cup {k}
                                          /\ creq' = [creq EXCEPT ![c].key = k]
             \/ cpc' = [cpc EXCEPT ![c] = "settle"]
      BY <1>2 DEF Stage, Go
    <2>2. cpc'[c] = "reserve" BY <1>0, <2>1 DEF ClientTypes, Asking
    <2>3. CASE creq[c].op \in {"reprocess", "index"} /\ UNCHANGED creq
      BY <2>1, <2>2, <2>3 DEF InputsStaged
    <2>4. ASSUME creq[c].op \in {"register", "replace"}, NEW k \in PendingKeys, FreshKey(k),
                 pending' = pending \cup {k}, creq' = [creq EXCEPT ![c].key = k]
          PROVE  /\ creq'[c].op \in {"register", "replace"} /\ creq'[c].key = k /\ k \in pending'
                 /\ \A r \in RunIds : input'[r] # k
      <3>1. creq'[c].op = creq[c].op /\ creq'[c].key = k BY <1>0, <2>4 DEF ClientTypes, Calls
      <3>2. \A r \in RunIds : input[r] # k BY <2>4 DEF FreshKey, UsedKeys
      <3> QED BY <2>1, <2>4, <3>1, <3>2
    <2>5. cpc' # [cpc EXCEPT ![c] = "settle"] BY <1>0, <2>2 DEF ClientTypes
    <2> QED BY <2>1, <2>2, <2>3, <2>4, <2>5
  <1>3. ASSUME Asking(c), SameCall(c), creq'[c].key = creq[c].key, cpc'[c] = "reserve" <=> cpc[c] = "reserve"
        PROVE  /\ cpc'[c] \in {"enter", "recheck", "stage"} => creq'[c].key = NoKey
               /\ cpc'[c] = "reserve" =>
                    IF creq'[c].op \in {"register", "replace"}
                    THEN creq'[c].key \in pending' /\ \A r \in RunIds : input'[r] # creq'[c].key
                    ELSE creq'[c].key = NoKey
    <2>1. CASE cpc[c] # "reserve" BY <1>3, <2>1 DEF InputsStaged, Asking
    <2>2. CASE cpc[c] = "reserve" /\ creq[c].op \notin {"register", "replace"}
      BY <1>3, <2>2 DEF InputsStaged, SameCall
    <2>3. CASE cpc[c] = "reserve" /\ creq[c].op \in {"register", "replace"}
      <3>1. PICK k : k = creq[c].key OBVIOUS
      <3>2. k \in pending /\ k # NoKey /\ \A r \in RunIds : input[r] # k
        BY <1>0, <2>3, <3>1 DEF InputsStaged, SourceTypes
      <3>3. inputLock = c BY <2>3 DEF RequestsServed, Admitting
      <3>4. k \in pending'
        <4>1. ASSUME NEW d \in Clients, Stage(d) PROVE k \in pending' BY <3>2, <4>1 DEF Stage
        <4>2. ASSUME NEW d \in Clients, Settle(d) PROVE FALSE
          BY <2>3, <3>3, <4>2 DEF Settle, RequestsServed, Admitting
        <4>3. ASSUME NEW a \in Apis, Clean(a) \/ Sweep(a) PROVE FALSE
          BY <1>0, <3>3, <4>3 DEF Clean, Sweep, CleanupsSound, InInput
        <4> QED BY <3>2, <4>1, <4>2, <4>3, PendingWritten
      <3>5. ASSUME NEW r \in RunIds PROVE input'[r] # k
        <4>1. ASSUME NEW d \in Clients, cpc[d] = "reserve", ReserveCreate(d) PROVE FALSE
          <5>1. d = c BY <3>3, <4>1 DEF RequestsServed, Admitting
          <5> QED BY <1>0, <1>3, <2>3, <4>1, <5>1 DEF ReserveCreate, ClientTypes
        <4>2. ASSUME NEW a \in Apis, Discard(a) PROVE input'[r] # k
          BY <1>0, <3>2, <4>2 DEF Discard, RowTypes
        <4> QED BY <3>2, <4>1, <4>2, InputsWritten
      <3> QED BY <1>3, <2>3, <3>1, <3>4, <3>5 DEF SameCall
    <2> QED BY <2>1, <2>2, <2>3
  <1> QED BY <1>1, <1>2, <1>3, CallsGo

\* A cleanup begins with the input lock in its hand and returns it at its end.
LEMMA NextCleaners ==
  ASSUME IndInv, [Next]_vars, \A a \in Apis : InInput(a) => inputLock = a
  PROVE  \A a \in Apis : InInput(a)' => inputLock' = a
  <1> SUFFICES ASSUME NEW b \in Apis, InInput(b)' PROVE inputLock' = b OBVIOUS
  <1>0. WorkTypes /\ NoOne \notin Apis /\ Apis \cap Clients = {}
    BY ConstantsAssumption DEF IndInv, TypeOK
  <1> DEFINE Stays == /\ InInput(b)' => InInput(b)
                      /\ inputLock = b => inputLock' = b
  <1>s. Stays => inputLock' = b OBVIOUS
  <1>1. ASSUME NEW c \in Clients, NEW a \in Apis, NewRequest(c, a) PROVE Stays
    <2>1. UNCHANGED <<wpc, inputLock>>
      BY <1>1 DEF NewRequest, Register, Replace, Derive, Retry, RetryRecovered, Begin,
                  ManageLock, Stop
    <2> QED BY <2>1 DEF InInput
  <1>2. ASSUME NEW c \in Clients, ClientStep(c) PROVE Stays
    <2>1. UNCHANGED wpc
      BY <1>2 DEF ClientStep, Enter, Recheck, Stage, Reserve, Settle, StopAbort, ManageCommit
    <2>2. inputLock' \in {inputLock, Free(inputLock, c)} \/ inputLock = NoOne
      BY <1>2 DEF ClientStep, Enter, Recheck, Stage, Reserve, Settle, StopAbort, ManageCommit
    <2>3. inputLock = b => inputLock' = b BY <1>0, <2>2 DEF Free
    <2> QED BY <2>1, <2>3 DEF InInput
  <1>3. ASSUME NEW a \in Apis, WorkerStep(a) PROVE inputLock' = b
    <2>1. CASE Finish(a) BY <1>0, <2>1 DEF Finish, InInput, WorkTypes
    <2>2. CASE Clean(a)
      <3>1. /\ wpc[a] = "clean" /\ \A d \in Apis : d # a => wpc'[d] = wpc[d]
            /\ UNCHANGED inputLock \/ (inputLock' = Free(inputLock, a) /\ wpc'[a] = "idle")
        BY <1>0, <2>2 DEF Clean, WorkTypes
      <3> QED BY <1>0, <3>1 DEF Free, InInput
    <2>3. CASE Drop(a) BY <1>0, <2>3 DEF Drop, Free, InInput, WorkTypes
    <2>4. CASE Discard(a) \/ Sweep(a) BY <1>0, <2>4 DEF Discard, Sweep, InInput, WorkTypes
    <2>5. CASE Peek(a) \/ FileLockBusy(a) \/ Claim(a)
      BY <1>0, <2>5 DEF Peek, FileLockBusy, Claim, InInput, WorkTypes
    <2>6. CASE Activate(a) \/ Check(a)
      BY <1>0, <2>6 DEF Activate, Check, InInput, WorkTypes
    <2>7. CASE Extract(a) \/ Commit(a)
      BY <1>0, <2>7 DEF Extract, Commit, InInput, WorkTypes
    <2>8. CASE Write(a) \/ Fail(a)
      BY <1>0, <2>8 DEF Write, Fail, InInput, WorkTypes
    <2> QED BY <1>3, <2>1, <2>2, <2>3, <2>4, <2>5, <2>6, <2>7, <2>8 DEF WorkerStep
  <1>4. ASSUME NEW a \in Apis, LifeStep(a) PROVE inputLock' = b
    <2>1. CASE BootClean(a) BY <1>0, <2>1 DEF BootClean, InInput, WorkTypes
    <2>2. CASE ~BootClean(a)
      BY <1>0, <1>4, <2>2 DEF LifeStep, BootInterrupt, BootFail, HaltCurrent, HaltQueued, InInput,
                              WorkTypes
    <2> QED BY <2>1, <2>2
  <1>5. ASSUME NEW a \in Apis, StartCleanup(a) PROVE inputLock' = b
    BY <1>0, <1>5 DEF StartCleanup, InInput, WorkTypes, Wakes
  <1>6. ASSUME NEW a \in Apis, Crash(a) PROVE inputLock' = b
    <2>1. PICK mine \in SUBSET Clients : inputLock' = IF inputLock \in mine \cup {a} THEN NoOne ELSE inputLock
      BY <1>6 DEF Crash
    <2> QED BY <1>0, <1>6, <2>1 DEF Crash, InInput, WorkTypes
  <1>7. ASSUME NEW a \in Apis,
               \/ TakeFileLock(a) \/ Monitor(a) \/ BootOwn(a) \/ Halt(a) \/ LoseLock(a)
        PROVE  inputLock' = b
    BY <1>0, <1>7 DEF TakeFileLock, Monitor, BootOwn, Halt, LoseLock, InInput, WorkTypes
  <1>8. Revoke \/ Age \/ UNCHANGED vars => Stays
    BY DEF Revoke, Age, vars, InInput
  <1> HIDE DEF Stays
  <1> QED BY <1>s, <1>1, <1>2, <1>3, <1>4, <1>5, <1>6, <1>7, <1>8 DEF Next

\* What a cleanup goes by was read from the rows.
LEMMA SeenGo ==
  ASSUME IndInv, [Next]_vars, NEW a \in Apis, NEW r \in RunIds, seen'[a][r] # "none"
  PROVE  \/ seen'[a][r] = seen[a][r]
         \/ seen'[a][r] = status[r] /\ status'[r] = status[r] /\ status[r] \in Active \cup Final
  <1>0. WorkTypes BY DEF IndInv, TypeOK
  <1> DEFINE Goes == \/ seen'[a][r] = seen[a][r]
                     \/ seen'[a][r] = status[r] /\ status'[r] = status[r] /\ status[r] \in Active \cup Final
  <1>1. ASSUME NEW c \in Clients, NEW b \in Apis, NewRequest(c, b) PROVE UNCHANGED seen
    BY <1>1 DEF NewRequest, Register, Replace, Derive, Retry, RetryRecovered, Begin,
                ManageLock, Stop
  <1>2. ASSUME NEW c \in Clients, ClientStep(c) PROVE UNCHANGED seen
    BY <1>2 DEF ClientStep, Enter, Recheck, Stage, Reserve, Settle, StopAbort, ManageCommit
  <1>3. ASSUME NEW b \in Apis, NEW S, seen' = [seen EXCEPT ![b] = ReadOf(S)], UNCHANGED status
        PROVE  Goes
    BY <1>0, <1>3 DEF WorkTypes, ReadOf, Rows
  <1>4. ASSUME NEW b \in Apis, NEW s, seen' = [seen EXCEPT ![b][s] = "none"] PROVE Goes
    BY <1>0, <1>4 DEF WorkTypes
  <1>5. ASSUME NEW b \in Apis, WorkerStep(b) PROVE Goes
    <2>1. CASE Finish(b) BY <1>3, <2>1 DEF Finish
    <2>2. CASE Clean(b)
      <3>1. UNCHANGED seen \/ \E s : seen' = [seen EXCEPT ![b][s] = "none"] BY <2>2 DEF Clean
      <3> QED BY <1>4, <3>1
    <2>3. CASE Discard(b) BY <1>4, <2>3 DEF Discard
    <2>4. ASSUME ~Finish(b), ~Clean(b), ~Discard(b) PROVE UNCHANGED seen
      BY <1>5, <2>4 DEF WorkerStep, Peek, FileLockBusy, Claim, Activate, Check, Extract, Commit,
                        Write, Fail, Sweep, Drop
    <2> QED BY <2>1, <2>2, <2>3, <2>4
  <1>6. ASSUME NEW b \in Apis, LifeStep(b) PROVE Goes
    <2>1. CASE BootClean(b) BY <1>3, <2>1 DEF BootClean
    <2>2. CASE ~BootClean(b)
      BY <1>6, <2>2 DEF LifeStep, BootInterrupt, BootFail, HaltCurrent, HaltQueued
    <2> QED BY <2>1, <2>2
  <1>7. ASSUME NEW b \in Apis, StartCleanup(b) PROVE Goes BY <1>3, <1>7 DEF StartCleanup
  <1>8. ASSUME NEW b \in Apis, Crash(b) PROVE Goes
    BY <1>0, <1>8 DEF Crash, NothingSeen, WorkTypes
  <1>9. ASSUME NEW b \in Apis,
               \/ TakeFileLock(b) \/ Monitor(b) \/ BootOwn(b) \/ Halt(b) \/ LoseLock(b)
        PROVE  UNCHANGED seen
    BY <1>9 DEF TakeFileLock, Monitor, BootOwn, Halt, LoseLock
  <1>10. Revoke \/ Age \/ UNCHANGED vars => UNCHANGED seen
    BY DEF Revoke, Age, vars
  <1>11. (\E b \in Apis : WorkerStep(b)) => Goes BY <1>5
  <1>12. (\E b \in Apis : LifeStep(b)) => Goes BY <1>6
  <1> QED BY <1>1, <1>2, <1>7, <1>8, <1>9, <1>10, <1>11, <1>12 DEF Next

\* A file is about to be forgotten because a cleanup has just removed it.
LEMMA DiscardsGo ==
  ASSUME IndInv, [Next]_vars, NEW a \in Apis, wpc'[a] = "discard"
  PROVE  \/ wpc[a] = "discard" /\ wrun'[a] = wrun[a]
         \/ Clean(a) /\ wrun'[a] \in RunIds /\ seen[a][wrun'[a]] # "none"
                     /\ Discardable(wrun'[a], seen[a][wrun'[a]])
                     /\ pending' = pending \ {input[wrun'[a]]}
  <1>0. WorkTypes BY DEF IndInv, TypeOK
  <1> DEFINE Kept == wpc[a] = "discard" /\ wrun'[a] = wrun[a]
  <1>1. ASSUME NEW c \in Clients, NEW b \in Apis, NewRequest(c, b) PROVE UNCHANGED <<wpc, wrun>>
    BY <1>1 DEF NewRequest, Register, Replace, Derive, Retry, RetryRecovered, Begin,
                ManageLock, Stop
  <1>2. ASSUME NEW c \in Clients, ClientStep(c) PROVE UNCHANGED <<wpc, wrun>>
    BY <1>2 DEF ClientStep, Enter, Recheck, Stage, Reserve, Settle, StopAbort, ManageCommit
  <1>3. ASSUME NEW b \in Apis, WorkerStep(b), ~Clean(b) PROVE Kept
    <2>1. CASE Finish(b) BY <1>0, <2>1 DEF Finish, WorkTypes
    <2>2. CASE Drop(b) \/ Discard(b) \/ Sweep(b) BY <1>0, <2>2 DEF Drop, Discard, Sweep, WorkTypes
    <2>3. CASE Peek(b) \/ FileLockBusy(b) BY <1>0, <2>3 DEF Peek, FileLockBusy, WorkTypes
    <2>4. CASE Claim(b) BY <1>0, <2>4 DEF Claim, WorkTypes
    <2>5. CASE Activate(b) \/ Check(b) BY <1>0, <2>5 DEF Activate, Check, WorkTypes
    <2>6. CASE Extract(b) BY <1>0, <2>6 DEF Extract, WorkTypes
    <2>7. CASE Commit(b) BY <1>0, <2>7 DEF Commit, WorkTypes
    <2>8. CASE Write(b) \/ Fail(b) BY <1>0, <2>8 DEF Write, Fail, WorkTypes
    <2> QED BY <1>3, <2>1, <2>2, <2>3, <2>4, <2>5, <2>6, <2>7, <2>8 DEF WorkerStep
  <1>4. ASSUME NEW b \in Apis, Clean(b)
        PROVE  \/ Kept
               \/ Clean(a) /\ wrun'[a] \in RunIds /\ seen[a][wrun'[a]] # "none"
                     /\ Discardable(wrun'[a], seen[a][wrun'[a]])
                     /\ pending' = pending \ {input[wrun'[a]]}
    <2>1. CASE b # a BY <1>0, <1>4, <2>1 DEF Clean, WorkTypes
    <2>2. CASE b = a
      <3>1. PICK r \in RunIds : /\ seen[a][r] # "none" /\ Discardable(r, seen[a][r])
                                /\ pending' = pending \ {input[r]}
                                /\ wrun' = [wrun EXCEPT ![a] = r]
        BY <1>0, <1>4, <2>2 DEF Clean, WorkTypes
      <3> QED BY <1>0, <1>4, <2>2, <3>1 DEF WorkTypes
    <2> QED BY <2>1, <2>2
  <1>5. ASSUME NEW b \in Apis, LifeStep(b) PROVE Kept
    BY <1>0, <1>5 DEF LifeStep, BootInterrupt, BootClean, BootFail, HaltCurrent, HaltQueued, WorkTypes
  <1>6. ASSUME NEW b \in Apis,
               \/ TakeFileLock(b) \/ StartCleanup(b) \/ Monitor(b) \/ BootOwn(b)
               \/ Halt(b) \/ Crash(b) \/ LoseLock(b)
        PROVE  Kept
    BY <1>0, <1>6 DEF TakeFileLock, StartCleanup, Monitor, BootOwn, Halt, Crash, LoseLock, WorkTypes
  <1>7. Revoke \/ Age \/ UNCHANGED vars => UNCHANGED <<wpc, wrun>>
    BY DEF Revoke, Age, vars
  <1> QED BY <1>1, <1>2, <1>3, <1>4, <1>5, <1>6, <1>7 DEF Next

\* What a cleanup has read stays true, and what it discards stays unneeded.
LEMMA NextCleanups ==
  ASSUME IndInv, FamilySound, VersionsSound, RowsSound, CleanupsSound, [Next]_vars
  PROVE  CleanupsSound'
  <1>0. RowTypes /\ WorkTypes BY DEF IndInv, TypeOK
  <1>1. \A a \in Apis : InInput(a)' => inputLock' = a BY NextCleaners DEF CleanupsSound
  <1>2. ASSUME NEW a \in Apis, NEW r \in RunIds, seen'[a][r] # "none"
        PROVE  /\ status'[r] # "absent"
               /\ seen'[a][r] \in Final => status'[r] \in Final \cup {"gone"}
    <2>1. CASE seen'[a][r] = seen[a][r]
      BY <1>2, <2>1, RowsGo DEF CleanupsSound
    <2>2. CASE seen'[a][r] = status[r] /\ status'[r] = status[r] /\ status[r] \in Active \cup Final
      BY <2>2
    <2> QED BY <1>2, <2>1, <2>2, SeenGo
  <1>3. ASSUME NEW a \in Apis, wpc'[a] = "discard"
        PROVE  status'[wrun'[a]] # "absent" /\ ~Needed(wrun[a])'
    <2>1. PICK r : r = wrun'[a] OBVIOUS
    <2>2. r \in RunIds /\ status[r] # "absent" /\ ~Needed(r)
      <3>1. CASE wpc[a] = "discard" /\ wrun'[a] = wrun[a]
        BY <2>1, <3>1 DEF CleanupsSound, IndInv, WorkSound
      <3>2. CASE wrun'[a] \in RunIds /\ seen[a][wrun'[a]] # "none" /\ Discardable(wrun'[a], seen[a][wrun'[a]])
        BY <2>1, <3>2, DiscardableNotNeeded DEF CleanupsSound, FamilySound
      <3> QED BY <1>3, <3>1, <3>2, DiscardsGo
    <2>3. status'[r] # "absent" /\ ~Needed(r)' BY <2>2, RowsGo, NeededGo
    <2> QED BY <2>1, <2>3 DEF Needed, Retained, Rows, Recovered, Family, Available
  <1> QED BY <1>1, <1>2, <1>3 DEF CleanupsSound

\* InputKept, said of what is needed.
KeptSound == \A r \in RunIds : Needed(r) => input[r] \in pending

\* Whatever removes files spares those that are needed, and what comes to be needed
\* has its file.
LEMMA NextKept ==
  ASSUME IndInv, FamilySound, VersionsSound, InputsSound, KeptSound, [Next]_vars
  PROVE  KeptSound'
  <1> USE DEF InputsSound
  <1> SUFFICES ASSUME NEW r \in RunIds, Needed(r)' PROVE input'[r] \in pending'
    BY DEF KeptSound
  <1>0. RowTypes /\ SourceTypes /\ NoKey \notin PendingKeys
    BY ConstantsAssumption DEF IndInv, TypeOK
  <1>1. CASE status[r] = "absent"
    <2>1. job'[r].op \in {"register", "replace"} BY DEF Needed
    <2>2. PICK c \in Clients : cpc[c] = "reserve" /\ ReserveCreate(c) /\ UNCHANGED pending
      BY <1>1, <2>1, AgesWritten DEF FamilySound, UploadJobs
    <2>3. PICK n \in RunIds : /\ job' = [job EXCEPT ![n] = JobOf(creq[c])]
                              /\ input' = [input EXCEPT ![n] = creq[c].key]
      BY <2>2 DEF ReserveCreate, NextRun
    <2>4. n = r BY <1>0, <1>1, <2>1, <2>3 DEF FamilySound, UploadJobs, RowTypes
    <2>5. job'[r].op = creq[c].op /\ input'[r] = creq[c].key
      BY <1>0, <2>3, <2>4 DEF RowTypes, JobOf
    <2>6. creq[c].key \in pending BY <2>1, <2>2, <2>5 DEF InputsStaged
    <2> QED BY <2>2, <2>5, <2>6
  <1>2. CASE status[r] # "absent"
    <2>1. Needed(r) BY <1>2, NeededGo
    <2>2. input[r] \in pending /\ input[r] # NoKey BY <1>0, <2>1 DEF KeptSound, SourceTypes
    <2>3. r \in Rows BY <2>1 DEF Needed, Retained
    <2>4. input'[r] = input[r]
      <3>1. ASSUME NEW c \in Clients, cpc[c] = "reserve", ReserveCreate(c) PROVE input'[r] = input[r]
        <4>1. PICK n \in NextRun : input' = [input EXCEPT ![n] = creq[c].key]
          BY <3>1 DEF ReserveCreate
        <4>2. n # r BY <1>2 DEF NextRun
        <4> QED BY <1>0, <4>1, <4>2 DEF RowTypes
      <3>2. ASSUME NEW a \in Apis, Discard(a) PROVE input'[r] = input[r]
        <4>1. wrun[a] # r BY <2>1, <3>2 DEF Discard, CleanupsSound
        <4> QED BY <1>0, <3>2, <4>1 DEF Discard, RowTypes
      <3> QED BY <3>1, <3>2, InputsWritten
    <2>5. input[r] \in pending'
      <3>1. ASSUME NEW c \in Clients, Stage(c) PROVE input[r] \in pending' BY <2>2, <3>1 DEF Stage
      <3>2. ASSUME NEW c \in Clients, Settle(c) PROVE input[r] \in pending'
        BY <2>2, <2>3, <3>2 DEF Settle, Referenced
      <3>3. ASSUME NEW a \in Apis, Sweep(a) PROVE input[r] \in pending'
        BY <2>2, <2>3, <3>3 DEF Sweep, Orphans, Referenced
      <3>4. ASSUME NEW a \in Apis, Clean(a) PROVE input[r] \in pending'
        <4>1. ASSUME NEW s \in RunIds, seen[a][s] # "none", Discardable(s, seen[a][s])
              PROVE  input[s] # input[r]
          BY <2>1, <2>2, <4>1, DiscardableNotNeeded DEF RowsSound, FamilySound
        <4>2. \/ UNCHANGED pending
              \/ \E s \in RunIds : /\ seen[a][s] # "none" /\ Discardable(s, seen[a][s])
                                    /\ pending' = pending \ {input[s]}
          BY <3>4 DEF Clean
        <4> QED BY <2>2, <4>1, <4>2
      <3> QED BY <2>2, <3>1, <3>2, <3>3, <3>4, PendingWritten
    <2> QED BY <2>4, <2>5
  <1> QED BY <1>1, <1>2

\* The file of an upload is there for as long as the upload can still use it: no
\* admission, sweep, cleanup, retention or crash takes it away before.
THEOREM InputsKept == Spec => []InputKept
  <1> DEFINE Sound == FamilySound /\ VersionsSound /\ ShutdownSound /\ InputsSound /\ KeptSound
  <1>1. Init => Sound
    <2> SUFFICES ASSUME Init PROVE InputsSound /\ KeptSound
      BY InitFamily, InitVersions, InitShutdown
    <2>1. RowsSound BY DEF Init, RowsSound, NoJob
    <2>2. InputsStaged BY DEF Init, InputsStaged
    <2>3. CleanupsSound BY DEF Init, CleanupsSound, InInput, NothingSeen
    <2>4. KeptSound BY DEF Init, KeptSound, Needed, Retained, Rows
    <2> QED BY <2>1, <2>2, <2>3, <2>4 DEF InputsSound
  <1>2. IndInv /\ IndInv' /\ AdmissionBounded /\ Sound /\ [Next]_vars => Sound'
    BY NextFamily, NextVersions, NextShutdown, NextRows, NextStaged, NextCleanups, NextKept
       DEF InputsSound, ShutdownSound
  <1>3. Sound => InputKept BY DEF KeptSound, Needed, InputKept, Retained, Rows
  <1>4. Spec => []IndInv BY Invariant
  <1>5. Spec => []AdmissionBounded BY AdmissionSafe
  <1> HIDE DEF Sound
  <1> QED BY <1>1, <1>2, <1>3, <1>4, <1>5, PTL DEF Spec

=============================================================================
