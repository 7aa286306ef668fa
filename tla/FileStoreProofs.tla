-------------------------- MODULE FileStoreProofs ---------------------------
(***************************************************************************)
(* The file store and its index, for every number of processes, readers,    *)
(* originals, versions, faults and crashes.                                 *)
(*                                                                         *)
(* Types first, with the names that are reserved for files written and not  *)
(* yet registered (StoreInv); then who writes what, and that rows only grow *)
(* (RowsGrow).  On these rest, each with an invariant of its own:           *)
(*   FilesAreKept          who reconciles or uploads is alone with the files *)
(*                         (Sole), and what it is about to remove or to     *)
(*                         register is as it was looked up (Handled);       *)
(*   UnavailableIsAFault   what a reader lost it does not get back           *)
(*                         (ReadersSound);                                  *)
(*   IndexesAreFaithful, SuccessIsSearchable                                *)
(*                         jobs embed the one text they took (IndexSound);  *)
(*   RemovedStaysGone      nothing comes back to a deleted original          *)
(*                         (DeletedStays), so that the steps of reconcile() *)
(*                         add up (RemovalsSound).                          *)
(* The first two assume that the lock's connection is lost during index and  *)
(* reprocess jobs only: during an upload its loss lets another reconcile()  *)
(* take the file.  The other three hold whenever it is lost.                *)
(***************************************************************************)
EXTENDS FileIndexing, FiniteSetTheorems, TLAPS

Reconciling == {"drop", "purge", "mark", "sweep", "unlink"}
Working == {"load", "compare", "reuse", "embed"}  \* what follows snapshot()
JobKinds == {"reprocess", "index"}

\* An operation stands where one of its kind may.
InStage(q) ==
  \/ q.kind = "none" /\ q.at = "idle"
  \/ q.kind = "upload" /\ q.at \in Reconciling \cup {"extract", "write", "commit"}
  \/ q.kind = "scope" /\ q.at \in Reconciling \cup {"scope"}
  \/ q.kind = "remove" /\ q.at \in Reconciling \cup {"remove"}
  \/ q.kind = "maintain" /\ q.at \in Reconciling
  \/ q.kind = "reprocess" /\ q.at \in {"parse", "extracted"}
  \/ q.kind = "index" /\ q.at \in Working \cup {"snapshot"}

Labels ==
  Reconciling \cup Working \cup
  {"idle", "extract", "write", "commit", "scope", "remove", "parse", "extracted", "snapshot"}
ReaderLabels == {"idle", "read", "found", "absent", "served", "missing", "unavailable"}

TextOrNone == Texts \cup {None}
Parts == Seq(TextOrNone \X Nat)

OriginalRows == [state : {"absent", "live", "deleted"}, excluded : BOOLEAN, scope : Nat]
VersionRows ==
  [of : Originals, number : Nat, content : Contents, text : TextOrNone,
   read : BOOLEAN, raw : BOOLEAN]
IndexRows == [text : TextOrNone, scope : Nat, parts : Nat, chunks : Parts]
OpRecords ==
  [kind : Operations \cup {"none"}, at : Labels,
   of : Originals \cup {0}, base : Keys \cup {0}, content : Contents \cup {None},
   text : TextOrNone, scope : Nat, key : Keys \cup {0}, todo : SUBSET Keys,
   vectors : Parts, parts : Nat]
ReaderRecords ==
  [at : ReaderLabels, of : Originals \cup {0}, key : Keys \cup {0}, scope : Nat, faulted : BOOLEAN]

\* Every version belongs to an original, which was registered with its first one.
OriginalTypes == original \in [Originals -> OriginalRows]
VersionTypes ==
  /\ version \in [Keys -> VersionRows \cup {NoVersion}]
  /\ \A k \in Keys : version[k] # NoVersion => original[version[k].of].state # "absent"
  /\ old \subseteq {k \in Keys : version[k] # NoVersion} /\ settled \subseteq Keys
IndexTypes == index \in [Keys -> IndexRows]
RowTypes == OriginalTypes /\ VersionTypes /\ IndexTypes

\* What an operation has with it where it stands.
OpSound(q) ==
  /\ InStage(q)
  /\ q.at \in {"extract", "write", "commit"} => q.content \in Contents
  /\ q.at \in {"mark", "unlink", "commit"} => q.key \in Keys
  /\ q.at = "mark" => version[q.key] # NoVersion
  /\ q.kind \in JobKinds => q.of \in Originals /\ q.base \in Versions(q.of)
  /\ q.kind \in {"scope", "remove"} => q.of \in Originals

OpTypes ==
  /\ op \in [Apis -> OpRecords]
  /\ lock \in Apis \cup {None}
  /\ \A a \in Apis : OpSound(op[a])

\* The name of a file that is written but not registered yet is nobody else's.
KeysReserved ==
  \A a \in Apis : op[a].at = "commit" =>
    /\ version[op[a].key] = NoVersion
    /\ \A b \in Apis \ {a} : op[b].at = "commit" => op[b].key # op[a].key

DiskTypes == disk \in [Keys -> Contents \cup {None}]
OtherTypes ==
  /\ reader \in [Readers -> ReaderRecords]
  /\ removed \subseteq Originals
  /\ left \in [Events -> Nat]

StoreTypes == RowTypes /\ OpTypes /\ DiskTypes /\ OtherTypes

USE DEF rowVars, vars

-----------------------------------------------------------------------------
(* Types                                                                    *)

LEMMA NoOpSound == NoOp \in OpRecords /\ OpSound(NoOp)
<1>1. <<>> \in Parts
  BY DEF Parts
<1>2. NoOp \in OpRecords
  BY <1>1 DEF NoOp, OpRecords, Labels, TextOrNone
<1>. QED BY <1>2 DEF NoOp, OpSound, InStage, JobKinds

LEMMA InitTypes == Init => StoreTypes
<1>. SUFFICES ASSUME Init PROVE StoreTypes
  OBVIOUS
<1>. USE ConstantsAssumption DEF Init
<1>1. OriginalTypes
  BY DEF OriginalTypes, OriginalRows
<1>2. VersionTypes
  BY DEF VersionTypes
<1>3. IndexTypes
  BY DEF IndexTypes, NoIndex, IndexRows, Parts, TextOrNone
<1>4. OpTypes
  BY NoOpSound DEF OpTypes
<1>5. DiskTypes /\ OtherTypes
  BY DEF DiskTypes, OtherTypes, NoReader, ReaderRecords, ReaderLabels
<1>. QED BY <1>1, <1>2, <1>3, <1>4, <1>5 DEF StoreTypes, RowTypes

\* A version that is stored stays the version of its original.
VersionsStay ==
  \A k \in Keys : version[k] # NoVersion =>
    version'[k] # NoVersion /\ version'[k].of = version[k].of

\* An operation goes on or ends, and the others stay where they are.
OpSet(a) == op' = [op EXCEPT ![a] = op'[a]] /\ lock' \in Apis \cup {None}

LEMMA SoundStays ==
  ASSUME StoreTypes, VersionsStay, NEW q \in OpRecords, OpSound(q)
  PROVE  OpSound(q)'
<1>1. \A k \in Keys : version[k].of # 0 => version[k] # NoVersion
  BY DEF NoVersion
<1>2. ASSUME q.kind \in JobKinds PROVE q.base \in Versions(q.of)'
  BY <1>1, <1>2, ConstantsAssumption DEF OpSound, VersionsStay, Versions
<1>. QED BY <1>2 DEF OpSound, VersionsStay, InStage

LEMMA OpTypesStep ==
  ASSUME StoreTypes, VersionsStay, NEW a \in Apis, OpSet(a),
         op'[a] \in OpRecords, OpSound(op[a])'
  PROVE  OpTypes'
<1>1. op' \in [Apis -> OpRecords]
  BY DEF OpSet, StoreTypes, OpTypes
<1>2. ASSUME NEW b \in Apis PROVE OpSound(op[b])'
  <2>1. CASE b = a
    BY <2>1
  <2>2. CASE b # a
    <3>1. op'[b] = op[b] /\ op[b] \in OpRecords /\ OpSound(op[b])
      BY <2>2 DEF OpSet, StoreTypes, OpTypes
    <3>2. \A q \in OpRecords : OpSound(q) => OpSound(q)'
      BY SoundStays
    <3>. QED BY <3>1, <3>2 
  <2>. QED BY <2>1, <2>2
<1>. QED BY <1>1, <1>2 DEF OpTypes, OpSet

LEMMA RowsSame == ASSUME StoreTypes, UNCHANGED rowVars PROVE RowTypes' /\ VersionsStay
  BY DEF StoreTypes, RowTypes, OriginalTypes, VersionTypes, IndexTypes, VersionsStay

LEMMA FreeTyped == ASSUME StoreTypes PROVE \A a \in Apis : Free(a) \in Apis \cup {None}
  BY DEF StoreTypes, OpTypes, Free

\* The ends of an operation.
LEMMA LeaveTypes ==
  ASSUME StoreTypes, VersionsStay, NEW a \in Apis, Leave(a) PROVE OpTypes'
<1>1. op'[a] = NoOp /\ op' = [op EXCEPT ![a] = op'[a]]
  BY DEF Leave, StoreTypes, OpTypes
<1>2. OpSet(a)
  BY <1>1, FreeTyped DEF OpSet, Leave
<1>3. OpSound(op[a])'
  BY <1>1 DEF OpSound, InStage, NoOp, JobKinds
<1>. QED BY <1>1, <1>2, <1>3, NoOpSound, OpTypesStep

LEMMA FinallyTypes ==
  ASSUME StoreTypes, VersionsStay, NEW a \in Apis, Finally(a), UNCHANGED lock PROVE OpTypes'
<1>1. op'[a] = [NoOp EXCEPT !.kind = "upload", !.at = "drop"] /\ OpSet(a)
  BY DEF Finally, OpSet, StoreTypes, OpTypes
<1>2. op'[a] \in OpRecords
  BY <1>1, NoOpSound DEF OpRecords, Operations, Labels, Reconciling
<1>3. op'[a].kind = "upload" /\ op'[a].at = "drop"
  BY <1>1 DEF NoOp
<1>4. OpSound(op[a])'
  BY <1>3 DEF OpSound, InStage, JobKinds, Reconciling
<1>. QED BY <1>1, <1>2, <1>4, OpTypesStep

LEMMA FailTypes ==
  ASSUME StoreTypes, VersionsStay, NEW a \in Apis, FailOp(a) PROVE OpTypes'
  BY LeaveTypes, FinallyTypes DEF FailOp

\* An operation that goes on to a label its kind may stand at, with no more than
\* what is needed there.
LEMMA GoTypes ==
  ASSUME StoreTypes, VersionsStay, NEW a \in Apis, NEW at \in Labels, Go(a, at),
         UNCHANGED lock, InStage([op[a] EXCEPT !.at = at]),
         at \notin {"extract", "write", "commit", "mark", "unlink"}
  PROVE  OpTypes'
<1>1. op'[a] = [op[a] EXCEPT !.at = at] /\ op[a] \in OpRecords /\ OpSound(op[a]) /\ OpSet(a)
  BY DEF Go, OpSet, StoreTypes, OpTypes
<1>2. op'[a] \in OpRecords
  BY <1>1 DEF OpRecords
<1>3. OpSound(op[a])'
  <2>1. \A q \in OpRecords : OpSound(q) => OpSound(q)'
    BY SoundStays
  <2>2. op'[a].at = at /\ op'[a].kind = op[a].kind /\ op'[a].of = op[a].of /\ op'[a].base = op[a].base
    BY <1>1 DEF OpRecords
  <2>. QED BY <1>1, <2>1, <2>2 DEF OpSound, InStage
<1>. QED BY <1>1, <1>2, <1>3, OpTypesStep

\* The begin of an operation.
LEMMA EnterTypes ==
  ASSUME StoreTypes, VersionsStay, NEW a \in Apis, NEW kind \in Operations \ JobKinds,
         NEW at \in {"drop", "scope", "remove"}, NEW o \in Originals \cup {0},
         NEW base \in Keys \cup {0}, NEW x \in Contents \cup {None},
         Enter(a, kind, at, o, base, x),
         at = "drop" => kind \in {"upload", "maintain"},
         at # "drop" => kind = at /\ o \in Originals
  PROVE  OpTypes'
<1>1. op'[a] = [NoOp EXCEPT !.kind = kind, !.at = at, !.of = o, !.base = base, !.content = x]
      /\ OpSet(a)
  BY DEF Enter, OpSet, StoreTypes, OpTypes
<1>2. op'[a] \in OpRecords
  BY <1>1, NoOpSound DEF OpRecords, Labels, Reconciling
<1>3. op'[a].kind = kind /\ op'[a].at = at /\ op'[a].of = o
  BY <1>1 DEF NoOp
<1>4. OpSound(op[a])'
  BY <1>3 DEF OpSound, InStage, JobKinds, Reconciling
<1>. QED BY <1>1, <1>2, <1>4, OpTypesStep

\* The steps of reconcile().
LEMMA ReconcileTypes ==
  ASSUME StoreTypes, NEW a \in Apis, Reconcile(a) \/ ReconcileFails(a)
  PROVE  StoreTypes'
<1>0. op[a] \in OpRecords /\ OpSound(op[a]) /\ RowTypes /\ OpTypes /\ DiskTypes /\ OtherTypes
  BY DEF StoreTypes, OpTypes
<1>1. CASE DropIndexes(a)
  <2>1. IndexTypes'
    BY <1>0, <1>1 DEF DropIndexes, RowTypes, IndexTypes, NoIndex, IndexRows, Parts, TextOrNone
  <2>2. RowTypes' /\ VersionsStay
    BY <1>0, <1>1, <2>1 DEF DropIndexes, RowTypes, OriginalTypes, VersionTypes, VersionsStay
  <2>3. OpTypes'
    BY <1>0, <1>1, <2>2, GoTypes
    DEF DropIndexes, OpSound, InStage, OpRecords, Labels, Reconciling, Working
  <2>. QED BY <1>0, <1>1, <2>2, <2>3 DEF DropIndexes, StoreTypes, DiskTypes, OtherTypes
<1>2. CASE Purge(a)
  <2>1. RowTypes' /\ VersionsStay
    BY <1>2, RowsSame DEF Purge
  <2>2. PICK k \in Keys : RawDue(k) /\ op' = [op EXCEPT ![a].at = "mark", ![a].key = k]
    BY <1>2 DEF Purge
  <2>3. op'[a] = [op[a] EXCEPT !.at = "mark", !.key = k] /\ OpSet(a)
    BY <1>0, <1>2, <2>2 DEF Purge, OpSet, OpTypes
  <2>4. op'[a] \in OpRecords
    BY <1>0, <2>3 DEF OpRecords, Labels, Reconciling
  <2>5. version[k] # NoVersion
    BY <2>2 DEF RawDue, NoVersion
  <2>6. op'[a].at = "mark" /\ op'[a].key = k /\ op'[a].kind = op[a].kind /\ op'[a].of = op[a].of
    BY <1>0, <2>3 DEF OpRecords
  <2>7. OpSound(op[a])'
    BY <1>0, <1>2, <2>1, <2>5, <2>6 DEF Purge, OpSound, InStage, JobKinds, Reconciling, Working, VersionsStay
  <2>8. DiskTypes'
    BY <1>0, <1>2 DEF Purge, DiskTypes
  <2>9. OpTypes'
    BY <2>1, <2>3, <2>4, <2>7, OpTypesStep
  <2>. QED BY <1>0, <1>2, <2>1, <2>8, <2>9 DEF Purge, StoreTypes, OtherTypes
<1>3. CASE Mark(a)
  <2>1. op[a].key \in Keys /\ version[op[a].key] \in VersionRows
    BY <1>0, <1>3 DEF Mark, OpSound, RowTypes, VersionTypes
  <2>2. version' \in [Keys -> VersionRows \cup {NoVersion}] /\ version'[op[a].key] \in VersionRows
    BY <1>0, <1>3, <2>1 DEF Mark, RowTypes, VersionTypes, VersionRows, TextOrNone
  <2>3. \A k \in Keys : version'[k].of = version[k].of /\ (version'[k] = NoVersion <=> version[k] = NoVersion)
    <3>1. ASSUME NEW k \in Keys, k # op[a].key PROVE version'[k] = version[k]
      BY <1>0, <1>3, <3>1 DEF Mark, RowTypes, VersionTypes
    <3>2. version'[op[a].key].of = version[op[a].key].of
      BY <1>0, <1>3, <2>1 DEF Mark, RowTypes, VersionTypes, VersionRows
    <3>3. \A v \in VersionRows : v # NoVersion
      BY ConstantsAssumption DEF VersionRows, NoVersion
    <3>. QED BY <2>1, <2>2, <3>1, <3>2, <3>3
  <2>4. RowTypes' /\ VersionsStay
    BY <1>0, <1>3, <2>2, <2>3 DEF Mark, RowTypes, OriginalTypes, VersionTypes, IndexTypes, VersionsStay
  <2>5. op'[a] = [op[a] EXCEPT !.at = "purge", !.key = 0] /\ OpSet(a)
    BY <1>0, <1>3 DEF Mark, OpSet, OpTypes
  <2>6. op'[a] \in OpRecords
    BY <1>0, <2>5 DEF OpRecords, Labels, Reconciling
  <2>7. op'[a].at = "purge" /\ op'[a].kind = op[a].kind /\ op'[a].of = op[a].of
    BY <1>0, <2>5 DEF OpRecords
  <2>8. OpSound(op[a])'
    BY <1>0, <1>3, <2>7 DEF Mark, OpSound, InStage, JobKinds, Reconciling, Working
  <2>9. OpTypes'
    BY <2>4, <2>5, <2>6, <2>8, OpTypesStep
  <2>. QED BY <1>0, <1>3, <2>4, <2>9 DEF Mark, StoreTypes, DiskTypes, OtherTypes
<1>4. CASE Purged(a) \/ Sweep(a) \/ Unlink(a)
  <2>1. RowTypes' /\ VersionsStay
    BY <1>4, RowsSame DEF Purged, Sweep, Unlink
  <2>2. OpSet(a) /\ op'[a] \in OpRecords
    <3>1. CASE Purged(a)
      BY <1>0, <3>1 DEF Purged, OpSet, OpTypes, OpRecords, Labels, Reconciling, OnDisk
    <3>2. CASE Sweep(a)
      <4>1. PICK k \in op[a].todo :
              op' = IF Unused(k) THEN [op EXCEPT ![a].at = "unlink", ![a].key = k]
                                 ELSE [op EXCEPT ![a].todo = @ \ {k}]
        BY <3>2 DEF Sweep
      <4>2. k \in Keys
        BY <1>0 DEF OpRecords
      <4>3. OpSet(a)
        BY <1>0, <3>2, <4>1 DEF Sweep, OpSet, OpTypes
      <4>4. CASE Unused(k)
        BY <1>0, <4>1, <4>2, <4>3, <4>4 DEF OpTypes, OpRecords, Labels, Reconciling
      <4>5. CASE ~Unused(k)
        BY <1>0, <4>1, <4>3, <4>5 DEF OpTypes, OpRecords, Labels, Reconciling
      <4>. QED BY <4>3, <4>4, <4>5
    <3>3. CASE Unlink(a)
      BY <1>0, <3>3 DEF Unlink, OpSet, OpTypes, OpRecords, Labels, Reconciling
    <3>. QED BY <1>4, <3>1, <3>2, <3>3
  <2>3. /\ op'[a].kind = op[a].kind /\ op'[a].of = op[a].of
        /\ op'[a].at \in {"sweep", "unlink"}
        /\ op'[a].at = "unlink" => op'[a].key \in Keys
    BY <1>0, <1>4 DEF Purged, Sweep, Unlink, OpTypes, OpRecords
  <2>4. OpSound(op[a])'
    BY <1>0, <1>4, <2>3
    DEF Purged, Sweep, Unlink, OpSound, InStage, JobKinds, Reconciling, Working
  <2>5. OpTypes'
    BY <2>1, <2>2, <2>4, OpTypesStep
  <2>6. DiskTypes'
    BY <1>0, <1>4 DEF Purged, Sweep, Unlink, DiskTypes, OpSound
  <2>. QED BY <1>0, <1>4, <2>1, <2>5, <2>6 DEF Purged, Sweep, Unlink, StoreTypes, OtherTypes
<1>5. CASE Swept(a)
  <2>1. RowTypes' /\ VersionsStay
    BY <1>5, RowsSame DEF Swept
  <2>2. CASE Leave(a)
    <3>1. OpTypes'
      BY <2>1, <2>2, LeaveTypes
    <3>2. OtherTypes'
      BY <1>0, <1>5 DEF Swept, OtherTypes, OpSound
    <3>. QED BY <1>0, <1>5, <2>1, <3>1, <3>2 DEF Swept, StoreTypes, DiskTypes
  <2>3. CASE Go(a, "extract") /\ op[a].kind = "upload" /\ op[a].content # None /\ UNCHANGED lock
    <3>1. op'[a] = [op[a] EXCEPT !.at = "extract"] /\ OpSet(a)
      BY <1>0, <2>3 DEF Go, OpSet, OpTypes
    <3>2. op'[a] \in OpRecords
      BY <1>0, <3>1 DEF OpRecords, Labels
    <3>3. /\ op'[a].kind = "upload" /\ op'[a].at = "extract" /\ op'[a].content \in Contents
      BY <1>0, <2>3, <3>1 DEF OpRecords
    <3>4. OpSound(op[a])'
      BY <3>3 DEF OpSound, InStage, JobKinds
    <3>5. OpTypes'
      BY <2>1, <3>1, <3>2, <3>4, OpTypesStep
    <3>6. OtherTypes'
      BY <1>0, <1>5, <2>3 DEF Swept, OtherTypes
    <3>. QED BY <1>0, <1>5, <2>1, <3>5, <3>6 DEF Swept, StoreTypes, DiskTypes
  <2>. QED BY <1>5, <2>2, <2>3 DEF Swept
<1>6. CASE ReconcileFails(a)
  <2>1. OpTypes' /\ RowTypes'
    BY <1>6, RowsSame, LeaveTypes DEF ReconcileFails
  <2>2. left' \in [Events -> Nat]
    BY <1>0, <1>6 DEF ReconcileFails, Spend, OtherTypes, Events
  <2>. QED BY <1>0, <1>6, <2>1, <2>2 DEF ReconcileFails, StoreTypes, DiskTypes, OtherTypes
<1>. QED BY <1>1, <1>2, <1>3, <1>4, <1>5, <1>6 DEF Reconcile

\* Steps of an operation that leave the rows, the files and the readers alone.
LEMMA OpOnlyTypes ==
  ASSUME StoreTypes, UNCHANGED <<rowVars, disk, reader, removed, left>>, OpTypes'
  PROVE  StoreTypes'
  BY RowsSame DEF StoreTypes, DiskTypes, OtherTypes

\* The begin of every operation.
LEMMA BeginTypes ==
  ASSUME StoreTypes, NEW a \in Apis,
         \/ Maintain(a)
         \/ \E x \in Contents : Upload(a, 0, 0, x)
         \/ \E o \in Originals :
              \/ \E x \in Contents, base \in Keys \cup {0} : Upload(a, o, base, x)
              \/ Scope(a, o) \/ Remove(a, o) \/ Reprocess(a, o) \/ Index(a, o)
  PROVE  StoreTypes'
<1>. USE DEF Operations, JobKinds
<1>1. CASE Maintain(a)
  BY <1>1, RowsSame, EnterTypes, OpOnlyTypes DEF Maintain
<1>2. ASSUME NEW x \in Contents, NEW o \in Originals \cup {0}, NEW base \in Keys \cup {0},
             Upload(a, o, base, x)
      PROVE  StoreTypes'
  BY <1>2, RowsSame, EnterTypes, OpOnlyTypes DEF Upload
<1>3. ASSUME NEW o \in Originals, Scope(a, o) \/ Remove(a, o) PROVE StoreTypes'
  BY <1>3, RowsSame, EnterTypes, OpOnlyTypes DEF Scope, Remove
<1>4. ASSUME NEW o \in Originals, NEW kind \in JobKinds, NEW at \in {"parse", "snapshot"},
             StartJob(a, kind, at, o), (kind = "reprocess") <=> (at = "parse")
      PROVE  StoreTypes'
  <2>0. UNCHANGED rowVars /\ VersionsStay
    BY <1>4, RowsSame DEF StartJob, StoreTypes
  <2>1. PICK k \in Versions(o) :
          op' = [op EXCEPT ![a] = [NoOp EXCEPT !.kind = kind, !.at = at, !.of = o, !.base = k,
                                               !.scope = original[o].scope]]
    BY <1>4 DEF StartJob
  <2>2. OpSet(a)
    BY <1>4, <2>1 DEF StartJob, OpSet, StoreTypes, OpTypes
  <2>3. op'[a] = [NoOp EXCEPT !.kind = kind, !.at = at, !.of = o, !.base = k,
                              !.scope = original[o].scope]
    BY <2>1 DEF StoreTypes, OpTypes
  <2>4. k \in Keys /\ original[o].scope \in Nat
    BY DEF StoreTypes, RowTypes, OriginalTypes, OriginalRows, Versions
  <2>5. op'[a] \in OpRecords
    BY <2>3, <2>4, NoOpSound DEF OpRecords, Labels, Working
  <2>6. op'[a].kind = kind /\ op'[a].at = at /\ op'[a].of = o /\ op'[a].base = k
    BY <2>3 DEF NoOp
  <2>7. Versions(o)' = Versions(o)
    BY <2>0 DEF Versions
  <2>8. OpSound(op[a])'
    BY <1>4, <2>6, <2>7 DEF OpSound, InStage, Working
  <2>. QED BY <1>4, <2>0, <2>2, <2>5, <2>8, OpTypesStep, OpOnlyTypes DEF StartJob
<1>. QED BY <1>1, <1>2, <1>3, <1>4 DEF Reprocess, Index

\* The steps of an upload.
LEMMA UploadTypes ==
  ASSUME StoreTypes, NEW a \in Apis, Extract(a) \/ Write(a)
  PROVE  StoreTypes'
<1>0. op[a] \in OpRecords /\ OpSound(op[a]) /\ OpTypes /\ DiskTypes /\ OtherTypes
  BY DEF StoreTypes, OpTypes
<1>1. RowTypes' /\ VersionsStay
  BY RowsSame DEF Extract, Write
<1>2. CASE Extract(a)
  <2>1. CASE FailOp(a)
    BY <1>1, <1>2, <2>1, FailTypes, OpOnlyTypes DEF Extract
  <2>2. ASSUME NEW t \in TextOrNone, op' = [op EXCEPT ![a].at = "write", ![a].text = t],
               UNCHANGED lock
        PROVE  OpTypes'
    <3>1. op'[a] = [op[a] EXCEPT !.at = "write", !.text = t] /\ OpSet(a)
      BY <1>0, <2>2 DEF OpSet, OpTypes
    <3>2. op'[a] \in OpRecords
      BY <1>0, <3>1 DEF OpRecords, Labels
    <3>3. op'[a].at = "write" /\ op'[a].kind = op[a].kind /\ op'[a].content = op[a].content
      BY <1>0, <3>1 DEF OpRecords
    <3>4. OpSound(op[a])'
      BY <1>0, <1>2, <3>3 DEF Extract, OpSound, InStage, JobKinds, Reconciling, Working
    <3>. QED BY <1>1, <3>1, <3>2, <3>4, OpTypesStep
  <2>. QED BY <1>2, <2>1, <2>2, OpOnlyTypes DEF Extract, TextOrNone
<1>3. CASE Write(a)
  <2>1. op[a].content \in Contents
    BY <1>0, <1>3 DEF Write, OpSound
  <2>2. DiskTypes'
    BY <1>0, <1>3, <2>1 DEF Write, DiskTypes
  <2>3. left' \in [Events -> Nat]
    BY <1>0, <1>3 DEF Write, Spend, OtherTypes, Events
  <2>4. ASSUME NEW k \in Keys, op' = [op EXCEPT ![a].at = "commit", ![a].key = k],
               UNCHANGED lock
        PROVE  OpTypes'
    <3>1. op'[a] = [op[a] EXCEPT !.at = "commit", !.key = k] /\ OpSet(a)
      BY <1>0, <2>4 DEF OpSet, OpTypes
    <3>2. op'[a] \in OpRecords
      BY <1>0, <3>1 DEF OpRecords, Labels
    <3>3. /\ op'[a].at = "commit" /\ op'[a].kind = op[a].kind /\ op'[a].content = op[a].content
          /\ op'[a].key = k
      BY <1>0, <3>1 DEF OpRecords
    <3>4. OpSound(op[a])'
      BY <1>0, <1>3, <3>3 DEF Write, OpSound, InStage, JobKinds, Reconciling, Working
    <3>. QED BY <1>1, <3>1, <3>2, <3>4, OpTypesStep
  <2>5. OpTypes'
    BY <1>1, <1>3, <2>4, FailTypes DEF Write
  <2>. QED BY <1>0, <1>1, <1>3, <2>2, <2>3, <2>5 DEF Write, StoreTypes, OtherTypes
<1>. QED BY <1>2, <1>3

\* The row a commit adds: numbers count the versions of an original.
LEMMA NumberTyped == \A o : NextNumber(o) \in Nat
<1>. SUFFICES ASSUME NEW o PROVE NextNumber(o) \in Nat
  OBVIOUS
<1>1. Versions(o) \subseteq Keys
  BY DEF Versions
<1>2. Cardinality(Versions(o)) \in Nat
  BY <1>1, FS_Subset, FS_CardinalityType, ConstantsAssumption
<1>. QED BY <1>2 DEF NextNumber

NewVersion(q, o) ==
  [of |-> o, number |-> NextNumber(o), content |-> q.content, text |-> q.text,
   read |-> q.text # None, raw |-> FALSE]

LEMMA NewVersionTyped ==
  ASSUME NEW q \in OpRecords, q.content \in Contents, NEW o \in Originals
  PROVE  NewVersion(q, o) \in VersionRows
  BY NumberTyped DEF NewVersion, VersionRows, OpRecords

\* A commit that takes effect, and one that does not.
Registers(a, o) ==
  /\ original' = [original EXCEPT ![o].state = "live"]
  /\ version' = [version EXCEPT ![op[a].key] = NewVersion(op[a], o)]
  /\ IF op[a].of # 0 THEN o = op[a].of /\ Live(o) ELSE original[o].state = "absent"

LEMMA CommitCases ==
  ASSUME StoreTypes, NEW a \in Apis, Commit(a)
  PROVE  UNCHANGED <<original, version>> \/ \E o \in Originals : Registers(a, o)
  BY DEF Commit, Registers, NewVersion, Replaces

LEMMA CommitTypes ==
  ASSUME StoreTypes, KeysReserved, NEW a \in Apis, Commit(a)
  PROVE  StoreTypes'
<1>0. op[a] \in OpRecords /\ OpSound(op[a]) /\ RowTypes /\ OpTypes /\ DiskTypes /\ OtherTypes
  BY DEF StoreTypes, OpTypes
<1>1. op[a].key \in Keys /\ op[a].content \in Contents
  BY <1>0 DEF Commit, OpSound
<1>2. ASSUME NEW o \in Originals, Registers(a, o) PROVE RowTypes' /\ VersionsStay
  <2>1. OriginalTypes'
    BY <1>0, <1>2 DEF Registers, RowTypes, OriginalTypes, OriginalRows
  <2>2. version' \in [Keys -> VersionRows \cup {NoVersion}] /\ version'[op[a].key].of = o
    BY <1>0, <1>1, <1>2, NewVersionTyped DEF Registers, NewVersion, RowTypes, VersionTypes
  <2>3. \A k \in Keys \ {op[a].key} : version'[k] = version[k]
    BY <1>0, <1>2 DEF Registers, RowTypes, VersionTypes
  <2>4. \A p \in Originals : original[p].state # "absent" => original'[p].state # "absent"
    BY <1>0, <1>2 DEF Registers, RowTypes, OriginalTypes, OriginalRows
  <2>5. original'[o].state # "absent"
    BY <1>0, <1>2 DEF Registers, RowTypes, OriginalTypes, OriginalRows
  <2>6. \A k \in Keys : version[k] # NoVersion => version[k].of \in Originals
    BY <1>0 DEF RowTypes, VersionTypes, VersionRows
  <2>7. VersionsStay
    BY <2>3 DEF VersionsStay, Commit, KeysReserved
  <2>8. VersionTypes'
    <3>1. ASSUME NEW k \in Keys, version'[k] # NoVersion
          PROVE  original'[version'[k].of].state # "absent"
      BY <1>0, <2>2, <2>3, <2>4, <2>5, <2>6, <3>1 DEF RowTypes, VersionTypes
    <3>2. old' \subseteq {k \in Keys : version'[k] # NoVersion} /\ settled' \subseteq Keys
      BY <1>0, <2>7 DEF Commit, RowTypes, VersionTypes, VersionsStay
    <3>. QED BY <2>2, <3>1, <3>2 DEF VersionTypes
  <2>. QED BY <1>0, <2>1, <2>7, <2>8 DEF Commit, RowTypes, IndexTypes
<1>3. RowTypes' /\ VersionsStay
  BY <1>2, CommitCases, RowsSame DEF Commit
<1>4. OpTypes'
  BY <1>3, FinallyTypes DEF Commit
<1>. QED BY <1>0, <1>3, <1>4 DEF Commit, StoreTypes, DiskTypes, OtherTypes

\* The transactions of setScope() and remove().
LEMMA ScopeTypes ==
  ASSUME StoreTypes, NEW a \in Apis, ScopeCommit(a) \/ RemoveCommit(a)
  PROVE  StoreTypes'
<1>0. op[a] \in OpRecords /\ OpSound(op[a]) /\ RowTypes /\ OpTypes /\ DiskTypes /\ OtherTypes
  BY DEF StoreTypes, OpTypes
<1>1. op[a].kind \in {"scope", "remove"} /\ op[a].of \in Originals /\ op[a].of # 0
  BY <1>0, ConstantsAssumption
  DEF ScopeCommit, RemoveCommit, OpSound, InStage, Reconciling, Working
<1>2. OriginalTypes'
  <2>1. CASE ScopeCommit(a)
    BY <1>0, <1>1, <2>1 DEF ScopeCommit, Live, RowTypes, OriginalTypes, OriginalRows
  <2>2. CASE RemoveCommit(a)
    BY <1>0, <1>1, <2>2 DEF RemoveCommit, RowTypes, OriginalTypes, OriginalRows
  <2>. QED BY <2>1, <2>2
<1>3. \A o \in Originals : original[o].state # "absent" => original'[o].state # "absent"
  <2>1. CASE ScopeCommit(a)
    BY <1>0, <1>1, <2>1 DEF ScopeCommit, Live, RowTypes, OriginalTypes, OriginalRows
  <2>2. CASE RemoveCommit(a)
    BY <1>0, <1>1, <2>2 DEF RemoveCommit, RowTypes, OriginalTypes, OriginalRows
  <2>. QED BY <2>1, <2>2
<1>4. /\ version' \in [Keys -> VersionRows \cup {NoVersion}]
      /\ \A k \in Keys : version'[k].of = version[k].of /\ (version'[k] = NoVersion <=> version[k] = NoVersion)
  <2>1. CASE UNCHANGED version
    BY <1>0, <2>1 DEF RowTypes, VersionTypes
  <2>2. CASE version' = [k \in Keys |-> IF k \in Versions(op[a].of)
                                        THEN [version[k] EXCEPT !.text = None] ELSE version[k]]
    <3>1. ASSUME NEW k \in Versions(op[a].of)
          PROVE  /\ version'[k] \in VersionRows /\ version[k] \in VersionRows
                 /\ version'[k].of = version[k].of
      <4>1. version[k] \in VersionRows /\ k \in Keys
        BY <1>0, <1>1 DEF Versions, RowTypes, VersionTypes, NoVersion
      <4>2. version'[k] = [version[k] EXCEPT !.text = None]
        BY <2>2, <4>1
      <4>. QED BY <4>1, <4>2 DEF VersionRows, TextOrNone
    <3>2. \A v \in VersionRows : v # NoVersion
      BY ConstantsAssumption DEF VersionRows, NoVersion
    <3>3. \A k \in Keys \ Versions(op[a].of) : version'[k] = version[k]
      BY <2>2
    <3>. QED BY <1>0, <2>2, <3>1, <3>2, <3>3 DEF RowTypes, VersionTypes
  <2>. QED BY <2>1, <2>2 DEF ScopeCommit, RemoveCommit
<1>5. VersionTypes' /\ VersionsStay
  <2>1. ASSUME NEW k \in Keys, version'[k] # NoVersion
        PROVE  original'[version'[k].of].state # "absent"
    <3>1. version[k] # NoVersion /\ version[k].of \in Originals /\ original[version[k].of].state # "absent"
      BY <1>0, <1>4, <2>1 DEF RowTypes, VersionTypes, VersionRows
    <3>. QED BY <1>3, <1>4, <3>1
  <2>. QED BY <1>0, <1>4, <2>1
       DEF ScopeCommit, RemoveCommit, RowTypes, VersionTypes, VersionsStay
<1>6. RowTypes'
  BY <1>0, <1>2, <1>5 DEF ScopeCommit, RemoveCommit, RowTypes, IndexTypes
<1>7. OpTypes'
  <2>1. CASE Leave(a)
    BY <1>5, <2>1, LeaveTypes
  <2>2. CASE Go(a, "drop") /\ UNCHANGED lock
    <3>1. InStage([op[a] EXCEPT !.at = "drop"])
      BY <1>0, <1>1 DEF InStage, OpRecords, Reconciling
    <3>. QED BY <1>5, <2>2, <3>1, GoTypes DEF Labels, Reconciling
  <2>. QED BY <2>1, <2>2 DEF ScopeCommit, RemoveCommit
<1>. QED BY <1>0, <1>6, <1>7 DEF ScopeCommit, RemoveCommit, StoreTypes, DiskTypes, OtherTypes

\* The steps of a reprocess job.
LEMMA ReprocessTypes ==
  ASSUME StoreTypes, NEW a \in Apis, Parse(a) \/ CommitText(a)
  PROVE  StoreTypes'
<1>0. op[a] \in OpRecords /\ OpSound(op[a]) /\ RowTypes /\ OpTypes /\ DiskTypes /\ OtherTypes
  BY DEF StoreTypes, OpTypes
<1>1. CASE Parse(a)
  <2>1. RowTypes' /\ VersionsStay
    BY <1>1, RowsSame DEF Parse
  <2>2. CASE FailOp(a)
    BY <1>1, <2>1, <2>2, FailTypes, OpOnlyTypes DEF Parse
  <2>3. ASSUME NEW t \in TextOrNone, op' = [op EXCEPT ![a].at = "extracted", ![a].text = t],
               UNCHANGED lock
        PROVE  OpTypes'
    <3>1. op'[a] = [op[a] EXCEPT !.at = "extracted", !.text = t] /\ OpSet(a)
      BY <1>0, <2>3 DEF OpSet, OpTypes
    <3>2. op'[a] \in OpRecords
      BY <1>0, <3>1 DEF OpRecords, Labels
    <3>3. /\ op'[a].at = "extracted" /\ op'[a].kind = op[a].kind /\ op'[a].of = op[a].of
          /\ op'[a].base = op[a].base
      BY <1>0, <3>1 DEF OpRecords
    <3>4. Versions(op[a].of)' = Versions(op[a].of) 
      BY <1>1, <3>3 DEF Parse, Versions
    <3>5. OpSound(op[a])'
      BY <1>0, <1>1, <3>3, <3>4 DEF Parse, OpSound, InStage, JobKinds, Reconciling, Working
    <3>. QED BY <2>1, <3>1, <3>2, <3>5, OpTypesStep
  <2>. QED BY <1>1, <2>2, <2>3, OpOnlyTypes DEF Parse, TextOrNone
<1>2. CASE CommitText(a)
  <2>1. op[a].base \in Keys /\ version[op[a].base] \in VersionRows
    BY <1>0, <1>2, ConstantsAssumption
    DEF CommitText, OpSound, InStage, JobKinds, Reconciling, Working, Versions, RowTypes,
        VersionTypes, NoVersion
  <2>2. /\ version'[op[a].base] \in VersionRows
        /\ version'[op[a].base].of = version[op[a].base].of
        /\ version' \in [Keys -> VersionRows \cup {NoVersion}]
        /\ \A k \in Keys \ {op[a].base} : version'[k] = version[k]
    <3>1. CASE UNCHANGED version
      BY <1>0, <2>1, <3>1 DEF RowTypes, VersionTypes
    <3>2. CASE version' = [version EXCEPT ![op[a].base].read = op[a].text # None,
                             ![op[a].base].text = IF op[a].text # None THEN op[a].text ELSE @]
      <4>1. /\ version'[op[a].base] =
                 [[version[op[a].base] EXCEPT !.read = op[a].text # None] EXCEPT
                     !.text = IF op[a].text # None THEN op[a].text ELSE @]
            /\ \A k \in Keys \ {op[a].base} : version'[k] = version[k]
            /\ DOMAIN version' = Keys
        BY <1>0, <2>1, <3>2 DEF RowTypes, VersionTypes
      <4>2. op[a].text \in TextOrNone
        BY <1>0 DEF OpRecords
      <4>3. version'[op[a].base] \in VersionRows /\ version'[op[a].base].of = version[op[a].base].of
        BY <2>1, <4>1, <4>2 DEF VersionRows
      <4>. QED BY <1>0, <2>1, <3>2, <4>1, <4>3 DEF RowTypes, VersionTypes
    <3>. QED BY <1>2, <3>1, <3>2 DEF CommitText
  <2>3. \A v \in VersionRows : v # NoVersion
    BY ConstantsAssumption DEF VersionRows, NoVersion
  <2>4. RowTypes' /\ VersionsStay
    BY <1>0, <1>2, <2>1, <2>2, <2>3
    DEF CommitText, RowTypes, OriginalTypes, VersionTypes, IndexTypes, VersionsStay
  <2>5. OpTypes'
    BY <1>2, <2>4, LeaveTypes DEF CommitText
  <2>. QED BY <1>0, <1>2, <2>4, <2>5 DEF CommitText, StoreTypes, DiskTypes, OtherTypes
<1>. QED BY <1>1, <1>2

\* The steps of an index job.
LEMMA IndexRowTyped ==
  ASSUME NEW q \in OpRecords, NEW chunks \in Parts
  PROVE  [text |-> q.text, scope |-> q.scope, parts |-> q.parts, chunks |-> chunks] \in IndexRows
  BY DEF OpRecords, IndexRows

LEMMA IndexingTypes ==
  ASSUME StoreTypes, NEW a \in Apis, IndexStep(a)
  PROVE  StoreTypes'
<1>0. op[a] \in OpRecords /\ OpSound(op[a]) /\ RowTypes /\ OpTypes /\ DiskTypes /\ OtherTypes
  BY DEF StoreTypes, OpTypes
<1>. USE DEF Working, Reconciling
<1>1. CASE Snapshot(a)
  <2>1. RowTypes' /\ VersionsStay
    BY <1>1, RowsSame DEF Snapshot
  <2>2. CASE FailOp(a)
    BY <1>1, <2>1, <2>2, FailTypes, OpOnlyTypes DEF Snapshot
  <2>3. ASSUME NEW n \in 1 .. MaxParts, UNCHANGED lock, op[a].at = "snapshot",
               op' = [op EXCEPT ![a].at = "load", ![a].text = version[op[a].base].text,
                                ![a].scope = original[op[a].of].scope, ![a].parts = n]
        PROVE  OpTypes'
    <3>1. /\ op[a].kind = "index" /\ op[a].of \in Originals /\ op[a].base \in Versions(op[a].of)
          /\ op[a].base \in Keys /\ op[a].of # 0
      BY <1>0, <2>3, ConstantsAssumption DEF OpSound, InStage, JobKinds, Versions
    <3>2. version[op[a].base].text \in TextOrNone /\ original[op[a].of].scope \in Nat
      BY <1>0, <3>1 DEF RowTypes, OriginalTypes, OriginalRows, VersionTypes, VersionRows, NoVersion,
                        TextOrNone
    <3>3. n \in Nat
      BY MaxPartsAssumption
    <3>4. op'[a] = [op[a] EXCEPT !.at = "load", !.text = version[op[a].base].text,
                                 !.scope = original[op[a].of].scope, !.parts = n] /\ OpSet(a)
      BY <1>0, <2>3 DEF OpSet, OpTypes
    <3>5. op'[a] \in OpRecords
      BY <1>0, <3>2, <3>3, <3>4 DEF OpRecords, Labels
    <3>6. /\ op'[a].at = "load" /\ op'[a].kind = op[a].kind /\ op'[a].of = op[a].of
          /\ op'[a].base = op[a].base
      BY <1>0, <3>4 DEF OpRecords
    <3>7. \A q \in OpRecords : OpSound(q) => OpSound(q)'
      BY <2>1, SoundStays
    <3>8. OpSound(op[a])'
      BY <1>0, <3>1, <3>6, <3>7 DEF OpSound, InStage, JobKinds
    <3>. QED BY <2>1, <3>4, <3>5, <3>8, OpTypesStep
  <2>. QED BY <1>1, <2>2, <2>3, OpOnlyTypes DEF Snapshot
<1>2. ASSUME NEW at \in {"compare", "reuse", "embed"}, Go(a, at), UNCHANGED <<rowVars, lock>>,
             op[a].at \in {"load", "compare", "reuse"}
      PROVE  OpTypes'
  <2>1. InStage([op[a] EXCEPT !.at = at])
    BY <1>0, <1>2 DEF OpSound, InStage, OpRecords
  <2>. QED BY <1>2, <2>1, RowsSame, GoTypes DEF Labels
<1>3. CASE LoadOriginal(a)
  BY <1>2, <1>3, RowsSame, FailTypes, OpOnlyTypes DEF LoadOriginal
<1>4. CASE Same(a)
  BY <1>4, RowsSame, LeaveTypes, OpOnlyTypes DEF Same
<1>5. CASE Differs(a)
  BY <1>2, <1>5, RowsSame, FailTypes, OpOnlyTypes DEF Differs
<1>6. CASE NoReuse(a)
  BY <1>2, <1>6, RowsSame, FailTypes, OpOnlyTypes DEF NoReuse
<1>7. CASE Embed(a)
  <2>1. RowTypes' /\ VersionsStay
    BY <1>7, RowsSame DEF Embed
  <2>2. CASE FailOp(a)
    BY <1>7, <2>1, <2>2, FailTypes, OpOnlyTypes DEF Embed
  <2>3. ASSUME UNCHANGED lock,
               op' = [op EXCEPT ![a].vectors = Append(@, <<op[a].text, Len(@) + 1>>)]
        PROVE  OpTypes'
    <3>1. op'[a] = [op[a] EXCEPT !.vectors = Append(@, <<op[a].text, Len(@) + 1>>)] /\ OpSet(a)
      BY <1>0, <2>3 DEF OpSet, OpTypes
    <3>2. op[a].vectors \in Parts /\ op[a].text \in TextOrNone
      BY <1>0 DEF OpRecords
    <3>3. Append(op[a].vectors, <<op[a].text, Len(op[a].vectors) + 1>>) \in Parts
      BY <3>2 DEF Parts
    <3>4. op'[a] \in OpRecords
      BY <1>0, <3>1, <3>3 DEF OpRecords
    <3>5. /\ op'[a].at = op[a].at /\ op'[a].kind = op[a].kind /\ op'[a].of = op[a].of
          /\ op'[a].base = op[a].base /\ op'[a].key = op[a].key /\ op'[a].content = op[a].content
      BY <1>0, <3>1 DEF OpRecords
    <3>6. \A q \in OpRecords : OpSound(q) => OpSound(q)'
      BY <2>1, SoundStays
    <3>7. OpSound(op[a])'
      BY <1>0, <3>5, <3>6 DEF OpSound, InStage, JobKinds
    <3>. QED BY <2>1, <3>1, <3>4, <3>7, OpTypesStep
  <2>. QED BY <1>7, <2>2, <2>3, OpOnlyTypes DEF Embed
<1>8. CASE Rebind(a) \/ Store(a)
  <2>1. IndexTypes'
    <3>1. CASE Rebind(a)
      <4>1. PICK k \in Prior(a) : index' = [index EXCEPT ![op[a].base] =
                   [text |-> op[a].text, scope |-> op[a].scope, parts |-> op[a].parts,
                    chunks |-> index[k].chunks]]
        BY <3>1 DEF Rebind
      <4>2. index[k].chunks \in Parts
        BY <1>0 DEF Prior, Versions, RowTypes, IndexTypes, IndexRows
      <4>. QED BY <1>0, <4>1, <4>2, IndexRowTyped DEF RowTypes, IndexTypes
    <3>2. CASE Store(a)
      <4>1. op[a].vectors \in Parts
        BY <1>0 DEF OpRecords
      <4>. QED BY <1>0, <3>2, <4>1, IndexRowTyped DEF Store, RowTypes, IndexTypes
    <3>. QED BY <1>8, <3>1, <3>2
  <2>2. RowTypes' /\ VersionsStay
    BY <1>0, <1>8, <2>1
    DEF Rebind, Store, RowTypes, OriginalTypes, VersionTypes, VersionsStay
  <2>3. OpTypes'
    BY <1>8, <2>2, LeaveTypes DEF Rebind, Store
  <2>. QED BY <1>0, <1>8, <2>2, <2>3 DEF Rebind, Store, StoreTypes, DiskTypes, OtherTypes
<1>. QED BY <1>1, <1>3, <1>4, <1>5, <1>6, <1>7, <1>8 DEF IndexStep

\* The readers, who touch nothing, and the environment.
LEMMA ReaderTypes ==
  ASSUME StoreTypes, NEW r \in Readers,
         \/ \E o \in Originals, k \in Keys : Load(r, o, k)
         \/ ReadFile(r) \/ Recheck(r) \/ Answer(r)
  PROVE  StoreTypes'
<1>0. reader[r] \in ReaderRecords /\ RowTypes /\ OpTypes /\ OtherTypes
  BY DEF StoreTypes, OtherTypes
<1>1. UNCHANGED <<rowVars, disk, lock, op, removed>>
  BY DEF Load, ReadFile, Recheck, Answer
<1>2. reader' \in [Readers -> ReaderRecords]
  <2>1. ASSUME NEW o \in Originals, NEW k \in Keys, Load(r, o, k) PROVE reader' \in [Readers -> ReaderRecords]
    <3>1. original[o].scope \in Nat
      BY <1>0 DEF RowTypes, OriginalTypes, OriginalRows
    <3>. QED BY <1>0, <2>1, <3>1 DEF Load, NoReader, OtherTypes, ReaderRecords, ReaderLabels
  <2>2. CASE ReadFile(r)
    BY <1>0, <2>2 DEF ReadFile, OtherTypes, ReaderRecords, ReaderLabels
  <2>3. CASE Recheck(r)
    BY <1>0, <2>3 DEF Recheck, OtherTypes, ReaderRecords, ReaderLabels
  <2>4. CASE Answer(r)
    BY <1>0, <2>4 DEF Answer, NoReader, OtherTypes, ReaderRecords, ReaderLabels
  <2>. QED BY <2>1, <2>2, <2>3, <2>4
<1>3. left' \in [Events -> Nat]
  <2>1. Spend("read") \/ Spend("fault") \/ UNCHANGED left
    BY DEF Load, ReadFile, Recheck, Answer
  <2>. QED BY <1>0, <2>1 DEF Spend, OtherTypes, Events
<1>4. OpTypes'
  BY <1>0, <1>1 DEF OpTypes, OpSound, InStage, Versions
<1>. QED BY <1>0, <1>1, <1>2, <1>3, <1>4, RowsSame DEF StoreTypes, DiskTypes, OtherTypes

LEMMA EnvironmentTypes ==
  ASSUME StoreTypes, Age \/ \E a \in Apis : Crash(a) \/ Lose(a)
  PROVE  StoreTypes'
<1>0. RowTypes /\ OpTypes /\ DiskTypes /\ OtherTypes
  BY DEF StoreTypes
<1>1. left' \in [Events -> Nat]
  BY <1>0 DEF Age, Crash, Lose, Spend, OtherTypes, Events
<1>2. CASE Age
  <2>1. RowTypes'
    BY <1>0, <1>2 DEF Age, RowTypes, OriginalTypes, VersionTypes, IndexTypes
  <2>2. OpTypes'
    BY <1>0, <1>2 DEF Age, OpTypes, OpSound, InStage, Versions
  <2>. QED BY <1>0, <1>1, <1>2, <2>1, <2>2 DEF Age, StoreTypes, DiskTypes, OtherTypes
<1>3. ASSUME NEW a \in Apis, Crash(a) PROVE StoreTypes'
  BY <1>0, <1>1, <1>3, RowsSame, LeaveTypes DEF Crash, StoreTypes, DiskTypes, OtherTypes
<1>4. ASSUME NEW a \in Apis, Lose(a) PROVE StoreTypes'
  <2>1. OpTypes'
    BY <1>0, <1>4 DEF Lose, OpTypes, OpSound, InStage, Versions
  <2>. QED BY <1>0, <1>1, <1>4, <2>1, RowsSame DEF Lose, StoreTypes, DiskTypes, OtherTypes
<1>. QED BY <1>2, <1>3, <1>4

LEMMA StutterTypes == ASSUME StoreTypes, UNCHANGED vars PROVE StoreTypes'
<1>1. OpTypes'
  BY DEF StoreTypes, OpTypes, OpSound, InStage, Versions
<1>. QED BY <1>1, RowsSame DEF StoreTypes, DiskTypes, OtherTypes

LEMMA NextTypes == ASSUME StoreTypes, KeysReserved, [Next]_vars PROVE StoreTypes'
<1>1. ASSUME NEW a \in Apis, StoreStep(a) PROVE StoreTypes'
  BY <1>1, ReconcileTypes, UploadTypes, CommitTypes, ScopeTypes, ReprocessTypes DEF StoreStep
<1>2. ASSUME NEW a \in Apis, ReconcileFails(a) \/ Crash(a) \/ Lose(a) PROVE StoreTypes'
  BY <1>2, ReconcileTypes, EnvironmentTypes
<1>3. ASSUME NEW a \in Apis,
             \/ Maintain(a)
             \/ \E x \in Contents : Upload(a, 0, 0, x)
             \/ \E o \in Originals :
                  \/ \E x \in Contents, base \in Keys \cup {0} : Upload(a, o, base, x)
                  \/ Scope(a, o) \/ Remove(a, o) \/ Reprocess(a, o)
      PROVE  StoreTypes'
  BY <1>3, BeginTypes
<1>4. ASSUME StoreNext PROVE StoreTypes'
  BY <1>1, <1>2, <1>3, <1>4, ReaderTypes, EnvironmentTypes DEF StoreNext
<1>5. ASSUME NEW a \in Apis, NEW o \in Originals, Index(a, o) PROVE StoreTypes'
  BY <1>5, BeginTypes
<1>. QED BY <1>4, <1>5, IndexingTypes, StutterTypes DEF Next

-----------------------------------------------------------------------------
(* Who writes what                                                          *)

Begins(a) ==
  \/ Maintain(a)
  \/ \E x \in Contents : Upload(a, 0, 0, x)
  \/ \E o \in Originals :
       \/ \E x \in Contents, base \in Keys \cup {0} : Upload(a, o, base, x)
       \/ Scope(a, o) \/ Remove(a, o) \/ Reprocess(a, o) \/ Index(a, o)

Reads(r) ==
  \/ \E o \in Originals, k \in Keys : Load(r, o, k)
  \/ ReadFile(r) \/ Recheck(r) \/ Answer(r)

LEMMA NextSteps ==
  ASSUME [Next]_vars
  PROVE  \/ \E a \in Apis : \/ Begins(a) \/ StoreStep(a) \/ IndexStep(a)
                            \/ ReconcileFails(a) \/ Crash(a) \/ Lose(a)
         \/ \E r \in Readers : Reads(r)
         \/ Age \/ UNCHANGED vars
  BY DEF Next, StoreNext, Begins, Reads

LEMMA BeginsQuietly ==
  ASSUME NEW a \in Apis, Begins(a)
  PROVE  UNCHANGED <<rowVars, disk, reader, removed, left>>
  BY DEF Begins, Maintain, Upload, Scope, Remove, Reprocess, Index, StartJob

LEMMA ReadsQuietly ==
  ASSUME NEW r \in Readers, Reads(r)
  PROVE  UNCHANGED <<rowVars, disk, lock, op, removed>>
  BY DEF Reads, Load, ReadFile, Recheck, Answer

LEMMA RowWriters ==
  ASSUME [Next]_vars
  PROVE  \/ UNCHANGED <<original, version, old>>
         \/ \E a \in Apis : \/ Mark(a) \/ Commit(a) \/ ScopeCommit(a) \/ RemoveCommit(a)
                            \/ CommitText(a)
         \/ Age
<1>1. ASSUME NEW a \in Apis, ReconcileFails(a) \/ Crash(a) \/ Lose(a)
      PROVE  UNCHANGED <<original, version, old>>
  BY <1>1 DEF ReconcileFails, Crash, Lose
<1>2. ASSUME NEW a \in Apis, IndexStep(a)
      PROVE  UNCHANGED <<original, version, old>>
  BY <1>2 DEF IndexStep, Snapshot, LoadOriginal, Same, Differs, Rebind, NoReuse, Embed, Store
<1>3. ASSUME NEW a \in Apis, StoreStep(a)
      PROVE  \/ UNCHANGED <<original, version, old>>
             \/ Mark(a) \/ Commit(a) \/ ScopeCommit(a) \/ RemoveCommit(a) \/ CommitText(a)
  BY <1>3 DEF StoreStep, Reconcile, DropIndexes, Purge, Purged, Sweep, Unlink, Swept, Extract, Write,
              Parse
<1>. QED BY <1>1, <1>2, <1>3, NextSteps, BeginsQuietly, ReadsQuietly

LEMMA DiskWriters ==
  ASSUME [Next]_vars
  PROVE  UNCHANGED disk \/ \E a \in Apis : Purge(a) \/ Unlink(a) \/ Write(a)
<1>1. ASSUME NEW a \in Apis, ReconcileFails(a) \/ Crash(a) \/ Lose(a)
      PROVE  UNCHANGED disk
  BY <1>1 DEF ReconcileFails, Crash, Lose
<1>2. ASSUME NEW a \in Apis, IndexStep(a)
      PROVE  UNCHANGED disk
  BY <1>2 DEF IndexStep, Snapshot, LoadOriginal, Same, Differs, Rebind, NoReuse, Embed, Store
<1>3. ASSUME NEW a \in Apis, StoreStep(a)
      PROVE  UNCHANGED disk \/ Purge(a) \/ Unlink(a) \/ Write(a)
  BY <1>3 DEF StoreStep, Reconcile, DropIndexes, Mark, Purged, Sweep, Swept, Extract, Commit,
              ScopeCommit, RemoveCommit, Parse, CommitText
<1>. QED BY <1>1, <1>2, <1>3, NextSteps, BeginsQuietly, ReadsQuietly DEF Age

LEMMA IndexWriters ==
  ASSUME [Next]_vars
  PROVE  UNCHANGED index \/ \E a \in Apis : DropIndexes(a) \/ Rebind(a) \/ Store(a)
<1>1. ASSUME NEW a \in Apis, ReconcileFails(a) \/ Crash(a) \/ Lose(a)
      PROVE  UNCHANGED index
  BY <1>1 DEF ReconcileFails, Crash, Lose
<1>2. ASSUME NEW a \in Apis, IndexStep(a)
      PROVE  UNCHANGED index \/ Rebind(a) \/ Store(a)
  BY <1>2 DEF IndexStep, Snapshot, LoadOriginal, Same, Differs, NoReuse, Embed
<1>3. ASSUME NEW a \in Apis, StoreStep(a)
      PROVE  UNCHANGED index \/ DropIndexes(a)
  BY <1>3 DEF StoreStep, Reconcile, Purge, Mark, Purged, Sweep, Unlink, Swept, Extract, Write, Commit,
              ScopeCommit, RemoveCommit, Parse, CommitText
<1>. QED BY <1>1, <1>2, <1>3, NextSteps, BeginsQuietly, ReadsQuietly DEF Age

\* A process changes its own operation only.
LEMMA OpWriters ==
  ASSUME StoreTypes, [Next]_vars
  PROVE  \/ UNCHANGED op
         \/ \E a \in Apis :
              /\ op' = [op EXCEPT ![a] = op'[a]]
              /\ Begins(a) \/ StoreStep(a) \/ IndexStep(a) \/ ReconcileFails(a) \/ Crash(a)
<1>. USE DEF StoreTypes, OpTypes
<1>1. ASSUME NEW a \in Apis, Leave(a) \/ Finally(a) PROVE op' = [op EXCEPT ![a] = op'[a]]
  BY <1>1 DEF Leave, Finally
<1>2. ASSUME NEW a \in Apis, NEW at, Go(a, at) PROVE op' = [op EXCEPT ![a] = op'[a]]
  BY <1>2 DEF Go
<1>3. ASSUME NEW a \in Apis, Begins(a) PROVE op' = [op EXCEPT ![a] = op'[a]]
  BY <1>3 DEF Begins, Maintain, Upload, Scope, Remove, Reprocess, Index, StartJob, Enter
<1>4. ASSUME NEW a \in Apis, IndexStep(a) PROVE op' = [op EXCEPT ![a] = op'[a]]
  BY <1>1, <1>2, <1>4 DEF IndexStep, Snapshot, LoadOriginal, Same, Differs, Rebind, NoReuse, Embed, Store, FailOp
<1>5. ASSUME NEW a \in Apis, StoreStep(a) PROVE op' = [op EXCEPT ![a] = op'[a]]
  <2>1. CASE DropIndexes(a) \/ Swept(a) \/ Commit(a) \/ ScopeCommit(a) \/ RemoveCommit(a) \/ CommitText(a)
    BY <1>1, <1>2, <2>1 DEF DropIndexes, Swept, Commit, ScopeCommit, RemoveCommit, CommitText
  <2>2. CASE Purge(a) \/ Mark(a) \/ Purged(a) \/ Unlink(a)
    BY <2>2 DEF Purge, Mark, Purged, Unlink
  <2>3. CASE Sweep(a)
    BY <2>3 DEF Sweep
  <2>4. CASE Extract(a) \/ Write(a) \/ Parse(a)
    BY <1>1, <2>4 DEF Extract, Write, Parse, FailOp
  <2>. QED BY <1>5, <2>1, <2>2, <2>3, <2>4 DEF StoreStep, Reconcile
<1>6. ASSUME NEW a \in Apis, ReconcileFails(a) \/ Crash(a) PROVE op' = [op EXCEPT ![a] = op'[a]]
  BY <1>1, <1>6 DEF ReconcileFails, Crash
<1>. QED BY <1>3, <1>4, <1>5, <1>6, NextSteps, ReadsQuietly DEF Lose, Age

-----------------------------------------------------------------------------
(* Rows only grow                                                           *)

VersionsGrow ==
  \A k \in Keys : version[k] # NoVersion =>
    /\ version'[k] # NoVersion
    /\ version'[k].of = version[k].of /\ version'[k].number = version[k].number
    /\ version'[k].content = version[k].content
    /\ version[k].raw => version'[k].raw

\* A version that appears was committed by an upload, for an original in use.
VersionsCommitted ==
  \A k \in Keys : version[k] = NoVersion /\ version'[k] # NoVersion =>
    \E a \in Apis :
      /\ Commit(a) /\ op[a].key = k /\ version'[k].content = op[a].content
      /\ original'[version'[k].of].state = "live"

OriginalsGrow ==
  \A o \in Originals :
    /\ original[o].state # "absent" => original'[o].state # "absent"
    /\ original[o].state = "deleted" => original'[o].state = "deleted"
    /\ original'[o].scope >= original[o].scope
    /\ original'[o].scope = original[o].scope => original'[o].excluded = original[o].excluded

RowsGrow == VersionsGrow /\ VersionsCommitted /\ OriginalsGrow /\ old \subseteq old'

LEMMA SameRowsGrow ==
  ASSUME StoreTypes, UNCHANGED <<original, version>>, old \subseteq old'
  PROVE  RowsGrow
<1>1. \A o \in Originals : original[o].scope \in Nat
  BY DEF StoreTypes, RowTypes, OriginalTypes, OriginalRows
<1>. QED BY <1>1 DEF RowsGrow, VersionsGrow, VersionsCommitted, OriginalsGrow

LEMMA NextGrows == ASSUME StoreTypes, KeysReserved, [Next]_vars PROVE RowsGrow
<1>. USE DEF RowsGrow
<1>0. /\ original \in [Originals -> OriginalRows] /\ version \in [Keys -> VersionRows \cup {NoVersion}]
      /\ \A o \in Originals : original[o].scope \in Nat
      /\ \A v \in VersionRows : v # NoVersion
  BY ConstantsAssumption
  DEF StoreTypes, RowTypes, OriginalTypes, VersionTypes, OriginalRows, VersionRows, NoVersion
<1>1. ASSUME UNCHANGED original PROVE OriginalsGrow
  BY <1>0, <1>1 DEF OriginalsGrow
<1>2. ASSUME UNCHANGED version PROVE VersionsGrow /\ VersionsCommitted
  BY <1>2 DEF VersionsGrow, VersionsCommitted
<1>3. ASSUME NEW a \in Apis, Mark(a) PROVE RowsGrow
  <2>1. op[a].key \in Keys /\ version[op[a].key] \in VersionRows
    BY <1>0, <1>3 DEF Mark, StoreTypes, OpTypes, OpSound
  <2>2. version'[op[a].key] = [[version[op[a].key] EXCEPT !.raw = TRUE] EXCEPT !.text = None]
    BY <1>0, <1>3, <2>1 DEF Mark
  <2>3. /\ version'[op[a].key] \in VersionRows
        /\ version'[op[a].key].of = version[op[a].key].of
        /\ version'[op[a].key].number = version[op[a].key].number
        /\ version'[op[a].key].content = version[op[a].key].content
        /\ version'[op[a].key].raw
    BY <2>1, <2>2 DEF VersionRows, TextOrNone
  <2>4. \A k \in Keys \ {op[a].key} : version'[k] = version[k]
    BY <1>0, <1>3 DEF Mark
  <2>5. VersionsGrow /\ VersionsCommitted
    BY <1>0, <2>1, <2>3, <2>4 DEF VersionsGrow, VersionsCommitted
  <2>. QED BY <1>1, <1>3, <2>5 DEF Mark
<1>4. ASSUME NEW a \in Apis, NEW o \in Originals, Commit(a), Registers(a, o) PROVE RowsGrow
  <2>1. op[a].key \in Keys /\ op[a] \in OpRecords /\ op[a].content \in Contents /\ version[op[a].key] = NoVersion
    BY <1>4 DEF Commit, KeysReserved, StoreTypes, OpTypes, OpSound
  <2>2. \A k \in Keys \ {op[a].key} : version'[k] = version[k]
    BY <1>0, <1>4 DEF Registers
  <2>3. version'[op[a].key].of = o /\ version'[op[a].key].content = op[a].content
    BY <1>0, <1>4, <2>1 DEF Registers, NewVersion
  <2>4. /\ original'[o].state = "live" /\ \A p \in Originals \ {o} : original'[p] = original[p]
        /\ original'[o].scope = original[o].scope /\ original'[o].excluded = original[o].excluded
    BY <1>0, <1>4 DEF Registers, OriginalRows
  <2>5. original[o].state # "deleted"
    BY <1>4 DEF Registers, Live
  <2>6. VersionsGrow
    BY <2>1, <2>2 DEF VersionsGrow
  <2>7. VersionsCommitted
    BY <1>4, <2>2, <2>3, <2>4 DEF VersionsCommitted
  <2>8. OriginalsGrow
    BY <1>0, <2>4, <2>5 DEF OriginalsGrow
  <2>. QED BY <1>4, <2>6, <2>7, <2>8 DEF Commit
<1>5. ASSUME NEW a \in Apis, Commit(a) PROVE RowsGrow
  BY <1>4, <1>5, CommitCases, SameRowsGrow DEF Commit
<1>6. ASSUME NEW a \in Apis, ScopeCommit(a) PROVE RowsGrow
  <2>1. CASE UNCHANGED original
    BY <1>1, <1>2, <1>6, <2>1 DEF ScopeCommit
  <2>2. CASE Live(op[a].of)
             /\ original' = [original EXCEPT ![op[a].of].excluded = ~@, ![op[a].of].scope = @ + 1]
    <3>1. op[a].of \in Originals /\ original[op[a].of] \in OriginalRows
      BY <1>0, <2>2 DEF Live
    <3>2. original'[op[a].of] = [[original[op[a].of] EXCEPT !.excluded = ~@] EXCEPT !.scope = @ + 1]
      BY <1>0, <2>2, <3>1
    <3>3. /\ original'[op[a].of].state = original[op[a].of].state
          /\ original'[op[a].of].scope = original[op[a].of].scope + 1
      BY <3>1, <3>2 DEF OriginalRows
    <3>4. \A o \in Originals \ {op[a].of} : original'[o] = original[o]
      BY <1>0, <2>2
    <3>5. OriginalsGrow
      BY <1>0, <3>1, <3>3, <3>4 DEF OriginalsGrow
    <3>. QED BY <1>2, <1>6, <3>5 DEF ScopeCommit
  <2>. QED BY <1>6, <2>1, <2>2 DEF ScopeCommit
<1>7. ASSUME NEW a \in Apis, RemoveCommit(a) PROVE RowsGrow
  <2>1. CASE UNCHANGED <<original, version>>
    BY <1>7, <2>1, SameRowsGrow DEF RemoveCommit
  <2>2. CASE /\ original' = [original EXCEPT ![op[a].of].state = "deleted"]
             /\ version' = [k \in Keys |-> IF k \in Versions(op[a].of)
                                           THEN [version[k] EXCEPT !.text = None] ELSE version[k]]
    <3>1. OriginalsGrow
      BY <1>0, <2>2 DEF OriginalsGrow, OriginalRows
    <3>2. ASSUME NEW k \in Keys, version[k] # NoVersion
          PROVE  /\ version'[k] # NoVersion
                 /\ version'[k].of = version[k].of /\ version'[k].number = version[k].number
                 /\ version'[k].content = version[k].content
                 /\ version[k].raw => version'[k].raw
      <4>1. version[k] \in VersionRows
        BY <1>0, <3>2
      <4>2. CASE version'[k] = [version[k] EXCEPT !.text = None]
        <5>1. version'[k] \in VersionRows
          BY <4>1, <4>2 DEF VersionRows, TextOrNone
        <5>. QED BY <1>0, <4>1, <4>2, <5>1 DEF VersionRows
      <4>3. CASE version'[k] = version[k]
        BY <3>2, <4>3
      <4>. QED BY <2>2, <4>2, <4>3
    <3>3. ASSUME NEW k \in Keys, version[k] = NoVersion PROVE version'[k] = NoVersion
      <4>1. k \notin Versions(op[a].of)
        BY <1>7, <3>3, ConstantsAssumption
        DEF RemoveCommit, Versions, NoVersion, StoreTypes, OpTypes, OpSound, InStage, Reconciling, Working
      <4>. QED BY <2>2, <3>3, <4>1
    <3>. QED BY <1>7, <3>1, <3>2, <3>3 DEF RemoveCommit, VersionsGrow, VersionsCommitted
  <2>. QED BY <1>7, <2>1, <2>2 DEF RemoveCommit
<1>8. ASSUME NEW a \in Apis, CommitText(a) PROVE RowsGrow
  <2>1. CASE UNCHANGED version
    BY <1>1, <1>2, <1>8, <2>1 DEF CommitText
  <2>2. CASE version' = [version EXCEPT ![op[a].base].read = op[a].text # None,
                             ![op[a].base].text = IF op[a].text # None THEN op[a].text ELSE @]
    <3>1. op[a].base \in Keys /\ version[op[a].base] \in VersionRows /\ op[a].text \in TextOrNone
      BY <1>0, <1>8, ConstantsAssumption
      DEF CommitText, OpSound, InStage, JobKinds, Reconciling, Working, Versions, StoreTypes, OpTypes,
          OpRecords, NoVersion
    <3>2. version'[op[a].base] =
            [[version[op[a].base] EXCEPT !.read = op[a].text # None] EXCEPT
               !.text = IF op[a].text # None THEN op[a].text ELSE @]
      BY <1>0, <2>2, <3>1
    <3>3. /\ version'[op[a].base] \in VersionRows
          /\ version'[op[a].base].of = version[op[a].base].of
          /\ version'[op[a].base].number = version[op[a].base].number
          /\ version'[op[a].base].content = version[op[a].base].content
          /\ version'[op[a].base].raw = version[op[a].base].raw
      BY <3>1, <3>2 DEF VersionRows
    <3>4. \A k \in Keys \ {op[a].base} : version'[k] = version[k]
      BY <1>0, <2>2
    <3>5. VersionsGrow /\ VersionsCommitted
      BY <1>0, <3>1, <3>3, <3>4 DEF VersionsGrow, VersionsCommitted
    <3>. QED BY <1>1, <1>8, <3>5 DEF CommitText
  <2>. QED BY <1>8, <2>1, <2>2 DEF CommitText
<1>9. CASE Age
  BY <1>1, <1>2, <1>9 DEF Age, StoreTypes, RowTypes, VersionTypes
<1>. QED BY <1>1, <1>2, <1>3, <1>5, <1>6, <1>7, <1>8, <1>9, RowWriters

-----------------------------------------------------------------------------
(* Names in use                                                             *)

OwnStep(a) == Begins(a) \/ StoreStep(a) \/ IndexStep(a) \/ ReconcileFails(a) \/ Crash(a)

LEMMA EndLabels ==
  ASSUME StoreTypes, NEW a \in Apis, Leave(a) \/ FailOp(a) \/ Finally(a)
  PROVE  op'[a].at \in {"idle", "drop"} /\ op'[a].content = None
<1>1. CASE Leave(a)
  BY <1>1 DEF Leave, NoOp, StoreTypes, OpTypes
<1>2. CASE Finally(a)
  <2>1. op'[a] = [NoOp EXCEPT !.kind = "upload", !.at = "drop"]
    BY <1>2 DEF Finally, StoreTypes, OpTypes
  <2>. QED BY <2>1 DEF NoOp
<1>. QED BY <1>1, <1>2 DEF FailOp

LEMMA GoLabel ==
  ASSUME StoreTypes, NEW a \in Apis, NEW at, Go(a, at)
  PROVE  op'[a] = [op[a] EXCEPT !.at = at] /\ op'[a].at = at
  BY DEF Go, StoreTypes, OpTypes, OpRecords

LEMMA BeginLabels ==
  ASSUME StoreTypes, NEW a \in Apis, Begins(a)
  PROVE  op'[a].at \in {"drop", "scope", "remove", "parse", "snapshot"} /\ op'[a].key = 0
<1>1. ASSUME NEW kind, NEW at, NEW o, NEW base, NEW x, Enter(a, kind, at, o, base, x)
      PROVE  op'[a].at = at /\ op'[a].key = 0
  BY <1>1 DEF Enter, NoOp, StoreTypes, OpTypes
<1>2. ASSUME NEW kind, NEW at, NEW o, StartJob(a, kind, at, o)
      PROVE  op'[a].at = at /\ op'[a].key = 0
  <2>1. PICK k : op'[a] = [NoOp EXCEPT !.kind = kind, !.at = at, !.of = o, !.base = k,
                                       !.scope = original[o].scope]
    BY <1>2 DEF StartJob, StoreTypes, OpTypes
  <2>. QED BY <2>1 DEF NoOp
<1>. QED BY <1>1, <1>2 DEF Begins, Maintain, Upload, Scope, Remove, Reprocess, Index

\* An upload comes to its commit by writing a file of its own.
Written(a) ==
  /\ Write(a) /\ op[a].content \in Contents
  /\ FreshKey(op'[a].key)
  /\ disk' = [disk EXCEPT ![op'[a].key] = op[a].content]
  /\ op'[a].content = op[a].content

LEMMA CommitIsWritten ==
  ASSUME StoreTypes, NEW a \in Apis, OwnStep(a), op'[a].at = "commit"
  PROVE  Written(a)
<1>0. op[a] \in OpRecords /\ OpSound(op[a]) /\ op \in [Apis -> OpRecords]
  BY DEF StoreTypes, OpTypes
<1>1. ~ (Leave(a) \/ FailOp(a) \/ Finally(a)) /\ ~Begins(a)
  BY EndLabels, BeginLabels
<1>2. \A at \in Labels \ {"commit"} : ~Go(a, at)
  BY GoLabel
<1>3. ~ (ReconcileFails(a) \/ Crash(a) \/ Swept(a) \/ Commit(a) \/ ScopeCommit(a) \/ RemoveCommit(a)
         \/ CommitText(a) \/ Same(a) \/ Rebind(a) \/ Store(a))
  BY <1>1, <1>2
  DEF ReconcileFails, Crash, Swept, Commit, ScopeCommit, RemoveCommit, CommitText, Same, Rebind, Store,
      Labels, Reconciling, Working
<1>4. ~ (DropIndexes(a) \/ LoadOriginal(a) \/ Differs(a) \/ NoReuse(a))
  BY <1>1, <1>2 DEF DropIndexes, LoadOriginal, Differs, NoReuse, Labels, Reconciling, Working
<1>5. ~ (Purge(a) \/ Mark(a) \/ Purged(a) \/ Sweep(a) \/ Unlink(a))
  BY <1>0 DEF Purge, Mark, Purged, Sweep, Unlink, OpRecords
<1>6. ~ (Extract(a) \/ Parse(a))
  BY <1>0, <1>1 DEF Extract, Parse, OpRecords
<1>7. ~ (Snapshot(a) \/ Embed(a))
  BY <1>0, <1>1 DEF Snapshot, Embed, OpRecords
<1>8. Write(a)
  BY <1>1, <1>3, <1>4, <1>5, <1>6, <1>7 DEF OwnStep, StoreStep, IndexStep, Reconcile
<1>9. op[a].content \in Contents
  BY <1>0, <1>8 DEF Write, OpSound
<1>10. PICK k \in Keys : /\ FreshKey(k) /\ disk' = [disk EXCEPT ![k] = op[a].content]
                         /\ op' = [op EXCEPT ![a].at = "commit", ![a].key = k]
  BY <1>1, <1>8 DEF Write
<1>11. op'[a].key = k /\ op'[a].content = op[a].content
  BY <1>0, <1>10 DEF OpRecords
<1>. QED BY <1>8, <1>9, <1>10, <1>11 DEF Written

LEMMA NextReserves == ASSUME StoreTypes, KeysReserved, [Next]_vars PROVE KeysReserved'
<1>1. VersionsCommitted
  BY NextGrows DEF RowsGrow
<1>2. CASE UNCHANGED op
  <2>1. \A a \in Apis : ~Commit(a)
    BY <1>2, EndLabels DEF Commit
  <2>. QED BY <1>1, <1>2, <2>1 DEF KeysReserved, VersionsCommitted, StoreTypes, OpTypes, OpSound
<1>3. ASSUME NEW a \in Apis, op' = [op EXCEPT ![a] = op'[a]], OwnStep(a)
      PROVE  KeysReserved'
  <2>0. \A b \in Apis \ {a} : op'[b] = op[b]
    BY <1>3 DEF StoreTypes, OpTypes
  <2>1. \A b \in Apis : Commit(b) => b = a
    BY <2>0, EndLabels DEF Commit
  <2>2. ASSUME NEW b \in Apis \ {a}, op[b].at = "commit"
        PROVE  version'[op[b].key] = NoVersion
    <3>1. op[b].key \in Keys /\ version[op[b].key] = NoVersion
      BY <2>2 DEF KeysReserved, StoreTypes, OpTypes, OpSound
    <3>2. ~ (Commit(a) /\ op[a].key = op[b].key)
      BY <2>2 DEF KeysReserved, Commit
    <3>. QED BY <1>1, <2>1, <3>1, <3>2 DEF VersionsCommitted
  <2>3. CASE op'[a].at = "commit"
    <3>1. Written(a)
      BY <1>3, <2>3, CommitIsWritten
    <3>2. FreshKey(op'[a].key) /\ UNCHANGED version
      BY <3>1 DEF Written, Write
    <3>3. version'[op'[a].key] = NoVersion /\ \A b \in Apis : op'[a].key # op[b].key
      BY <3>2 DEF FreshKey, Taken
    <3>. QED BY <2>0, <2>2, <2>3, <3>3 DEF KeysReserved
  <2>4. CASE op'[a].at # "commit"
    BY <2>0, <2>2, <2>4 DEF KeysReserved
  <2>. QED BY <2>3, <2>4
<1>. QED BY <1>2, <1>3, OpWriters DEF OwnStep

StoreInv == StoreTypes /\ KeysReserved

LEMMA InitReserved == Init => KeysReserved
  BY DEF Init, KeysReserved, NoOp

\* Types, rows that refer to each other, and operations that have what they need.
THEOREM StoreTypeCorrect == Spec => []StoreInv
<1>1. Init => StoreInv
  BY InitTypes, InitReserved DEF StoreInv
<1>2. StoreInv /\ [Next]_vars => StoreInv'
  BY NextTypes, NextReserves DEF StoreInv
<1>. QED BY <1>1, <1>2, PTL DEF Spec

-----------------------------------------------------------------------------
(* Files stay with their rows                                               *)

\* Whoever reconciles or uploads is alone with the files.
Sole == \A a \in Apis : op[a].at # "idle" /\ op[a].kind \notin JobKinds => lock = a

\* A file about to be removed is of no use, one about to be registered is there.
Handled ==
  \A a \in Apis :
    /\ op[a].at = "unlink" => Unused(op[a].key)
    /\ op[a].at = "commit" => disk[op[a].key] = op[a].content

KeptInv == Sole /\ Handled /\ FilesKept

\* A raw file that may be purged may be purged until it is.
LEMMA DueStays ==
  ASSUME StoreInv, RowsGrow, NEW k \in Keys
  PROVE  /\ Deleted(k) => Deleted(k)'
         /\ Newer(k) \subseteq Newer(k)' \/ version[k] = NoVersion
         /\ RawDue(k) => RawDue(k)' \/ version'[k].raw
<1>. USE DEF RowsGrow, VersionsGrow
<1>0. \A j \in Keys : version[j].of # 0 => version[j] # NoVersion /\ version[j].of \in Originals
  BY DEF StoreInv, StoreTypes, RowTypes, VersionTypes, VersionRows, NoVersion
<1>1. Deleted(k) => Deleted(k)'
  BY <1>0 DEF Deleted, OriginalsGrow
<1>2. ASSUME version[k] # NoVersion PROVE Newer(k) \subseteq Newer(k)'
  <2>1. version[k].of # 0
    BY <1>2, ConstantsAssumption
    DEF StoreInv, StoreTypes, RowTypes, VersionTypes, VersionRows, NoVersion
  <2>2. \A j \in Keys : version[j].of = version[k].of => version'[j].of = version[j].of
    BY <1>0, <2>1
  <2>. QED BY <1>0, <1>2, <2>1, <2>2 DEF Newer, Versions
<1>3. Superseded(k) => Superseded(k)'
  BY <1>0, <1>2 DEF Superseded
<1>. QED BY <1>0, <1>1, <1>2, <1>3 DEF RawDue

\* A file is marked for removal by the look at its row.
LEMMA UnlinkIsSwept ==
  ASSUME StoreTypes, NEW a \in Apis, OwnStep(a), op'[a].at = "unlink"
  PROVE  Sweep(a) /\ Unused(op'[a].key)
<1>0. op[a] \in OpRecords /\ OpSound(op[a]) /\ op \in [Apis -> OpRecords]
  BY DEF StoreTypes, OpTypes
<1>1. ~ (Leave(a) \/ FailOp(a) \/ Finally(a)) /\ ~Begins(a)
  BY EndLabels, BeginLabels
<1>2. \A at \in Labels \ {"unlink"} : ~Go(a, at)
  BY GoLabel
<1>3. ~ (ReconcileFails(a) \/ Crash(a) \/ Swept(a) \/ Commit(a) \/ ScopeCommit(a) \/ RemoveCommit(a)
         \/ CommitText(a) \/ Same(a) \/ Rebind(a) \/ Store(a))
  BY <1>1, <1>2
  DEF ReconcileFails, Crash, Swept, Commit, ScopeCommit, RemoveCommit, CommitText, Same, Rebind, Store,
      Labels, Reconciling, Working
<1>4. ~ (DropIndexes(a) \/ LoadOriginal(a) \/ Differs(a) \/ NoReuse(a))
  BY <1>1, <1>2 DEF DropIndexes, LoadOriginal, Differs, NoReuse, Labels, Reconciling, Working
<1>5. ~ (Purge(a) \/ Mark(a) \/ Purged(a) \/ Unlink(a))
  BY <1>0 DEF Purge, Mark, Purged, Unlink, OpRecords
<1>6. ~ (Extract(a) \/ Parse(a) \/ Write(a))
  BY <1>0, <1>1 DEF Extract, Parse, Write, OpRecords
<1>7. ~ (Snapshot(a) \/ Embed(a))
  BY <1>0, <1>1 DEF Snapshot, Embed, OpRecords
<1>8. Sweep(a)
  BY <1>1, <1>3, <1>4, <1>5, <1>6, <1>7 DEF OwnStep, StoreStep, IndexStep, Reconcile
<1>9. PICK k \in op[a].todo :
        op' = IF Unused(k) THEN [op EXCEPT ![a].at = "unlink", ![a].key = k]
                           ELSE [op EXCEPT ![a].todo = @ \ {k}]
  BY <1>8 DEF Sweep
<1>10. Unused(k)
  BY <1>0, <1>8, <1>9 DEF Sweep, OpRecords
<1>11. op'[a].key = k
  BY <1>0, <1>9, <1>10 DEF OpRecords
<1>. QED BY <1>8, <1>10, <1>11

\* An operation keeps its kind, and what is not left keeps the lock.
LEMMA KindStays ==
  ASSUME StoreTypes, NEW a \in Apis,
         StoreStep(a) \/ IndexStep(a) \/ ReconcileFails(a) \/ Crash(a)
  PROVE  \/ Leave(a)
         \/ UNCHANGED lock /\ op'[a].kind = op[a].kind /\ op[a].at # "idle"
<1>0. op[a] \in OpRecords /\ OpSound(op[a]) /\ op \in [Apis -> OpRecords]
  BY DEF StoreTypes, OpTypes
<1>1. Finally(a) => op'[a].kind = "upload"
  <2>1. Finally(a) => op'[a] = [NoOp EXCEPT !.kind = "upload", !.at = "drop"]
    BY <1>0 DEF Finally
  <2>. QED BY <2>1 DEF NoOp
<1>2. FailOp(a) => Leave(a) \/ (UNCHANGED lock /\ op'[a].kind = op[a].kind)
  BY <1>1 DEF FailOp
<1>3. \A at : Go(a, at) => op'[a].kind = op[a].kind
  BY <1>0 DEF Go, OpRecords
<1>4. CASE ReconcileFails(a) \/ Crash(a) \/ Swept(a) \/ ScopeCommit(a) \/ RemoveCommit(a)
           \/ CommitText(a) \/ Same(a) \/ Rebind(a) \/ Store(a) \/ DropIndexes(a)
  BY <1>3, <1>4
  DEF ReconcileFails, Crash, Swept, ScopeCommit, RemoveCommit, CommitText, Same, Rebind, Store,
      DropIndexes
<1>5. CASE LoadOriginal(a) \/ Differs(a) \/ NoReuse(a)
  BY <1>2, <1>3, <1>5 DEF LoadOriginal, Differs, NoReuse
<1>6. CASE Commit(a)
  BY <1>0, <1>1, <1>6 DEF Commit, OpSound, InStage, Reconciling, Working
<1>7. CASE Purge(a) \/ Mark(a) \/ Purged(a) \/ Unlink(a)
  BY <1>0, <1>7 DEF Purge, Mark, Purged, Unlink, OpRecords
<1>8. CASE Sweep(a)
  BY <1>0, <1>8 DEF Sweep, OpRecords
<1>9. CASE Extract(a) \/ Parse(a) \/ Write(a)
  BY <1>0, <1>2, <1>9 DEF Extract, Parse, Write, OpRecords
<1>10. CASE Snapshot(a) \/ Embed(a)
  BY <1>0, <1>2, <1>10 DEF Snapshot, Embed, OpRecords
<1>. QED BY <1>4, <1>5, <1>6, <1>7, <1>8, <1>9, <1>10 DEF StoreStep, IndexStep, Reconcile

LEMMA NextSole == ASSUME StoreTypes, Sole, Losing \subseteq JobKinds, [Next]_vars PROVE Sole'
<1>. USE DEF Sole
<1>0. op \in [Apis -> OpRecords] /\ None \notin Apis
  BY ConstantsAssumption DEF StoreTypes, OpTypes
<1>1. ASSUME NEW a \in Apis, op' = [op EXCEPT ![a] = op'[a]], Begins(a) PROVE Sole'
  BY <1>0, <1>1
  DEF Begins, Maintain, Upload, Scope, Remove, Reprocess, Index, StartJob, Enter, Admitted, LockFree
<1>2. ASSUME NEW a \in Apis, op' = [op EXCEPT ![a] = op'[a]], Leave(a) PROVE Sole'
  <2>1. op'[a].at = "idle" /\ lock' = Free(a)
    BY <1>0, <1>2 DEF Leave, NoOp
  <2>. QED BY <1>0, <1>2, <2>1 DEF Free
<1>3. ASSUME NEW a \in Apis, op' = [op EXCEPT ![a] = op'[a]],
             UNCHANGED lock, op'[a].kind = op[a].kind, op[a].at # "idle"
      PROVE  Sole'
  BY <1>0, <1>3
<1>4. ASSUME NEW a \in Apis, Lose(a) PROVE Sole'
  BY <1>0, <1>4 DEF Lose
<1>5. CASE UNCHANGED <<op, lock>>
  BY <1>5
<1>6. UNCHANGED op => UNCHANGED lock \/ \E a \in Apis : Lose(a) \/ Leave(a) \/ Begins(a)
  <2>1. ASSUME NEW a \in Apis, StoreStep(a) \/ IndexStep(a) \/ ReconcileFails(a) \/ Crash(a)
        PROVE  Leave(a) \/ UNCHANGED lock
    BY <2>1, KindStays
  <2>. QED BY <2>1, NextSteps, ReadsQuietly DEF Age
<1>7. ASSUME UNCHANGED op, NEW a \in Apis PROVE op' = [op EXCEPT ![a] = op'[a]]
  BY <1>0, <1>7
<1>8. ASSUME NEW a \in Apis, op' = [op EXCEPT ![a] = op'[a]],
             Begins(a) \/ StoreStep(a) \/ IndexStep(a) \/ ReconcileFails(a) \/ Crash(a)
      PROVE  Sole'
  BY <1>1, <1>2, <1>3, <1>8, KindStays
<1>. QED BY <1>1, <1>2, <1>4, <1>5, <1>6, <1>7, <1>8, OpWriters

\* Under the lock the others neither write files nor register what they wrote.
LEMMA OthersWait ==
  ASSUME StoreTypes, Sole, NEW a \in Apis, NEW b \in Apis, a # b,
         op[a].at \in Reconciling \cup {"extract", "write", "commit"},
         op[b].at \in Reconciling \cup {"extract", "write", "commit"}
  PROVE  FALSE
<1>1. \A c \in {a, b} : op[c].kind \notin JobKinds /\ op[c].at # "idle"
  BY DEF StoreTypes, OpTypes, OpSound, InStage, JobKinds, Reconciling, Working
<1>. QED BY <1>1 DEF Sole

LEMMA NextHandled == ASSUME StoreInv, KeptInv, [Next]_vars PROVE Handled'
<1>0. /\ StoreTypes /\ KeysReserved /\ RowsGrow /\ Sole /\ Handled
      /\ op \in [Apis -> OpRecords] /\ disk \in [Keys -> Contents \cup {None}]
  BY NextGrows DEF StoreInv, KeptInv, StoreTypes, OpTypes, DiskTypes
<1>1. ASSUME NEW b \in Apis, op'[b] = op[b], op[b].at = "unlink" PROVE Unused(op[b].key)'
  <2>1. op[b].key \in Keys /\ Unused(op[b].key)
    BY <1>0, <1>1 DEF StoreTypes, OpTypes, OpSound, Handled
  <2>2. ASSUME NEW a \in Apis PROVE ~ Commit(a)
    <3>1. CASE a = b
      BY <1>1, <3>1 DEF Commit
    <3>2. CASE a # b
      BY <1>0, <1>1, <3>2, OthersWait DEF Commit, Reconciling
    <3>. QED BY <3>1, <3>2
  <2>3. version[op[b].key] = NoVersion => version'[op[b].key] = NoVersion
    BY <1>0, <2>1, <2>2 DEF RowsGrow, VersionsCommitted
  <2>4. Deleted(op[b].key) => Deleted(op[b].key)'
    <3>1. ASSUME NEW k \in Keys PROVE Deleted(k) => Deleted(k)'
      BY <1>0, DueStays
    <3>. QED BY <1>1, <2>1, <3>1 DEF Deleted
  <2>. QED BY <1>1, <2>1, <2>3, <2>4 DEF Unused
<1>2. ASSUME NEW b \in Apis, op'[b] = op[b], op[b].at = "commit"
      PROVE  disk'[op[b].key] = op[b].content
  <2>1. ASSUME NEW a \in Apis PROVE ~ (Purge(a) \/ Unlink(a) \/ Write(a))
    <3>1. CASE a = b
      BY <1>2, <3>1 DEF Purge, Unlink, Write
    <3>2. CASE a # b
      BY <1>0, <1>2, <3>2, OthersWait DEF Purge, Unlink, Write, Reconciling
    <3>. QED BY <3>1, <3>2
  <2>. QED BY <1>0, <1>2, <2>1, DiskWriters DEF Handled
<1>3. CASE UNCHANGED op
  BY <1>1, <1>2, <1>3 DEF Handled
<1>4. ASSUME NEW a \in Apis, op' = [op EXCEPT ![a] = op'[a]], OwnStep(a) PROVE Handled'
  <2>1. \A b \in Apis \ {a} : op'[b] = op[b]
    BY <1>0, <1>4
  <2>2. op'[a].at = "unlink" => Unused(op[a].key)'
    <3>. SUFFICES ASSUME op'[a].at = "unlink" PROVE Unused(op[a].key)'
      OBVIOUS
    <3>1. Sweep(a) /\ Unused(op'[a].key)
      BY <1>0, <1>4, UnlinkIsSwept
    <3>. QED BY <3>1 DEF Sweep, Unused, Deleted
  <2>3. op'[a].at = "commit" => disk'[op'[a].key] = op'[a].content
    BY <1>0, <1>4, CommitIsWritten DEF Written, FreshKey
  <2>4. ASSUME NEW b \in Apis \ {a}
        PROVE  /\ op'[b].at = "unlink" => Unused(op[b].key)'
               /\ op'[b].at = "commit" => disk'[op'[b].key] = op'[b].content
    BY <1>1, <1>2, <2>1
  <2>. QED BY <2>2, <2>3, <2>4 DEF Handled
<1>. QED BY <1>0, <1>3, <1>4, OpWriters DEF OwnStep

LEMMA NextKept == ASSUME StoreInv, KeptInv, [Next]_vars PROVE FilesKept'
<1>0. /\ StoreTypes /\ KeysReserved /\ RowsGrow /\ Sole /\ Handled /\ FilesKept
      /\ disk \in [Keys -> Contents \cup {None}]
  BY NextGrows DEF StoreInv, KeptInv, StoreTypes, DiskTypes
<1>. SUFFICES ASSUME NEW k \in Keys, version'[k] # NoVersion, ~version'[k].raw, ~RawDue(k)'
              PROVE  disk'[k] = version'[k].content
  BY DEF FilesKept
<1>1. CASE version[k] = NoVersion
  <2>1. PICK a \in Apis : Commit(a) /\ op[a].key = k /\ version'[k].content = op[a].content
    BY <1>0, <1>1 DEF RowsGrow, VersionsCommitted
  <2>2. disk[k] = op[a].content /\ disk' = disk
    BY <1>0, <2>1 DEF Commit, Handled
  <2>. QED BY <2>1, <2>2
<1>2. CASE version[k] # NoVersion
  <2>1. ~RawDue(k) /\ ~version[k].raw /\ version'[k].content = version[k].content
    BY <1>0, <1>2, DueStays DEF RowsGrow, VersionsGrow
  <2>2. disk[k] = version[k].content
    BY <1>0, <1>2, <2>1 DEF FilesKept
  <2>3. ASSUME NEW a \in Apis, Purge(a) PROVE disk'[k] = disk[k]
    BY <1>0, <2>1, <2>3 DEF Purge
  <2>4. ASSUME NEW a \in Apis, Unlink(a) PROVE disk'[k] = disk[k]
    <3>1. Unused(op[a].key)
      BY <1>0, <2>4 DEF Unlink, Handled
    <3>2. op[a].key # k
      BY <1>2, <2>1, <3>1 DEF Unused, RawDue, Deleted
    <3>. QED BY <1>0, <2>4, <3>2 DEF Unlink
  <2>5. ASSUME NEW a \in Apis, Write(a) PROVE disk'[k] = disk[k]
    <3>1. ~FreshKey(k)
      BY <1>2 DEF FreshKey, Taken
    <3>. QED BY <1>0, <2>5, <3>1 DEF Write
  <2>. QED BY <2>1, <2>2, <2>3, <2>4, <2>5, DiskWriters
<1>. QED BY <1>1, <1>2

LEMMA InitKept == Init => KeptInv
  BY DEF Init, KeptInv, Sole, Handled, FilesKept, NoOp

\* While the operations that write and remove files hold their lock to the end, a
\* version keeps its file until it may be purged, whatever else is interleaved,
\* fails or crashes (reconcile(), write() and create()).
THEOREM FilesAreKept == ASSUME Losing \subseteq JobKinds PROVE Spec => []FilesKept
<1>1. Init => KeptInv
  BY InitKept
<1>2. StoreInv /\ KeptInv /\ [Next]_vars => KeptInv'
  BY NextSole, NextHandled, NextKept DEF KeptInv, StoreInv
<1>3. KeptInv => FilesKept
  BY DEF KeptInv
<1>. QED BY <1>1, <1>2, <1>3, StoreTypeCorrect, PTL DEF Spec

-----------------------------------------------------------------------------
(* Readers                                                                  *)

\* A reader holds a version that was readable when it was loaded.  Its original
\* has not changed its mind about that scope, and a file that was found missing,
\* though reading did not fail, is the file of a version that changed meanwhile.
ReaderSound(q) ==
  q.at # "idle" =>
    /\ q.of \in Originals /\ q.key \in Versions(q.of)
    /\ original[q.of].scope >= q.scope
    /\ original[q.of].scope = q.scope => ~original[q.of].excluded
    /\ q.at = "absent" /\ ~q.faulted => ~Unchanged(q)
    /\ q.at = "unavailable" => q.faulted

ReadersSound == \A r \in Readers : ReaderSound(reader[r])

\* What is a version of an original is registered.
LEMMA VersionOf ==
  ASSUME StoreTypes, NEW o \in Originals, NEW k \in Versions(o)
  PROVE  /\ k \in Keys /\ version[k].of = o /\ o # 0
         /\ version[k] # NoVersion /\ version[k] \in VersionRows /\ version[k].content # None
         /\ original[o].state \in {"live", "deleted"}
<1>1. k \in Keys /\ version[k].of = o /\ o # 0
  BY ConstantsAssumption DEF Versions
<1>2. version[k] # NoVersion
  BY <1>1 DEF NoVersion
<1>3. version[k] \in VersionRows /\ original[o].state # "absent"
  BY <1>1, <1>2 DEF StoreTypes, RowTypes, VersionTypes
<1>4. version[k].content # None /\ original[o].state \in {"absent", "live", "deleted"}
  BY <1>3, ConstantsAssumption DEF VersionRows, StoreTypes, RowTypes, OriginalTypes, OriginalRows
<1>. QED BY <1>1, <1>2, <1>3, <1>4

\* What a reader can no longer have as it was, it never has again.
LEMMA ReaderStays ==
  ASSUME StoreInv, StoreTypes', RowsGrow, NEW q \in ReaderRecords, ReaderSound(q)
  PROVE  ReaderSound(q)'
<1>. USE DEF RowsGrow, VersionsGrow
<1>. SUFFICES ASSUME q.at # "idle" PROVE ReaderSound(q)'
  BY DEF ReaderSound
<1>0. /\ q.of \in Originals /\ q.key \in Keys /\ version[q.key].of = q.of
      /\ version[q.key] # NoVersion /\ original[q.of].state # "absent"
      /\ original[q.of].state \in {"absent", "live", "deleted"}
  BY VersionOf DEF ReaderSound, StoreInv
<1>1. /\ q.scope \in Nat /\ original[q.of].scope \in Nat /\ original'[q.of].scope \in Nat
      /\ original[q.of].scope >= q.scope /\ original'[q.of].scope >= original[q.of].scope
      /\ original'[q.of].scope = original[q.of].scope => original'[q.of].excluded = original[q.of].excluded
      /\ original[q.of].scope = q.scope => ~original[q.of].excluded
  BY <1>0 DEF ReaderSound, OriginalsGrow, ReaderRecords, StoreInv, StoreTypes, RowTypes, OriginalTypes,
              OriginalRows
<1>2. q.key \in Versions(q.of)'
  BY <1>0 DEF Versions
<1>3. ASSUME Unchanged(q)' PROVE Unchanged(q)
  <2>1. original'[q.of].scope = q.scope /\ original'[q.of].state = "live" /\ ~version'[q.key].raw
        /\ Newer(q.key)' = {}
    BY <1>3 DEF Unchanged, Readable, Live, Newest
  <2>2. original[q.of].scope = q.scope /\ ~original[q.of].excluded
    BY <1>1, <2>1
  <2>3. original[q.of].state = "live" /\ ~version[q.key].raw
    BY <1>0, <2>1 DEF OriginalsGrow
  <2>4. Newer(q.key) = {}
    BY <1>0, <2>1, DueStays
  <2>. QED BY <1>0, <2>2, <2>3, <2>4 DEF Unchanged, Readable, Live, Newest, Versions
<1>. QED BY <1>0, <1>1, <1>2, <1>3 DEF ReaderSound

\* Readers go on by themselves.
LEMMA ReaderUntouched ==
  ASSUME [Next]_vars PROVE UNCHANGED reader \/ \E r \in Readers : Reads(r)
<1>1. ASSUME NEW a \in Apis, ReconcileFails(a) \/ Crash(a) \/ Lose(a) PROVE UNCHANGED reader
  BY <1>1 DEF ReconcileFails, Crash, Lose
<1>2. ASSUME NEW a \in Apis, IndexStep(a) PROVE UNCHANGED reader
  BY <1>2 DEF IndexStep, Snapshot, LoadOriginal, Same, Differs, Rebind, NoReuse, Embed, Store
<1>3. ASSUME NEW a \in Apis, StoreStep(a) PROVE UNCHANGED reader
  BY <1>3 DEF StoreStep, Reconcile, DropIndexes, Purge, Mark, Purged, Sweep, Unlink, Swept, Extract,
              Write, Commit, ScopeCommit, RemoveCommit, Parse, CommitText
<1>. QED BY <1>1, <1>2, <1>3, NextSteps, BeginsQuietly DEF Age

LEMMA NextReaders ==
  ASSUME StoreInv, FilesKept, ReadersSound, [Next]_vars PROVE ReadersSound'
<1>0. StoreTypes /\ StoreTypes' /\ RowsGrow /\ reader \in [Readers -> ReaderRecords]
  BY NextGrows, NextTypes DEF StoreInv, StoreTypes, OtherTypes
<1>1. ASSUME NEW r \in Readers PROVE ReaderSound(reader[r])'  \/ reader'[r] # reader[r]
  <2>1. \A q \in ReaderRecords : ReaderSound(q) => ReaderSound(q)'
    BY <1>0, ReaderStays
  <2>. QED BY <1>0, <2>1 DEF ReadersSound
<1>2. CASE UNCHANGED reader
  BY <1>1, <1>2 DEF ReadersSound
<1>3. ASSUME NEW r \in Readers, Reads(r) PROVE ReadersSound'
  <2>. DEFINE q == reader[r]
  <2>0. q \in ReaderRecords /\ ReaderSound(q) /\ UNCHANGED rowVars
    BY <1>0, <1>3, ReadsQuietly DEF ReadersSound
  <2>1. reader' = [reader EXCEPT ![r] = reader'[r]]
    BY <1>0, <1>3 DEF Reads, Load, ReadFile, Recheck, Answer
  <2>2. ASSUME ReaderSound(reader'[r]) PROVE ReadersSound'
    <3>1. \A p : ReaderSound(p) => ReaderSound(p)'
      BY <2>0 DEF ReaderSound, Unchanged, Readable, Newest, Newer, Live, Versions
    <3>. QED BY <1>0, <1>1, <2>1, <2>2, <3>1 DEF ReadersSound
  <2>3. ASSUME NEW o \in Originals, NEW k \in Keys, Load(r, o, k) PROVE ReaderSound(reader'[r])
    <3>1. reader'[r] = [NoReader EXCEPT !.at = "read", !.of = o, !.key = k,
                                        !.scope = original[o].scope]
      BY <1>0, <2>3 DEF Load
    <3>2. /\ reader'[r].at = "read" /\ reader'[r].of = o /\ reader'[r].key = k
          /\ reader'[r].scope = original[o].scope
      BY <3>1 DEF NoReader
    <3>3. original[o].scope \in Nat
      BY <1>0 DEF StoreTypes, RowTypes, OriginalTypes, OriginalRows
    <3>. QED BY <2>3, <3>2, <3>3 DEF Load, Readable, Newest, ReaderSound
  <2>4. ASSUME ReadFile(r) PROVE ReaderSound(reader'[r])
    <3>1. q.at = "read" /\ q.of \in Originals /\ q.key \in Versions(q.of)
      BY <2>0, <2>4 DEF ReadFile, ReaderSound
    <3>2. CASE disk[q.key] # None /\ reader'[r] = [q EXCEPT !.at = "found"]
      <4>1. reader'[r].at = "found" /\ reader'[r].of = q.of /\ reader'[r].key = q.key
            /\ reader'[r].scope = q.scope
        BY <2>0, <3>2 DEF ReaderRecords
      <4>. QED BY <2>0, <3>1, <4>1 DEF ReaderSound
    <3>3. CASE disk[q.key] = None /\ reader'[r] = [q EXCEPT !.at = "absent"]
      <4>1. reader'[r].at = "absent" /\ reader'[r].of = q.of /\ reader'[r].key = q.key
            /\ reader'[r].scope = q.scope
        BY <2>0, <3>3 DEF ReaderRecords
      <4>2. q.key \in Keys /\ version[q.key].of = q.of /\ q.of # 0 /\ version[q.key] # NoVersion
            /\ version[q.key].content # None
        BY <1>0, <3>1, VersionOf
      <4>3. RawDue(q.key) \/ version[q.key].raw
        BY <3>3, <4>2 DEF FilesKept
      <4>4. ~Unchanged(q)
        BY <4>2, <4>3 DEF RawDue, Deleted, Superseded, Unchanged, Readable, Live, Newest
      <4>5. ~Unchanged(reader'[r])
        BY <4>1, <4>4 DEF Unchanged
      <4>. QED BY <2>0, <3>1, <4>1, <4>5 DEF ReaderSound
    <3>4. CASE reader'[r] = [[q EXCEPT !.at = "absent"] EXCEPT !.faulted = TRUE]
      <4>1. reader'[r].at = "absent" /\ reader'[r].of = q.of /\ reader'[r].key = q.key
            /\ reader'[r].scope = q.scope /\ reader'[r].faulted
        BY <2>0, <3>4 DEF ReaderRecords
      <4>. QED BY <2>0, <3>1, <4>1 DEF ReaderSound
    <3>. QED BY <1>0, <2>4, <3>2, <3>3, <3>4 DEF ReadFile
  <2>5. ASSUME Recheck(r) PROVE ReaderSound(reader'[r])
    <3>1. PICK at \in {"served", "unavailable", "missing"} :
            /\ reader'[r] = [q EXCEPT !.at = at]
            /\ at = "unavailable" => q.at = "absent" /\ Unchanged(q)
      BY <1>0, <2>5 DEF Recheck
    <3>2. reader'[r].at = at /\ reader'[r].of = q.of /\ reader'[r].key = q.key
          /\ reader'[r].scope = q.scope /\ reader'[r].faulted = q.faulted
      BY <2>0, <3>1 DEF ReaderRecords
    <3>3. q.at # "idle"
      BY <2>5 DEF Recheck
    <3>. QED BY <2>0, <3>1, <3>2, <3>3 DEF ReaderSound
  <2>6. ASSUME Answer(r) PROVE ReaderSound(reader'[r])
    BY <1>0, <2>6 DEF Answer, ReaderSound, NoReader
  <2>. QED BY <1>3, <2>2, <2>3, <2>4, <2>5, <2>6 DEF Reads
<1>. QED BY <1>2, <1>3, ReaderUntouched

\* While files are kept, a reference is answered "unavailable" only when reading
\* its file failed: that the file of a version may be purged between the two looks
\* at its row (reference(), recheck()) is told apart by the second look.
THEOREM UnavailableIsAFault == ASSUME Losing \subseteq JobKinds PROVE Spec => []UnavailableOnlyByFault
<1>1. Init => ReadersSound
  BY DEF Init, ReadersSound, ReaderSound, NoReader
<1>2. StoreInv /\ FilesKept /\ ReadersSound /\ [Next]_vars => ReadersSound'
  BY NextReaders
<1>3. ReadersSound => UnavailableOnlyByFault
  BY DEF ReadersSound, ReaderSound, UnavailableOnlyByFault
<1>. QED BY <1>1, <1>2, <1>3, StoreTypeCorrect, FilesAreKept, PTL DEF Spec

-----------------------------------------------------------------------------
(* Indexes                                                                  *)

Faithful(i) ==
  Len(i.chunks) = i.parts /\ \A n \in 1 .. i.parts : i.chunks[n] = <<i.text, n>>

\* A job embeds the chunks of one text in order, a text it took from its version.
JobSound(q) ==
  /\ q.at # "embed" => q.vectors = <<>>
  /\ Len(q.vectors) <= q.parts
  /\ \A n \in 1 .. Len(q.vectors) : q.vectors[n] = <<q.text, n>>
  /\ q.at \in Working => q.text # None

IndexSound == (\A k \in Keys : Faithful(index[k])) /\ \A a \in Apis : JobSound(op[a])

LEMMA NoVectors ==
  ASSUME NEW q \in OpRecords, q.vectors = <<>>, q.at \in Working => q.text # None
  PROVE  JobSound(q)
<1>1. Len(q.vectors) = 0 /\ q.parts \in Nat
  BY DEF OpRecords
<1>2. 1 .. Len(q.vectors) = {}
  BY <1>1
<1>. QED BY <1>1, <1>2 DEF JobSound

LEMMA BeginVectors ==
  ASSUME StoreTypes, NEW a \in Apis, Begins(a) \/ Leave(a) \/ FailOp(a) \/ Finally(a)
  PROVE  op'[a].vectors = <<>> /\ op'[a].at \notin Working
<1>1. ASSUME NEW kind, NEW at, NEW o, NEW base, NEW x, Enter(a, kind, at, o, base, x)
      PROVE  op'[a].vectors = <<>>
  BY <1>1 DEF Enter, NoOp, StoreTypes, OpTypes
<1>2. ASSUME NEW kind, NEW at, NEW o, StartJob(a, kind, at, o)
      PROVE  op'[a].vectors = <<>>
  <2>1. PICK k : op'[a] = [NoOp EXCEPT !.kind = kind, !.at = at, !.of = o, !.base = k,
                                       !.scope = original[o].scope]
    BY <1>2 DEF StartJob, StoreTypes, OpTypes
  <2>. QED BY <2>1 DEF NoOp
<1>3. CASE Begins(a)
  BY <1>1, <1>2, <1>3, BeginLabels
  DEF Begins, Maintain, Upload, Scope, Remove, Reprocess, Index, Working
<1>4. CASE Leave(a)
  BY <1>4, EndLabels DEF Leave, NoOp, StoreTypes, OpTypes, Working
<1>5. CASE Finally(a)
  <2>1. op'[a] = [NoOp EXCEPT !.kind = "upload", !.at = "drop"]
    BY <1>5 DEF Finally, StoreTypes, OpTypes
  <2>. QED BY <2>1 DEF NoOp, Working
<1>. QED BY <1>3, <1>4, <1>5 DEF FailOp

\* No other operation embeds.
LEMMA StoreVectors ==
  ASSUME StoreTypes, NEW a \in Apis, JobSound(op[a]), StoreStep(a)
  PROVE  op'[a].vectors = <<>> /\ op'[a].at \notin Working
<1>0. op[a] \in OpRecords /\ OpSound(op[a]) /\ op \in [Apis -> OpRecords]
  BY DEF StoreTypes, OpTypes
<1>1. \A at : Go(a, at) => op'[a].vectors = op[a].vectors /\ op'[a].at = at
  BY <1>0 DEF Go, OpRecords
<1>2. op[a].at # "embed" => op[a].vectors = <<>>
  BY DEF JobSound
<1>3. CASE DropIndexes(a) \/ Swept(a) \/ ScopeCommit(a) \/ RemoveCommit(a) \/ CommitText(a) \/ Commit(a)
  BY <1>1, <1>2, <1>3, BeginVectors
  DEF DropIndexes, Swept, ScopeCommit, RemoveCommit, CommitText, Commit, Working
<1>4. CASE Purge(a) \/ Mark(a) \/ Purged(a) \/ Unlink(a)
  BY <1>0, <1>2, <1>4 DEF Purge, Mark, Purged, Unlink, OpRecords, Working
<1>5. CASE Sweep(a)
  BY <1>0, <1>2, <1>5 DEF Sweep, OpRecords, Working
<1>6. CASE Extract(a) \/ Parse(a) \/ Write(a)
  BY <1>0, <1>2, <1>6, BeginVectors DEF Extract, Parse, Write, OpRecords, Working
<1>. QED BY <1>3, <1>4, <1>5, <1>6 DEF StoreStep, Reconcile

\* A job that goes on keeps its text and its vectors.
LEMMA JobGoes ==
  ASSUME StoreTypes, NEW a \in Apis, JobSound(op[a]), NEW at, Go(a, at), op[a].at \in Working,
         op[a].at # "embed"
  PROVE  JobSound(op'[a])
<1>0. op[a] \in OpRecords /\ op \in [Apis -> OpRecords]
  BY DEF StoreTypes, OpTypes
<1>1. op'[a].vectors = <<>> /\ op'[a].text # None /\ op'[a].parts \in Nat
  BY <1>0 DEF Go, OpRecords, JobSound
<1>2. Len(op'[a].vectors) = 0
  BY <1>1
<1>3. 1 .. Len(op'[a].vectors) = {}
  BY <1>2
<1>. QED BY <1>1, <1>2, <1>3 DEF JobSound

LEMMA IndexVectors ==
  ASSUME StoreTypes, StoreTypes', NEW a \in Apis, JobSound(op[a]), IndexStep(a)
  PROVE  JobSound(op'[a])
<1>0. op[a] \in OpRecords /\ op \in [Apis -> OpRecords] /\ op'[a] \in OpRecords
  BY DEF StoreTypes, OpTypes
<1>1. ASSUME Leave(a) \/ FailOp(a) PROVE JobSound(op'[a])
  BY <1>0, <1>1, BeginVectors, NoVectors
<1>2. CASE Snapshot(a)
  <2>1. CASE op'[a] = [op[a] EXCEPT !.at = "load", !.text = op'[a].text,
                                    !.scope = op'[a].scope, !.parts = op'[a].parts]
             /\ op'[a].text # None
    <3>1. op'[a].vectors = op[a].vectors /\ op[a].vectors = <<>>
      BY <1>0, <1>2, <2>1 DEF Snapshot, JobSound, OpRecords
    <3>. QED BY <1>0, <2>1, <3>1, NoVectors
  <2>2. ~FailOp(a) => op'[a] = [op[a] EXCEPT !.at = "load", !.text = op'[a].text,
                                             !.scope = op'[a].scope, !.parts = op'[a].parts]
                      /\ op'[a].text # None
    <3>. SUFFICES ASSUME ~FailOp(a)
                  PROVE  op'[a] = [op[a] EXCEPT !.at = "load", !.text = op'[a].text,
                                             !.scope = op'[a].scope, !.parts = op'[a].parts]
                         /\ op'[a].text # None
      OBVIOUS
    <3>1. PICK n \in 1 .. MaxParts :
            op' = [op EXCEPT ![a].at = "load", ![a].text = version[op[a].base].text,
                             ![a].scope = original[op[a].of].scope, ![a].parts = n]
      BY <1>2 DEF Snapshot
    <3>2. op'[a] = [op[a] EXCEPT !.at = "load", !.text = version[op[a].base].text,
                                 !.scope = original[op[a].of].scope, !.parts = n]
      BY <1>0, <3>1
    <3>3. op'[a].text = version[op[a].base].text /\ op'[a].scope = original[op[a].of].scope
          /\ op'[a].parts = n
      BY <1>0, <3>2 DEF OpRecords
    <3>4. version[op[a].base].text # None
      BY <1>2 DEF Snapshot
    <3>. QED BY <3>2, <3>3, <3>4
  <2>. QED BY <1>1, <2>1, <2>2
<1>3. CASE LoadOriginal(a) \/ Same(a) \/ Differs(a) \/ Rebind(a) \/ NoReuse(a)
  BY <1>1, <1>3, JobGoes DEF LoadOriginal, Same, Differs, Rebind, NoReuse, Working
<1>4. CASE Embed(a)
  <2>. DEFINE q == op[a]
  <2>1. CASE Len(q.vectors) < q.parts
             /\ op' = [op EXCEPT ![a].vectors = Append(@, <<op[a].text, Len(@) + 1>>)]
    <3>1. op'[a] = [q EXCEPT !.vectors = Append(q.vectors, <<q.text, Len(q.vectors) + 1>>)]
      BY <1>0, <2>1
    <3>2. /\ op'[a].vectors = Append(q.vectors, <<q.text, Len(q.vectors) + 1>>)
          /\ op'[a].parts = q.parts /\ op'[a].text = q.text /\ op'[a].at = q.at
      BY <1>0, <3>1 DEF OpRecords
    <3>3. q.vectors \in Parts /\ q.parts \in Nat /\ q.at = "embed"
      BY <1>0, <1>4 DEF Embed, OpRecords
    <3>4. Len(q.vectors) \in Nat /\ Len(op'[a].vectors) = Len(q.vectors) + 1
      BY <3>2, <3>3 DEF Parts
    <3>5. Len(op'[a].vectors) <= q.parts
      BY <2>1, <3>3, <3>4
    <3>6. \A n \in 1 .. Len(op'[a].vectors) : op'[a].vectors[n] = <<q.text, n>>
      BY <3>2, <3>3, <3>4 DEF Parts, JobSound
    <3>7. q.text # None
      BY <3>3 DEF JobSound, Working
    <3>. QED BY <3>2, <3>3, <3>5, <3>6, <3>7 DEF JobSound
  <2>. QED BY <1>1, <1>4, <2>1 DEF Embed
<1>5. CASE Store(a)
  BY <1>1, <1>5 DEF Store
<1>. QED BY <1>2, <1>3, <1>4, <1>5 DEF IndexStep

\* The only index a job writes is one of its text, under its scope, with all chunks.
LEMMA WritesFaithfully ==
  ASSUME StoreTypes, IndexSound, NEW a \in Apis, Rebind(a) \/ Store(a)
  PROVE  /\ op[a].base \in Keys
         /\ index' = [index EXCEPT ![op[a].base] = index'[op[a].base]]
         /\ Faithful(index'[op[a].base])
         /\ index'[op[a].base].text = op[a].text /\ index'[op[a].base].scope = op[a].scope
<1>0. op[a] \in OpRecords /\ OpSound(op[a]) /\ index \in [Keys -> IndexRows] /\ JobSound(op[a])
  BY DEF StoreTypes, OpTypes, RowTypes, IndexTypes, IndexSound
<1>1. op[a].base \in Keys
  BY <1>0 DEF Rebind, Store, OpSound, InStage, JobKinds, Versions, Working, Reconciling
<1>2. CASE Rebind(a)
  <2>1. PICK k \in Prior(a) :
          index' = [index EXCEPT ![op[a].base] =
                      [text |-> op[a].text, scope |-> op[a].scope, parts |-> op[a].parts,
                       chunks |-> index[k].chunks]]
    BY <1>2 DEF Rebind
  <2>2. k \in Keys /\ index[k].text = op[a].text /\ index[k].parts = op[a].parts
    BY <2>1 DEF Prior, SameIndex, Versions
  <2>3. Faithful(index[k])
    BY <2>2 DEF IndexSound
  <2>4. index'[op[a].base] = [text |-> op[a].text, scope |-> op[a].scope, parts |-> op[a].parts,
                              chunks |-> index[k].chunks]
    BY <1>0, <1>1, <2>1
  <2>. QED BY <1>0, <1>1, <2>1, <2>2, <2>3, <2>4 DEF Faithful
<1>3. CASE Store(a)
  <2>1. index'[op[a].base] = [text |-> op[a].text, scope |-> op[a].scope, parts |-> op[a].parts,
                              chunks |-> op[a].vectors]
    BY <1>0, <1>1, <1>3 DEF Store
  <2>2. Len(op[a].vectors) = op[a].parts
    BY <1>3 DEF Store
  <2>. QED BY <1>0, <1>1, <1>3, <2>1, <2>2 DEF Store, Faithful, JobSound
<1>. QED BY <1>2, <1>3

LEMMA NextIndex == ASSUME StoreInv, IndexSound, [Next]_vars PROVE IndexSound'
<1>0. /\ StoreTypes /\ StoreTypes' /\ op \in [Apis -> OpRecords] /\ op' \in [Apis -> OpRecords]
      /\ index \in [Keys -> IndexRows]
  BY NextTypes DEF StoreInv, StoreTypes, OpTypes, RowTypes, IndexTypes
<1>1. ASSUME NEW k \in Keys PROVE Faithful(index'[k])
  <2>1. Faithful(NoIndex)
    BY DEF NoIndex, Faithful
  <2>2. ASSUME NEW a \in Apis, DropIndexes(a) PROVE Faithful(index'[k])
    BY <2>1, <2>2 DEF DropIndexes, IndexSound
  <2>3. ASSUME NEW a \in Apis, Rebind(a) \/ Store(a) PROVE Faithful(index'[k])
    BY <1>0, <2>3, WritesFaithfully DEF IndexSound
  <2>. QED BY <2>2, <2>3, IndexWriters DEF IndexSound
<1>2. ASSUME NEW a \in Apis, op' = [op EXCEPT ![a] = op'[a]],
             Begins(a) \/ StoreStep(a) \/ IndexStep(a) \/ ReconcileFails(a) \/ Crash(a)
      PROVE  \A b \in Apis : JobSound(op'[b])
  <2>1. JobSound(op[a]) /\ op'[a] \in OpRecords
    BY <1>0 DEF IndexSound
  <2>2. JobSound(op'[a])
    BY <1>0, <1>2, <2>1, BeginVectors, StoreVectors, IndexVectors, NoVectors DEF ReconcileFails, Crash
  <2>. QED BY <1>0, <1>2, <2>2 DEF IndexSound
<1>3. \A a \in Apis : JobSound(op'[a])
  BY <1>0, <1>2, OpWriters DEF IndexSound
<1>4. \A k \in Keys : Faithful(index[k])'
  BY <1>1 DEF Faithful
<1>5. \A a \in Apis : JobSound(op[a])'
  BY <1>3 DEF JobSound
<1>. QED BY <1>4, <1>5 DEF IndexSound

LEMMA InitIndex == Init => IndexSound
<1>1. Faithful(NoIndex) /\ JobSound(NoOp)
  BY NoOpSound, NoVectors DEF NoIndex, Faithful, NoOp, Working
<1>. QED BY <1>1 DEF Init, IndexSound

LEMMA IndexInvariant == Spec => []IndexSound
<1>1. StoreInv /\ IndexSound /\ [Next]_vars => IndexSound'
  BY NextIndex
<1>. QED BY <1>1, InitIndex, StoreTypeCorrect, PTL DEF Spec

\* What a search may return are all chunks of the text its version has, each
\* embedded from that text (file-index.service.ts: snapshot(), rebind(), store()).
THEOREM IndexesAreFaithful == Spec => []IndexFaithful
<1>1. IndexSound => IndexFaithful
  BY DEF IndexSound, IndexFaithful, Found, Searchable, Faithful
<1>. QED BY <1>1, IndexInvariant, PTL

\* An index job that succeeds, whether it found the index as it should be, copied
\* the chunks of an earlier version or embedded them, leaves its version searchable.
THEOREM SuccessIsSearchable == Spec => SuccessMeansSearchable
<1>1. ASSUME StoreInv, IndexSound, [Next]_vars, NEW a \in Apis, NEW k \in Keys,
             Same(a) \/ Rebind(a) \/ Store(a), op[a].base = k
      PROVE  Searchable(k)'
  <2>0. /\ StoreTypes /\ op[a] \in OpRecords /\ OpSound(op[a]) /\ JobSound(op[a])
        /\ index \in [Keys -> IndexRows]
    BY <1>1 DEF StoreInv, StoreTypes, OpTypes, IndexSound, RowTypes, IndexTypes
  <2>1. /\ version[k].of = op[a].of /\ op[a].text # None
        /\ SourceUnchanged(a) /\ UNCHANGED <<original, version>>
    BY <1>1, <2>0
    DEF Same, Rebind, Store, OpSound, InStage, JobKinds, Reconciling, Working, Versions, JobSound
  <2>2. index'[k].text = op[a].text /\ index'[k].scope = op[a].scope
    <3>1. CASE Same(a)
      BY <1>1, <3>1 DEF Same, SameIndex
    <3>2. CASE Rebind(a) \/ Store(a)
      BY <1>1, <2>0, <3>2, WritesFaithfully
    <3>. QED BY <1>1, <3>1, <3>2
  <2>3. CurrentFile(k)'
    BY <1>1, <2>1 DEF SourceUnchanged, CurrentFile, Live, Newer, Versions
  <2>. QED BY <1>1, <2>1, <2>2, <2>3 DEF SourceUnchanged, Searchable
<1>2. StoreInv /\ IndexSound /\ [Next]_vars =>
        [\A a \in Apis, k \in Keys :
           (Same(a) \/ Rebind(a) \/ Store(a)) /\ op[a].base = k => Searchable(k)']_vars
  BY <1>1
<1>. QED BY <1>2, StoreTypeCorrect, IndexInvariant, PTL DEF Spec, SuccessMeansSearchable

\* The predicates that say what may be searched, cited and shown agree.
THEOREM SearchableIsCited == Spec => []SearchableIsReferenceable
<1>1. SearchableIsReferenceable
  <2>. SUFFICES ASSUME NEW k \in Found
                PROVE  /\ SourceState(version[k].of, k, index[k].scope) = "available"
                       /\ Readable(version[k].of, k)
    BY DEF SearchableIsReferenceable
  <2>1. /\ k \in Keys /\ Live(version[k].of) /\ ~original[version[k].of].excluded
        /\ ~version[k].raw /\ version[k].read /\ Newer(k) = {}
        /\ original[version[k].of].scope = index[k].scope
    BY DEF Found, Searchable, CurrentFile
  <2>2. Newest(version[k].of, k) /\ original[version[k].of].state = "live"
    BY <2>1 DEF Newest, Versions, Live
  <2>3. SourceState(version[k].of, k, index[k].scope) = "available"
    BY <2>1, <2>2 DEF SourceState
  <2>. QED BY <2>1, <2>2, <2>3 DEF Readable
<1>. QED BY <1>1, PTL

-----------------------------------------------------------------------------
(* Removals                                                                 *)

\* How far the cleanup of a removal has come with the versions of its original.
RemovalSound(q) ==
  q.kind = "remove" /\ q.at \in Reconciling =>
    /\ original[q.of].state = "deleted"
    /\ \A k \in Versions(q.of) :
         /\ version[k].text = None
         /\ q.at # "drop" => index[k] = NoIndex
         /\ q.at \in {"sweep", "unlink"} /\ disk[k] # None => k \in q.todo

RemovalsSound ==
  /\ \A a \in Apis : RemovalSound(op[a])
  /\ \A o \in removed : original[o].state = "deleted"
  /\ RemovedIsGone

\* Nothing comes back to a deleted original, whoever is at work on it.
NothingReturns(o) ==
  /\ original'[o].state = "deleted"
  /\ \A k \in Keys : version'[k].of = o <=> version[k].of = o
  /\ \A k \in Versions(o) :
       /\ version[k].text = None => version'[k].text = None
       /\ index[k] = NoIndex => index'[k] = NoIndex
       /\ disk[k] = None => disk'[k] = None

LEMMA DeletedStays ==
  ASSUME StoreInv, IndexSound, [Next]_vars, NEW o \in Originals, original[o].state = "deleted"
  PROVE  NothingReturns(o)
<1>0. /\ StoreTypes /\ StoreTypes' /\ RowsGrow /\ VersionsGrow /\ VersionsCommitted /\ OriginalsGrow
      /\ version \in [Keys -> VersionRows \cup {NoVersion}] /\ disk \in [Keys -> Contents \cup {None}]
      /\ index \in [Keys -> IndexRows]
  BY NextGrows, NextTypes DEF StoreInv, StoreTypes, RowTypes, VersionTypes, DiskTypes, IndexTypes, RowsGrow
<1>1. original'[o].state = "deleted"
  BY <1>0 DEF OriginalsGrow
<1>2. \A k \in Keys : version'[k].of = o <=> version[k].of = o
  <2>1. ASSUME NEW k \in Keys, version[k].of = o PROVE version'[k].of = o
    <3>1. version[k] # NoVersion
      BY <1>0, <2>1, VersionOf DEF Versions
    <3>. QED BY <1>0, <2>1, <3>1 DEF VersionsGrow
  <2>2. ASSUME NEW k \in Keys, version'[k].of = o PROVE version[k].of = o
    <3>1. version'[k] # NoVersion
      BY <2>2, ConstantsAssumption DEF NoVersion
    <3>2. version[k] # NoVersion
      BY <1>0, <1>1, <2>2, <3>1 DEF VersionsCommitted
    <3>. QED BY <1>0, <2>2, <3>2 DEF VersionsGrow
  <2>. QED BY <2>1, <2>2
<1>. SUFFICES ASSUME NEW k \in Versions(o)
              PROVE  /\ version[k].text = None => version'[k].text = None
                     /\ index[k] = NoIndex => index'[k] = NoIndex
                     /\ disk[k] = None => disk'[k] = None
  BY <1>1, <1>2 DEF NothingReturns
<1>3. k \in Keys /\ version[k].of = o /\ version[k] # NoVersion /\ version[k] \in VersionRows
  BY <1>0, VersionOf
<1>4. version[k].text = None => version'[k].text = None
  <2>. SUFFICES ASSUME version[k].text = None PROVE version'[k].text = None
    OBVIOUS
  <2>1. ASSUME NEW a \in Apis, Mark(a) PROVE version'[k].text = None
    <3>1. version'[k] \in {version[k], [[version[k] EXCEPT !.raw = TRUE] EXCEPT !.text = None]}
      BY <1>0, <1>3, <2>1 DEF Mark
    <3>. QED BY <1>3, <3>1 DEF VersionRows
  <2>2. ASSUME NEW a \in Apis, Commit(a) PROVE version'[k].text = None
    <3>1. op[a].key # k
      BY <1>3, <2>2 DEF Commit, StoreInv, KeysReserved
    <3>2. version'[k] = version[k]
      BY <1>0, <1>3, <2>2, <3>1 DEF Commit
    <3>. QED BY <3>2
  <2>3. ASSUME NEW a \in Apis, ScopeCommit(a) PROVE version'[k].text = None
    BY <2>3 DEF ScopeCommit
  <2>4. ASSUME NEW a \in Apis, RemoveCommit(a) PROVE version'[k].text = None
    <3>1. version'[k] \in {version[k], [version[k] EXCEPT !.text = None]}
      BY <1>3, <2>4 DEF RemoveCommit
    <3>. QED BY <1>3, <3>1 DEF VersionRows
  <2>5. ASSUME NEW a \in Apis, CommitText(a) PROVE version'[k].text = None
    <3>1. StillRequested(a) => op[a].base # k
      BY <1>3 DEF StillRequested, Live, Newest, Versions
    <3>2. version'[k] = version[k]
      BY <1>0, <1>3, <2>5, <3>1 DEF CommitText
    <3>. QED BY <3>2
  <2>. QED BY <2>1, <2>2, <2>3, <2>4, <2>5, RowWriters DEF Age
<1>5. index[k] = NoIndex => index'[k] = NoIndex
  <2>. SUFFICES ASSUME index[k] = NoIndex PROVE index'[k] = NoIndex
    OBVIOUS
  <2>1. ASSUME NEW a \in Apis, DropIndexes(a) PROVE index'[k] = NoIndex
    BY <1>3, <2>1 DEF DropIndexes
  <2>2. ASSUME NEW a \in Apis, Rebind(a) \/ Store(a) PROVE index'[k] = NoIndex
    <3>1. op[a].base # k
      BY <1>3, <2>2 DEF Rebind, Store, SourceUnchanged, CurrentFile, Live
    <3>. QED BY <1>0, <1>3, <2>2, <3>1, WritesFaithfully
  <2>. QED BY <2>1, <2>2, IndexWriters
<1>6. disk[k] = None => disk'[k] = None
  <2>. SUFFICES ASSUME disk[k] = None PROVE disk'[k] = None
    OBVIOUS
  <2>1. ASSUME NEW a \in Apis, Purge(a) \/ Unlink(a) PROVE disk'[k] = None
    BY <1>0, <1>3, <2>1 DEF Purge, Unlink
  <2>2. ASSUME NEW a \in Apis, Write(a) PROVE disk'[k] = None
    <3>1. ~FreshKey(k)
      BY <1>3 DEF FreshKey, Taken
    <3>. QED BY <1>0, <1>3, <2>2, <3>1 DEF Write
  <2>. QED BY <2>1, <2>2, DiskWriters
<1>. QED BY <1>4, <1>5, <1>6

\* A removal that stands still does not lose what it has reached.
LEMMA RemovalStays ==
  ASSUME StoreInv, IndexSound, [Next]_vars, NEW q \in OpRecords, OpSound(q), RemovalSound(q)
  PROVE  RemovalSound(q)'
<1>. SUFFICES ASSUME q.kind = "remove", q.at \in Reconciling PROVE RemovalSound(q)'
  BY DEF RemovalSound
<1>1. q.of \in Originals /\ original[q.of].state = "deleted"
  BY DEF OpSound, RemovalSound
<1>2. NothingReturns(q.of)
  BY <1>1, DeletedStays
<1>. QED BY <1>2 DEF NothingReturns, RemovalSound, Versions

\* The steps of reconcile() for a removal, one after the other.
LEMMA RemovalGoes ==
  ASSUME StoreInv, IndexSound, [Next]_vars, NEW a \in Apis, OwnStep(a), RemovalSound(op[a]),
         op'[a].kind = "remove", op'[a].at \in Reconciling
  PROVE  RemovalSound(op[a])'
<1>0. /\ StoreTypes /\ StoreTypes' /\ op[a] \in OpRecords /\ OpSound(op[a]) /\ op \in [Apis -> OpRecords]
      /\ version \in [Keys -> VersionRows \cup {NoVersion}] /\ original \in [Originals -> OriginalRows]
      /\ index \in [Keys -> IndexRows] /\ disk \in [Keys -> Contents \cup {None}]
  BY NextTypes DEF StoreInv, StoreTypes, OpTypes, RowTypes, OriginalTypes, VersionTypes, IndexTypes, DiskTypes
<1>. DEFINE q == op[a]
<1>1. ~ (Leave(a) \/ FailOp(a) \/ Finally(a))
  <2>1. Leave(a) => op'[a].at = "idle"
    BY <1>0 DEF Leave, NoOp
  <2>2. Finally(a) => op'[a].kind = "upload"
    <3>1. Finally(a) => op'[a] = [NoOp EXCEPT !.kind = "upload", !.at = "drop"]
      BY <1>0 DEF Finally
    <3>. QED BY <3>1 DEF NoOp
  <2>. QED BY <2>1, <2>2 DEF FailOp, Reconciling
<1>2. ~Begins(a)
  <2>1. ASSUME NEW kind, NEW at, NEW o, NEW base, NEW x, Enter(a, kind, at, o, base, x)
        PROVE  op'[a].kind = kind /\ op'[a].at = at
    BY <1>0, <2>1 DEF Enter, NoOp
  <2>2. ASSUME NEW kind, NEW at, NEW o, StartJob(a, kind, at, o) PROVE op'[a].at = at
    <3>1. PICK k : op'[a] = [NoOp EXCEPT !.kind = kind, !.at = at, !.of = o, !.base = k,
                                         !.scope = original[o].scope]
      BY <1>0, <2>2 DEF StartJob
    <3>. QED BY <3>1 DEF NoOp
  <2>. QED BY <2>1, <2>2
           DEF Begins, Maintain, Upload, Scope, Remove, Reprocess, Index, Reconciling
<1>3. ~IndexStep(a)
  <2>1. IndexStep(a) => q.kind = "index"
    BY <1>0 DEF IndexStep, Snapshot, LoadOriginal, Same, Differs, Rebind, NoReuse, Embed, Store, OpSound,
                InStage, Working, Reconciling
  <2>2. IndexStep(a) => op'[a].kind = q.kind
    BY <1>0, <1>1, KindStays
  <2>. QED BY <2>1, <2>2
<1>4. op'[a].kind = q.kind /\ q.kind = "remove" /\ StoreStep(a)
  BY <1>0, <1>1, <1>2, <1>3, KindStays DEF OwnStep, ReconcileFails, Crash
<1>5. q.of \in Originals /\ q.at \in Reconciling \cup {"remove"}
  BY <1>0, <1>4 DEF OpSound, InStage, JobKinds
<1>6. CASE RemoveCommit(a)
  <2>1. /\ original' = [original EXCEPT ![q.of].state = "deleted"]
        /\ version' = [k \in Keys |-> IF k \in Versions(q.of)
                                      THEN [version[k] EXCEPT !.text = None] ELSE version[k]]
        /\ Go(a, "drop")
    BY <1>1, <1>6 DEF RemoveCommit
  <2>2. op'[a].at = "drop" /\ op'[a].of = q.of
    BY <1>0, <2>1 DEF Go, OpRecords
  <2>3. original'[q.of].state = "deleted"
    <3>1. original[q.of] \in OriginalRows /\ original'[q.of] = [original[q.of] EXCEPT !.state = "deleted"]
      BY <1>0, <1>5, <2>1
    <3>. QED BY <3>1 DEF OriginalRows
  <2>4. ASSUME NEW k \in Keys, version'[k].of = q.of PROVE version'[k].text = None
    <3>1. CASE k \in Versions(q.of)
      <4>1. version[k] \in VersionRows /\ version'[k] = [version[k] EXCEPT !.text = None]
        BY <1>0, <1>5, <2>1, <3>1, VersionOf
      <4>. QED BY <4>1 DEF VersionRows
    <3>2. CASE k \notin Versions(q.of)
      BY <2>1, <2>4, <3>2 DEF Versions
    <3>. QED BY <3>1, <3>2
  <2>. QED BY <2>2, <2>3, <2>4 DEF RemovalSound, Versions
<1>7. CASE q.at \in Reconciling
  <2>1. /\ original[q.of].state = "deleted" /\ NothingReturns(q.of)
        /\ \A k \in Versions(q.of) :
             /\ version[k].text = None
             /\ q.at # "drop" => index[k] = NoIndex
             /\ q.at \in {"sweep", "unlink"} /\ disk[k] # None => k \in q.todo
    BY <1>4, <1>5, <1>7, DeletedStays DEF RemovalSound
  <2>2. /\ original'[q.of].state = "deleted"
        /\ \A k \in Keys : version'[k].of = q.of <=> k \in Versions(q.of)
        /\ \A k \in Versions(q.of) : version'[k].text = None
    BY <2>1 DEF NothingReturns, Versions
  <2>3. ASSUME op'[a].of = q.of,
               op'[a].at # "drop" => \A k \in Versions(q.of) : index'[k] = NoIndex,
               op'[a].at \in {"sweep", "unlink"} =>
                 \A k \in Versions(q.of) : disk'[k] # None => k \in op'[a].todo
        PROVE  RemovalSound(op[a])'
    BY <2>2, <2>3 DEF RemovalSound, Versions
  <2>4. CASE DropIndexes(a)
    <3>1. op'[a].at = "purge" /\ op'[a].of = q.of
      BY <1>0, <2>4 DEF DropIndexes, Go, OpRecords
    <3>2. ASSUME NEW k \in Versions(q.of) PROVE index'[k] = NoIndex
      <4>1. k \in Keys /\ Deleted(k)
        BY <1>0, <1>5, <2>1, VersionOf DEF Deleted
      <4>. QED BY <2>4, <4>1 DEF DropIndexes, IndexDropped
    <3>. QED BY <2>3, <3>1, <3>2
  <2>5. CASE Purge(a) \/ Mark(a)
    <3>1. op'[a].at \in {"mark", "purge"} /\ op'[a].of = q.of
      BY <1>0, <2>5 DEF Purge, Mark, OpRecords
    <3>2. \A k \in Versions(q.of) : index'[k] = NoIndex
      BY <2>1, <2>5 DEF Purge, Mark
    <3>. QED BY <2>3, <3>1, <3>2
  <2>6. CASE Purged(a)
    <3>1. op'[a].at = "sweep" /\ op'[a].of = q.of /\ op'[a].todo = OnDisk
      BY <1>0, <2>6 DEF Purged, OpRecords
    <3>2. \A k \in Versions(q.of) : index'[k] = NoIndex /\ (disk'[k] # None => k \in OnDisk)
      BY <2>1, <2>6 DEF Purged, OnDisk, Versions
    <3>. QED BY <2>3, <3>1, <3>2
  <2>7. CASE Sweep(a)
    <3>1. PICK k \in q.todo : op' = IF Unused(k) THEN [op EXCEPT ![a].at = "unlink", ![a].key = k]
                                                 ELSE [op EXCEPT ![a].todo = @ \ {k}]
      BY <2>7 DEF Sweep
    <3>2. op'[a].of = q.of /\ op'[a].todo = IF Unused(k) THEN q.todo ELSE q.todo \ {k}
      BY <1>0, <3>1 DEF OpRecords
    <3>3. ASSUME NEW j \in Versions(q.of) PROVE Unused(j)
      BY <1>0, <1>5, <2>1, VersionOf DEF Unused, Deleted
    <3>4. \A j \in Versions(q.of) : index'[j] = NoIndex /\ (disk'[j] # None => j \in op'[a].todo)
      BY <2>1, <2>7, <3>2, <3>3 DEF Sweep
    <3>. QED BY <2>3, <3>2, <3>4
  <2>8. CASE Unlink(a)
    <3>1. op'[a].of = q.of /\ op'[a].todo = q.todo \ {q.key} /\ disk' = [disk EXCEPT ![q.key] = None]
      BY <1>0, <2>8 DEF Unlink, OpRecords
    <3>2. ASSUME NEW j \in Versions(q.of)
          PROVE  index'[j] = NoIndex /\ (disk'[j] # None => j \in op'[a].todo)
      <4>1. j \in Keys
        BY DEF Versions
      <4>2. index'[j] = NoIndex
        BY <2>1, <2>8 DEF Unlink
      <4>3. disk'[j] # None => j # q.key /\ disk[j] # None
        BY <1>0, <3>1, <4>1
      <4>. QED BY <2>1, <2>8, <3>1, <4>2, <4>3 DEF Unlink
    <3>. QED BY <2>3, <3>1, <3>2
  <2>9. ~ (Swept(a) \/ Extract(a) \/ Write(a) \/ Commit(a) \/ ScopeCommit(a) \/ Parse(a) \/ CommitText(a))
    BY <1>1, <1>4, <1>7
    DEF Swept, Extract, Write, Commit, ScopeCommit, Parse, CommitText, Reconciling
  <2>. QED BY <1>4, <1>6, <2>4, <2>5, <2>6, <2>7, <2>8, <2>9 DEF StoreStep, Reconcile
<1>8. CASE q.at = "remove" /\ ~RemoveCommit(a)
  BY <1>4, <1>8
  DEF StoreStep, Reconcile, DropIndexes, Purge, Mark, Purged, Sweep, Unlink, Swept, Extract, Write,
      Commit, ScopeCommit, Parse, CommitText
<1>. QED BY <1>5, <1>6, <1>7, <1>8

\* The list of removals grows by the end of one.
LEMMA RemovalEnds ==
  ASSUME [Next]_vars
  PROVE  \/ UNCHANGED removed
         \/ \E a \in Apis : Swept(a) /\ op[a].kind = "remove" /\ removed' = removed \cup {op[a].of}
<1>1. ASSUME NEW a \in Apis, ReconcileFails(a) \/ Crash(a) \/ Lose(a) PROVE UNCHANGED removed
  BY <1>1 DEF ReconcileFails, Crash, Lose
<1>2. ASSUME NEW a \in Apis, IndexStep(a) PROVE UNCHANGED removed
  BY <1>2 DEF IndexStep, Snapshot, LoadOriginal, Same, Differs, Rebind, NoReuse, Embed, Store
<1>3. ASSUME NEW a \in Apis, StoreStep(a), ~Swept(a) PROVE UNCHANGED removed
  BY <1>3 DEF StoreStep, Reconcile, DropIndexes, Purge, Mark, Purged, Sweep, Unlink, Extract,
              Write, Commit, ScopeCommit, RemoveCommit, Parse, CommitText
<1>4. ASSUME NEW a \in Apis, Swept(a)
      PROVE  \/ UNCHANGED removed
             \/ op[a].kind = "remove" /\ removed' = removed \cup {op[a].of}
  BY <1>4 DEF Swept
<1>. QED BY <1>1, <1>2, <1>3, <1>4, NextSteps, BeginsQuietly, ReadsQuietly DEF Age

LEMMA NextRemovals == ASSUME StoreInv, IndexSound, RemovalsSound, [Next]_vars PROVE RemovalsSound'
<1>0. /\ StoreTypes /\ StoreTypes' /\ op \in [Apis -> OpRecords] /\ removed \subseteq Originals
      /\ \A a \in Apis : op[a] \in OpRecords /\ OpSound(op[a]) /\ RemovalSound(op[a])
      /\ \A o \in removed : original[o].state = "deleted"
  BY NextTypes DEF StoreInv, StoreTypes, OpTypes, OtherTypes, RemovalsSound
<1>1. ASSUME NEW b \in Apis, op'[b] = op[b] PROVE RemovalSound(op[b])'
  <2>1. \A q \in OpRecords : OpSound(q) /\ RemovalSound(q) => RemovalSound(q)'
    BY RemovalStays
  <2>2. RemovalSound(op'[b]) <=> RemovalSound(op[b])
    BY <1>1
  <2>. QED BY <1>0, <1>1, <2>1
<1>2. \A b \in Apis : RemovalSound(op[b])'
  <2>1. CASE UNCHANGED op
    BY <1>1, <2>1
  <2>2. ASSUME NEW a \in Apis, op' = [op EXCEPT ![a] = op'[a]], OwnStep(a)
        PROVE  \A b \in Apis : RemovalSound(op[b])'
    <3>1. RemovalSound(op[a])'
      BY <1>0, <2>2, RemovalGoes DEF RemovalSound
    <3>2. \A b \in Apis \ {a} : op'[b] = op[b]
      BY <1>0, <2>2
    <3>. QED BY <1>1, <3>1, <3>2
  <2>. QED BY <1>0, <2>1, <2>2, OpWriters DEF OwnStep
<1>3. ASSUME NEW o \in removed' \ removed
      PROVE  /\ o \in Originals /\ original[o].state = "deleted"
             /\ \A k \in Versions(o) : disk[k] = None /\ version[k].text = None /\ index[k] = NoIndex
  <2>1. PICK a \in Apis : Swept(a) /\ op[a].kind = "remove" /\ op[a].of = o
    BY <1>3, RemovalEnds
  <2>2. op[a].at = "sweep" /\ op[a].todo = {}
    BY <2>1 DEF Swept
  <2>. QED BY <1>0, <2>1, <2>2 DEF RemovalSound, OpSound, Reconciling
<1>4. ASSUME NEW o \in removed
      PROVE  /\ o \in Originals /\ original[o].state = "deleted"
             /\ \A k \in Versions(o) : disk[k] = None /\ version[k].text = None /\ index[k] = NoIndex
  BY <1>0 DEF RemovalsSound, RemovedIsGone, Versions
<1>5. ASSUME NEW o \in removed'
      PROVE  /\ original'[o].state = "deleted"
             /\ \A k \in Keys : version'[k].of = o =>
                  disk'[k] = None /\ version'[k].text = None /\ index'[k] = NoIndex
  <2>1. /\ o \in Originals /\ original[o].state = "deleted"
        /\ \A k \in Versions(o) : disk[k] = None /\ version[k].text = None /\ index[k] = NoIndex
    BY <1>3, <1>4
  <2>2. NothingReturns(o)
    BY <2>1, DeletedStays
  <2>. QED BY <2>1, <2>2 DEF NothingReturns, Versions
<1>. QED BY <1>2, <1>5 DEF RemovalsSound, RemovedIsGone

\* After a removal was answered with its cleanup as "complete", no file, text or
\* index of the original is left and none comes back, whatever was in progress on
\* it when the removal began, and whatever happened to the lock since (remove(),
\* reconcile(); the transactions of an index or a reprocess job).
THEOREM RemovedStaysGone == Spec => []RemovedIsGone
<1>1. Init => RemovalsSound
  BY DEF Init, RemovalsSound, RemovalSound, RemovedIsGone, NoOp
<1>2. StoreInv /\ IndexSound /\ RemovalsSound /\ [Next]_vars => RemovalsSound'
  BY NextRemovals
<1>3. RemovalsSound => RemovedIsGone
  BY DEF RemovalsSound
<1>. QED BY <1>1, <1>2, <1>3, StoreTypeCorrect, IndexInvariant, PTL DEF Spec
=============================================================================
