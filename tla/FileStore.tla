------------------------------ MODULE FileStore ------------------------------
(***************************************************************************)
(* File originals, their versions and the raw files:                        *)
(* apps/api/src/files/file-management.service.ts, file-foundation.ts,       *)
(* file-storage.ts, file-index-state.ts and file-source.ts, and the         *)
(* reprocess job of file-run.service.ts.                                    *)
(*                                                                         *)
(* A row of the database and the file it names are written one after the    *)
(* other, and reconcile() removes files without a row; only the advisory    *)
(* lock 3 keeps the two apart.  A transaction is one action, so is one      *)
(* unlink; a process may crash between any two, and the connection that     *)
(* holds the lock may be lost while the operation goes on.                  *)
(* FileIndexing adds the index jobs that run under the same lock.           *)
(***************************************************************************)
EXTENDS Naturals, Sequences, FiniteSets

CONSTANTS
  Apis,      \* API processes: one file operation each, this.busy
  Readers,   \* requests for a reference, which take no lock
  Originals, \* bound: rows of FileOriginal, numbers instead of UUIDs
  Keys,      \* bound: storage keys; a version has the identifier of its key
  Contents,  \* what an upload carries
  Texts,     \* what a parser may extract from it
  MaxScope,  \* bound on FileOriginal.scopeRevision
  Losing,    \* the operations during which the lock's connection may be lost
  Budgets,   \* bound: how often each event of Events happens, one of these
  None       \* NULL: no content, no text, no process

Operations == {"upload", "scope", "remove", "maintain", "reprocess", "index"}
Events == {"read", "crash", "lose", "fault", "age"}

ASSUME ConstantsAssumption ==
  /\ Originals \subseteq Nat \ {0}
  /\ Keys \subseteq Nat \ {0} /\ IsFiniteSet(Keys)
  /\ MaxScope \in Nat \ {0}
  /\ Losing \subseteq Operations
  /\ None \notin Apis \cup Contents \cup Texts
  /\ Budgets \subseteq [Events -> Nat]

VARIABLES
  original, \* FileOriginal: [state, excluded, scope]
  version,  \* FileVersion: [of, number, content, text, read, raw], or NoVersion
  old,      \* versions whose createdAt is 24 hours ago
  settled,  \* versions whose last extraction run ended 24 hours ago
  disk,     \* the files of the storage directory: content, None if absent
  index,    \* FileIndex and its chunks, at most one per version
  lock,     \* the process that holds advisory lock 3
  op,       \* the file operation each process is in
  reader,   \* the reference each reader is in
  removed,  \* originals whose removal was answered with cleanup "complete"
  left      \* the events still to come

rowVars == <<original, version, old, settled, index>>
vars == <<rowVars, disk, lock, op, reader, removed, left>>

-----------------------------------------------------------------------------
(* Rows *)

NoVersion == [of |-> 0, number |-> 0, content |-> None, text |-> None,
              read |-> FALSE, raw |-> FALSE]
NoIndex == [text |-> None, scope |-> 0, parts |-> 0, chunks |-> <<>>]

Versions(o) == {k \in Keys : version[k].of = o}
Live(o) == o \in Originals /\ original[o].state = "live"
Deleted(k) == version[k].of # 0 /\ original[version[k].of].state = "deleted"

\* A newer version of the same original.
Newer(k) == {j \in Versions(version[k].of) : version[j].number > version[k].number}
Newest(o, k) == k \in Versions(o) /\ Newer(k) = {}
NextNumber(o) == Cardinality(Versions(o)) + 1

\* newer."createdAt" <= CURRENT_TIMESTAMP - INTERVAL '24 hours'
Superseded(k) == version[k].of # 0 /\ Newer(k) \cap old # {}

\* currentFileWhere: what may be shown and searched.
CurrentFile(k) ==
  LET o == version[k].of IN
  /\ Live(o) /\ ~original[o].excluded
  /\ ~version[k].raw /\ Newer(k) = {} /\ version[k].read

\* currentIndexWhere; the configuration and the embedding model are constants.
Searchable(k) ==
  /\ CurrentFile(k)
  /\ index[k].scope = original[version[k].of].scope
  /\ version[k].text # None /\ index[k].text = version[k].text

\* search(): the rows it may rank, those of versions that exist.
Found == {k \in Keys : version[k].of # 0 /\ Searchable(k)}

\* fileSourceReference(): what a citation of version k under a scope links to.
SourceState(o, k, scope) ==
  CASE original[o].state = "absent" -> "unavailable"
    [] original[o].state = "deleted" -> "deleted"
    [] original[o].state = "live" /\ ~Newest(o, k) -> "replaced"
    [] Live(o) /\ Newest(o, k) /\ (original[o].excluded \/ original[o].scope # scope) -> "excluded"
    [] Live(o) /\ Newest(o, k) /\ ~original[o].excluded /\ original[o].scope = scope ->
         IF version[k].raw \/ ~version[k].read THEN "unavailable" ELSE "available"

\* The rows whose index reconcile() drops.
IndexDropped(k) ==
  /\ index[k] # NoIndex
  /\ \/ Deleted(k)
     \/ original[version[k].of].excluded
     \/ index[k].scope # original[version[k].of].scope
     \/ Superseded(k)
     \/ k \in settled /\ (~version[k].read \/ index[k].text # version[k].text)

\* The rows whose raw file it removes, and the files that have no use.
RawDue(k) == version[k].of # 0 /\ ~version[k].raw /\ (Deleted(k) \/ Superseded(k))
Unused(k) == version[k] = NoVersion \/ Deleted(k)

OnDisk == {k \in Keys : disk[k] # None}

\* randomUUID(): a name no file, row or operation has; which one is immaterial.
Taken == OnDisk \cup {k \in Keys : version[k] # NoVersion} \cup {op[a].key : a \in Apis}
FreshKey(k) == k \in Keys \ Taken /\ \A j \in Keys \ Taken : k <= j

-----------------------------------------------------------------------------
(* Operations and the lock *)

NoOp == [kind |-> "none", at |-> "idle", of |-> 0, base |-> 0, content |-> None,
         text |-> None, scope |-> 0, key |-> 0, todo |-> {}, vectors |-> <<>>, parts |-> 0]
NoReader == [at |-> "idle", of |-> 0, key |-> 0, scope |-> 0, faulted |-> FALSE]

Spend(e) == left[e] > 0 /\ left' = [left EXCEPT ![e] = @ - 1]
Free(a) == IF lock = a THEN None ELSE lock
NoLock == TRUE  \* mutant: every process is admitted
LockFree == lock = None

\* locked(): refused at once, without effect, while the process or another one
\* is in a file operation.
Admitted(a) == op[a].at = "idle" /\ LockFree

Enter(a, kind, at, of, base, content) ==
  /\ Admitted(a)
  /\ lock' = a
  /\ op' = [op EXCEPT ![a] = [NoOp EXCEPT !.kind = kind, !.at = at, !.of = of,
                                !.base = base, !.content = content]]

Go(a, at) == op' = [op EXCEPT ![a].at = at]
Leave(a) == op' = [op EXCEPT ![a] = NoOp] /\ lock' = Free(a)

\* A failure: an upload still runs the reconcile() of its finally.
Finally(a) == op' = [op EXCEPT ![a] = [NoOp EXCEPT !.kind = "upload", !.at = "drop"]]
FailOp(a) == IF op[a].kind = "upload" THEN Finally(a) /\ UNCHANGED lock ELSE Leave(a)

Init ==
  /\ original = [o \in Originals |-> [state |-> "absent", excluded |-> FALSE, scope |-> 1]]
  /\ version = [k \in Keys |-> NoVersion]
  /\ old = {} /\ settled = {}
  /\ disk = [k \in Keys |-> None]
  /\ index = [k \in Keys |-> NoIndex]
  /\ lock = None
  /\ op = [a \in Apis |-> NoOp]
  /\ reader = [r \in Readers |-> NoReader]
  /\ removed = {}
  /\ left \in Budgets

-----------------------------------------------------------------------------
(* reconcile(): indexes, superseded or deleted raw files, unused files      *)

InReconcile(a) == op[a].at \in {"drop", "purge", "mark", "sweep", "unlink"}

DropIndexes(a) ==
  /\ op[a].at = "drop"
  /\ index' = [k \in Keys |-> IF IndexDropped(k) THEN NoIndex ELSE index[k]]
  /\ Go(a, "purge")
  /\ UNCHANGED <<original, version, old, settled, disk, lock, reader, removed, left>>

\* The file first; a crash here leaves the row to be marked by a later call.
Purge(a) ==
  /\ op[a].at = "purge"
  /\ \E k \in Keys :
       /\ RawDue(k)
       /\ disk' = [disk EXCEPT ![k] = None]
       /\ op' = [op EXCEPT ![a].at = "mark", ![a].key = k]
  /\ UNCHANGED <<rowVars, lock, reader, removed, left>>

Mark(a) ==
  /\ op[a].at = "mark"
  /\ version' = [version EXCEPT ![op[a].key].raw = TRUE, ![op[a].key].text = None]
  /\ op' = [op EXCEPT ![a].at = "purge", ![a].key = 0]
  /\ UNCHANGED <<original, old, settled, index, disk, lock, reader, removed, left>>

Purged(a) ==
  /\ op[a].at = "purge" /\ \A k \in Keys : ~RawDue(k)
  /\ op' = [op EXCEPT ![a].at = "sweep", ![a].todo = OnDisk]
  /\ UNCHANGED <<rowVars, disk, lock, reader, removed, left>>

\* storage.keys(): look up the row of one file, and remove the file afterwards.
Sweep(a) ==
  /\ op[a].at = "sweep"
  /\ \E k \in op[a].todo :
       op' = IF Unused(k) THEN [op EXCEPT ![a].at = "unlink", ![a].key = k]
                          ELSE [op EXCEPT ![a].todo = @ \ {k}]
  /\ UNCHANGED <<rowVars, disk, lock, reader, removed, left>>

Unlink(a) ==
  /\ op[a].at = "unlink"
  /\ disk' = [disk EXCEPT ![op[a].key] = None]
  /\ op' = [op EXCEPT ![a].at = "sweep", ![a].todo = @ \ {op[a].key}, ![a].key = 0]
  /\ UNCHANGED <<rowVars, lock, reader, removed, left>>

\* The end of reconcile(): an upload that has not begun goes on, any other
\* operation answers; a removal then reports its cleanup as complete.
Swept(a) ==
  /\ op[a].at = "sweep" /\ op[a].todo = {}
  /\ IF op[a].kind = "upload" /\ op[a].content # None
     THEN Go(a, "extract") /\ UNCHANGED lock ELSE Leave(a)
  /\ removed' = IF op[a].kind = "remove" THEN removed \cup {op[a].of} ELSE removed
  /\ UNCHANGED <<rowVars, disk, reader, left>>

\* A query or an unlink fails: intake is refused, a removal reports "pending".
ReconcileFails(a) ==
  /\ InReconcile(a) /\ Spend("fault")
  /\ Leave(a)
  /\ UNCHANGED <<rowVars, disk, reader, removed>>

-----------------------------------------------------------------------------
(* persistUpload(): reconcile, FileFoundation.create(), reconcile           *)

\* A new original (0) or a new version of one, perhaps of a version expected.
Upload(a, o, base, x) ==
  /\ \/ o = 0 /\ base = 0
     \/ Live(o) /\ (base = 0 \/ Newest(o, base))
  /\ Keys \ Taken # {}
  /\ Enter(a, "upload", "drop", o, base, x)
  /\ UNCHANGED <<rowVars, disk, reader, removed, left>>

\* The admission transaction and the parser: neither changes a row.  A content
\* failure is registered as such (None), any other ends the upload.
Extract(a) ==
  /\ op[a].at = "extract"
  /\ \/ FailOp(a)
     \/ /\ op[a].of = 0 \/ Live(op[a].of)
        /\ \E t \in Texts \cup {None} :
             op' = [op EXCEPT ![a].at = "write", ![a].text = t]
        /\ UNCHANGED lock
  /\ UNCHANGED <<rowVars, disk, reader, removed, left>>

\* storage.write(): a failed write unlinks its file, which may fail as well.
Write(a) ==
  /\ op[a].at = "write"
  /\ \/ FailOp(a) /\ UNCHANGED <<disk, left>>
     \/ /\ \E k \in Keys : FreshKey(k) /\ disk' = [disk EXCEPT ![k] = op[a].content]
        /\ Spend("fault") /\ FailOp(a)
     \/ /\ \E k \in Keys : /\ FreshKey(k)
                          /\ disk' = [disk EXCEPT ![k] = op[a].content]
                          /\ op' = [op EXCEPT ![a].at = "commit", ![a].key = k]
        /\ UNCHANGED <<lock, left>>
  /\ UNCHANGED <<rowVars, reader, removed>>

\* expectedVersionId still names the newest version.
Replaces(a) ==
  \/ op[a].of = 0
  \/ Live(op[a].of) /\ (op[a].base = 0 \/ Newest(op[a].of, op[a].base))

\* The original, if it is new, its version and the extraction run.  With or
\* without them the finally reconciles: preserveOnFailure leaves the file to it.
Commit(a) ==
  LET q == op[a] IN
  /\ q.at = "commit"
  /\ \/ UNCHANGED <<original, version>>
     \/ /\ Replaces(a)
        /\ \E o \in Originals :
             /\ IF q.of # 0 THEN o = q.of
                ELSE original[o].state = "absent"
                     /\ \A p \in Originals : original[p].state = "absent" => o <= p
             /\ original' = [original EXCEPT ![o].state = "live"]
             /\ version' = [version EXCEPT ![q.key] =
                  [of |-> o, number |-> NextNumber(o), content |-> q.content,
                   text |-> q.text, read |-> q.text # None, raw |-> FALSE]]
  /\ Finally(a)
  /\ UNCHANGED <<old, settled, index, disk, lock, reader, removed, left>>

-----------------------------------------------------------------------------
(* setScope(), remove(), the maintenance timer and a reprocess job          *)

Scope(a, o) ==
  /\ Live(o) /\ original[o].scope < MaxScope
  /\ Enter(a, "scope", "scope", o, 0, None)
  /\ UNCHANGED <<rowVars, disk, reader, removed, left>>

\* The transaction, unless the scope already is as asked for, then reconcile().
ScopeCommit(a) ==
  LET o == op[a].of IN
  /\ op[a].at = "scope"
  /\ \/ Leave(a) /\ UNCHANGED original
     \/ /\ Live(o)
        /\ Go(a, "drop") /\ UNCHANGED lock
        /\ \/ UNCHANGED original
           \/ original' = [original EXCEPT ![o].excluded = ~@, ![o].scope = @ + 1]
  /\ UNCHANGED <<version, old, settled, index, disk, reader, removed, left>>

Remove(a, o) ==
  /\ original[o].state # "absent" /\ o \notin removed
  /\ Enter(a, "remove", "remove", o, 0, None)
  /\ UNCHANGED <<rowVars, disk, reader, removed, left>>

\* Access and the derived text end in one transaction.
RemoveCommit(a) ==
  LET o == op[a].of IN
  /\ op[a].at = "remove"
  /\ \/ Leave(a) /\ UNCHANGED <<original, version>>
     \/ /\ original' = [original EXCEPT ![o].state = "deleted"]
        /\ version' = [k \in Keys |-> IF k \in Versions(o)
                                      THEN [version[k] EXCEPT !.text = None] ELSE version[k]]
        /\ Go(a, "drop") /\ UNCHANGED lock
  /\ UNCHANGED <<old, settled, index, disk, reader, removed, left>>

\* startMaintenance(): every 60 seconds, skipped while an operation goes on.
Maintain(a) ==
  /\ Enter(a, "maintain", "drop", 0, 0, None)
  /\ UNCHANGED <<rowVars, disk, reader, removed, left>>

\* The newest version of an original, with the scope the job was admitted for.
StartJob(a, kind, at, o) ==
  /\ Live(o) /\ Admitted(a)
  /\ \E k \in Versions(o) :
       /\ Newer(k) = {}
       /\ op' = [op EXCEPT ![a] = [NoOp EXCEPT !.kind = kind, !.at = at, !.of = o, !.base = k,
                                               !.scope = original[o].scope]]
  /\ lock' = a
  /\ UNCHANGED <<rowVars, disk, reader, removed, left>>

Reprocess(a, o) == StartJob(a, "reprocess", "parse", o)

\* Read the raw file and extract it again.
Parse(a) ==
  /\ op[a].at = "parse"
  /\ \/ FailOp(a)
     \/ /\ disk[op[a].base] # None
        /\ \E t \in Texts \cup {None} :
             op' = [op EXCEPT ![a].at = "extracted", ![a].text = t]
        /\ UNCHANGED lock
  /\ UNCHANGED <<rowVars, disk, reader, removed, left>>

\* Mutant: the result is stored whatever became of the original.
StillRequestedAnyway(a) == version[op[a].base] # NoVersion

StillRequested(a) ==
  /\ Live(op[a].of) /\ Newest(op[a].of, op[a].base)
  /\ original[op[a].of].scope = op[a].scope

\* The text is replaced only by a text, the outcome always.
CommitText(a) ==
  LET q == op[a] IN
  /\ q.at = "extracted"
  /\ \/ UNCHANGED <<version, settled>>
     \/ /\ StillRequested(a)
        /\ version' = [version EXCEPT ![q.base].read = q.text # None,
                                      ![q.base].text = IF q.text # None THEN q.text ELSE @]
        /\ settled' = settled \ {q.base}
  /\ Leave(a)
  /\ UNCHANGED <<original, old, index, disk, reader, removed, left>>

-----------------------------------------------------------------------------
(* reference(): load, read the file, load again                             *)

Readable(o, k) ==
  /\ Live(o) /\ ~original[o].excluded
  /\ Newest(o, k) /\ ~version[k].raw

Load(r, o, k) ==
  /\ reader[r].at = "idle" /\ Readable(o, k) /\ Spend("read")
  /\ reader' = [reader EXCEPT ![r] = [NoReader EXCEPT !.at = "read", !.of = o, !.key = k,
                                                      !.scope = original[o].scope]]
  /\ UNCHANGED <<rowVars, disk, lock, op, removed>>

ReadFile(r) ==
  /\ reader[r].at = "read"
  /\ \/ /\ reader' = [reader EXCEPT ![r].at =
                        IF disk[reader[r].key] # None THEN "found" ELSE "absent"]
        /\ UNCHANGED left
     \/ /\ Spend("fault")
        /\ reader' = [reader EXCEPT ![r].at = "absent", ![r].faulted = TRUE]
  /\ UNCHANGED <<rowVars, disk, lock, op, removed>>

UnchangedAlways(q) == TRUE  \* mutant: no recheck after a failed read

\* recheck(): the same version under the same scope.
Unchanged(q) == Readable(q.of, q.key) /\ original[q.of].scope = q.scope

\* Not found, served, or (503) unavailable although the source is still current.
Recheck(r) ==
  LET q == reader[r] IN
  /\ q.at \in {"found", "absent"}
  /\ reader' = [reader EXCEPT ![r] =
       IF Unchanged(q) THEN [q EXCEPT !.at = IF q.at = "found" THEN "served" ELSE "unavailable"]
       ELSE [q EXCEPT !.at = "missing"]]
  /\ UNCHANGED <<rowVars, disk, lock, op, removed, left>>

Answer(r) ==
  /\ reader[r].at \in {"served", "missing", "unavailable"}
  /\ reader' = [reader EXCEPT ![r] = NoReader]
  /\ UNCHANGED <<rowVars, disk, lock, op, removed, left>>

-----------------------------------------------------------------------------
(* The environment *)

\* A day passes: rows and runs of today are 24 hours old.
Age ==
  /\ Spend("age")
  /\ old' = {k \in Keys : version[k] # NoVersion}
  /\ settled' = {k \in Keys : version[k] # NoVersion}
  /\ UNCHANGED <<original, version, index, disk, lock, op, reader, removed>>

\* The process ends, and with its connection the lock.
Crash(a) ==
  /\ op[a] # NoOp /\ Spend("crash")
  /\ Leave(a)
  /\ UNCHANGED <<rowVars, disk, reader, removed>>

\* The connection of the lock is lost while the operation goes on.
Lose(a) ==
  /\ lock = a /\ op[a].kind \in Losing /\ Spend("lose")
  /\ lock' = None
  /\ UNCHANGED <<rowVars, disk, op, reader, removed>>

Reconcile(a) == \/ DropIndexes(a) \/ Purge(a) \/ Mark(a) \/ Purged(a)
                \/ Sweep(a) \/ Unlink(a) \/ Swept(a)

StoreStep(a) ==
  \/ Reconcile(a)
  \/ Extract(a) \/ Write(a) \/ Commit(a)
  \/ ScopeCommit(a) \/ RemoveCommit(a) \/ Parse(a) \/ CommitText(a)

StoreNext ==
  \/ \E a \in Apis :
       \/ StoreStep(a) \/ ReconcileFails(a) \/ Crash(a) \/ Lose(a) \/ Maintain(a)
       \/ \E x \in Contents : Upload(a, 0, 0, x)
       \/ \E o \in Originals :
            \/ \E x \in Contents, base \in Keys \cup {0} : Upload(a, o, base, x)
            \/ Scope(a, o) \/ Remove(a, o) \/ Reprocess(a, o)
  \/ \E r \in Readers :
       \/ \E o \in Originals, k \in Keys : Load(r, o, k)
       \/ ReadFile(r) \/ Recheck(r) \/ Answer(r)
  \/ Age

-----------------------------------------------------------------------------
(* Properties *)

\* A version's raw file stays until the version may be purged: the reconcile
\* calls, before and after every upload, never take a file from its row.
FilesKept ==
  \A k \in Keys : version[k] # NoVersion /\ ~version[k].raw /\ ~RawDue(k) =>
    disk[k] = version[k].content

\* After a removal was answered as complete no file, text or index of the
\* original is left, and no operation that began earlier brings one back.
RemovedIsGone ==
  \A o \in removed, k \in Keys : version[k].of = o =>
    disk[k] = None /\ version[k].text = None /\ index[k] = NoIndex

\* A reference answers "unavailable" only because reading failed: a removal or a
\* purge that overtakes the reader is told apart by the second look.
UnavailableOnlyByFault ==
  \A r \in Readers : reader[r].at = "unavailable" => reader[r].faulted

\* What a search may return is cited with a link that works: the predicates of
\* file-index-state.ts, file-source.ts and reference() agree, in whatever state (proved;
\* nothing that happens can make them differ, so that no run checks it).
SearchableIsReferenceable ==
  \A k \in Found :
    /\ SourceState(version[k].of, k, index[k].scope) = "available"
    /\ Readable(version[k].of, k)
=============================================================================
