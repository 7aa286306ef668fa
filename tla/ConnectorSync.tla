---------------------------- MODULE ConnectorSync ----------------------------
(***************************************************************************)
(* The connectors: how pages of Notion and files of local repositories      *)
(* become documents, chunks and embeddings.  packages/connectors/src/       *)
(* notion/{traverse,live-sync,sync,prisma-store}.ts,                        *)
(* local-repo/{scan,sync,prisma-store}.ts, document-chunks.ts, embedding.ts *)
(* and packages/database/src/embedding.ts.                                  *)
(*                                                                         *)
(* A synchronization is a process of its own, started by hand or by         *)
(* POST /ingestion; nothing keeps two of them apart.  It reads the source   *)
(* item by item while people edit it, then stores one document after        *)
(* another: find it, replace it and its chunks in a transaction, embed,     *)
(* store the vectors in a second transaction, set the index status.         *)
(***************************************************************************)
EXTENDS Chunking

CONSTANTS
  Syncs,      \* processes that synchronize
  Items,      \* pages, or files
  Root,       \* the page NOTION_ROOT_PAGE_ID
  Repos,      \* repositories; LOCAL_REPO_NAMES selects some of them
  Children,   \* of a page or a repository: its pages or files, in order; the pages
              \* are a tree, none is met twice and visitedPageIds has no effect
  PathStatus, \* the status a file's path gives it
  Texts,      \* bound: sets of texts, by name
  Models,     \* embedding models a process may be configured with
  Allowances, \* bound: the source and how often each event happens, one of these
  None        \* NULL: no document, no model, no vector

Statuses == {"active", "deprecated", "archived"}
Said == {<<>>} \cup UNION {Texts[n] : n \in DOMAIN Texts}
Document == [stamp : Nat, status : Statuses, text : Said, index : {"pending", "indexed", "failed"}]

Events == {"start", "edit", "remove", "fault", "stop"}

ASSUME SyncAssumption ==
  /\ Root \in Items
  /\ Children \in [Items \cup Repos -> Seq(Items)]
  /\ \A p \in Items : Root \notin ToSet(Children[p])
  /\ \A p, q \in Items : ToSet(Children[p]) \cap ToSet(Children[q]) # {} => p = q
  /\ IsFiniteSet(Repos) /\ PathStatus \in [Items -> Statuses]
  /\ None \notin Models \cup Syncs /\ None \notin Document
  /\ \A text \in Said : IsText(text)
  /\ \A a \in Allowances : /\ {"kind", "items", "first", "texts"} \subseteq DOMAIN a
                           /\ a.kind \in {"notion", "repo"}
                           /\ a.items \subseteq Items
                           /\ a.first \in DOMAIN Texts /\ a.texts \in DOMAIN Texts
                           /\ \A e \in Events \cup {"atOnce"} : a[e] \in Nat

VARIABLES
  kind,       \* which of the two connectors
  clock,      \* the stamp of the last edit
  world,      \* the source: [there, stamp, text, status] of each item
  docs,       \* Document rows: [stamp, status, text, index], or None
  chunks,     \* DocumentChunk rows of each document
  run,        \* what each process is doing
  sole,       \* the process that has been the only one since it began, or None
  touched,    \* items edited since the last process began
  overlapped, \* two processes have run at once
  left        \* the allowance that is left

storeVars == <<docs, chunks>>
sourceVars == <<kind, clock, world>>
historyVars == <<sole, touched, overlapped>>
syncVars == <<sourceVars, storeVars, run, historyVars, left>>

Idle == [at |-> "idle", model |-> None, scope |-> {}, walk |-> <<>>, todo |-> <<>>,
         reading |-> None, snaps |-> <<>>, seen |-> {}, vectors |-> {}, outcome |-> None,
         failed |-> FALSE]
Unread == [item |-> Root, stamp |-> 0, status |-> None, text |-> <<>>]

ChunkIdByPlace(i, k, content) == <<i, k, <<>>>>  \* mutant: the content does not count
\* buildChunkId(): the document, the place and the content.
ChunkId(i, k, content) == <<i, k, content>>

\* The rows of a document, without vectors.
Rows(i, text) ==
  LET parts == ChunksOf(text)
  IN {[id |-> ChunkId(i, k, parts[k].content), place |-> k, path |-> parts[k].path,
       content |-> parts[k].content, of |-> None, by |-> None] : k \in DOMAIN parts}

Spend(e) == left[e] > 0 /\ left' = [left EXCEPT ![e] = @ - 1]
Put(s, r) == run' = [run EXCEPT ![s] = r]

SyncInit ==
  /\ left \in Allowances
  /\ kind = left.kind
  /\ clock = 1
  /\ \E texts \in [left.items -> Texts[left.first]] :
       world = [i \in Items |->
                  [there |-> i \in left.items, stamp |-> IF i \in left.items THEN 1 ELSE 0,
                   text |-> IF i \in left.items THEN texts[i] ELSE <<>>,
                   status |-> IF kind = "repo" THEN PathStatus[i] ELSE "active"]]
  /\ docs = [i \in Items |-> None]
  /\ chunks = [i \in Items |-> {}]
  /\ run = [s \in Syncs |-> Idle]
  /\ sole = None /\ touched = {} /\ overlapped = FALSE

-----------------------------------------------------------------------------
(* The source, which changes at any time *)

\* A page is stamped by Notion, an edit later than the one before (an assumption on
\* Notion: shouldSkipStaleDocument() compares with >=, and of two edits with the
\* same last_edited_time a sync between them would hide the later one until the
\* page is edited again); a file brings the time its writer gave it.
\* Its status here is what its title says of a page, its path of a file.
Edit(i) ==
  /\ i \in left.items /\ Spend("edit")
  /\ clock' = clock + 1
  /\ \E text \in Texts[left.texts], stamp \in 1 .. clock + 1, status \in {"active", "archived"} :
       /\ kind = "notion" => stamp = clock + 1 /\ world[i].there
       /\ kind = "repo" => status = "active"
       /\ world' = [world EXCEPT ![i] =
                      [there |-> TRUE, stamp |-> stamp, text |-> text,
                       status |-> IF kind = "repo" THEN PathStatus[i] ELSE status]]
  /\ touched' = touched \cup {i}
  /\ UNCHANGED <<kind, storeVars, run, sole, overlapped>>

Delete(i) ==
  /\ Spend("remove") /\ world[i].there
  /\ world' = [world EXCEPT ![i].there = FALSE]
  /\ touched' = touched \cup {i}
  /\ UNCHANGED <<kind, clock, storeVars, run, sole, overlapped>>

-----------------------------------------------------------------------------
(* Reading the source *)

\* runLocalRepoSync() is told which repositories, runNotionSync() starts at the root.
Scopes == IF kind = "repo" THEN (SUBSET Repos) \ {{}} ELSE {{}}

\* Which model, or none when there is no key for one.
Begin(s) ==
  /\ run[s].at = "idle" /\ Spend("start")
  /\ Cardinality({t \in Syncs : run[t].at # "idle"}) < left.atOnce
  /\ \E model \in Models \cup {None}, scope \in Scopes :
       Put(s, [Idle EXCEPT !.at = IF kind = "repo" THEN "list" ELSE "item", !.model = model,
                 !.scope = scope, !.walk = SetToSeq(scope),
                 !.todo = IF kind = "repo" THEN <<>> ELSE <<Root>>])
  /\ LET alone == \A t \in Syncs \ {s} : run[t].at = "idle"
     IN /\ sole' = IF alone THEN s ELSE None
        /\ overlapped' = (overlapped \/ ~alone)
  /\ touched' = {}
  /\ UNCHANGED <<sourceVars, storeVars>>

\* Once everything is read, documents are stored; then what is missing is
\* archived, by the repository connector only.
Stored == IF kind = "repo" THEN "archive" ELSE "mark"
Reading(r) ==
  CASE r.todo # <<>> -> [r EXCEPT !.at = "item"]
    [] r.todo = <<>> /\ r.walk # <<>> -> [r EXCEPT !.at = "list"]
    [] r.todo = <<>> /\ r.walk = <<>> ->
         [r EXCEPT !.at = IF r.snaps = <<>> THEN Stored ELSE "find"]

\* Of a sequence of items what is there.
There(items) ==
  LET f[k \in 0 .. Len(items)] ==
        IF k = 0 THEN <<>>
        ELSE IF world[items[k]].there THEN Append(f[k - 1], items[k]) ELSE f[k - 1]
  IN f[Len(items)]

\* walkRepository(): the entries of a directory, before any of them is read.
ListFiles(s) ==
  /\ run[s].at = "list"
  /\ Put(s, Reading([run[s] EXCEPT !.walk = Tail(@),
                                   !.todo = There(Children[Head(run[s].walk)])]))
  /\ UNCHANGED <<sourceVars, storeVars, historyVars, left>>

\* A snapshot is complete; a page's children come next, before its siblings.
Taken(r, p) ==
  Reading([r EXCEPT !.snaps = Append(@, p), !.seen = @ \cup {p.item}, !.reading = None,
                    !.todo = (IF kind = "repo" THEN <<>> ELSE There(Children[p.item]))
                             \o Tail(@)])

\* mutant: the record of a page may come after its blocks
ReadAtAnyOrder(part) == {"item"} \cup ({"stamp", "text"} \ {part})
\* Where a snapshot stands when a part of it is read: the record of a page with
\* its stamp first, then its blocks; of a file readFile() and stat() at once.
ReadAt(part) ==
  IF kind = "repo" THEN {"item"} \cup ({"stamp", "text"} \ {part})
  ELSE IF part = "stamp" THEN {"item"} ELSE {"stamp"}

ReadPart(s, part, p) ==
  IF run[s].at = "item"
  THEN Put(s, [run[s] EXCEPT !.at = part, !.reading = p])
  ELSE Put(s, Taken(run[s], p))

Held(s) == IF run[s].at = "item" THEN [Unread EXCEPT !.item = Head(run[s].todo)]
           ELSE run[s].reading

\* determineStatus(): a page goes by its title and those above it, as they were
\* read just before it.
StatusRead(r, i) ==
  IF kind = "notion" /\ \E p \in ToSet(r.snaps) : i \in ToSet(Children[p.item])
                                                  /\ p.status = "archived"
  THEN "archived" ELSE world[i].status

ReadStamp(s) ==
  /\ run[s].at \in ReadAt("stamp")
  /\ LET i == Held(s).item
     IN /\ world[i].there
        /\ ReadPart(s, "stamp", [Held(s) EXCEPT !.stamp = world[i].stamp,
                                                !.status = StatusRead(run[s], i)])
  /\ UNCHANGED <<sourceVars, storeVars, historyVars, left>>

ReadText(s) ==
  /\ run[s].at \in ReadAt("text")
  /\ LET i == Held(s).item
     IN /\ world[i].there
        /\ ReadPart(s, "text", [Held(s) EXCEPT !.text = world[i].text])
  /\ UNCHANGED <<sourceVars, storeVars, historyVars, left>>

\* What is gone cannot be read: the synchronization fails as a whole.
Vanished(s) ==
  /\ run[s].at \in {"item", "stamp", "text"} /\ ~world[Held(s).item].there
  /\ Put(s, Idle)
  /\ UNCHANGED <<sourceVars, storeVars, historyVars, left>>

-----------------------------------------------------------------------------
(* Storing one document after another *)

\* The item whose turn it is, as mapNotionPageToDocumentDraft() makes it a draft.
Snap(s) == Head(run[s].snaps)

AfterItem(r) ==
  [r EXCEPT !.snaps = Tail(@), !.vectors = {}, !.outcome = None,
            !.at = IF Tail(r.snaps) = <<>> THEN Stored ELSE "find"]
Failing(r) == [AfterItem(r) EXCEPT !.failed = TRUE]

\* A page, and whatever is archived, is skipped by its stamp; a file by its text.
Skipped(d, p) ==
  /\ d # None /\ d.status = p.status
  /\ IF kind = "notion" \/ p.status = "archived" THEN d.stamp >= p.stamp ELSE d.text = p.text

Find(s) ==
  /\ run[s].at = "find"
  /\ Put(s, IF Skipped(docs[Snap(s).item], Snap(s)) THEN AfterItem(run[s])
            ELSE [run[s] EXCEPT !.at = "upsert"])
  /\ UNCHANGED <<sourceVars, storeVars, historyVars, left>>

StillIndexed(i) == IF docs[i] = None THEN "pending" ELSE docs[i].index  \* mutant
NewIndexStatus(i) == "pending"

\* A document's row after its snapshot was stored, be it created or updated.
DocumentRow(p) ==
  [stamp |-> p.stamp, status |-> p.status, text |-> p.text, index |-> NewIndexStatus(p.item)]

\* The document and its chunks, in one transaction: every chunk is replaced.
Upsert(s) ==
  /\ run[s].at = "upsert"
  /\ LET p == Snap(s)
     IN /\ docs' = [docs EXCEPT ![p.item] = DocumentRow(p)]
        /\ chunks' = [chunks EXCEPT ![p.item] = Rows(p.item, p.text)]
  /\ Put(s, IF run[s].model = None THEN AfterItem(run[s]) ELSE [run[s] EXCEPT !.at = "embed"])
  /\ UNCHANGED <<sourceVars, historyVars, left>>

\* listIndexedDocumentChunkIds(): what has a vector of this model.
Known(i, model) == {c.id : c \in {d \in chunks[i] : d.by = model}}

\* embedDocumentChunks(): a vector for each chunk, of its content.
Vectors(parts) == {[id |-> c.id, of |-> c.content] : c \in parts}

\* indexDocumentChunks(): the chunks without a vector of this model go to it.
Embed(s) ==
  /\ run[s].at = "embed"
  /\ LET i == Snap(s).item
         pending == {c \in Rows(i, Snap(s).text) : c.id \notin Known(i, run[s].model)}
     IN Put(s, IF pending = {} THEN [run[s] EXCEPT !.at = "status", !.outcome = "indexed"]
               ELSE [run[s] EXCEPT !.at = "persist", !.vectors = Vectors(pending)])
  /\ UNCHANGED <<sourceVars, storeVars, historyVars, left>>

\* All of the vectors, or none when a chunk is no longer there.
Persist(s) ==
  /\ run[s].at = "persist"
  /\ LET i == Snap(s).item
         vectors == run[s].vectors
         row(c) == IF \E v \in vectors : v.id = c.id
                   THEN [c EXCEPT !.by = run[s].model,
                                  !.of = (CHOOSE v \in vectors : v.id = c.id).of]
                   ELSE c
         all == \A v \in vectors : \E c \in chunks[i] : c.id = v.id
     IN /\ chunks' = IF all THEN [chunks EXCEPT ![i] = {row(c) : c \in @}] ELSE chunks
        /\ Put(s, [run[s] EXCEPT !.at = "status", !.vectors = {},
                                 !.outcome = IF all THEN "indexed" ELSE "failed"])
  /\ UNCHANGED <<sourceVars, docs, historyVars, left>>

SetStatus(s) ==
  /\ run[s].at = "status"
  /\ docs' = [docs EXCEPT ![Snap(s).item].index = run[s].outcome]
  /\ Put(s, IF run[s].outcome = "failed" THEN Failing(run[s]) ELSE AfterItem(run[s]))
  /\ UNCHANGED <<sourceVars, chunks, historyVars, left>>

\* An error: before the document is stored it is the item that failed, later its
\* embedding; and should that not be recorded either, the item again.
Fault(s) ==
  /\ run[s].at \in {"upsert", "embed", "persist", "status"} /\ Spend("fault")
  /\ Put(s, IF run[s].at = "upsert" \/ run[s].outcome = "failed" THEN Failing(run[s])
            ELSE [run[s] EXCEPT !.at = "status", !.vectors = {}, !.outcome = "failed"])
  /\ UNCHANGED <<sourceVars, storeVars, historyVars>>

\* archiveMissingDocuments(): what the selected repositories no longer have.
ArchiveMissing(s) ==
  /\ run[s].at = "archive"
  /\ LET files == UNION {ToSet(Children[r]) : r \in run[s].scope}
     IN docs' = [i \in Items |->
                   IF docs[i] # None /\ docs[i].status = "active" /\ i \in files \ run[s].seen
                   THEN [docs[i] EXCEPT !.status = "archived", !.index = "pending"]
                   ELSE docs[i]]
  /\ Put(s, [run[s] EXCEPT !.at = "mark"])
  /\ UNCHANGED <<sourceVars, chunks, historyVars, left>>

\* markLastSyncedAt(), which no code reads, and the summary.
Finish(s) ==
  /\ run[s].at = "mark"
  /\ Put(s, Idle)
  /\ UNCHANGED <<sourceVars, storeVars, historyVars, left>>

\* An error nobody catches, or the end of the process.
Stop(s) ==
  /\ run[s].at # "idle" /\ Spend("stop")
  /\ Put(s, Idle)
  /\ UNCHANGED <<sourceVars, storeVars, historyVars>>

\* Every step but Upsert, which Chat extends.
SyncStep(s) ==
  \/ Begin(s) \/ ListFiles(s) \/ ReadStamp(s) \/ ReadText(s) \/ Vanished(s)
  \/ Find(s) \/ Embed(s) \/ Persist(s) \/ SetStatus(s) \/ Fault(s)
  \/ ArchiveMissing(s) \/ Finish(s) \/ Stop(s)

SourceStep == \E i \in Items : Edit(i) \/ Delete(i)

SyncNext == SourceStep \/ \E s \in Syncs : SyncStep(s) \/ Upsert(s)
SyncSpec == SyncInit /\ [][SyncNext]_syncVars

-----------------------------------------------------------------------------
(* Properties *)

\* A stored vector is of the text its chunk has, however many processes replace
\* the chunks of a document while the vectors of others are on their way.
EmbeddingsFaithful ==
  \A i \in Items : \A c \in chunks[i] : c.by # None => c.of = c.content

\* Processes that do not overlap leave "indexed" only on documents that have a
\* vector for every chunk, wherever one of them failed or was ended.
IndexedMeansEmbedded ==
  ~overlapped =>
    \A i \in Items :
      docs[i] # None /\ docs[i].index = "indexed" => \A c \in chunks[i] : c.by # None

\* A page and those over it, in every set that has with a page the one it is on;
\* over a file there is none.
WithParents(S) == \A i \in S, p \in Items : i \in ToSet(Children[p]) => p \in S
Upwards == [i \in Items |-> {p \in Items : \A S \in SUBSET Items : i \in S /\ WithParents(S) => p \in S}]
From(i) == IF kind = "notion" THEN Upwards[i] ELSE {i}

\* What a connector may find: the root and the pages below it, the files selected.
InReach(s, i) ==
  IF kind = "repo" THEN \E r \in run[s].scope : i \in ToSet(Children[r])
  ELSE Root \in From(i)

StatusNow(i) ==
  IF \E p \in From(i) : world[p].status = "archived" THEN "archived" ELSE world[i].status

UpToDate(i) ==
  IF world[i].there
  THEN /\ docs[i] # None /\ docs[i].status = StatusNow(i) /\ docs[i].text = world[i].text
       /\ kind = "notion" => docs[i].stamp = world[i].stamp
  ELSE docs[i] # None => docs[i].status # "active"

\* A file whose path archives it is compared by its time alone, and a page that
\* is gone is not looked for: of these nothing is promised.
Left(i) == IF kind = "repo" THEN PathStatus[i] = "archived" ELSE \E p \in From(i) : ~world[p].there

\* When a process that had the store to itself ends without a failure, what
\* nobody edited since it began, nor a page above it, is stored as it is: whatever
\* earlier processes left half done or read while it was edited, and also when
\* only a page above has changed.
QuietSyncCurrent ==
  \A s \in Syncs :
    run[s].at = "mark" /\ sole = s /\ ~run[s].failed =>
      \A i \in Items :
        InReach(s, i) /\ From(i) \cap touched = {} /\ ~Left(i) => UpToDate(i)

Contents(i) ==
  [k \in 1 .. Cardinality(chunks[i]) |-> (CHOOSE c \in chunks[i] : c.place = k).content]

\* The chunks of a document repeat its text, word for word and in order: no line is
\* lost between sections, fences and windows, and nothing is said twice but the
\* tokens a chunk shares with the end of the full one before it.
ChunksRepeatText ==
  \A i \in Items : docs[i] # None => RepeatsText(Contents(i), docs[i].text)

HeadedAsWritten(i) ==
  \A c \in chunks[i] : UnderItsHeadings(c.path, c.content, docs[i].text)

\* Where no heading skips a level, every chunk is filed under the headings its
\* lines stand under, whatever stands in fences.
ChunksHeaded ==
  \A i \in Items : docs[i] # None /\ WellNested(docs[i].text) => HeadedAsWritten(i)
=============================================================================
