----------------------------- MODULE ChatProofs ------------------------------
(***************************************************************************)
(* The connectors and the answers, for every number of processes, items,    *)
(* texts, models, questions and drafts, and every sequence of edits and     *)
(* failures.                                                                *)
(*                                                                         *)
(* An identifier of a chunk carries the chunk's content (buildChunkId), and *)
(* so does, by way of it, a vector that is on its way and a source that was *)
(* found: what is stored under the identifier is of that content, whoever   *)
(* replaced the chunks meanwhile (RowsSound, RunSound, SourcesSound).  The  *)
(* chunks of a document are those of its text at every step (Whole).  A     *)
(* process alone with the store is followed from the transaction that       *)
(* replaces a document to the one that says it is indexed (StageSound), and *)
(* the others hold its model and its document only; a question from its     *)
(* search to its trace and its gap (AskSound), and from there to what is    *)
(* drafted for it (Complete).                                               *)
(*                                                                         *)
(* A process that has had the store to itself is followed from its start to *)
(* its end as well (Followed): what it has still to read leads to every     *)
(* page and file it answers for (Ahead), what it read of them is what they  *)
(* are (Right), and what it has passed is stored so (StoringRight).  For    *)
(* that the source, the rows and the runs are typed (SyncTyped), and of a   *)
(* page nothing is known that is newer than it (NewestKnown).               *)
(***************************************************************************)
EXTENDS Chat, ChunkProofs, FiniteSetTheorems, TLAPS

USE DEF sourceVars, storeVars, historyVars, syncVars, draftVars, chatVars, vars

-----------------------------------------------------------------------------
(* The connectors                                                           *)

\* Records, whatever their fields hold.
IsRun(r) ==
  r \in [at : {r.at}, model : {r.model}, scope : {r.scope}, walk : {r.walk}, todo : {r.todo},
         reading : {r.reading}, snaps : {r.snaps}, seen : {r.seen}, vectors : {r.vectors},
         outcome : {r.outcome}, failed : {r.failed}]
IsDocument(d) ==
  d \in [stamp : {d.stamp}, status : {d.status}, text : {d.text}, index : {d.index}]
IsChunk(c) ==
  c \in [id : {c.id}, place : {c.place}, path : {c.path}, content : {c.content}, of : {c.of},
         by : {c.by}]

\* The identifier of a chunk names its content, and a vector is of that content.
ChunkSound(c) ==
  IsChunk(c) /\ c.id[3] = c.content /\ (c.by # None => c.of = c.content)

RowsSound ==
  /\ docs = [i \in Items |-> docs[i]] /\ chunks = [i \in Items |-> chunks[i]]
  /\ \A i \in Items :
       /\ docs[i] # None => IsDocument(docs[i])
       /\ \A c \in chunks[i] : ChunkSound(c)

\* A vector on its way is of the content its identifier names.
RunSound(r) ==
  IsRun(r) /\ r.model \in Models \cup {None} /\ \A v \in r.vectors : v.of = v.id[3]
RunsSound == run = [s \in Syncs |-> run[s]] /\ \A s \in Syncs : RunSound(run[s])

\* A document, with the chunks of its text, vectors apart.
Plain(c) == [id |-> c.id, place |-> c.place, path |-> c.path, content |-> c.content]
Whole(i) ==
  /\ IsDocument(docs[i])
  /\ {Plain(c) : c \in chunks[i]} = {Plain(c) : c \in Rows(i, docs[i].text)}
WholeRows == \A i \in Items : docs[i] # None => Whole(i)

\* Processes have not overlapped.
Alone ==
  ~overlapped => \A s, t \in Syncs : run[s].at # "idle" /\ run[t].at # "idle" => s = t

\* What holds of document i while process r is at work on it.
StageSound(r, i) ==
  /\ Whole(i)
  /\ r.at \in {"embed", "persist"} => r.model # None
  /\ ~overlapped =>
       /\ r.at = "embed" => chunks[i] = Rows(i, Head(r.snaps).text)
       /\ r.at = "persist" => \A c \in chunks[i] : \E v \in r.vectors : v.id = c.id
       /\ r.at = "status" /\ r.outcome = "indexed" => \A c \in chunks[i] : c.by # None

StagesSound ==
  \A s \in Syncs :
    run[s].at \in {"embed", "persist", "status"} /\ Snap(s).item \in Items =>
      StageSound(run[s], Snap(s).item)

SyncInv ==
  RowsSound /\ RunsSound /\ WholeRows /\ Alone /\ StagesSound /\ IndexedMeansEmbedded

-----------------------------------------------------------------------------
(* Requests and drafts                                                      *)

IsAsk(a) ==
  a \in [at : {a.at}, model : {a.model}, topK : {a.topK}, found : {a.found}, sources : {a.sources},
         gap : {a.gap}]

\* A source carries the content its identifier names, and its document's item.
SourcesSound(sources) == \A t \in sources : t.item \in Items /\ t.id[3] = t.content

\* How far a request has come, and what it has stored by then.
AskSound(q) ==
  LET a == ask[q]
  IN /\ IsAsk(a) /\ SourcesSound(a.sources)
     /\ a.at \in {"trace", "gap", "answered"} =>
          /\ question[q] # None
          /\ question[q].answered => a.sources # {}
          /\ a.gap \/ question[q].answered
     /\ a.at \in {"gap", "answered"} => trace[q] = {t \in a.sources : t.item \notin replaced[q]}
     /\ a.at = "answered" => (a.gap => gap[q])
     /\ gap[q] => a.at = "answered"
     /\ SourcesSound(trace[q])

RequestsSound ==
  /\ ask = [q \in Requests |-> ask[q]] /\ trace = [q \in Requests |-> trace[q]]
  /\ question = [q \in Requests |-> question[q]] /\ gap = [q \in Requests |-> gap[q]]
  /\ replaced = [q \in Requests |-> replaced[q]]
  /\ \A q \in Requests : AskSound(q)

\* What a draft may name.
Complete(q, sources) ==
  /\ gap[q] /\ sources \subseteq ask[q].sources
  /\ {t \in ask[q].sources : t.item \notin replaced[q]} \subseteq sources

DraftsSound ==
  /\ writing = [d \in Drafters |-> writing[d]]
  /\ draft = [q \in Requests |-> [t \in DraftTypes |-> draft[q][t]]]
  /\ \A d \in Drafters : writing[d] # None =>
       writing[d].of \in Requests /\ Complete(writing[d].of, writing[d].sources)
  /\ \A q \in Requests, t \in DraftTypes : draft[q][t] # None => Complete(q, draft[q][t])

ChatInv == RequestsSound /\ TraceFaithful /\ DraftsSound

-----------------------------------------------------------------------------
(* The runs of the connectors                                               *)

Landing == {"embed", "persist", "status"}

LEMMA AfterItemSound ==
  ASSUME NEW r, RunSound(r)
  PROVE  /\ RunSound(AfterItem(r)) /\ AfterItem(r).at \notin Landing \cup {"idle"}
         /\ RunSound(Failing(r)) /\ Failing(r).at \notin Landing \cup {"idle"}
<1>. DEFINE at == IF Tail(r.snaps) = <<>> THEN Stored ELSE "find"
            rest == Tail(r.snaps)
<1>1. at \notin Landing \cup {"idle"}
  BY DEF Stored, Landing
<1>. HIDE DEF at, rest
<1>. DEFINE q == [r EXCEPT !.snaps = rest, !.vectors = {}, !.outcome = None, !.at = at]
            f == [q EXCEPT !.failed = TRUE]
<1>2. RunSound(q) /\ q.at = at
  BY DEF RunSound, IsRun
<1>3. RunSound(f) /\ f.at = at
  BY DEF RunSound, IsRun
<1>4. AfterItem(r) = q /\ Failing(r) = f
  BY DEF AfterItem, Failing, at, rest
<1>. HIDE DEF q, f
<1>. QED BY <1>1, <1>2, <1>3, <1>4

LEMMA ReadingSound ==
  ASSUME NEW r, RunSound(r)
  PROVE  RunSound(Reading(r)) /\ Reading(r).at \notin Landing \cup {"idle"}
<1>1. PICK at \in {"item", "list", "archive", "mark", "find"} : Reading(r) = [r EXCEPT !.at = at]
  BY DEF Reading, Stored, RunSound, IsRun
<1>. DEFINE q == [r EXCEPT !.at = at]
<1>2. RunSound(q) /\ q.at = at
  BY DEF RunSound, IsRun
<1>3. at \notin Landing \cup {"idle"} /\ Reading(r) = q
  BY <1>1 DEF Landing
<1>. HIDE DEF q
<1>. QED BY <1>2, <1>3

LEMMA IdleSound == RunSound(Idle) /\ Idle.at = "idle"
  BY DEF Idle, RunSound, IsRun

LEMMA Putting ==
  ASSUME RunsSound, NEW s \in Syncs, NEW r, run' = [run EXCEPT ![s] = r]
  PROVE  run'[s] = r
BY DEF RunsSound

\* Where a part of a snapshot is read the reading goes on.
LEMMA ReadPartSound ==
  ASSUME RunsSound, NEW s \in Syncs, NEW part \in {"stamp", "text"}, NEW p, ReadPart(s, part, p)
  PROVE  /\ run' = [run EXCEPT ![s] = run'[s]]
         /\ RunSound(run'[s]) /\ run'[s].at \notin Landing \cup {"idle"}
<1>0. RunSound(run[s]) /\ s \in DOMAIN run
  BY DEF RunsSound
<1>1. CASE run' = [run EXCEPT ![s] = [run[s] EXCEPT !.at = part, !.reading = p]]
  <2>1. run'[s] = [at |-> part, model |-> run[s].model, scope |-> run[s].scope, walk |-> run[s].walk,
                   todo |-> run[s].todo, reading |-> p, snaps |-> run[s].snaps, seen |-> run[s].seen,
                   vectors |-> run[s].vectors, outcome |-> run[s].outcome, failed |-> run[s].failed]
    BY <1>0, <1>1 DEF RunSound, IsRun
  <2>. QED BY <1>0, <1>1, <2>1 DEF RunSound, IsRun, Landing
<1>2. CASE run' = [run EXCEPT ![s] = Taken(run[s], p)]
  <2>1. ASSUME NEW todo
        PROVE  RunSound([run[s] EXCEPT !.snaps = Append(@, p), !.seen = @ \cup {p.item},
                                       !.reading = None, !.todo = todo])
    BY <1>0 DEF RunSound, IsRun
  <2>2. RunSound(Taken(run[s], p)) /\ Taken(run[s], p).at \notin Landing \cup {"idle"}
    BY <2>1, ReadingSound DEF Taken
  <2>. QED BY <1>0, <1>2, <2>2
<1>. QED BY <1>1, <1>2 DEF ReadPart, Put

\* Which steps take a run to its document's index, and where the others leave it.
LEMMA RunStep ==
  ASSUME RunsSound, NEW s \in Syncs, SyncStep(s) \/ Upsert(s)
  PROVE  /\ run' = [run EXCEPT ![s] = run'[s]] /\ RunSound(run'[s])
         /\ run'[s].at \in Landing => Upsert(s) \/ Embed(s) \/ Persist(s) \/ Fault(s)
         /\ run[s].at = "idle" => Begin(s)
<1>0. RunSound(run[s]) /\ s \in DOMAIN run
  BY DEF RunsSound
<1>1. CASE Begin(s)
  <2>1. RunSound(run'[s]) /\ run'[s].at \in {"list", "item"}
    <3>1. PICK model \in Models \cup {None}, scope \in Scopes :
            run'[s] = [Idle EXCEPT !.at = IF kind = "repo" THEN "list" ELSE "item",
                         !.model = model, !.scope = scope, !.walk = SetToSeq(scope),
                         !.todo = IF kind = "repo" THEN <<>> ELSE <<Root>>]
      BY <1>1, Putting, Zenon DEF Begin, Put
    <3>2. RunSound(run'[s]) /\ run'[s].at = IF kind = "repo" THEN "list" ELSE "item"
      BY <3>1 DEF Idle, RunSound, IsRun
    <3>. QED BY <3>2
  <2>2. run' = [run EXCEPT ![s] = run'[s]]
    BY <1>0, <1>1 DEF Begin, Put, Idle
  <2>. QED BY <1>1, <2>1, <2>2 DEF Landing
<1>2. CASE ListFiles(s)
  <2>1. PICK walk, todo :
          run' = [run EXCEPT ![s] = Reading([run[s] EXCEPT !.walk = walk, !.todo = todo])]
    BY <1>2 DEF ListFiles, Put
  <2>2. RunSound([run[s] EXCEPT !.walk = walk, !.todo = todo])
    BY <1>0 DEF RunSound, IsRun
  <2>3. run'[s] = Reading([run[s] EXCEPT !.walk = walk, !.todo = todo])
    BY <1>0, <2>1
  <2>. QED BY <1>0, <1>2, <2>1, <2>2, <2>3, ReadingSound DEF ListFiles
<1>3. CASE ReadStamp(s) \/ ReadText(s)
  <2>1. PICK part, p : part \in {"stamp", "text"} /\ ReadPart(s, part, p)
    BY <1>3 DEF ReadStamp, ReadText
  <2>2. run[s].at # "idle"
    BY <1>3 DEF ReadStamp, ReadText, ReadAt
  <2>. QED BY <2>1, <2>2, ReadPartSound
<1>4. CASE Vanished(s) \/ Finish(s) \/ Stop(s)
  <2>1. run' = [run EXCEPT ![s] = Idle] /\ run[s].at # "idle"
    BY <1>4 DEF Vanished, Finish, Stop, Put
  <2>. QED BY <1>0, <2>1, IdleSound DEF Landing
<1>5. CASE Find(s)
  <2>1. run' = [run EXCEPT ![s] = AfterItem(run[s])]
        \/ run' = [run EXCEPT ![s] = [run[s] EXCEPT !.at = "upsert"]]
    BY <1>5 DEF Find, Put
  <2>2. ASSUME NEW q, q = [run[s] EXCEPT !.at = "upsert"] PROVE RunSound(q) /\ q.at = "upsert"
    BY <1>0, <2>2 DEF RunSound, IsRun
  <2>. QED BY <1>0, <1>5, <2>1, <2>2, AfterItemSound DEF Find, Landing
<1>6. CASE Upsert(s)
  <2>1. run' = [run EXCEPT ![s] = AfterItem(run[s])]
        \/ run' = [run EXCEPT ![s] = [run[s] EXCEPT !.at = "embed"]]
    BY <1>6 DEF Upsert, Put
  <2>2. ASSUME NEW q, q = [run[s] EXCEPT !.at = "embed"] PROVE RunSound(q)
    BY <1>0, <2>2 DEF RunSound, IsRun
  <2>. QED BY <1>0, <1>6, <2>1, <2>2, AfterItemSound DEF Upsert
<1>7. CASE Embed(s)
  <2>1. PICK vectors :
          /\ \/ run' = [run EXCEPT ![s] = [run[s] EXCEPT !.at = "status", !.outcome = "indexed"]]
             \/ run' = [run EXCEPT ![s] = [run[s] EXCEPT !.at = "persist", !.vectors = vectors]]
          /\ \A v \in vectors : v.of = v.id[3]
    <3>. DEFINE pending == {c \in Rows(Snap(s).item, Snap(s).text) :
                              c.id \notin Known(Snap(s).item, run[s].model)}
    <3>1. \A v \in Vectors(pending) : v.of = v.id[3]
      BY DEF Vectors, Rows, ChunkId
    <3>2. \/ run' = [run EXCEPT ![s] = [run[s] EXCEPT !.at = "status", !.outcome = "indexed"]]
          \/ run' = [run EXCEPT ![s] = [run[s] EXCEPT !.at = "persist", !.vectors = Vectors(pending)]]
      BY <1>7 DEF Embed, Put
    <3>. QED BY <3>1, <3>2
  <2>2. ASSUME NEW q, \/ q = [run[s] EXCEPT !.at = "status", !.outcome = "indexed"]
                      \/ q = [run[s] EXCEPT !.at = "persist", !.vectors = vectors]
        PROVE  RunSound(q)
    BY <1>0, <2>1, <2>2 DEF RunSound, IsRun
  <2>. QED BY <1>0, <1>7, <2>1, <2>2 DEF Embed
<1>8. CASE Persist(s)
  <2>1. PICK outcome :
          run' = [run EXCEPT ![s] = [run[s] EXCEPT !.at = "status", !.vectors = {}, !.outcome = outcome]]
    BY <1>8 DEF Persist, Put
  <2>2. ASSUME NEW q, q = [run[s] EXCEPT !.at = "status", !.vectors = {}, !.outcome = outcome]
        PROVE  RunSound(q)
    BY <1>0, <2>2 DEF RunSound, IsRun
  <2>. QED BY <1>0, <1>8, <2>1, <2>2 DEF Persist
<1>9. CASE SetStatus(s)
  BY <1>0, <1>9, AfterItemSound DEF SetStatus, Put
<1>10. CASE Fault(s)
  <2>1. run' = [run EXCEPT ![s] = Failing(run[s])]
        \/ run' = [run EXCEPT ![s] = [run[s] EXCEPT !.at = "status", !.vectors = {}, !.outcome = "failed"]]
    BY <1>10 DEF Fault, Put
  <2>2. ASSUME NEW q, q = [run[s] EXCEPT !.at = "status", !.vectors = {}, !.outcome = "failed"]
        PROVE  RunSound(q)
    BY <1>0, <2>2 DEF RunSound, IsRun
  <2>. QED BY <1>0, <1>10, <2>1, <2>2, AfterItemSound DEF Fault
<1>11. CASE ArchiveMissing(s)
  <2>1. run' = [run EXCEPT ![s] = [run[s] EXCEPT !.at = "mark"]]
    BY <1>11 DEF ArchiveMissing, Put
  <2>2. ASSUME NEW q, q = [run[s] EXCEPT !.at = "mark"] PROVE RunSound(q) /\ q.at = "mark"
    BY <1>0, <2>2 DEF RunSound, IsRun
  <2>. QED BY <1>0, <1>11, <2>1, <2>2 DEF ArchiveMissing, Landing
<1>. QED BY <1>1, <1>2, <1>3, <1>4, <1>5, <1>6, <1>7, <1>8, <1>9, <1>10, <1>11 DEF SyncStep

-----------------------------------------------------------------------------
(* The rows of the connectors                                               *)

LEMMA SyncWriters ==
  ASSUME NEW s, SyncStep(s)
  PROVE  /\ UNCHANGED chunks \/ Persist(s)
         /\ UNCHANGED docs \/ SetStatus(s) \/ ArchiveMissing(s)
         /\ UNCHANGED overlapped \/ Begin(s)
<1>1. CASE Begin(s) \/ ListFiles(s) \/ ReadStamp(s) \/ ReadText(s) \/ Vanished(s) \/ Find(s)
  BY <1>1 DEF Begin, ListFiles, ReadStamp, ReadText, Vanished, Find
<1>2. CASE Embed(s) \/ Persist(s) \/ SetStatus(s)
  BY <1>2 DEF Embed, Persist, SetStatus
<1>3. CASE Fault(s) \/ ArchiveMissing(s) \/ Finish(s) \/ Stop(s)
  BY <1>3 DEF Fault, ArchiveMissing, Finish, Stop
<1>. QED BY <1>1, <1>2, <1>3 DEF SyncStep

\* A chunk with the vector it is given, if there is one for it.
Vectored(c, vectors, model) ==
  IF \E v \in vectors : v.id = c.id
  THEN [c EXCEPT !.by = model, !.of = (CHOOSE v \in vectors : v.id = c.id).of] ELSE c

\* What persisting vectors does: all of them, or nothing.
Persisted(s) ==
  /\ chunks' = [chunks EXCEPT ![Snap(s).item] =
                  {Vectored(c, run[s].vectors, run[s].model) : c \in chunks[Snap(s).item]}]
  /\ run' = [run EXCEPT ![s] = [run[s] EXCEPT !.at = "status", !.vectors = {}, !.outcome = "indexed"]]
NotPersisted(s) ==
  /\ UNCHANGED chunks
  /\ run' = [run EXCEPT ![s] = [run[s] EXCEPT !.at = "status", !.vectors = {}, !.outcome = "failed"]]

LEMMA PersistCases == ASSUME NEW s, Persist(s) PROVE Persisted(s) \/ NotPersisted(s)
<1>. DEFINE all == \A v \in run[s].vectors : \E c \in chunks[Snap(s).item] : c.id = v.id
            some(c) == \E v \in run[s].vectors : v.id = c.id
            given(c) == [c EXCEPT !.by = run[s].model,
                                  !.of = (CHOOSE v \in run[s].vectors : v.id = c.id).of]
<1>1. /\ chunks' = IF all THEN [chunks EXCEPT ![Snap(s).item] =
                                  {IF some(c) THEN given(c) ELSE c : c \in @}] ELSE chunks
      /\ run' = [run EXCEPT ![s] = [run[s] EXCEPT !.at = "status", !.vectors = {},
                                                  !.outcome = IF all THEN "indexed" ELSE "failed"]]
  BY Zenon DEF Persist, Put
<1>. DEFINE was(c) == Vectored(c, run[s].vectors, run[s].model)
            now(c) == IF some(c) THEN given(c) ELSE c
<1>2. \A c : was(c) = now(c)
  BY Zenon DEF Vectored
<1>. HIDE DEF was, now
<1>3. {was(c) : c \in chunks[Snap(s).item]} = {now(c) : c \in chunks[Snap(s).item]}
  BY <1>2
<1>. USE DEF was, now
<1>. HIDE DEF all, some, given
<1>4. CASE all
  BY <1>1, <1>3, <1>4, Zenon DEF Persisted
<1>5. CASE ~all
  BY <1>1, <1>5, Zenon DEF NotPersisted
<1>. QED BY <1>4, <1>5

LEMMA VectoredSound ==
  ASSUME NEW c, ChunkSound(c), NEW vectors, \A v \in vectors : v.of = v.id[3], NEW model
  PROVE  LET d == Vectored(c, vectors, model)
         IN /\ ChunkSound(d) /\ Plain(d) = Plain(c) /\ d.id = c.id /\ d.content = c.content
            /\ model # None /\ (c.by # None \/ \E v \in vectors : v.id = c.id) => d.by # None
<1>1. CASE \E v \in vectors : v.id = c.id
  <2>. DEFINE v == CHOOSE v \in vectors : v.id = c.id
              d == [c EXCEPT !.by = model, !.of = v.of]
  <2>1. v \in vectors /\ v.id = c.id
    BY <1>1
  <2>2. v.of = c.content
    BY <2>1 DEF ChunkSound
  <2>. HIDE DEF v
  <2>3. /\ IsChunk(d) /\ d.id = c.id /\ d.place = c.place /\ d.path = c.path
        /\ d.content = c.content /\ d.of = v.of /\ d.by = model
    BY DEF ChunkSound, IsChunk
  <2>4. Vectored(c, vectors, model) = d
    BY <1>1, Zenon DEF Vectored, v
  <2>. HIDE DEF d
  <2>. QED BY <2>2, <2>3, <2>4 DEF ChunkSound, Plain
<1>2. CASE ~ \E v \in vectors : v.id = c.id
  BY <1>2 DEF Vectored
<1>. QED BY <1>1, <1>2

LEMMA RowsFresh == \A i, text : \A c \in Rows(i, text) : ChunkSound(c) /\ c.by = None
  BY DEF Rows, ChunkId, ChunkSound, IsChunk

\* The transaction of an upsert.
LEMMA UpsertRows ==
  ASSUME RowsSound, NEW s \in Syncs, Upsert(s), NEW i \in Items
  PROVE  /\ i # Snap(s).item => docs'[i] = docs[i] /\ chunks'[i] = chunks[i]
         /\ i = Snap(s).item => /\ chunks'[i] = Rows(i, Snap(s).text)
                                /\ IsDocument(docs'[i]) /\ docs'[i].text = Snap(s).text
                                /\ docs'[i].index = "pending"
<1>1. i = Snap(s).item => docs'[i] = DocumentRow(Snap(s)) /\ chunks'[i] = Rows(i, Snap(s).text)
  BY DEF Upsert, RowsSound
<1>2. i # Snap(s).item => docs'[i] = docs[i] /\ chunks'[i] = chunks[i]
  BY DEF Upsert, RowsSound
<1>. QED BY <1>1, <1>2 DEF DocumentRow, NewIndexStatus, IsDocument

\* What else happens to a document: its text stays, its index becomes what the run
\* found, or "pending".
LEMMA DocumentStays ==
  ASSUME RowsSound, NEW s \in Syncs, SyncStep(s), NEW i \in Items
  PROVE  \/ docs'[i] = docs[i]
         \/ /\ IsDocument(docs[i]) => IsDocument(docs'[i]) /\ docs'[i].text = docs[i].text
            /\ SetStatus(s) /\ i = Snap(s).item
            /\ IsDocument(docs[i]) => docs'[i].index = run[s].outcome
         \/ /\ docs[i] # None /\ IsDocument(docs'[i]) /\ docs'[i].text = docs[i].text
            /\ docs'[i].index = "pending"
<1>1. CASE SetStatus(s)
  <2>1. docs' = [docs EXCEPT ![Snap(s).item].index = run[s].outcome]
    BY <1>1 DEF SetStatus
  <2>2. docs'[i] = IF i = Snap(s).item THEN [docs[i] EXCEPT !.index = run[s].outcome] ELSE docs[i]
    BY <2>1, Zenon DEF RowsSound
  <2>3. ASSUME IsDocument(docs[i]), NEW d, d = [docs[i] EXCEPT !.index = run[s].outcome]
        PROVE  IsDocument(d) /\ d.text = docs[i].text /\ d.index = run[s].outcome
    BY <2>3 DEF IsDocument
  <2>. QED BY <1>1, <2>2, <2>3
<1>2. CASE ArchiveMissing(s)
  <2>1. \/ docs'[i] = docs[i]
        \/ /\ docs'[i] = [docs[i] EXCEPT !.status = "archived", !.index = "pending"]
           /\ docs[i] # None
    BY <1>2 DEF ArchiveMissing
  <2>2. ASSUME IsDocument(docs[i]), NEW d,
               d = [docs[i] EXCEPT !.status = "archived", !.index = "pending"]
        PROVE  IsDocument(d) /\ d.text = docs[i].text /\ d.index = "pending"
    BY <2>2 DEF IsDocument
  <2>. QED BY <2>1, <2>2 DEF RowsSound
<1>3. CASE UNCHANGED docs
  BY <1>3
<1>. QED BY <1>1, <1>2, <1>3, SyncWriters

LEMMA ChunksStay ==
  ASSUME RowsSound, RunsSound, NEW s \in Syncs, SyncStep(s), NEW i \in Items
  PROVE  /\ \/ chunks'[i] = chunks[i]
            \/ /\ Persist(s) /\ Persisted(s) /\ i = Snap(s).item
               /\ chunks'[i] = {Vectored(c, run[s].vectors, run[s].model) : c \in chunks[i]}
         /\ \A c \in chunks'[i] : ChunkSound(c)
         /\ {Plain(c) : c \in chunks'[i]} = {Plain(c) : c \in chunks[i]}
<1>. DEFINE vectors == run[s].vectors
            model == run[s].model
            with(c) == Vectored(c, vectors, model)
<1>1. \/ chunks'[i] = chunks[i]
      \/ Persist(s) /\ Persisted(s) /\ i = Snap(s).item /\ chunks'[i] = {with(c) : c \in chunks[i]}
  <2>1. CASE Persist(s)
    <3>1. CASE Persisted(s)
      BY <2>1, <3>1 DEF Persisted, RowsSound
    <3>. QED BY <2>1, <3>1, PersistCases DEF NotPersisted
  <2>. QED BY <2>1, SyncWriters
<1>2. \A c \in chunks[i] : ChunkSound(c)
  BY DEF RowsSound
<1>3. \A v \in vectors : v.of = v.id[3]
  BY DEF RunsSound, RunSound
<1>4. \A c \in chunks[i] : ChunkSound(with(c)) /\ Plain(with(c)) = Plain(c)
  BY <1>2, <1>3, VectoredSound
<1>. HIDE DEF with
<1>5. \A c \in chunks'[i] : ChunkSound(c)
  BY <1>1, <1>2, <1>4
<1>6. {Plain(c) : c \in chunks'[i]} = {Plain(c) : c \in chunks[i]}
  BY <1>1, <1>4
<1>. USE DEF with
<1>. QED BY <1>1, <1>5, <1>6

LEMMA PlainRows ==
  ASSUME NEW i \in Items, NEW text, IsDocument(docs'[i]), docs'[i].text = text,
         {Plain(c) : c \in chunks'[i]} = {Plain(c) : c \in Rows(i, text)}
  PROVE  Whole(i)'
BY DEF Whole, Plain, IsDocument, Rows, ChunkId

LEMMA WholeStays ==
  ASSUME SyncInv, NEW s \in Syncs, SyncStep(s), NEW i \in Items
  PROVE  docs'[i] # None \/ Whole(i) => Whole(i)'
<1>. SUFFICES ASSUME docs'[i] # None \/ Whole(i) PROVE Whole(i)'
  OBVIOUS
<1>1. {Plain(c) : c \in chunks'[i]} = {Plain(c) : c \in chunks[i]}
  BY ChunksStay DEF SyncInv
<1>2. SetStatus(s) /\ i = Snap(s).item => Whole(i)
  BY DEF SyncInv, StagesSound, StageSound, SetStatus
<1>3. docs[i] # None => Whole(i)
  BY DEF SyncInv, WholeRows
<1>4. Whole(i) /\ IsDocument(docs'[i]) /\ docs'[i].text = docs[i].text
  <2>1. CASE docs'[i] = docs[i]
    BY <1>3, <2>1 DEF Whole
  <2>2. CASE docs'[i] # docs[i]
    BY <1>2, <1>3, <2>2, DocumentStays DEF Whole, SyncInv
  <2>. QED BY <2>1, <2>2
<1>5. {Plain(c) : c \in chunks[i]} = {Plain(c) : c \in Rows(i, docs[i].text)}
  BY <1>4, Zenon DEF Whole
<1>6. {Plain(c) : c \in chunks'[i]} = {Plain(c) : c \in Rows(i, docs[i].text)}
  BY <1>1, <1>5, Zenon
<1>. QED BY <1>4, <1>6, PlainRows

LEMMA WholeUpserted ==
  ASSUME RowsSound, NEW s \in Syncs, Upsert(s), NEW i \in Items
  PROVE  /\ i = Snap(s).item => Whole(i)'
         /\ i # Snap(s).item => (Whole(i) => Whole(i)')
<1>1. ASSUME i = Snap(s).item PROVE Whole(i)'
  BY <1>1, UpsertRows, PlainRows
<1>2. ASSUME i # Snap(s).item, Whole(i) PROVE Whole(i)'
  <2>1. docs'[i] = docs[i] /\ chunks'[i] = chunks[i]
    BY <1>2, UpsertRows
  <2>2. {Plain(c) : c \in chunks'[i]} = {Plain(c) : c \in Rows(i, docs[i].text)}
    BY <1>2, <2>1, Zenon DEF Whole
  <2>. QED BY <1>2, <2>1, <2>2, PlainRows DEF Whole
<1>. QED BY <1>1, <1>2

LEMMA RowsStep ==
  ASSUME SyncInv, NEW s \in Syncs, SyncStep(s) \/ Upsert(s)
  PROVE  /\ RowsSound' /\ WholeRows'
         /\ \A i \in Items : Whole(i) => Whole(i)'
<1>. USE DEF SyncInv
<1>1. \A i \in Items : docs'[i] # None \/ Whole(i) => Whole(i)'
  <2>1. CASE SyncStep(s)
    BY <2>1, WholeStays
  <2>2. CASE Upsert(s)
    BY <2>2, WholeUpserted, UpsertRows DEF WholeRows
  <2>. QED BY <2>1, <2>2
<1>2. \A i \in Items : \A c \in chunks'[i] : ChunkSound(c)
  <2>1. CASE SyncStep(s)
    BY <2>1, ChunksStay
  <2>2. CASE Upsert(s)
    <3>. TAKE i \in Items
    <3>1. \A c \in chunks[i] : ChunkSound(c)
      BY DEF RowsSound
    <3>. QED BY <2>2, <3>1, UpsertRows, RowsFresh
  <2>. QED BY <2>1, <2>2
<1>3. docs' = [i \in Items |-> docs'[i]] /\ chunks' = [i \in Items |-> chunks'[i]]
  <2>1. CASE Upsert(s)
    BY <2>1 DEF Upsert, RowsSound
  <2>2. CASE SetStatus(s)
    BY <2>2, Zenon DEF SetStatus, RowsSound
  <2>3. CASE ArchiveMissing(s)
    BY <2>3, Zenon DEF ArchiveMissing, RowsSound
  <2>4. CASE Persist(s)
    BY <2>4, PersistCases DEF Persist, Persisted, NotPersisted, RowsSound
  <2>5. CASE UNCHANGED <<docs, chunks>>
    BY <2>5 DEF RowsSound
  <2>. QED BY <2>1, <2>2, <2>3, <2>4, <2>5, SyncWriters
<1>4. \A i \in Items : docs'[i] # None => IsDocument(docs'[i])
  BY <1>1 DEF Whole
<1>. QED BY <1>1, <1>2, <1>3, <1>4 DEF RowsSound, WholeRows

-----------------------------------------------------------------------------
(* A process alone with the store                                           *)

LEMMA Others ==
  ASSUME SyncInv, NEW s \in Syncs, SyncStep(s) \/ Upsert(s), ~overlapped'
  PROVE  /\ ~overlapped
         /\ \A t \in Syncs \ {s} : run[t].at = "idle" /\ run'[t] = run[t]
<1>1. \A t \in Syncs \ {s} : run'[t] = run[t]
  BY RunStep DEF SyncInv, RunsSound
<1>2. CASE Begin(s)
  BY <1>1, <1>2 DEF Begin
<1>3. CASE ~Begin(s)
  <2>1. ~overlapped
    BY <1>3, SyncWriters DEF Upsert
  <2>2. run[s].at # "idle"
    BY <1>3, RunStep DEF SyncInv
  <2>. QED BY <1>1, <2>1, <2>2 DEF SyncInv, Alone
<1>. QED BY <1>2, <1>3

LEMMA AloneStep ==
  ASSUME SyncInv, NEW s \in Syncs, SyncStep(s) \/ Upsert(s)
  PROVE  Alone'
BY Others DEF Alone

\* An upsert leaves a process with the document's new rows; the vectors it then
\* makes are one for each of them, and storing them leaves none without.
LEMMA OwnStage ==
  ASSUME SyncInv, NEW s \in Syncs, SyncStep(s) \/ Upsert(s),
         NEW i \in Items, run'[s].at \in Landing, i = Head(run'[s].snaps).item
  PROVE  StageSound(run[s], i)'
<1>. DEFINE r == run[s]
            fresh == Rows(i, Head(r.snaps).text)
<1>0. /\ RunSound(r) /\ s \in DOMAIN run
      /\ r.at \in Landing /\ i = Snap(s).item => StageSound(r, i)
  BY DEF SyncInv, RunsSound, StagesSound, Landing
<1>w. Whole(i) => Whole(i)'
  BY RowsStep
<1>1. CASE Upsert(s)
  <2>1. \/ run' = [run EXCEPT ![s] = AfterItem(r)]
        \/ r.model # None /\ run' = [run EXCEPT ![s] = [r EXCEPT !.at = "embed"]]
    BY <1>1 DEF Upsert, Put
  <2>2. run'[s] # AfterItem(r)
    BY <1>0, AfterItemSound
  <2>3. ASSUME NEW q, q = [r EXCEPT !.at = "embed"]
        PROVE  q.at = "embed" /\ q.snaps = r.snaps /\ q.model = r.model
    BY <1>0, <2>3 DEF RunSound, IsRun
  <2>4. run'[s].at = "embed" /\ run'[s].snaps = r.snaps /\ run'[s].model # None
    BY <1>0, <2>1, <2>2, <2>3
  <2>5. chunks'[i] = Rows(i, Snap(s).text) /\ Whole(i)'
    BY <1>1, <2>4, UpsertRows, WholeUpserted DEF SyncInv, Snap
  <2>. QED BY <2>4, <2>5 DEF StageSound, Snap
<1>2. CASE Embed(s)
  <2>1. PICK pending :
          /\ pending = {c \in Rows(Snap(s).item, Snap(s).text) :
                          c.id \notin Known(Snap(s).item, r.model)}
          /\ \/ /\ pending = {}
                /\ run' = [run EXCEPT ![s] = [r EXCEPT !.at = "status", !.outcome = "indexed"]]
             \/ run' = [run EXCEPT ![s] = [r EXCEPT !.at = "persist", !.vectors = Vectors(pending)]]
    BY <1>2 DEF Embed, Put
  <2>4. /\ run'[s].snaps = r.snaps /\ run'[s].model = r.model
        /\ \/ run'[s].at = "status" /\ pending = {}
           \/ run'[s].at = "persist" /\ run'[s].vectors = Vectors(pending)
    <3>1. CASE pending = {} /\ run'[s] = [r EXCEPT !.at = "status", !.outcome = "indexed"]
      BY <1>0, <3>1 DEF RunSound, IsRun
    <3>2. CASE run'[s] = [r EXCEPT !.at = "persist", !.vectors = Vectors(pending)]
      BY <1>0, <3>2 DEF RunSound, IsRun
    <3>3. CASE pending = {} /\ run' = [run EXCEPT ![s] = [r EXCEPT !.at = "status", !.outcome = "indexed"]]
      <4>1. run'[s] = [r EXCEPT !.at = "status", !.outcome = "indexed"]
        BY <3>3, Putting, Zenon DEF SyncInv
      <4>. QED BY <3>1, <3>3, <4>1
    <3>4. CASE run' = [run EXCEPT ![s] = [r EXCEPT !.at = "persist", !.vectors = Vectors(pending)]]
      <4>1. run'[s] = [r EXCEPT !.at = "persist", !.vectors = Vectors(pending)]
        BY <3>4, Putting, Zenon DEF SyncInv
      <4>. QED BY <3>2, <4>1
    <3>. QED BY <2>1, <3>3, <3>4
  <2>5. i = Snap(s).item /\ r.at = "embed" /\ UNCHANGED <<chunks, overlapped>>
    BY <1>2, <2>4 DEF Embed, Snap
  <2>6. Whole(i) /\ r.model # None /\ (~overlapped => chunks[i] = Rows(i, Snap(s).text))
    BY <1>0, <2>5 DEF StageSound, Landing, Snap
  <2>7. ~overlapped => pending = chunks[i]
    BY <2>1, <2>5, <2>6, RowsFresh DEF Known
  <2>8. ~overlapped /\ run'[s].at = "persist" =>
          \A c \in chunks'[i] : \E v \in run'[s].vectors : v.id = c.id
    <3>1. \A c \in pending : \E v \in Vectors(pending) : v.id = c.id
      <4>. TAKE c \in pending
      <4>1. [id |-> c.id, of |-> c.content] \in Vectors(pending)
        BY DEF Vectors
      <4>. QED BY <4>1
    <3>. SUFFICES ASSUME ~overlapped, run'[s].at = "persist"
                  PROVE  \A c \in chunks'[i] : \E v \in run'[s].vectors : v.id = c.id
      OBVIOUS
    <3>2. run'[s].vectors = Vectors(pending) /\ pending = chunks'[i]
      BY <2>4, <2>5, <2>7
    <3>. QED BY <3>1, <3>2, Zenon
  <2>9. ~overlapped /\ run'[s].at = "status" => chunks'[i] = {}
    BY <2>4, <2>5, <2>7
  <2>. QED BY <1>w, <2>4, <2>5, <2>6, <2>8, <2>9 DEF StageSound
<1>3. CASE Persist(s)
  <2>2. \/ /\ run'[s] = [r EXCEPT !.at = "status", !.vectors = {}, !.outcome = "indexed"]
           /\ Persisted(s)
        \/ run'[s] = [r EXCEPT !.at = "status", !.vectors = {}, !.outcome = "failed"]
    BY <1>0, <1>3, PersistCases, Zenon DEF Persisted, NotPersisted
  <2>3. /\ run'[s].snaps = r.snaps /\ run'[s].at = "status"
        /\ run'[s].outcome = "indexed" => Persisted(s)
    BY <1>0, <2>2 DEF RunSound, IsRun
  <2>4. i = Snap(s).item /\ r.at = "persist" /\ UNCHANGED overlapped
    BY <1>3, <2>3 DEF Persist, Snap
  <2>5. /\ Whole(i) /\ r.model # None
        /\ ~overlapped => \A c \in chunks[i] : \E v \in r.vectors : v.id = c.id
    BY <1>0, <2>4 DEF StageSound, Landing
  <2>6. ASSUME ~overlapped, Persisted(s) PROVE \A c \in chunks'[i] : c.by # None
    <3>. DEFINE with(c) == Vectored(c, r.vectors, r.model)
    <3>1. chunks'[i] = {with(c) : c \in chunks[i]}
      BY <2>4, <2>6, Zenon DEF Persisted, SyncInv, RowsSound
    <3>2. \A c \in chunks[i] : with(c).by # None
      <4>1. \A c \in chunks[i] : ChunkSound(c)
        BY DEF SyncInv, RowsSound
      <4>2. \A v \in r.vectors : v.of = v.id[3]
        BY <1>0 DEF RunSound
      <4>. QED BY <2>5, <2>6, <4>1, <4>2, VectoredSound
    <3>. HIDE DEF with
    <3>. QED BY <3>1, <3>2
  <2>. QED BY <1>w, <2>3, <2>4, <2>5, <2>6 DEF StageSound
<1>4. CASE Fault(s)
  <2>1. \/ run' = [run EXCEPT ![s] = Failing(r)]
        \/ /\ run' = [run EXCEPT ![s] = [r EXCEPT !.at = "status", !.vectors = {}, !.outcome = "failed"]]
           /\ r.at \in Landing
    BY <1>4 DEF Fault, Put, Landing
  <2>2. run'[s] # Failing(r)
    BY <1>0, AfterItemSound
  <2>3. ASSUME NEW q, q = [r EXCEPT !.at = "status", !.vectors = {}, !.outcome = "failed"]
        PROVE  q.snaps = r.snaps /\ q.at = "status" /\ q.outcome = "failed"
    BY <1>0, <2>3 DEF RunSound, IsRun
  <2>4. /\ run'[s].snaps = r.snaps /\ run'[s].at = "status" /\ run'[s].outcome = "failed"
        /\ r.at \in Landing
    BY <1>0, <2>1, <2>2, <2>3
  <2>5. Whole(i)
    BY <1>0, <2>4 DEF StageSound, Snap
  <2>. QED BY <1>w, <2>4, <2>5 DEF StageSound
<1>. QED BY <1>1, <1>2, <1>3, <1>4, RunStep DEF SyncInv

LEMMA StagesStep ==
  ASSUME SyncInv, NEW s \in Syncs, SyncStep(s) \/ Upsert(s)
  PROVE  StagesSound'
<1>. SUFFICES ASSUME NEW t \in Syncs, run'[t].at \in {"embed", "persist", "status"},
                     NEW i \in Items, i = Head(run'[t].snaps).item
              PROVE  StageSound(run[t], i)'
  BY DEF StagesSound, Snap
<1>1. CASE t = s
  BY <1>1, OwnStage DEF Landing
<1>2. CASE t # s
  <2>1. run'[t] = run[t]
    BY <1>2, RunStep DEF SyncInv, RunsSound
  <2>2. StageSound(run[t], i)
    BY <2>1 DEF SyncInv, StagesSound, Snap
  <2>3. Whole(i)'
    BY <2>2, RowsStep DEF StageSound
  <2>4. overlapped'
    BY <1>2, <2>1, Others
  <2>. QED BY <2>1, <2>2, <2>3, <2>4 DEF StageSound
<1>. QED BY <1>1, <1>2

\* An upsert leaves the index "pending", and only a status that the run found says
\* "indexed".
LEMMA IndexedStep ==
  ASSUME SyncInv, NEW s \in Syncs, SyncStep(s) \/ Upsert(s)
  PROVE  IndexedMeansEmbedded'
<1>. SUFFICES ASSUME ~overlapped', NEW i \in Items, docs'[i] # None, docs'[i].index = "indexed"
              PROVE  \A c \in chunks'[i] : c.by # None
  BY DEF IndexedMeansEmbedded
<1>0. ~overlapped
  BY Others
<1>1. CASE SyncStep(s)
  <2>1. \A c \in chunks[i] : c.by # None
    <3>1. CASE docs'[i] = docs[i]
      BY <1>0, <3>1 DEF SyncInv, IndexedMeansEmbedded
    <3>2. CASE docs'[i] # docs[i]
      <4>1. SetStatus(s) /\ i = Snap(s).item /\ StageSound(run[s], i) /\ run[s].at = "status"
        <5>1. SetStatus(s) /\ i = Snap(s).item
          BY <1>1, <3>2, DocumentStays DEF SyncInv
        <5>. QED BY <5>1 DEF SetStatus, SyncInv, StagesSound
      <4>2. run[s].outcome = "indexed"
        BY <1>1, <3>2, <4>1, DocumentStays DEF SyncInv, StageSound, Whole
      <4>. QED BY <1>0, <4>1, <4>2 DEF StageSound
    <3>. QED BY <3>1, <3>2
  <2>2. CASE chunks'[i] = chunks[i]
    BY <2>1, <2>2
  <2>3. CASE chunks'[i] # chunks[i]
    <3>. DEFINE with(c) == Vectored(c, run[s].vectors, run[s].model)
    <3>1. Persist(s) /\ i = Snap(s).item /\ chunks'[i] = {with(c) : c \in chunks[i]}
      BY <1>1, <2>3, ChunksStay, Zenon DEF SyncInv
    <3>2. run[s].model # None
      BY <3>1 DEF Persist, SyncInv, StagesSound, StageSound
    <3>3. \A c \in chunks[i] : ChunkSound(c)
      BY DEF SyncInv, RowsSound
    <3>4. \A v \in run[s].vectors : v.of = v.id[3]
      BY DEF SyncInv, RunsSound, RunSound
    <3>5. \A c \in chunks[i] : with(c).by # None
      BY <2>1, <3>2, <3>3, <3>4, VectoredSound
    <3>. HIDE DEF with
    <3>. QED BY <3>1, <3>5
  <2>. QED BY <2>2, <2>3
<1>2. CASE Upsert(s)
  BY <1>0, <1>2, UpsertRows DEF SyncInv, IndexedMeansEmbedded
<1>. QED BY <1>1, <1>2

-----------------------------------------------------------------------------
(* Every step                                                               *)

LEMMA SyncInvInit == Init => SyncInv
<1>. SUFFICES ASSUME Init PROVE SyncInv
  OBVIOUS
<1>1. \A s \in Syncs : run[s] = Idle
  BY DEF Init, SyncInit
<1>2. RowsSound /\ WholeRows /\ IndexedMeansEmbedded
  BY DEF Init, SyncInit, RowsSound, WholeRows, IndexedMeansEmbedded
<1>3. RunsSound
  BY <1>1, IdleSound DEF RunsSound, Init, SyncInit
<1>4. Alone /\ StagesSound
  BY <1>1, IdleSound DEF Alone, StagesSound
<1>. QED BY <1>2, <1>3, <1>4 DEF SyncInv

\* A step of the source, of a request or of a draft leaves the connectors as they are.
LEMMA SyncInvStays == ASSUME SyncInv, UNCHANGED <<docs, chunks, run, overlapped>> PROVE SyncInv'
BY DEF SyncInv, RowsSound, RunsSound, WholeRows, Whole, Alone, StagesSound, StageSound, Snap,
       IndexedMeansEmbedded

LEMMA SyncInvStep == ASSUME SyncInv, NEW s \in Syncs, SyncStep(s) \/ Upsert(s) PROVE SyncInv'
<1>1. RunsSound'
  BY RunStep DEF SyncInv, RunsSound
<1>. QED BY <1>1, RowsStep, AloneStep, StagesStep, IndexedStep DEF SyncInv

\* Which steps are of a connector.
LEMMA NextCases ==
  ASSUME [Next]_vars
  PROVE  \/ UNCHANGED <<docs, chunks, run, overlapped>>
         \/ \E s \in Syncs : SyncStep(s) \/ Upsert(s)
<1>1. ASSUME NEW q \in Requests, RequestStep(q) PROVE UNCHANGED <<docs, chunks, run, overlapped>>
  BY <1>1 DEF RequestStep, Ask, Search, Fetch, StoreQuestion, Trace, StoreGap, Fail
<1>2. ASSUME NEW d \in Drafters, DraftStep(d) PROVE UNCHANGED <<docs, chunks, run, overlapped>>
  BY <1>2 DEF DraftStep, ReadGap, PersistDraft
<1>3. ASSUME SourceStep PROVE UNCHANGED <<docs, chunks, run, overlapped>>
  BY <1>3 DEF SourceStep, Edit, Delete
<1>. QED BY <1>1, <1>2, <1>3 DEF Next, Replace

\* Whatever the connectors, the requests and the drafts do, the rows are whole, a
\* vector on its way is of the content its identifier names, and a process alone
\* with the store leaves no document "indexed" without its vectors.
THEOREM ConnectorInvariant == Spec => []SyncInv
<1>1. SyncInv /\ [Next]_vars => SyncInv'
  BY NextCases, SyncInvStays, SyncInvStep
<1>. QED BY SyncInvInit, <1>1, PTL DEF Spec

\* No stored vector is of another text than its chunk's (persistChunkEmbeddings,
\* replaceDocumentChunks), however many processes synchronize at once.
THEOREM EmbeddingsAreFaithful == Spec => []EmbeddingsFaithful
<1>1. SyncInv => EmbeddingsFaithful
  BY DEF SyncInv, RowsSound, ChunkSound, EmbeddingsFaithful
<1>. QED BY <1>1, ConnectorInvariant, PTL

\* While processes have not overlapped, a document marked as indexed has a vector
\* for each of its chunks, wherever one of them failed or was ended.
THEOREM IndexedIsEmbedded == Spec => []IndexedMeansEmbedded
<1>1. SyncInv => IndexedMeansEmbedded
  BY DEF SyncInv
<1>. QED BY <1>1, ConnectorInvariant, PTL

\* A document's chunks are those chunkMarkdown() makes of the very text it has,
\* identifiers and headings included: two processes never mix theirs.
THEOREM ChunksAreOfTheText == Spec => []WholeRows
<1>1. SyncInv => WholeRows
  BY DEF SyncInv
<1>. QED BY <1>1, ConnectorInvariant, PTL

-----------------------------------------------------------------------------
(* Sequences of items                                                       *)

\* The head of a sequence, and the others.
LEMMA HeadTail ==
  ASSUME NEW S, NEW s \in Seq(S), s # <<>>
  PROVE  /\ Head(s) \in S /\ Tail(s) \in Seq(S) /\ ToSet(s) = {Head(s)} \cup ToSet(Tail(s))
<1>1. /\ Head(s) \in S /\ Tail(s) \in Seq(S) /\ Len(Tail(s)) = Len(s) - 1 /\ Head(s) = s[1]
      /\ \A k \in 1 .. Len(s) - 1 : Tail(s)[k] = s[k + 1]
      /\ Len(s) \in Nat \ {0}
  OBVIOUS
<1>. DEFINE t == Tail(s)
<1>t. \A y : y \in ToSet(t) <=> \E k \in 1 .. Len(s) - 1 : t[k] = y
  BY <1>1, Elements
<1>s. \A y : y \in ToSet(s) <=> \E k \in 1 .. Len(s) : s[k] = y
  BY Elements
<1>. HIDE DEF t
<1>u. \A k \in 1 .. Len(s) - 1 : t[k] = s[k + 1]
  BY <1>1 DEF t
<1>2. ASSUME NEW y, y \in ToSet(s) PROVE y \in {Head(s)} \cup ToSet(t)
  <2>1. PICK k \in 1 .. Len(s) : s[k] = y
    BY <1>2, Elements
  <2>2. k = 1 \/ (k - 1 \in 1 .. Len(s) - 1 /\ k = (k - 1) + 1)
    BY <1>1
  <2>. QED BY <1>1, <1>t, <1>u, <2>1, <2>2
<1>3. ASSUME NEW y, y \in {Head(s)} \cup ToSet(t) PROVE y \in ToSet(s)
  <2>1. 1 \in 1 .. Len(s) /\ \A k \in 1 .. Len(s) - 1 : k + 1 \in 1 .. Len(s)
    BY <1>1
  <2>2. y = s[1] \/ \E k \in 1 .. Len(s) - 1 : s[k + 1] = y
    BY <1>1, <1>3, <1>t, <1>u
  <2>. QED BY <1>s, <2>1, <2>2
<1>. QED BY <1>1, <1>2, <1>3 DEF t

\* What of a sequence is there.
LEMMA ThereItems ==
  ASSUME NEW items \in Seq(Items)
  PROVE  /\ There(items) \in Seq(Items)
         /\ ToSet(There(items)) = {i \in ToSet(items) : world[i].there}
<1>. DEFINE n == Len(items)
            Grown(f, k) == IF world[items[k]].there THEN Append(f, items[k]) ELSE f
            Is(f) == f = [k \in 0 .. n |->
                            IF k = 0 THEN <<>>
                            ELSE IF world[items[k]].there THEN Append(f[k - 1], items[k]) ELSE f[k - 1]]
            next == [k \in 1 .. n |-> [a \in Seq(Items) |-> Grown(a, k)]]
            f == CHOOSE g : Is(g)
<1>1. n \in Nat /\ \A k \in 1 .. n : items[k] \in Items
  OBVIOUS
<1>. HIDE DEF n
<1>2. next \in [1 .. n -> [Seq(Items) -> Seq(Items)]]
  BY <1>1
<1>3. PICK g \in [0 .. n -> Seq(Items)] : g[0] = <<>> /\ \A k \in 1 .. n : g[k] = Grown(g[k - 1], k)
  <2>1. PICK g \in [0 .. n -> Seq(Items)] :
          g[0] = <<>> /\ \A k \in 1 .. n : g[k] = next[k][g[k - 1]]
    <3>1. <<>> \in Seq(Items) /\ n \in Nat /\ next \in Steps(n, Seq(Items))
      BY <1>1, <1>2 DEF Steps
    <3>. HIDE DEF next
    <3>2. \E g : Follows(g, next, <<>>, n, Seq(Items))
      BY <3>1, StepByStep
    <3>. QED BY <3>2 DEF Follows
  <2>2. ASSUME NEW k \in 1 .. n PROVE g[k] = Grown(g[k - 1], k)
    <3>1. k - 1 \in 0 .. n /\ g[k - 1] \in Seq(Items)
      BY <1>1
    <3>2. g[k] = next[k][g[k - 1]] /\ next[k] = [a \in Seq(Items) |-> Grown(a, k)]
      BY <2>1
    <3>. QED BY <3>1, <3>2
  <2>. QED BY <2>1, <2>2
<1>4. Is(g)
  <2>1. ASSUME NEW k \in 0 .. n
        PROVE  g[k] = IF k = 0 THEN <<>>
                      ELSE IF world[items[k]].there THEN Append(g[k - 1], items[k]) ELSE g[k - 1]
    <3>1. k = 0 \/ k \in 1 .. n
      BY <1>1
    <3>. QED BY <1>3, <3>1
  <2>2. g = [k \in 0 .. n |-> g[k]]
    OBVIOUS
  <2>. QED BY <2>1, <2>2
<1>5. Is(f)
  <2>. HIDE DEF Is
  <2>. QED BY <1>4
<1>6. There(items) = f[n]
  BY Zenon DEF There, n
<1>7. f[0] = <<>> /\ \A k \in 1 .. n : f[k] = Grown(f[k - 1], k)
  <2>. HIDE DEF f
  <2>1. \A k \in 0 .. n :
          f[k] = IF k = 0 THEN <<>>
                 ELSE IF world[items[k]].there THEN Append(f[k - 1], items[k]) ELSE f[k - 1]
    BY <1>5
  <2>2. 0 \in 0 .. n /\ \A k \in 1 .. n : k \in 0 .. n /\ k # 0
    BY <1>1
  <2>. QED BY <2>1, <2>2
<1>. DEFINE T == {k \in 0 .. n :
                   /\ f[k] \in Seq(Items)
                   /\ \A i \in Items : i \in ToSet(f[k]) <=>
                                        (\E j \in 1 .. k : items[j] = i) /\ world[i].there}
<1>. HIDE DEF f
<1>8. 0 \in T
  <2>1. ToSet(f[0]) = {} /\ f[0] \in Seq(Items)
    BY <1>7 DEF ToSet
  <2>. QED BY <1>1, <2>1
<1>9. ASSUME NEW k \in 1 .. n, k - 1 \in T PROVE k \in T
  <2>1. f[k] = Grown(f[k - 1], k) /\ f[k - 1] \in Seq(Items) /\ items[k] \in Items
    BY <1>1, <1>7, <1>9
  <2>2. \A i \in Items : i \in ToSet(f[k - 1]) <=>
                         (\E j \in 1 .. k - 1 : items[j] = i) /\ world[i].there
    BY <1>9
  <2>3. 1 .. k = 1 .. (k - 1) \cup {k} /\ k \in 0 .. n
    OBVIOUS
  <2>4. CASE world[items[k]].there
    <3>1. f[k] = Append(f[k - 1], items[k])
      BY <2>1, <2>4
    <3>2. f[k] \in Seq(Items) /\ ToSet(f[k]) = ToSet(f[k - 1]) \cup {items[k]}
      BY <2>1, <3>1, AppendElements
    <3>. QED BY <2>2, <2>3, <2>4, <3>2
  <2>5. CASE ~world[items[k]].there
    <3>1. f[k] = f[k - 1]
      BY <2>1, <2>5
    <3>. QED BY <2>1, <2>2, <2>3, <2>5, <3>1
  <2>. QED BY <2>4, <2>5
<1>10. n \in T
  <2>1. \A k \in 1 .. n : k - 1 \in T => k \in T
    BY <1>9
  <2>. HIDE DEF T
  <2>. QED BY <1>1, <1>8, <2>1, UpTo, Zenon
<1>11. /\ f[n] \in Seq(Items)
       /\ \A i \in Items : i \in ToSet(f[n]) <=> i \in ToSet(items) /\ world[i].there
  BY <1>1, <1>10, Elements DEF n
<1>. QED BY <1>6, <1>11, Elements

-----------------------------------------------------------------------------
(* The pages over a page                                                    *)

\* What is over a page is the smallest set that has with a page the one it is on.
LEMMA Upward ==
  ASSUME NEW i \in Items
  PROVE  /\ Upwards[i] \in SUBSET Items /\ i \in Upwards[i] /\ WithParents(Upwards[i])
         /\ \A S \in SUBSET Items : i \in S /\ WithParents(S) => Upwards[i] \subseteq S
<1>1. Upwards[i] = {p \in Items : \A S \in SUBSET Items : i \in S /\ WithParents(S) => p \in S}
  BY DEF Upwards
<1>2. ASSUME NEW S \in SUBSET Items, i \in S, WithParents(S) PROVE Upwards[i] \subseteq S
  BY <1>1, <1>2
<1>3. ASSUME NEW c \in Upwards[i], NEW p \in Items, c \in ToSet(Children[p]) PROVE p \in Upwards[i]
  BY <1>1, <1>3 DEF WithParents
<1>. QED BY <1>1, <1>2, <1>3 DEF WithParents

\* A page is on one page only.
LEMMA UpwardOfChild ==
  ASSUME NEW p \in Items, NEW i \in Items, i \in ToSet(Children[p])
  PROVE  Upwards[i] = Upwards[p] \cup {i}
<1>1. ASSUME NEW q \in Items, i \in ToSet(Children[q]) PROVE q = p
  BY <1>1, SyncAssumption
<1>2. WithParents(Upwards[p] \cup {i})
  BY <1>1, Upward DEF WithParents
<1>3. Upwards[i] \subseteq Upwards[p] \cup {i}
  BY <1>2, Upward
<1>4. p \in Upwards[i] /\ i \in Upwards[i]
  BY Upward DEF WithParents
<1>5. Upwards[p] \subseteq Upwards[i]
  BY <1>4, Upward
<1>. QED BY <1>3, <1>4, <1>5

LEMMA UpwardOfRoot == Upwards[Root] = {Root}
<1>1. {Root} \in SUBSET Items /\ WithParents({Root}) /\ Root \in Items
  BY SyncAssumption DEF WithParents
<1>. QED BY <1>1, Upward

\* From a page over another one goes down to it by a child.
LEMMA NextDown ==
  ASSUME NEW i \in Items, NEW h \in Upwards[i], h # i
  PROVE  \E c \in Upwards[i] : c \in ToSet(Children[h])
<1>. SUFFICES ASSUME \A c \in Upwards[i] : c \notin ToSet(Children[h]) PROVE FALSE
  OBVIOUS
<1>. DEFINE S == Upwards[i] \ {h}
<1>1. S \in SUBSET Items /\ i \in S /\ WithParents(S)
  BY Upward DEF WithParents
<1>. QED BY <1>1, Upward

\* A set of repositories is walked in some order.
LEMMA Walked ==
  ASSUME NEW S, IsFiniteSet(S)
  PROVE  SetToSeq(S) \in Seq(S) /\ ToSet(SetToSeq(S)) = S
<1>. DEFINE n == Cardinality(S)
            f == CHOOSE f \in [1 .. n -> S] : IsInjective(f)
<1>1. n \in Nat /\ IsFiniteSet(1 .. n) /\ Cardinality(1 .. n) = n
  BY FS_CardinalityType, FS_Interval
<1>2. \E g \in [1 .. n -> S] : IsInjective(g)
  BY FS_CardinalityType DEF ExistsBijection, Bijection, Injection
<1>3. f \in [1 .. n -> S] /\ IsInjective(f)
  BY <1>2
<1>. HIDE DEF f
<1>4. f \in Injection(1 .. n, S)
  BY <1>3 DEF Injection
<1>5. f \in Surjection(1 .. n, S)
  BY <1>1, <1>4, FS_Injection
<1>6. f \in Seq(S) /\ ToSet(f) = S
  BY <1>1, <1>3, <1>5 DEF Surjection, ToSet
<1>. QED BY <1>6 DEF SetToSeq, f

-----------------------------------------------------------------------------
(* What people change, and what is typed of the source                      *)

\* What is typed of the source.
SourceTyped ==
  /\ kind \in {"notion", "repo"} /\ clock \in Nat
  /\ "texts" \in DOMAIN left /\ left["texts"] \in DOMAIN Texts
  /\ world \in [Items -> [there : BOOLEAN, stamp : Nat, text : Said, status : Statuses]]
  /\ \A i \in Items : world[i].stamp <= clock /\ (kind = "repo" => world[i].status = PathStatus[i])

\* An allowance is spent one at a time.
LEMMA LeftStep ==
  ASSUME [Next]_vars
  PROVE  \/ UNCHANGED left
         \/ \E e \in Events \cup {"ask", "draft"} : left' = [left EXCEPT ![e] = @ - 1]
<1>. USE DEF Spend, Events
<1>1. ASSUME NEW q \in Requests, RequestStep(q)
      PROVE  UNCHANGED left \/ Spend("ask") \/ Spend("fault")
  BY <1>1, Zenon DEF RequestStep, Ask, Search, Fetch, StoreQuestion, Trace, StoreGap, Fail
<1>2. ASSUME NEW d \in Drafters, DraftStep(d) PROVE UNCHANGED left \/ Spend("draft")
  BY <1>2, Zenon DEF DraftStep, ReadGap, PersistDraft
<1>3. ASSUME SourceStep PROVE Spend("edit") \/ Spend("remove")
  BY <1>3, Zenon DEF SourceStep, Edit, Delete
<1>4. ASSUME NEW s \in Syncs, SyncStep(s) \/ Upsert(s)
      PROVE  UNCHANGED left \/ Spend("start") \/ Spend("fault") \/ Spend("stop")
  BY <1>4, Zenon DEF SyncStep, Begin, ListFiles, ReadStamp, ReadText, Vanished, Find, Upsert, Embed, Persist,
     SetStatus, Fault, ArchiveMissing, Finish, Stop
<1>. QED BY <1>1, <1>2, <1>3, <1>4 DEF Next, Replace

\* Only people change the source, only processes what is stored and where they are.
LEMMA StepCases ==
  ASSUME [Next]_vars
  PROVE  \/ UNCHANGED <<kind, clock, world, docs, run, sole, touched>>
         \/ SourceStep /\ UNCHANGED <<docs, run, sole>>
         \/ /\ \E s \in Syncs : SyncStep(s) \/ Upsert(s)
            /\ UNCHANGED <<kind, clock, world>>
<1>. DEFINE Same == UNCHANGED <<kind, clock, world, docs, run, sole, touched>>
<1>1. ASSUME NEW q \in Requests, RequestStep(q) PROVE Same
  BY <1>1 DEF RequestStep, Ask, Search, Fetch, StoreQuestion, Trace, StoreGap, Fail
<1>2. ASSUME NEW d \in Drafters, DraftStep(d) PROVE Same
  BY <1>2 DEF DraftStep, ReadGap, PersistDraft
<1>3. ASSUME SourceStep PROVE UNCHANGED <<docs, run, sole>>
  BY <1>3 DEF SourceStep, Edit, Delete
<1>4. ASSUME NEW s \in Syncs, SyncStep(s) \/ Upsert(s) PROVE UNCHANGED <<kind, clock, world>>
  <2>1. CASE Begin(s) \/ ListFiles(s) \/ ReadStamp(s) \/ ReadText(s) \/ Vanished(s) \/ Find(s)
    BY <2>1 DEF Begin, ListFiles, ReadStamp, ReadText, Vanished, Find
  <2>2. CASE Upsert(s) \/ Embed(s) \/ Persist(s) \/ SetStatus(s)
    BY <2>2 DEF Upsert, Embed, Persist, SetStatus
  <2>3. CASE Fault(s) \/ ArchiveMissing(s) \/ Finish(s) \/ Stop(s)
    BY <2>3 DEF Fault, ArchiveMissing, Finish, Stop
  <2>. QED BY <1>4, <2>1, <2>2, <2>3 DEF SyncStep
<1>5. CASE UNCHANGED vars
  BY <1>5
<1>. QED BY <1>1, <1>2, <1>3, <1>4, <1>5 DEF Next, Replace

\* What an edit, or a removal, makes of an item.
LEMMA SourceItem ==
  ASSUME SourceTyped, SourceStep
  PROVE  /\ kind' = kind /\ clock' \in Nat /\ clock' >= clock
         /\ world' \in [Items -> [there : BOOLEAN, stamp : Nat, text : Said, status : Statuses]]
         /\ \E i \in Items :
              /\ touched' = touched \cup {i}
              /\ \A j \in Items \ {i} : world'[j] = world[j]
              /\ world'[i].stamp <= clock'
              /\ kind = "notion" => \/ world'[i].stamp > clock
                                    \/ world'[i].stamp = world[i].stamp /\ world'[i].text = world[i].text
              /\ kind = "repo" => world'[i].status = PathStatus[i]
<1>. DEFINE Item == [there : BOOLEAN, stamp : Nat, text : Said, status : Statuses]
<1>1. ASSUME NEW i \in Items, Edit(i)
      PROVE  /\ kind' = kind /\ clock' = clock + 1 /\ touched' = touched \cup {i}
             /\ \E v \in Item :
                  /\ world' = [world EXCEPT ![i] = v] /\ v.stamp <= clock + 1
                  /\ kind = "notion" => v.stamp = clock + 1
                  /\ kind = "repo" => v.status = PathStatus[i]
  <2>1. PICK text \in Texts[left["texts"]], stamp \in 1 .. clock + 1, status \in {"active", "archived"} :
          /\ kind = "notion" => stamp = clock + 1
          /\ world' = [world EXCEPT ![i] = [there |-> TRUE, stamp |-> stamp, text |-> text,
                         status |-> IF kind = "repo" THEN PathStatus[i] ELSE status]]
    BY <1>1 DEF Edit
  <2>. DEFINE v == [there |-> TRUE, stamp |-> stamp, text |-> text,
                    status |-> IF kind = "repo" THEN PathStatus[i] ELSE status]
  <2>2. text \in Said
    BY DEF SourceTyped, Said
  <2>3. stamp \in Nat /\ PathStatus[i] \in Statuses /\ status \in Statuses
    BY SyncAssumption DEF Statuses, SourceTyped
  <2>4. v \in Item /\ v.stamp = stamp /\ (kind = "repo" => v.status = PathStatus[i])
    BY <2>2, <2>3
  <2>5. kind' = kind /\ clock' = clock + 1 /\ touched' = touched \cup {i}
    BY <1>1 DEF Edit
  <2>6. world' = [world EXCEPT ![i] = v] /\ (kind = "notion" => stamp = clock + 1)
    BY <2>1
  <2>7. stamp <= clock + 1
    BY DEF SourceTyped
  <2>. HIDE DEF v, Item
  <2>. QED BY <2>4, <2>5, <2>6, <2>7
<1>2. ASSUME NEW i \in Items, Delete(i)
      PROVE  /\ kind' = kind /\ clock' = clock /\ touched' = touched \cup {i}
             /\ \E v \in Item :
                  /\ world' = [world EXCEPT ![i] = v] /\ v.stamp = world[i].stamp
                  /\ v.text = world[i].text /\ v.status = world[i].status
  <2>. DEFINE v == [world[i] EXCEPT !.there = FALSE]
  <2>1. world[i] \in Item
    BY DEF SourceTyped
  <2>2. v \in Item /\ v.stamp = world[i].stamp /\ v.text = world[i].text /\ v.status = world[i].status
    BY <2>1
  <2>3. world' = [world EXCEPT ![i] = v]
    BY <1>2 DEF Delete, SourceTyped
  <2>. HIDE DEF v
  <2>. QED BY <1>2, <2>2, <2>3 DEF Delete
<1>. HIDE DEF Item
<1>3. world \in [Items -> Item] /\ clock \in Nat
  BY DEF SourceTyped, Item
<1>4. ASSUME NEW i \in Items, NEW v \in Item, world' = [world EXCEPT ![i] = v]
      PROVE  world' \in [Items -> Item] /\ world'[i] = v /\ \A j \in Items \ {i} : world'[j] = world[j]
  BY <1>3, <1>4
<1>5. PICK i \in Items : Edit(i) \/ Delete(i)
  BY DEF SourceStep
<1>6. CASE Edit(i)
  <2>1. PICK v \in Item : /\ world' = [world EXCEPT ![i] = v] /\ v.stamp <= clock + 1
                          /\ kind = "notion" => v.stamp = clock + 1
                          /\ kind = "repo" => v.status = PathStatus[i]
    BY <1>1, <1>6
  <2>2. kind' = kind /\ clock' = clock + 1 /\ touched' = touched \cup {i}
    BY <1>1, <1>6
  <2>3. /\ world' \in [Items -> Item] /\ world'[i] = v /\ \A j \in Items \ {i} : world'[j] = world[j]
    BY <1>3, <2>1
  <2>4. clock' \in Nat /\ clock' >= clock /\ world'[i].stamp <= clock'
    BY <1>3, <2>1, <2>2, <2>3
  <2>5. kind = "notion" => world'[i].stamp > clock
    BY <1>3, <2>1, <2>3
  <2>. QED BY <2>1, <2>2, <2>3, <2>4, <2>5 DEF Item
<1>7. CASE Delete(i)
  <2>1. PICK v \in Item : /\ world' = [world EXCEPT ![i] = v] /\ v.stamp = world[i].stamp
                          /\ v.text = world[i].text /\ v.status = world[i].status
    BY <1>2, <1>7
  <2>2. kind' = kind /\ clock' = clock /\ touched' = touched \cup {i}
    BY <1>2, <1>7
  <2>3. world[i].stamp <= clock /\ (kind = "repo" => world[i].status = PathStatus[i])
    BY DEF SourceTyped
  <2>. QED BY <1>3, <1>4, <2>1, <2>2, <2>3 DEF Item
<1>. QED BY <1>5, <1>6, <1>7

-----------------------------------------------------------------------------
(* Where the steps of a process leave it                                    *)

StoringAt == {"find", "upsert", "embed", "persist", "status"}

Retains(q, r) ==
  IsRun(q) /\ q.todo = r.todo /\ q.walk = r.walk /\ q.scope = r.scope /\ q.seen = r.seen
\* Still at the same document, or done with it.
Stays(q, r) == Retains(q, r) /\ q.snaps = r.snaps /\ q.failed = r.failed
Passed(q, r) ==
  /\ Retains(q, r) /\ q.snaps = Tail(r.snaps) /\ q.failed \in {r.failed, TRUE}
  /\ q.at = IF Tail(r.snaps) = <<>> THEN Stored ELSE "find"

\* Where a process goes on reading.
Placed(q) ==
  /\ q.todo # <<>> => q.at = "item"
  /\ q.todo = <<>> /\ q.walk # <<>> => q.at = "list"
  /\ q.todo = <<>> /\ q.walk = <<>> => q.at = IF q.snaps = <<>> THEN Stored ELSE "find"

\* Each of these holds of the fields of a run after a step, whatever they held.
LEMMA ReadingFields ==
  ASSUME NEW r, IsRun(r)
  PROVE  LET q == Reading(r)
         IN /\ IsRun(q) /\ q.todo = r.todo /\ q.walk = r.walk /\ q.scope = r.scope /\ q.seen = r.seen
            /\ q.snaps = r.snaps /\ q.failed = r.failed /\ Placed(q)
<1>. DEFINE at == CASE r.todo # <<>> -> "item"
                    [] r.todo = <<>> /\ r.walk # <<>> -> "list"
                    [] r.todo = <<>> /\ r.walk = <<>> -> IF r.snaps = <<>> THEN Stored ELSE "find"
            q == [r EXCEPT !.at = at]
<1>1. Reading(r) = q
  <2>1. CASE r.todo # <<>>
    BY <2>1, Zenon DEF Reading
  <2>2. CASE r.todo = <<>> /\ r.walk # <<>>
    BY <2>2, Zenon DEF Reading
  <2>3. CASE r.todo = <<>> /\ r.walk = <<>>
    BY <2>3, Zenon DEF Reading
  <2>. QED BY <2>1, <2>2, <2>3
<1>2. /\ r.todo # <<>> => at = "item"
      /\ r.todo = <<>> /\ r.walk # <<>> => at = "list"
      /\ r.todo = <<>> /\ r.walk = <<>> => at = IF r.snaps = <<>> THEN Stored ELSE "find"
  OBVIOUS
<1>. HIDE DEF at
<1>3. /\ IsRun(q) /\ q.todo = r.todo /\ q.walk = r.walk /\ q.scope = r.scope /\ q.seen = r.seen
      /\ q.snaps = r.snaps /\ q.failed = r.failed /\ q.at = at
  BY DEF IsRun
<1>. HIDE DEF q
<1>. QED BY <1>1, <1>2, <1>3 DEF Placed

LEMMA PassedFields ==
  ASSUME NEW r, IsRun(r)
  PROVE  /\ Passed(AfterItem(r), r) /\ AfterItem(r).failed = r.failed
         /\ Passed(Failing(r), r) /\ Failing(r).failed = TRUE
<1>. DEFINE at == IF Tail(r.snaps) = <<>> THEN Stored ELSE "find"
            rest == Tail(r.snaps)
            q == [r EXCEPT !.snaps = rest, !.vectors = {}, !.outcome = None, !.at = at]
            f == [q EXCEPT !.failed = TRUE]
<1>1. AfterItem(r) = q /\ Failing(r) = f
  BY DEF AfterItem, Failing
<1>2. at = IF rest = <<>> THEN Stored ELSE "find"
  OBVIOUS
<1>. HIDE DEF at, rest
<1>3. Retains(q, r) /\ q.snaps = rest /\ q.at = at /\ q.failed = r.failed
  BY DEF IsRun, Retains
<1>4. Retains(f, r) /\ f.snaps = rest /\ f.at = at /\ f.failed = TRUE
  BY DEF IsRun, Retains
<1>. HIDE DEF q, f
<1>. QED BY <1>1, <1>2, <1>3, <1>4 DEF Passed, rest

\* The steps that store: of the document whose turn it is, and of what is missing.
Found(s) ==
  /\ run[s].at = "find" /\ UNCHANGED docs
  /\ \/ Skipped(docs[Snap(s).item], Snap(s)) /\ Passed(run'[s], run[s])
     \/ Stays(run'[s], run[s]) /\ run'[s].at = "upsert"
Upserted(s) ==
  /\ run[s].at = "upsert" /\ docs' = [docs EXCEPT ![Snap(s).item] = DocumentRow(Snap(s))]
  /\ Passed(run'[s], run[s]) \/ (Stays(run'[s], run[s]) /\ run'[s].at = "embed")
Indexing(s) ==
  /\ run[s].at \in {"embed", "persist", "status"} /\ UNCHANGED docs
  /\ Stays(run'[s], run[s]) /\ run'[s].at \in {"persist", "status"}
  /\ run'[s].at = "status" => run'[s].outcome \in {"indexed", "failed"}
Indexed(s) ==
  /\ run[s].at = "status" /\ docs' = [docs EXCEPT ![Snap(s).item].index = run[s].outcome]
  /\ Passed(run'[s], run[s])
Failed(s) ==
  /\ run[s].at \in {"upsert", "embed", "persist", "status"} /\ UNCHANGED docs
  /\ Passed(run'[s], run[s]) /\ run'[s].failed = TRUE
Archived(s) ==
  /\ ArchiveMissing(s) /\ run[s].at = "archive"
  /\ Stays(run'[s], run[s]) /\ run'[s].at = "mark"

\* A step that stores is one of these.
LEMMA StoreMoves ==
  ASSUME RunsSound, NEW s \in Syncs,
         Find(s) \/ Upsert(s) \/ Embed(s) \/ Persist(s) \/ SetStatus(s) \/ Fault(s) \/ ArchiveMissing(s)
  PROVE  Found(s) \/ Upserted(s) \/ Indexing(s) \/ Indexed(s) \/ Failed(s) \/ Archived(s)
<1>0. IsRun(run[s]) /\ s \in DOMAIN run
  BY DEF RunsSound, RunSound
<1>1. ASSUME Find(s) PROVE Found(s)
  <2>1. \/ Skipped(docs[Snap(s).item], Snap(s)) /\ run'[s] = AfterItem(run[s])
        \/ run'[s] = [run[s] EXCEPT !.at = "upsert"]
    BY <1>0, <1>1 DEF Find, Put
  <2>2. ASSUME run'[s] = [run[s] EXCEPT !.at = "upsert"]
        PROVE  Stays(run'[s], run[s]) /\ run'[s].at = "upsert"
    BY <1>0, <2>2 DEF IsRun, Stays, Retains
  <2>. QED BY <1>0, <1>1, <2>1, <2>2, PassedFields DEF Find, Found
<1>2. ASSUME Upsert(s) PROVE Upserted(s)
  <2>1. run'[s] = AfterItem(run[s]) \/ run'[s] = [run[s] EXCEPT !.at = "embed"]
    BY <1>0, <1>2 DEF Upsert, Put
  <2>2. ASSUME run'[s] = [run[s] EXCEPT !.at = "embed"]
        PROVE  Stays(run'[s], run[s]) /\ run'[s].at = "embed"
    BY <1>0, <2>2 DEF IsRun, Stays, Retains
  <2>3. run[s].at = "upsert" /\ docs' = [docs EXCEPT ![Snap(s).item] = DocumentRow(Snap(s))]
    BY <1>2 DEF Upsert
  <2>. QED BY <1>0, <2>1, <2>2, <2>3, PassedFields DEF Upserted
<1>3. ASSUME Embed(s) PROVE Indexing(s)
  <2>1. \/ run'[s] = [run[s] EXCEPT !.at = "status", !.outcome = "indexed"]
        \/ \E vectors : run'[s] = [run[s] EXCEPT !.at = "persist", !.vectors = vectors]
    BY <1>0, <1>3 DEF Embed, Put
  <2>2. ASSUME run'[s] = [run[s] EXCEPT !.at = "status", !.outcome = "indexed"]
        PROVE  Stays(run'[s], run[s]) /\ run'[s].at = "status" /\ run'[s].outcome = "indexed"
    BY <1>0, <2>2 DEF IsRun, Stays, Retains
  <2>3. ASSUME NEW vectors, run'[s] = [run[s] EXCEPT !.at = "persist", !.vectors = vectors]
        PROVE  Stays(run'[s], run[s]) /\ run'[s].at = "persist"
    BY <1>0, <2>3 DEF IsRun, Stays, Retains
  <2>. QED BY <1>3, <2>1, <2>2, <2>3 DEF Embed, Indexing
<1>4. ASSUME Persist(s) PROVE Indexing(s)
  <2>1. PICK outcome \in {"indexed", "failed"} :
          run'[s] = [run[s] EXCEPT !.at = "status", !.vectors = {}, !.outcome = outcome]
    BY <1>0, <1>4, PersistCases DEF Persisted, NotPersisted
  <2>2. Stays(run'[s], run[s]) /\ run'[s].at = "status" /\ run'[s].outcome = outcome
    BY <1>0, <2>1 DEF IsRun, Stays, Retains
  <2>. QED BY <1>4, <2>1, <2>2 DEF Persist, Indexing
<1>5. ASSUME SetStatus(s) PROVE Indexed(s)
  <2>1. run'[s] = AfterItem(run[s]) \/ run'[s] = Failing(run[s])
    BY <1>0, <1>5 DEF SetStatus, Put
  <2>. QED BY <1>0, <1>5, <2>1, PassedFields DEF SetStatus, Indexed
<1>6. ASSUME Fault(s) PROVE Failed(s) \/ Indexing(s)
  <2>1. \/ run'[s] = Failing(run[s])
        \/ /\ run[s].at # "upsert"
           /\ run'[s] = [run[s] EXCEPT !.at = "status", !.vectors = {}, !.outcome = "failed"]
    BY <1>0, <1>6 DEF Fault, Put
  <2>2. ASSUME run'[s] = [run[s] EXCEPT !.at = "status", !.vectors = {}, !.outcome = "failed"]
        PROVE  Stays(run'[s], run[s]) /\ run'[s].at = "status" /\ run'[s].outcome = "failed"
    BY <1>0, <2>2 DEF IsRun, Stays, Retains
  <2>3. run[s].at \in {"upsert", "embed", "persist", "status"} /\ UNCHANGED docs
    BY <1>6 DEF Fault
  <2>. QED BY <1>0, <2>1, <2>2, <2>3, PassedFields DEF Failed, Indexing
<1>7. ASSUME ArchiveMissing(s) PROVE Archived(s)
  <2>1. run[s].at = "archive" /\ run'[s] = [run[s] EXCEPT !.at = "mark"]
    BY <1>0, <1>7 DEF ArchiveMissing, Put
  <2>2. Stays(run'[s], run[s]) /\ run'[s].at = "mark"
    BY <1>0, <2>1 DEF IsRun, Stays, Retains
  <2>. QED BY <1>7, <2>1, <2>2 DEF Archived
<1>. QED BY <1>1, <1>2, <1>3, <1>4, <1>5, <1>6, <1>7

\* What is still to be read after an item.
ToRead(r, i) == (IF kind = "repo" THEN <<>> ELSE There(Children[i])) \o Tail(r.todo)
Gained(q, r, p) ==
  /\ IsRun(q) /\ q.walk = r.walk /\ q.scope = r.scope /\ q.failed = r.failed /\ Placed(q)
  /\ q.snaps = Append(r.snaps, p) /\ q.seen = r.seen \cup {p.item} /\ q.todo = ToRead(r, p.item)

LEMMA TakenFields == ASSUME NEW r, IsRun(r), NEW p PROVE Gained(Taken(r, p), r, p)
<1>. DEFINE snaps == Append(r.snaps, p)
            seen == r.seen \cup {p.item}
            todo == (IF kind = "repo" THEN <<>> ELSE There(Children[p.item])) \o Tail(r.todo)
            m == [r EXCEPT !.snaps = snaps, !.seen = seen, !.reading = None, !.todo = todo]
<1>1. Taken(r, p) = Reading(m)
  BY DEF Taken
<1>t. todo = ToRead(r, p.item)
  BY DEF ToRead
<1>. HIDE DEF snaps, seen, todo
<1>2. /\ IsRun(m) /\ m.walk = r.walk /\ m.scope = r.scope /\ m.failed = r.failed
      /\ m.snaps = snaps /\ m.seen = seen /\ m.todo = todo
  BY DEF IsRun
<1>. HIDE DEF m
<1>. QED BY <1>1, <1>2, <1>t, ReadingFields DEF snaps, seen, Gained

LEMMA ListMove ==
  ASSUME RunsSound, NEW s \in Syncs, ListFiles(s)
  PROVE  LET r == run[s]
             q == run'[s]
         IN /\ r.at = "list" /\ IsRun(q) /\ q.scope = r.scope /\ q.seen = r.seen /\ q.snaps = r.snaps
            /\ q.failed = r.failed /\ Placed(q) /\ q.walk = Tail(r.walk)
            /\ q.todo = There(Children[Head(r.walk)])
<1>0. IsRun(run[s]) /\ s \in DOMAIN run
  BY DEF RunsSound, RunSound
<1>. DEFINE walk == Tail(run[s].walk)
            todo == There(Children[Head(run[s].walk)])
            m == [run[s] EXCEPT !.walk = walk, !.todo = todo]
<1>1. run[s].at = "list" /\ run'[s] = Reading(m)
  BY <1>0 DEF ListFiles, Put
<1>. HIDE DEF walk, todo
<1>2. /\ IsRun(m) /\ m.walk = walk /\ m.todo = todo /\ m.scope = run[s].scope /\ m.seen = run[s].seen
      /\ m.snaps = run[s].snaps /\ m.failed = run[s].failed
  BY <1>0 DEF IsRun
<1>. HIDE DEF m
<1>. QED BY <1>1, <1>2, ReadingFields DEF walk, todo

\* A snapshot, and one of which a part is still to be read.
Snapshot == [item : Items, stamp : Nat, status : Statuses, text : Said]
Partial == [item : Items, stamp : Nat, status : Statuses \cup {None}, text : Said]

ReadingAt == {"list", "item", "stamp", "text"}

\* What a run holds where it stands.
RunTyped(r) ==
  /\ r.todo \in Seq(Items) /\ r.walk \in Seq(Repos) /\ r.snaps \in Seq(Snapshot)
  /\ r.scope \subseteq Repos /\ r.failed \in BOOLEAN
  /\ r.at \in {"idle", "archive", "mark"} \cup ReadingAt \cup StoringAt
  /\ r.at = "list" => r.todo = <<>> /\ r.walk # <<>>
  /\ r.at \in {"item", "stamp", "text"} => r.todo # <<>>
  /\ r.at \in {"stamp", "text"} => r.reading \in Partial /\ r.reading.item = Head(r.todo)
  /\ r.at = "stamp" => r.reading.status \in Statuses
  /\ r.at \in {"text", "archive"} => kind = "repo"
  /\ r.at \in StoringAt => r.snaps # <<>>
  /\ r.at \in {"archive", "mark"} => r.snaps = <<>>
  /\ r.at = "status" => r.outcome \in {"indexed", "failed"}
  /\ r.at \in {"embed", "persist", "status"} => docs[Head(r.snaps).item] # None

SyncTyped ==
  /\ SourceTyped /\ docs \in [Items -> Document \cup {None}]
  /\ \A s \in Syncs : RunTyped(run[s])

\* The steps that begin, that read, and that end.
Begun(s) ==
  LET q == run'[s]
  IN /\ run[s].at = "idle" /\ UNCHANGED docs
     /\ q.scope \subseteq Repos /\ q.snaps = <<>> /\ q.seen = {} /\ q.failed = FALSE
     /\ kind = "repo" => q.at = "list" /\ q.scope # {} /\ q.walk = SetToSeq(q.scope) /\ q.todo = <<>>
     /\ kind = "notion" => q.at = "item" /\ q.walk = <<>> /\ q.todo = <<Root>>
     /\ sole' = (IF \A t \in Syncs \ {s} : run[t].at = "idle" THEN s ELSE None) /\ touched' = {}
Listed(s) ==
  LET r == run[s]
      q == run'[s]
  IN /\ r.at = "list" /\ q.scope = r.scope /\ q.seen = r.seen /\ q.snaps = r.snaps
     /\ q.failed = r.failed /\ Placed(q) /\ q.walk = Tail(r.walk)
     /\ q.todo = There(Children[Head(r.walk)])
Half(s, p) ==
  /\ run[s].at = "item" /\ Stays(run'[s], run[s])
  /\ run'[s].reading = p /\ p.item = Head(run[s].todo) /\ p \in Partial
Took(s, p) == p.item = Head(run[s].todo) /\ p \in Snapshot /\ Gained(run'[s], run[s], p)
Stamped(s, p) ==
  LET i == p.item
  IN /\ world[i].there /\ p.stamp = world[i].stamp /\ p.status = StatusRead(run[s], i)
     /\ \/ Half(s, p) /\ run'[s].at = "stamp" /\ p.status \in Statuses
        \/ Took(s, p) /\ run[s].at = "text" /\ p.text = run[s].reading.text
Copied(s, p) ==
  LET i == p.item
  IN /\ world[i].there /\ p.text = world[i].text
     /\ \/ Half(s, p) /\ run'[s].at = "text" /\ kind = "repo"
        \/ /\ Took(s, p) /\ run[s].at = "stamp"
           /\ p.stamp = run[s].reading.stamp /\ p.status = run[s].reading.status
Ended(s) == run'[s] = Idle /\ UNCHANGED <<docs, sole, touched>>

\* What a process begins with.
LEMMA BeginMove ==
  ASSUME RunsSound, SourceTyped, NEW s \in Syncs, Begin(s)
  PROVE  Begun(s)
<1>1. PICK model \in Models \cup {None}, scope \in Scopes :
        run'[s] = [Idle EXCEPT !.at = IF kind = "repo" THEN "list" ELSE "item",
                     !.model = model, !.scope = scope, !.walk = SetToSeq(scope),
                     !.todo = IF kind = "repo" THEN <<>> ELSE <<Root>>]
  BY Putting, Zenon DEF Begin, Put
<1>. DEFINE walk == SetToSeq(scope)
<1>2. kind = "notion" => walk = <<>> /\ scope = {}
  <2>1. kind = "notion" => scope = {}
    BY DEF Scopes
  <2>2. SetToSeq({}) = <<>>
    <3>1. SetToSeq({}) \in Seq({}) /\ ToSet(SetToSeq({})) = {}
      BY Walked, FS_EmptySet
    <3>. QED BY <3>1, Elements
  <2>. QED BY <2>1, <2>2
<1>3. kind = "repo" => scope # {} /\ scope \subseteq Repos
  BY DEF Scopes
<1>. DEFINE q == run'[s]
<1>4. walk = SetToSeq(scope)
  OBVIOUS
<1>. HIDE DEF walk
<1>5. /\ q.at = (IF kind = "repo" THEN "list" ELSE "item") /\ q.scope = scope /\ q.walk = walk
      /\ q.todo = (IF kind = "repo" THEN <<>> ELSE <<Root>>)
      /\ q.snaps = <<>> /\ q.seen = {} /\ q.failed = FALSE
  BY <1>1, <1>4 DEF Idle
<1>6. /\ run[s].at = "idle" /\ UNCHANGED docs /\ touched' = {}
      /\ sole' = IF \A t \in Syncs \ {s} : run[t].at = "idle" THEN s ELSE None
  BY DEF Begin
<1>. HIDE DEF q
<1>. QED BY <1>2, <1>3, <1>4, <1>5, <1>6 DEF q, Begun, SourceTyped

LEMMA PartMove ==
  ASSUME RunsSound, NEW s \in Syncs, RunTyped(run[s]), NEW part, NEW p, ReadPart(s, part, p)
  PROVE  /\ run[s].at = "item" => Stays(run'[s], run[s]) /\ run'[s].at = part /\ run'[s].reading = p
         /\ run[s].at # "item" /\ p.item = Head(run[s].todo) /\ p \in Snapshot => Took(s, p)
<1>0. IsRun(run[s]) /\ s \in DOMAIN run
  BY DEF RunsSound, RunSound
<1>1. CASE run[s].at = "item"
  <2>1. run'[s] = [run[s] EXCEPT !.at = part, !.reading = p]
    BY <1>0, <1>1 DEF ReadPart, Put
  <2>. QED BY <1>0, <1>1, <2>1 DEF IsRun, Stays, Retains
<1>2. CASE run[s].at # "item"
  <2>1. run'[s] = Taken(run[s], p)
    BY <1>0, <1>2 DEF ReadPart, Put
  <2>. QED BY <1>0, <1>2, <2>1, TakenFields DEF Took
<1>. QED BY <1>1, <1>2

\* What is read of an item is what it is, and no item is read that is gone.
LEMMA StampMove ==
  ASSUME RunsSound, SourceTyped, NEW s \in Syncs, RunTyped(run[s]), ReadStamp(s)
  PROVE  \E p : Stamped(s, p)
<1>. DEFINE r == run[s]
            i == Held(s).item
            st == world[i].stamp
            tus == StatusRead(r, i)
            p == [Held(s) EXCEPT !.stamp = st, !.status = tus]
<1>1. /\ r.at \in ReadAt("stamp") /\ world[i].there /\ ReadPart(s, "stamp", p)
  BY DEF ReadStamp
<1>2. /\ Held(s) \in Partial /\ i = Head(r.todo) /\ i \in Items
      /\ r.at # "item" => Held(s).text = r.reading.text /\ r.at = "text"
  <2>1. r.at = "item" \/ r.at = "text"
    BY <1>1 DEF ReadAt
  <2>2. r.todo # <<>> /\ r.todo \in Seq(Items) /\ Head(r.todo) \in Items
    BY <2>1, HeadTail DEF RunTyped
  <2>3. CASE r.at = "item"
    <3>1. Held(s) = [Unread EXCEPT !.item = Head(r.todo)]
      BY <2>3 DEF Held
    <3>2. Held(s) = [item |-> Head(r.todo), stamp |-> 0, status |-> None, text |-> <<>>]
      BY <3>1 DEF Unread
    <3>. QED BY <2>2, <2>3, <3>2 DEF Partial, Said
  <2>4. CASE r.at = "text"
    BY <2>2, <2>4 DEF Held, RunTyped, Partial
  <2>. QED BY <2>1, <2>3, <2>4
<1>3. st \in Nat /\ tus \in Statuses
  <2>1. world[i].stamp \in Nat /\ world[i].status \in Statuses
    BY <1>2 DEF SourceTyped
  <2>. QED BY <2>1 DEF StatusRead, Statuses
<1>4. /\ p \in Snapshot /\ p \in Partial /\ p.item = i /\ p.stamp = st /\ p.status = tus
      /\ p.text = Held(s).text
  <2>. HIDE DEF st, tus
  <2>. QED BY <1>2, <1>3 DEF Snapshot, Partial
<1>5. i = p.item /\ st = world[i].stamp /\ tus = StatusRead(r, i)
  BY <1>4
<1>. HIDE DEF p, st, tus, i
<1>6. CASE r.at = "item"
  <2>1. Half(s, p) /\ run'[s].at = "stamp"
    BY <1>1, <1>2, <1>4, <1>6, PartMove DEF Half
  <2>2. Stamped(s, p)
    BY <1>1, <1>3, <1>4, <1>5, <2>1 DEF Stamped
  <2>. QED BY <2>2
<1>7. CASE r.at # "item"
  <2>1. Took(s, p)
    BY <1>1, <1>2, <1>4, <1>7, PartMove
  <2>2. Stamped(s, p)
    BY <1>1, <1>2, <1>4, <1>5, <1>7, <2>1 DEF Stamped
  <2>. QED BY <2>2
<1>. QED BY <1>6, <1>7

LEMMA TextMove ==
  ASSUME RunsSound, SourceTyped, NEW s \in Syncs, RunTyped(run[s]), ReadText(s)
  PROVE  \E p : Copied(s, p)
<1>. DEFINE r == run[s]
            i == Held(s).item
            text == world[i].text
            p == [Held(s) EXCEPT !.text = text]
<1>1. /\ r.at \in ReadAt("text") /\ world[i].there /\ ReadPart(s, "text", p)
  BY DEF ReadText
<1>2. /\ Held(s) \in Partial /\ i = Head(r.todo) /\ i \in Items
      /\ r.at = "item" => kind = "repo"
      /\ r.at # "item" => r.at = "stamp" /\ Held(s).status \in Statuses /\ Held(s) = r.reading
  <2>1. (r.at = "item" /\ kind = "repo") \/ r.at = "stamp"
    BY <1>1 DEF ReadAt
  <2>2. r.todo # <<>> /\ r.todo \in Seq(Items) /\ Head(r.todo) \in Items
    BY <2>1, HeadTail DEF RunTyped
  <2>3. CASE r.at = "item"
    <3>1. Held(s) = [Unread EXCEPT !.item = Head(r.todo)]
      BY <2>3 DEF Held
    <3>2. Held(s) = [item |-> Head(r.todo), stamp |-> 0, status |-> None, text |-> <<>>]
      BY <3>1 DEF Unread
    <3>. QED BY <2>1, <2>2, <2>3, <3>2 DEF Partial, Said
  <2>4. CASE r.at = "stamp"
    BY <2>2, <2>4 DEF Held, RunTyped, Partial
  <2>. QED BY <2>1, <2>3, <2>4
<1>3. text \in Said
  BY <1>2 DEF SourceTyped
<1>4. /\ p \in Partial /\ p.item = i /\ p.stamp = Held(s).stamp /\ p.status = Held(s).status
      /\ p.text = text /\ (Held(s).status \in Statuses => p \in Snapshot)
  <2>. HIDE DEF text
  <2>. QED BY <1>2, <1>3 DEF Snapshot, Partial
<1>5. i = p.item /\ text = world[i].text
  BY <1>4
<1>. HIDE DEF p, text, i
<1>6. CASE r.at = "item"
  <2>1. Half(s, p) /\ run'[s].at = "text"
    BY <1>1, <1>2, <1>4, <1>6, PartMove DEF Half
  <2>2. Copied(s, p)
    BY <1>1, <1>2, <1>4, <1>5, <1>6, <2>1 DEF Copied
  <2>. QED BY <2>2
<1>7. CASE r.at # "item"
  <2>1. Took(s, p)
    BY <1>1, <1>2, <1>4, <1>7, PartMove
  <2>2. Copied(s, p)
    BY <1>1, <1>2, <1>4, <1>5, <1>7, <2>1 DEF Copied
  <2>. QED BY <2>2
<1>. QED BY <1>6, <1>7

\* Every step of a process is one of these.
Moved(s) ==
  \/ Begun(s) \/ Ended(s)
  \/ /\ UNCHANGED <<docs, sole, touched>>
     /\ Listed(s) \/ (\E p : Stamped(s, p)) \/ (\E p : Copied(s, p))
  \/ /\ UNCHANGED <<sole, touched>>
     /\ Found(s) \/ Upserted(s) \/ Indexing(s) \/ Indexed(s) \/ Failed(s) \/ Archived(s)

LEMMA Moves ==
  ASSUME RunsSound, SourceTyped, NEW s \in Syncs, RunTyped(run[s]), SyncStep(s) \/ Upsert(s)
  PROVE  Moved(s)
<1>1. CASE Begin(s)
  BY <1>1, BeginMove DEF Moved
<1>2. CASE Vanished(s) \/ Finish(s) \/ Stop(s)
  BY <1>2, Putting DEF Vanished, Finish, Stop, Put, Moved, Ended
<1>3. CASE ListFiles(s)
  <2>1. UNCHANGED <<docs, sole, touched>>
    BY <1>3 DEF ListFiles
  <2>2. Listed(s)
    BY <1>3, ListMove DEF Listed
  <2>. QED BY <2>1, <2>2 DEF Moved
<1>4. CASE ReadStamp(s) \/ ReadText(s)
  <2>1. UNCHANGED <<docs, sole, touched>>
    BY <1>4 DEF ReadStamp, ReadText
  <2>. QED BY <1>4, <2>1, StampMove, TextMove DEF Moved
<1>5. CASE Find(s) \/ Upsert(s) \/ Embed(s) \/ Persist(s) \/ SetStatus(s) \/ Fault(s) \/ ArchiveMissing(s)
  <2>1. UNCHANGED <<sole, touched>>
    BY <1>5 DEF Find, Upsert, Embed, Persist, SetStatus, Fault, ArchiveMissing
  <2>. QED BY <1>5, <2>1, StoreMoves DEF Moved
<1>. QED BY <1>1, <1>2, <1>3, <1>4, <1>5 DEF SyncStep

-----------------------------------------------------------------------------
(* Types                                                                    *)

\* The document whose turn it is.
LEMMA Turn ==
  ASSUME NEW r, RunTyped(r), r.snaps # <<>>
  PROVE  /\ Head(r.snaps) \in Snapshot /\ Head(r.snaps).item \in Items
         /\ Tail(r.snaps) \in Seq(Snapshot)
         /\ ToSet(r.snaps) = {Head(r.snaps)} \cup ToSet(Tail(r.snaps))
<1>1. r.snaps \in Seq(Snapshot)
  BY DEF RunTyped
<1>2. Head(r.snaps) \in Snapshot
  BY <1>1, HeadTail
<1>. QED BY <1>1, <1>2, HeadTail DEF Snapshot

\* What a step of a process makes of the documents: rows, none of which goes.
LEMMA DocumentsStep ==
  ASSUME SyncTyped, NEW s \in Syncs, Moved(s)
  PROVE  docs' \in [Items -> Document \cup {None}] /\ \A i \in Items : docs[i] # None => docs'[i] # None
<1>0. docs \in [Items -> Document \cup {None}] /\ None \notin Document /\ RunTyped(run[s])
  BY SyncAssumption DEF SyncTyped
<1>1. CASE UNCHANGED docs
  BY <1>0, <1>1
<1>2. CASE Upserted(s)
  <2>1. Snap(s) \in Snapshot
    BY <1>0, <1>2, Turn DEF Upserted, RunTyped, StoringAt, Snap
  <2>2. DocumentRow(Snap(s)) \in Document
    BY <2>1 DEF DocumentRow, NewIndexStatus, Document, Snapshot
  <2>. QED BY <1>0, <1>2, <2>2 DEF Upserted
<1>3. CASE Indexed(s)
  <2>1. docs[Snap(s).item] # None /\ Snap(s).item \in Items /\ run[s].outcome \in {"indexed", "failed"}
    BY <1>0, <1>3, Turn DEF Indexed, RunTyped, StoringAt, Snap
  <2>2. [docs[Snap(s).item] EXCEPT !.index = run[s].outcome] \in Document
    BY <1>0, <2>1 DEF Document
  <2>3. docs' = [docs EXCEPT ![Snap(s).item] = [docs[Snap(s).item] EXCEPT !.index = run[s].outcome]]
    BY <1>3 DEF Indexed
  <2>. HIDE DEF Snap
  <2>. QED BY <1>0, <2>2, <2>3
<1>4. CASE Archived(s)
  <2>1. docs' = [i \in Items |-> docs'[i]]
    BY <1>4, Zenon DEF Archived, ArchiveMissing
  <2>2. ASSUME NEW i \in Items
        PROVE  \/ docs'[i] = docs[i]
               \/ docs[i] # None /\ docs'[i] = [docs[i] EXCEPT !.status = "archived", !.index = "pending"]
    BY <1>4 DEF Archived, ArchiveMissing
  <2>3. ASSUME NEW d \in Document
        PROVE  [d EXCEPT !.status = "archived", !.index = "pending"] \in Document
    BY DEF Document, Statuses
  <2>4. ASSUME NEW i \in Items
        PROVE  docs'[i] \in Document \cup {None} /\ (docs[i] # None => docs'[i] # None)
    <3>1. docs[i] \in Document \cup {None}
      BY <1>0
    <3>2. ASSUME docs[i] # None, docs'[i] = [docs[i] EXCEPT !.status = "archived", !.index = "pending"]
          PROVE  docs'[i] \in Document
      BY <2>3, <3>1, <3>2
    <3>. QED BY <1>0, <2>2, <3>1, <3>2
  <2>. QED BY <2>1, <2>4
<1>. QED BY <1>1, <1>2, <1>3, <1>4 DEF Moved, Begun, Ended, Found, Indexing, Failed

\* A run that goes on reading, or has nothing left to read, is typed.
LEMMA PlacedTyped ==
  ASSUME NEW q, Placed(q), q.todo \in Seq(Items), q.walk \in Seq(Repos), q.snaps \in Seq(Snapshot),
         q.scope \subseteq Repos, q.failed \in BOOLEAN
  PROVE  RunTyped(q) /\ q.at \in {"item", "list", "find", "archive", "mark"}
<1>1. CASE q.todo # <<>>
  BY <1>1 DEF Placed, RunTyped, ReadingAt, StoringAt
<1>2. CASE q.todo = <<>> /\ q.walk # <<>>
  BY <1>2 DEF Placed, RunTyped, ReadingAt, StoringAt
<1>3. CASE q.todo = <<>> /\ q.walk = <<>>
  BY <1>3 DEF Placed, RunTyped, Stored, ReadingAt, StoringAt
<1>. QED BY <1>1, <1>2, <1>3

LEMMA ChildrenTyped ==
  ASSUME NEW d \in Items \cup Repos
  PROVE  /\ Children[d] \in Seq(Items) /\ There(Children[d]) \in Seq(Items)
         /\ ToSet(There(Children[d])) = {i \in ToSet(Children[d]) : world[i].there}
<1>1. Children[d] \in Seq(Items)
  BY SyncAssumption
<1>. QED BY <1>1, ThereItems

\* A process is where its step leaves it.
LEMMA OwnRunTyped ==
  ASSUME SyncTyped, NEW s \in Syncs, Moved(s), UNCHANGED <<kind, clock, world>>
  PROVE  RunTyped(run[s])'
<1>. DEFINE r == run[s]
            q == run'[s]
<1>0. RunTyped(r) /\ kind \in {"notion", "repo"} /\ kind' = kind
  BY DEF SyncTyped, SourceTyped
<1>d. \A i \in Items : docs[i] # None => docs'[i] # None
  BY DocumentsStep
<1>. SUFFICES RunTyped(q) \/ RunTyped(run[s])'
  <2>1. ASSUME RunTyped(q), q.at \in {"embed", "persist", "status"} PROVE Head(q.snaps).item \in Items
    BY <2>1, Turn DEF RunTyped, StoringAt
  <2>2. ASSUME RunTyped(q) PROVE RunTyped(run[s])'
    <3>1. q.at \in {"embed", "persist", "status"} => docs'[Head(q.snaps).item] # None
      BY <1>d, <2>1, <2>2 DEF RunTyped
    <3>. QED BY <1>0, <2>2, <3>1 DEF RunTyped
  <2>. QED BY <2>2
<1>1. CASE Begun(s)
  <2>1. SetToSeq(q.scope) \in Seq(q.scope) /\ ToSet(SetToSeq(q.scope)) = q.scope
    <3>1. IsFiniteSet(q.scope)
      BY <1>1, SyncAssumption, FS_Subset DEF Begun
    <3>. QED BY <3>1, Walked
  <2>2. SetToSeq(q.scope) \in Seq(Repos) /\ (q.scope # {} => SetToSeq(q.scope) # <<>>)
    <3>. DEFINE w == SetToSeq(q.scope)
    <3>1. w \in Seq(q.scope) /\ ToSet(w) = q.scope /\ q.scope \subseteq Repos
      BY <1>1, <2>1 DEF Begun
    <3>2. w \in Seq(Repos)
      <4>. HIDE DEF w
      <4>. QED BY <3>1
    <3>. HIDE DEF w
    <3>3. q.scope # {} => w # <<>>
      BY <3>1, <3>2, Elements
    <3>. QED BY <3>2, <3>3 DEF w
  <2>3. <<Root>> \in Seq(Items) /\ <<Root>> # <<>> /\ <<>> \in Seq(Items) /\ <<>> \in Seq(Repos) /\ <<>> \in Seq(Snapshot)
    BY SyncAssumption
  <2>4. CASE kind = "repo"
    <3>1. /\ q.at = "list" /\ q.walk = SetToSeq(q.scope) /\ q.todo = <<>> /\ q.snaps = <<>>
          /\ q.scope \subseteq Repos /\ q.scope # {} /\ q.failed = FALSE
      BY <1>1, <2>4 DEF Begun
    <3>2. q.walk \in Seq(Repos) /\ q.walk # <<>>
      BY <2>2, <3>1
    <3>. HIDE DEF q
    <3>. QED BY <2>3, <3>1, <3>2 DEF RunTyped, ReadingAt, StoringAt
  <2>5. CASE kind = "notion"
    <3>1. /\ q.at = "item" /\ q.walk = <<>> /\ q.todo = <<Root>> /\ q.snaps = <<>>
          /\ q.scope \subseteq Repos /\ q.failed = FALSE
      BY <1>1, <2>5 DEF Begun
    <3>. HIDE DEF q
    <3>. QED BY <2>3, <3>1 DEF RunTyped, ReadingAt, StoringAt
  <2>. QED BY <1>0, <2>4, <2>5
<1>2. CASE Ended(s)
  BY <1>2 DEF Ended, Idle, RunTyped, ReadingAt, StoringAt
<1>3. CASE Listed(s)
  <2>1. r.walk \in Seq(Repos) /\ Head(r.walk) \in Repos /\ Tail(r.walk) \in Seq(Repos)
    BY <1>0, <1>3, HeadTail DEF Listed, RunTyped
  <2>2. There(Children[Head(r.walk)]) \in Seq(Items)
    BY <2>1, ChildrenTyped
  <2>3. q.todo \in Seq(Items) /\ q.walk \in Seq(Repos) /\ q.snaps \in Seq(Snapshot)
        /\ q.scope \subseteq Repos /\ q.failed \in BOOLEAN /\ Placed(q)
    BY <1>0, <1>3, <2>1, <2>2 DEF Listed, RunTyped
  <2>. HIDE DEF q
  <2>. QED BY <2>3, PlacedTyped
<1>4. ASSUME NEW p, Took(s, p), r.at \in {"stamp", "text"} PROVE RunTyped(q)
  <2>1. r.todo \in Seq(Items) /\ Head(r.todo) \in Items /\ Tail(r.todo) \in Seq(Items)
    BY <1>0, <1>4, HeadTail DEF RunTyped
  <2>2. ToRead(r, p.item) \in Seq(Items)
    <3>1. There(Children[p.item]) \in Seq(Items) /\ <<>> \in Seq(Items)
      BY <1>4, <2>1, ChildrenTyped DEF Took
    <3>. QED BY <2>1, <3>1, ConcatElements DEF ToRead
  <2>3. q.snaps \in Seq(Snapshot)
    BY <1>0, <1>4, AppendElements DEF Took, Gained, RunTyped
  <2>4. q.todo \in Seq(Items) /\ q.walk \in Seq(Repos)
        /\ q.scope \subseteq Repos /\ q.failed \in BOOLEAN /\ Placed(q)
    BY <1>0, <1>4, <2>2 DEF Took, Gained, RunTyped
  <2>. HIDE DEF q
  <2>. QED BY <2>3, <2>4, PlacedTyped
<1>5. ASSUME NEW p, Half(s, p), q.at = "stamp" => p.status \in Statuses, q.at = "text" => kind = "repo",
             q.at \in {"stamp", "text"}
      PROVE  RunTyped(q)
  BY <1>0, <1>5 DEF Half, Stays, Retains, RunTyped, ReadingAt, StoringAt
<1>6. ASSUME NEW p, Stamped(s, p) \/ Copied(s, p) PROVE RunTyped(q)
  BY <1>4, <1>5, <1>6 DEF Stamped, Copied
<1>7. ASSUME Passed(q, r), r.at \in StoringAt PROVE RunTyped(q)
  <2>1. Tail(r.snaps) \in Seq(Snapshot)
    BY <1>0, <1>7, Turn DEF RunTyped
  <2>. QED BY <1>0, <1>7, <2>1 DEF Passed, Retains, RunTyped, ReadingAt, StoringAt, Stored
<1>8. CASE Found(s)
  <2>1. CASE Passed(q, r)
    BY <1>7, <1>8, <2>1 DEF Found, StoringAt
  <2>2. CASE Stays(q, r) /\ q.at = "upsert"
    BY <1>0, <1>8, <2>2 DEF Found, Stays, Retains, RunTyped, ReadingAt, StoringAt
  <2>. QED BY <1>8, <2>1, <2>2 DEF Found
<1>9. CASE Upserted(s)
  <2>1. CASE Passed(q, r)
    BY <1>7, <1>9, <2>1 DEF Upserted, StoringAt
  <2>2. CASE Stays(q, r) /\ q.at = "embed"
    <3>1. Head(r.snaps) \in Snapshot /\ Head(r.snaps).item \in Items /\ r.snaps # <<>>
      BY <1>0, <1>9, Turn DEF Upserted, RunTyped, StoringAt
    <3>2. DocumentRow(Head(r.snaps)) \in Document /\ None \notin Document
      BY <3>1, SyncAssumption DEF DocumentRow, NewIndexStatus, Document, Snapshot
    <3>3. docs'[Head(r.snaps).item] # None
      BY <1>9, <3>1, <3>2 DEF Upserted, Snap, SyncTyped
    <3>4. q.snaps = r.snaps
      BY <2>2 DEF Stays
    <3>. QED BY <1>0, <2>2, <3>1, <3>3, <3>4 DEF Stays, Retains, RunTyped, ReadingAt, StoringAt
  <2>. QED BY <1>9, <2>1, <2>2 DEF Upserted
<1>10. CASE Indexing(s)
  BY <1>0, <1>10 DEF Indexing, Stays, Retains, RunTyped, ReadingAt, StoringAt
<1>11. CASE Indexed(s) \/ Failed(s)
  BY <1>7, <1>11 DEF Indexed, Failed, StoringAt
<1>12. CASE Archived(s)
  BY <1>0, <1>12 DEF Archived, Stays, Retains, RunTyped, ReadingAt, StoringAt
<1>. HIDE DEF q, r
<1>. QED BY <1>1, <1>2, <1>3, <1>6, <1>8, <1>9, <1>10, <1>11, <1>12 DEF Moved

\* The source stays typed, whoever edits it.
LEMMA SourceTypedStep ==
  ASSUME SourceTyped, [Next]_vars
  PROVE  SourceTyped'
<1>0. "texts" \in DOMAIN left' /\ left'["texts"] \in DOMAIN Texts
  <2>1. CASE UNCHANGED left
    BY <2>1 DEF SourceTyped
  <2>2. ASSUME NEW e \in Events \cup {"ask", "draft"}, left' = [left EXCEPT ![e] = @ - 1]
        PROVE  "texts" \in DOMAIN left' /\ left'["texts"] \in DOMAIN Texts
    BY <2>2 DEF SourceTyped, Events
  <2>. QED BY <2>1, <2>2, LeftStep
<1>1. CASE UNCHANGED <<kind, clock, world>>
  BY <1>0, <1>1 DEF SourceTyped
<1>2. CASE SourceStep
  <2>1. PICK i \in Items :
              /\ \A j \in Items \ {i} : world'[j] = world[j]
              /\ world'[i].stamp <= clock' /\ (kind = "repo" => world'[i].status = PathStatus[i])
    BY <1>2, SourceItem
  <2>2. /\ kind' = kind /\ clock' \in Nat /\ clock' >= clock
        /\ world' \in [Items -> [there : BOOLEAN, stamp : Nat, text : Said, status : Statuses]]
    BY <1>2, SourceItem
  <2>3. ASSUME NEW j \in Items, j # i
        PROVE  world'[j].stamp <= clock' /\ (kind = "repo" => world'[j].status = PathStatus[j])
    <3>1. world'[j] = world[j] /\ world[j].stamp <= clock /\ world[j].stamp \in Nat /\ clock \in Nat
          /\ (kind = "repo" => world[j].status = PathStatus[j])
      BY <2>1, <2>3 DEF SourceTyped
    <3>. QED BY <2>2, <3>1
  <2>4. \A j \in Items : world'[j].stamp <= clock' /\ (kind = "repo" => world'[j].status = PathStatus[j])
    BY <2>1, <2>3
  <2>5. kind \in {"notion", "repo"}
    BY DEF SourceTyped
  <2>. QED BY <1>0, <2>2, <2>4, <2>5 DEF SourceTyped
<1>. QED BY <1>1, <1>2, StepCases

LEMMA SyncTypedStep ==
  ASSUME RunsSound, SyncTyped, [Next]_vars
  PROVE  SyncTyped'
<1>0. SourceTyped' /\ SourceTyped
  BY SourceTypedStep DEF SyncTyped
<1>1. CASE UNCHANGED <<docs, run>> /\ kind' = kind
  BY <1>0, <1>1 DEF SyncTyped, RunTyped
<1>2. ASSUME NEW s \in Syncs, SyncStep(s) \/ Upsert(s), UNCHANGED <<kind, clock, world>>
      PROVE  SyncTyped'
  <2>1. Moved(s)
    BY <1>0, <1>2, Moves DEF SyncTyped
  <2>2. docs' \in [Items -> Document \cup {None}] /\ \A i \in Items : docs[i] # None => docs'[i] # None
    BY <2>1, DocumentsStep
  <2>3. RunTyped(run[s])'
    BY <1>2, <2>1, OwnRunTyped
  <2>4. ASSUME NEW t \in Syncs, t # s PROVE RunTyped(run[t])'
    <3>1. run'[t] = run[t]
      BY <1>2, <2>4, RunStep DEF RunsSound
    <3>2. RunTyped(run[t]) /\ kind' = kind
      BY <1>2 DEF SyncTyped
    <3>3. run[t].at \in {"embed", "persist", "status"} => Head(run[t].snaps).item \in Items
      BY <3>2, Turn DEF RunTyped, StoringAt
    <3>. QED BY <2>2, <3>1, <3>2, <3>3 DEF RunTyped
  <2>. QED BY <1>0, <2>2, <2>3, <2>4 DEF SyncTyped
<1>3. SourceStep => kind' = kind
  BY <1>0, SourceItem
<1>. QED BY <1>1, <1>2, <1>3, StepCases

LEMMA SyncTypedInit == Init => SyncTyped
<1>. SUFFICES ASSUME Init PROVE SyncTyped
  OBVIOUS
<1>1. PICK texts \in [left.items -> Texts[left["first"]]] :
        world = [i \in Items |->
                  [there |-> i \in left.items, stamp |-> IF i \in left.items THEN 1 ELSE 0,
                   text |-> IF i \in left.items THEN texts[i] ELSE <<>>,
                   status |-> IF kind = "repo" THEN PathStatus[i] ELSE "active"]]
  BY DEF Init, SyncInit
<1>2. /\ left \in Allowances /\ kind = left.kind /\ kind \in {"notion", "repo"} /\ clock = 1
      /\ left["first"] \in DOMAIN Texts /\ left["texts"] \in DOMAIN Texts /\ "texts" \in DOMAIN left
      /\ PathStatus \in [Items -> Statuses]
  BY SyncAssumption DEF Init, SyncInit
<1>3. SourceTyped
  <2>1. ASSUME NEW i \in Items
        PROVE  /\ world[i] \in [there : BOOLEAN, stamp : Nat, text : Said, status : Statuses]
               /\ world[i].stamp <= 1 /\ (kind = "repo" => world[i].status = PathStatus[i])
    <3>. DEFINE text == IF i \in left.items THEN texts[i] ELSE <<>>
                there == i \in left.items
    <3>1. text \in Said
      BY <1>2 DEF Said
    <3>2. PathStatus[i] \in Statuses /\ "active" \in Statuses
      BY <1>2 DEF Statuses
    <3>3. world[i] = [there |-> there, stamp |-> IF there THEN 1 ELSE 0, text |-> text,
                      status |-> IF kind = "repo" THEN PathStatus[i] ELSE "active"]
      BY <1>1
    <3>4. there \in BOOLEAN
      OBVIOUS
    <3>. HIDE DEF text, there
    <3>. QED BY <3>1, <3>2, <3>3, <3>4
  <2>2. world = [i \in Items |-> world[i]]
    BY <1>1
  <2>3. world \in [Items -> [there : BOOLEAN, stamp : Nat, text : Said, status : Statuses]]
    BY <2>1, <2>2
  <2>. QED BY <1>2, <2>1, <2>3 DEF SourceTyped
<1>4. docs \in [Items -> Document \cup {None}]
  BY DEF Init, SyncInit
<1>5. \A s \in Syncs : RunTyped(run[s])
  <2>1. \A s \in Syncs : run[s] = Idle
    BY DEF Init, SyncInit
  <2>2. RunTyped(Idle)
    BY DEF Idle, RunTyped, ReadingAt, StoringAt
  <2>. QED BY <2>1, <2>2
<1>. QED BY <1>3, <1>4, <1>5 DEF SyncTyped

-----------------------------------------------------------------------------
(* What is known of a page is not newer than it                             *)

\* Of a page nothing is known that is newer than it, and its text by its stamp.
NotNewer(stamp, text, i) ==
  stamp <= world[i].stamp /\ (stamp = world[i].stamp => text = world[i].text)

NewestKnown ==
  kind = "notion" =>
    /\ \A i \in Items : docs[i] # None => NotNewer(docs[i].stamp, docs[i].text, i)
    /\ \A s \in Syncs : \A p \in ToSet(run[s].snaps) : NotNewer(p.stamp, p.text, p.item)
    /\ \A s \in Syncs : run[s].at = "stamp" =>
         run[s].reading.stamp <= world[run[s].reading.item].stamp

LEMMA SnapsTyped ==
  ASSUME NEW r, RunTyped(r)
  PROVE  ToSet(r.snaps) \subseteq Snapshot /\ \A p \in ToSet(r.snaps) : p.item \in Items
<1>1. r.snaps \in Seq(Snapshot)
  BY DEF RunTyped
<1>2. ToSet(r.snaps) \subseteq Snapshot
  BY <1>1, Elements
<1>. QED BY <1>2 DEF Snapshot

LEMMA PlacedAt == ASSUME NEW q, Placed(q) PROVE q.at \in {"item", "list", "find", "archive", "mark"}
BY DEF Placed, Stored

\* An edit of a page is newer than whatever was known of it.
LEMMA EditNewer ==
  ASSUME SourceTyped, SourceStep, kind = "notion", NEW i \in Items, NEW stamp \in Nat, NEW text
  PROVE  /\ stamp <= world[i].stamp => stamp <= world'[i].stamp
         /\ NotNewer(stamp, text, i) => NotNewer(stamp, text, i)'
<1>1. PICK j \in Items :
        /\ \A k \in Items \ {j} : world'[k] = world[k]
        /\ kind = "notion" => \/ world'[j].stamp > clock
                              \/ world'[j].stamp = world[j].stamp /\ world'[j].text = world[j].text
  BY SourceItem
<1>2. world' \in [Items -> [there : BOOLEAN, stamp : Nat, text : Said, status : Statuses]]
  BY SourceItem
<1>3. world[i].stamp \in Nat /\ world'[i].stamp \in Nat /\ world[i].stamp <= clock /\ clock \in Nat
  BY <1>2 DEF SourceTyped
<1>4. \/ world'[i].stamp > clock
      \/ world'[i].stamp = world[i].stamp /\ world'[i].text = world[i].text
  BY <1>1
<1>. QED BY <1>3, <1>4 DEF NotNewer

LEMMA NewestKnownStep ==
  ASSUME RunsSound, SyncTyped, NewestKnown, [Next]_vars
  PROVE  NewestKnown'
<1>. SUFFICES ASSUME kind' = "notion" PROVE NewestKnown'
  BY DEF NewestKnown
<1>0. SourceTyped /\ docs \in [Items -> Document \cup {None}] /\ (\A s \in Syncs : RunTyped(run[s]))
      /\ None \notin Document
  BY SyncAssumption DEF SyncTyped
<1>1. CASE UNCHANGED <<kind, clock, world, docs, run, sole, touched>>
  BY <1>1 DEF NewestKnown, NotNewer
<1>2. CASE SourceStep /\ UNCHANGED <<docs, run, sole>>
  <2>1. kind = "notion"
    BY <1>0, <1>2, SourceItem
  <2>2. ASSUME NEW i \in Items, docs[i] # None PROVE NotNewer(docs[i].stamp, docs[i].text, i)'
    <3>1. docs[i].stamp \in Nat /\ NotNewer(docs[i].stamp, docs[i].text, i)
      BY <1>0, <2>1, <2>2 DEF Document, NewestKnown
    <3>. QED BY <1>0, <1>2, <2>1, <3>1, EditNewer DEF NotNewer
  <2>3. ASSUME NEW s \in Syncs, NEW p \in ToSet(run[s].snaps) PROVE NotNewer(p.stamp, p.text, p.item)'
    <3>1. p.stamp \in Nat /\ p.item \in Items /\ NotNewer(p.stamp, p.text, p.item)
      BY <1>0, <2>1, <2>3, SnapsTyped DEF Snapshot, NewestKnown
    <3>. QED BY <1>0, <1>2, <2>1, <3>1, EditNewer DEF NotNewer
  <2>4. ASSUME NEW s \in Syncs, run[s].at = "stamp"
        PROVE  run[s].reading.stamp <= world'[run[s].reading.item].stamp
    <3>1. run[s].reading \in Partial
      BY <1>0, <2>4 DEF RunTyped
    <3>2. run[s].reading.stamp \in Nat /\ run[s].reading.item \in Items
      BY <3>1 DEF Partial
    <3>3. run[s].reading.stamp <= world[run[s].reading.item].stamp
      BY <2>1, <2>4 DEF NewestKnown
    <3>. QED BY <1>0, <1>2, <2>1, <3>2, <3>3, EditNewer
  <2>. QED BY <1>2, <2>2, <2>3, <2>4 DEF NewestKnown, NotNewer
<1>3. ASSUME NEW s \in Syncs, SyncStep(s) \/ Upsert(s), UNCHANGED <<kind, clock, world>>
      PROVE  NewestKnown'
  <2>. DEFINE r == run[s]
              q == run'[s]
  <2>0. kind = "notion" /\ RunTyped(r) /\ Moved(s)
        /\ (\A p \in ToSet(r.snaps) : NotNewer(p.stamp, p.text, p.item))
    BY <1>0, <1>3, Moves DEF NewestKnown
  <2>1. ASSUME NEW p, Took(s, p), r.at = "stamp", p.stamp = r.reading.stamp,
               p.text = world[p.item].text
        PROVE  NotNewer(p.stamp, p.text, p.item)
    <3>1. r.reading.item = p.item
      BY <2>0, <2>1 DEF RunTyped, Took
    <3>2. r.reading.stamp <= world[r.reading.item].stamp
      BY <2>0, <2>1 DEF NewestKnown
    <3>. QED BY <2>1, <3>1, <3>2 DEF NotNewer
  <2>2. \/ q.snaps \in {r.snaps, <<>>}
        \/ q.snaps = Tail(r.snaps) /\ r.at \in StoringAt
        \/ \E p \in Snapshot : q.snaps = Append(r.snaps, p) /\ NotNewer(p.stamp, p.text, p.item)
    <3>1. ASSUME NEW p, Stamped(s, p) PROVE q.snaps = r.snaps
      BY <2>0, <3>1 DEF Stamped, Half, Stays, RunTyped
    <3>2. ASSUME NEW p, Copied(s, p)
          PROVE  q.snaps = r.snaps \/ (p \in Snapshot /\ q.snaps = Append(r.snaps, p)
                                       /\ NotNewer(p.stamp, p.text, p.item))
      BY <2>0, <2>1, <3>2 DEF Copied, Half, Stays, Took, Gained
    <3>3. CASE Begun(s) \/ Ended(s) \/ Listed(s)
      BY <3>3 DEF Begun, Ended, Idle, Listed
    <3>4. CASE Found(s) \/ Upserted(s) \/ Indexing(s)
      BY <3>4 DEF Found, Upserted, Indexing, Passed, Stays, StoringAt
    <3>5. CASE Indexed(s) \/ Failed(s) \/ Archived(s)
      BY <3>5 DEF Indexed, Failed, Archived, Passed, Stays, StoringAt
    <3>. HIDE DEF q, r
    <3>. QED BY <2>0, <3>1, <3>2, <3>3, <3>4, <3>5 DEF Moved
  <2>3. ASSUME NEW p \in ToSet(q.snaps) PROVE NotNewer(p.stamp, p.text, p.item)
    <3>1. CASE q.snaps = <<>>
      BY <2>3, <3>1 DEF ToSet
    <3>2. CASE q.snaps = Tail(r.snaps) /\ r.at \in StoringAt
      BY <2>0, <2>3, <3>2, Turn DEF RunTyped
    <3>3. ASSUME NEW o \in Snapshot, q.snaps = Append(r.snaps, o), NotNewer(o.stamp, o.text, o.item)
          PROVE  NotNewer(p.stamp, p.text, p.item)
      <4>1. ToSet(q.snaps) = ToSet(r.snaps) \cup {o}
        BY <2>0, <3>3, AppendElements DEF RunTyped
      <4>. QED BY <2>0, <2>3, <3>3, <4>1
    <3>. QED BY <2>0, <2>2, <2>3, <3>1, <3>2, <3>3
  <2>4. ASSUME q.at = "stamp" PROVE q.reading.stamp <= world[q.reading.item].stamp
    <3>1. \E p : Stamped(s, p) /\ Half(s, p)
      <4>1. ~Begun(s) /\ ~Ended(s)
        BY <1>0, <2>4 DEF Begun, Ended, Idle, SourceTyped
      <4>2. ~Listed(s) /\ \A p : ~Copied(s, p) /\ ~Took(s, p)
        BY <2>4, PlacedAt DEF Listed, Copied, Took, Gained
      <4>3. ~Found(s) /\ ~Upserted(s) /\ ~Indexing(s)
        BY <2>4 DEF Found, Upserted, Indexing, Passed, Stored
      <4>4. ~Indexed(s) /\ ~Failed(s) /\ ~Archived(s)
        BY <2>4 DEF Indexed, Failed, Archived, Passed, Stored
      <4>. QED BY <2>0, <4>1, <4>2, <4>3, <4>4 DEF Moved, Stamped
    <3>2. PICK p : Stamped(s, p) /\ Half(s, p)
      BY <3>1
    <3>3. p.item \in Items /\ p.stamp = world[p.item].stamp /\ q.reading = p
      BY <3>2 DEF Stamped, Half, Partial
    <3>4. world[p.item].stamp \in Nat
      BY <1>0, <3>3 DEF SourceTyped
    <3>. QED BY <3>3, <3>4
  <2>5. ASSUME NEW i \in Items, docs'[i] # None PROVE NotNewer(docs'[i].stamp, docs'[i].text, i)
    <3>1. CASE docs'[i] = docs[i]
      BY <2>0, <2>5, <3>1 DEF NewestKnown
    <3>2. CASE Upserted(s) /\ i = Snap(s).item
      <4>1. Snap(s) \in ToSet(r.snaps)
        BY <2>0, <3>2, Turn DEF Upserted, RunTyped, StoringAt, Snap
      <4>2. docs'[i] = DocumentRow(Snap(s))
        BY <1>0, <3>2 DEF Upserted
      <4>. QED BY <2>0, <3>2, <4>1, <4>2 DEF DocumentRow
    <3>3. CASE docs[i] # None /\ docs'[i].stamp = docs[i].stamp /\ docs'[i].text = docs[i].text
      BY <2>0, <3>3 DEF NewestKnown
    <3>4. CASE Indexed(s) \/ Archived(s)
      <4>1. docs[i] \in Document \cup {None}
        BY <1>0
      <4>2. \/ docs'[i] = docs[i] \/ docs'[i] = [docs[i] EXCEPT !.index = run[s].outcome]
            \/ docs'[i] = [docs[i] EXCEPT !.status = "archived", !.index = "pending"]
        BY <1>0, <3>4 DEF Indexed, Archived, ArchiveMissing
      <4>3. docs[i] # None \/ docs'[i] = docs[i]
        <5>1. CASE Indexed(s)
          <6>1. docs[Snap(s).item] # None
            BY <2>0, <5>1 DEF Indexed, RunTyped, Snap
          <6>. QED BY <1>0, <5>1, <6>1 DEF Indexed
        <5>2. CASE Archived(s)
          BY <5>2 DEF Archived, ArchiveMissing
        <5>. QED BY <3>4, <5>1, <5>2
      <4>4. ASSUME docs'[i] # docs[i]
            PROVE  docs[i] # None /\ docs'[i].stamp = docs[i].stamp /\ docs'[i].text = docs[i].text
        BY <4>1, <4>2, <4>3, <4>4 DEF Document
      <4>. QED BY <3>1, <3>3, <4>4
    <3>5. CASE Upserted(s) /\ i # Snap(s).item
      BY <1>0, <3>1, <3>5 DEF Upserted
    <3>. QED BY <2>0, <3>1, <3>2, <3>4, <3>5 DEF Moved, Begun, Ended, Found, Indexing, Failed
  <2>6. ASSUME NEW t \in Syncs, t # s PROVE run'[t] = run[t]
    BY <1>3, <2>6, RunStep DEF RunsSound
  <2>7. ASSUME NEW t \in Syncs, NEW p \in ToSet(run'[t].snaps) PROVE NotNewer(p.stamp, p.text, p.item)
    BY <2>0, <2>3, <2>6, <2>7 DEF NewestKnown
  <2>8. ASSUME NEW t \in Syncs, run'[t].at = "stamp"
        PROVE  run'[t].reading.stamp <= world[run'[t].reading.item].stamp
    BY <2>0, <2>4, <2>6, <2>8 DEF NewestKnown
  <2>. QED BY <1>3, <2>5, <2>7, <2>8 DEF NewestKnown, NotNewer
<1>. QED BY <1>1, <1>2, <1>3, StepCases

-----------------------------------------------------------------------------
(* A process that has the store to itself                                   *)

\* What it answers for: what it may find and nobody touched.
Good(r, i) ==
  /\ IF kind = "repo" THEN \E d \in r.scope : i \in ToSet(Children[d]) ELSE Root \in From(i)
  /\ From(i) \cap touched = {} /\ ~Left(i)

\* A snapshot of an item as it is.
Right(p) ==
  p.text = world[p.item].text /\ p.stamp = world[p.item].stamp /\ p.status = StatusNow(p.item)

\* What it has seen and what is ahead of it: a page is seen or a page over it is still
\* to be read, and a file is seen, or to be read, or in a repository to be listed;
\* what is gone is not seen.
Ahead(r) ==
  /\ r.seen = {p.item : p \in ToSet(r.snaps)}
  /\ kind = "notion" =>
       /\ r.walk = <<>>
       /\ \A i \in Items : Good(r, i) => i \in r.seen \/ From(i) \cap ToSet(r.todo) # {}
       /\ \A i \in ToSet(r.todo) : i = Root \/ \E p \in r.seen : i \in ToSet(Children[p])
  /\ kind = "repo" =>
       \A i \in Items : Good(r, i) =>
         IF world[i].there
         THEN \/ i \in r.seen \/ i \in ToSet(r.todo)
              \/ \E d \in ToSet(r.walk) : i \in ToSet(Children[d])
         ELSE i \notin r.seen
\* What it has read of the item it is at.
ReadingRight(r) ==
  /\ Ahead(r)
  /\ r.at = "stamp" /\ Good(r, r.reading.item) =>
       /\ r.reading.stamp = world[r.reading.item].stamp
       /\ r.reading.status = StatusNow(r.reading.item)
  /\ r.at = "text" /\ Good(r, r.reading.item) => r.reading.text = world[r.reading.item].text

\* While it stores, what was read waits for its turn or is stored.
StoringRight(r) ==
  /\ \A p \in ToSet(r.snaps) : p.item \in r.seen
  /\ \A i \in Items : Good(r, i) =>
       IF world[i].there
       THEN i \in r.seen /\ (UpToDate(i) \/ \E p \in ToSet(r.snaps) : p.item = i)
       ELSE i \notin r.seen /\ (r.at = "mark" => UpToDate(i))
  /\ r.at \in {"embed", "persist", "status"} /\ Good(r, Head(r.snaps).item) =>
       UpToDate(Head(r.snaps).item)

\* What holds of it from its first step to its last.
Followed(r) ==
  /\ \A p \in ToSet(r.snaps) : Good(r, p.item) => Right(p)
  /\ r.at \in ReadingAt => ReadingRight(r)
  /\ r.at \in StoringAt \cup {"archive", "mark"} /\ ~r.failed => StoringRight(r)

\* The process that has been the only one is still, and is followed.
QuietInv ==
  \A s \in Syncs : sole = s =>
    /\ \A t \in Syncs \ {s} : run[t].at = "idle"
    /\ run[s].at # "idle" => Followed(run[s])

LEMMA NothingIn == ToSet(<<>>) = {}
BY DEF ToSet

LEMMA FromTyped == ASSUME NEW i \in Items PROVE From(i) \subseteq Items /\ i \in From(i)
BY Upward DEF From

\* A page that is answered for is there, and so are those over it.
LEMMA GoodThere ==
  ASSUME NEW r, NEW i \in Items, Good(r, i), kind = "notion"
  PROVE  \A p \in From(i) : world[p].there
BY DEF Good, Left

\* Once everything is read it is all to be stored.
LEMMA PlacedFollowed ==
  ASSUME NEW q, kind \in {"notion", "repo"}, RunTyped(q), Placed(q), Ahead(q),
         \A p \in ToSet(q.snaps) : Good(q, p.item) => Right(p)
  PROVE  Followed(q)
<1>1. q.at \in {"item", "list", "find", "archive", "mark"}
  BY PlacedAt
<1>2. ASSUME q.at \in ReadingAt PROVE ReadingRight(q)
  BY <1>1 DEF ReadingRight
<1>3. ASSUME q.at \in StoringAt \cup {"archive", "mark"} PROVE StoringRight(q)
  <2>1. q.todo = <<>> /\ q.walk = <<>>
    BY <1>3 DEF Placed, StoringAt
  <2>2. ToSet(q.todo) = {} /\ ToSet(q.walk) = {}
    BY <2>1 DEF ToSet
  <2>3. \A p \in ToSet(q.snaps) : p.item \in q.seen
    BY DEF Ahead
  <2>4. ASSUME NEW i \in Items, Good(q, i)
        PROVE  IF world[i].there THEN i \in q.seen /\ \E p \in ToSet(q.snaps) : p.item = i
               ELSE i \notin q.seen /\ q.at # "mark"
    <3>1. CASE kind = "notion"
      <4>1. world[i].there
        BY <2>4, <3>1, GoodThere, FromTyped
      <4>2. i \in q.seen
        BY <2>2, <2>4, <3>1 DEF Ahead
      <4>. QED BY <4>1, <4>2 DEF Ahead
    <3>2. CASE kind = "repo"
      <4>1. q.at # "mark"
        BY <2>1, <3>2 DEF Placed, Stored
      <4>2. IF world[i].there THEN i \in q.seen ELSE i \notin q.seen
        BY <2>2, <2>4, <3>2 DEF Ahead
      <4>. QED BY <4>1, <4>2 DEF Ahead
    <3>. QED BY <3>1, <3>2
  <2>. QED BY <1>1, <2>3, <2>4 DEF StoringRight
<1>. QED BY <1>2, <1>3 DEF Followed

\* The status a page is read with is its status, the pages over it being read rightly.
LEMMA StatusIsRight ==
  ASSUME NEW r, kind \in {"notion", "repo"}, RunTyped(r), Ahead(r), r.todo # <<>>,
         \A p \in ToSet(r.snaps) : Good(r, p.item) => Right(p),
         Good(r, Head(r.todo))
  PROVE  StatusRead(r, Head(r.todo)) = StatusNow(Head(r.todo))
<1>. DEFINE i == Head(r.todo)
<1>0. i \in ToSet(r.todo) /\ i \in Items
  BY HeadTail DEF RunTyped
<1>s. \A p \in ToSet(r.snaps) : p.item \in Items
  BY SnapsTyped
<1>1. CASE kind = "repo"
  BY <1>1 DEF StatusRead, StatusNow, From
<1>2. CASE kind = "notion" /\ i = Root
  <2>1. From(Root) = {Root}
    BY <1>2, UpwardOfRoot DEF From
  <2>2. \A p \in ToSet(r.snaps) : Root \notin ToSet(Children[p.item])
    BY <1>s, SyncAssumption
  <2>3. StatusRead(r, Root) = world[Root].status
    BY <2>2 DEF StatusRead
  <2>4. StatusNow(Root) = world[Root].status
    BY <2>1 DEF StatusNow
  <2>. QED BY <1>2, <2>3, <2>4
<1>3. CASE kind = "notion" /\ i # Root
  <2>1. PICK o \in ToSet(r.snaps) : i \in ToSet(Children[o.item])
    BY <1>0, <1>3 DEF Ahead
  <2>. DEFINE p == o.item
  <2>2. p \in Items /\ From(i) = From(p) \cup {i} /\ p \in From(p) /\ i \in From(i)
    BY <1>0, <1>s, <1>3, <2>1, UpwardOfChild, Upward DEF From
  <2>3. Good(r, p)
    BY <1>3, <2>2 DEF Good, Left
  <2>4. \A t \in ToSet(r.snaps) : i \in ToSet(Children[t.item]) => t.item = p
    BY <1>s, <2>1, SyncAssumption
  <2>5. \A t \in ToSet(r.snaps) : i \in ToSet(Children[t.item]) => t.status = StatusNow(p)
    BY <2>3, <2>4 DEF Right
  <2>6. (\E t \in ToSet(r.snaps) : i \in ToSet(Children[t.item]) /\ t.status = "archived")
        <=> StatusNow(p) = "archived"
    BY <2>1, <2>5
  <2>7. StatusNow(p) = "archived" <=> \E a \in From(p) : world[a].status = "archived"
    BY <2>2 DEF StatusNow
  <2>8. StatusRead(r, i) = IF StatusNow(p) = "archived" THEN "archived" ELSE world[i].status
    BY <1>3, <2>6 DEF StatusRead
  <2>9. StatusNow(i) = IF (\E a \in From(p) : world[a].status = "archived") \/ world[i].status = "archived"
                       THEN "archived" ELSE world[i].status
    BY <2>2 DEF StatusNow
  <2>. QED BY <2>7, <2>8, <2>9
<1>. QED BY <1>1, <1>2, <1>3

\* A repository listed, a document begun, a document read: what is ahead is less.
LEMMA ListedFollowed ==
  ASSUME SyncTyped, NEW s \in Syncs, Listed(s), Followed(run[s]), RunTyped(run'[s])
  PROVE  Followed(run'[s])
<1>. DEFINE r == run[s]
            q == run'[s]
            d == Head(r.walk)
<1>0. RunTyped(r) /\ kind \in {"notion", "repo"} /\ r.at = "list"
  BY DEF SyncTyped, SourceTyped, Listed
<1>1. Ahead(r) /\ \A p \in ToSet(r.snaps) : Good(r, p.item) => Right(p)
  BY <1>0 DEF Followed, ReadingRight, ReadingAt
<1>2. kind = "repo" /\ r.todo = <<>> /\ r.walk \in Seq(Repos) /\ r.walk # <<>>
  BY <1>0, <1>1 DEF RunTyped, Ahead
<1>3. d \in Repos /\ ToSet(r.walk) = {d} \cup ToSet(Tail(r.walk)) /\ ToSet(r.todo) = {}
  <2>1. ToSet(r.todo) = {}
    BY <1>2, NothingIn
  <2>. QED BY <1>2, <2>1, HeadTail
<1>4. ToSet(There(Children[d])) = {i \in ToSet(Children[d]) : world[i].there}
  BY <1>3, ChildrenTyped
<1>5. /\ q.scope = r.scope /\ q.seen = r.seen /\ q.snaps = r.snaps /\ Placed(q)
      /\ q.walk = Tail(r.walk) /\ q.todo = There(Children[d])
  BY DEF Listed
<1>6. \A i : Good(q, i) <=> Good(r, i)
  BY <1>5 DEF Good
<1>7. Ahead(q)
  <2>1. ASSUME NEW i \in Items, Good(q, i)
        PROVE  IF world[i].there
               THEN \/ i \in q.seen \/ i \in ToSet(q.todo)
                    \/ \E e \in ToSet(q.walk) : i \in ToSet(Children[e])
               ELSE i \notin q.seen
    <3>1. IF world[i].there
          THEN i \in r.seen \/ \E e \in ToSet(r.walk) : i \in ToSet(Children[e])
          ELSE i \notin r.seen
      BY <1>1, <1>2, <1>3, <1>6, <2>1 DEF Ahead
    <3>. HIDE DEF q, r, d
    <3>. QED BY <1>3, <1>4, <1>5, <3>1
  <2>2. q.seen = {p.item : p \in ToSet(q.snaps)}
    BY <1>1, <1>5 DEF Ahead
  <2>. QED BY <1>2, <2>1, <2>2 DEF Ahead
<1>8. \A p \in ToSet(q.snaps) : Good(q, p.item) => Right(p)
  BY <1>1, <1>5, <1>6
<1>. HIDE DEF q, r
<1>. QED BY <1>0, <1>5, <1>7, <1>8, PlacedFollowed DEF q

LEMMA HalfFollowed ==
  ASSUME SyncTyped, NEW s \in Syncs, NEW p, Half(s, p), Followed(run[s]), world[p.item].there,
         \/ run'[s].at = "stamp" /\ p.stamp = world[p.item].stamp /\ p.status = StatusRead(run[s], p.item)
         \/ run'[s].at = "text" /\ p.text = world[p.item].text
  PROVE  Followed(run'[s])
<1>. DEFINE r == run[s]
            q == run'[s]
<1>0. /\ RunTyped(r) /\ kind \in {"notion", "repo"} /\ r.at = "item" /\ p.item = Head(r.todo)
      /\ q.todo = r.todo /\ q.walk = r.walk /\ q.scope = r.scope /\ q.seen = r.seen
      /\ q.snaps = r.snaps /\ q.failed = r.failed /\ q.reading = p
  BY DEF SyncTyped, SourceTyped, Half, Stays, Retains
<1>1. Ahead(r) /\ \A o \in ToSet(r.snaps) : Good(r, o.item) => Right(o)
  BY <1>0 DEF Followed, ReadingRight, ReadingAt
<1>2. \A i : Good(q, i) <=> Good(r, i)
  BY <1>0 DEF Good
<1>3. Ahead(q)
  BY <1>0, <1>1, <1>2 DEF Ahead
<1>4. Good(r, p.item) => StatusRead(r, p.item) = StatusNow(p.item)
  BY <1>0, <1>1, StatusIsRight DEF RunTyped
<1>5. ReadingRight(q) /\ q.at \in ReadingAt
  BY <1>0, <1>2, <1>3, <1>4 DEF ReadingRight, ReadingAt
<1>6. q.at \notin StoringAt \cup {"archive", "mark"}
  BY DEF StoringAt
<1>7. \A o \in ToSet(q.snaps) : Good(q, o.item) => Right(o)
  BY <1>0, <1>1, <1>2
<1>. HIDE DEF q
<1>8. Followed(q)
  BY <1>5, <1>6, <1>7 DEF Followed
<1>. QED BY <1>8 DEF q

LEMMA TookFollowed ==
  ASSUME SyncTyped, NEW s \in Syncs, NEW p, Took(s, p), Followed(run[s]), world[p.item].there,
         RunTyped(run'[s]), run[s].at \in {"stamp", "text"}, Good(run[s], p.item) => Right(p)
  PROVE  Followed(run'[s])
<1>. DEFINE r == run[s]
            q == run'[s]
            i == p.item
<1>0. /\ RunTyped(r) /\ kind \in {"notion", "repo"} /\ i = Head(r.todo)
      /\ q.walk = r.walk /\ q.scope = r.scope /\ Placed(q) /\ p \in Snapshot
      /\ q.snaps = Append(r.snaps, p) /\ q.seen = r.seen \cup {i} /\ q.todo = ToRead(r, i)
  BY DEF SyncTyped, SourceTyped, Took, Gained
<1>1. Ahead(r) /\ \A o \in ToSet(r.snaps) : Good(r, o.item) => Right(o)
  BY DEF Followed, ReadingRight, ReadingAt
<1>2. \A j : Good(q, j) <=> Good(r, j)
  BY <1>0 DEF Good
<1>3. /\ i \in Items /\ ToSet(r.todo) = {i} \cup ToSet(Tail(r.todo)) /\ Tail(r.todo) \in Seq(Items)
  BY <1>0, HeadTail DEF RunTyped
<1>4. ToSet(q.todo) = ToSet(Tail(r.todo)) \cup
        (IF kind = "repo" THEN {} ELSE {j \in ToSet(Children[i]) : world[j].there})
  <2>. DEFINE c == There(Children[i])
              t == Tail(r.todo)
  <2>1. c \in Seq(Items) /\ ToSet(c) = {j \in ToSet(Children[i]) : world[j].there} /\ t \in Seq(Items)
    BY <1>3, ChildrenTyped
  <2>4. q.todo = (IF kind = "repo" THEN <<>> ELSE c) \o t
    BY <1>0 DEF ToRead
  <2>. HIDE DEF c, t
  <2>2. CASE kind = "repo"
    <3>1. q.todo = t
      BY <2>1, <2>2, <2>4
    <3>. QED BY <2>2, <3>1 DEF t
  <2>3. CASE kind # "repo"
    <3>1. ToSet(q.todo) = ToSet(c) \cup ToSet(t)
      BY <2>1, <2>3, <2>4, ConcatElements
    <3>. QED BY <2>1, <2>3, <3>1 DEF t
  <2>. QED BY <2>2, <2>3
<1>5. ToSet(q.snaps) = ToSet(r.snaps) \cup {p}
  BY <1>0, AppendElements DEF RunTyped
<1>6. Ahead(q)
  <2>1. q.seen = {o.item : o \in ToSet(q.snaps)}
    BY <1>0, <1>1, <1>5 DEF Ahead
  <2>2. ASSUME kind = "notion", NEW j \in Items, Good(q, j)
        PROVE  j \in q.seen \/ From(j) \cap ToSet(q.todo) # {}
    <3>1. CASE j \in r.seen
      BY <1>0, <3>1
    <3>2. CASE j \notin r.seen
      <4>1. PICK h \in From(j) : h \in ToSet(r.todo)
        BY <1>1, <1>2, <2>2, <3>2 DEF Ahead
      <4>2. CASE h \in ToSet(Tail(r.todo))
        BY <1>4, <4>1, <4>2
      <4>3. CASE h = i /\ j = i
        BY <1>0, <4>3
      <4>4. CASE h = i /\ j # i
        <5>1. PICK c \in From(j) : c \in ToSet(Children[i])
          BY <2>2, <4>1, <4>4, NextDown DEF From
        <5>2. world[c].there
          BY <2>2, <5>1, GoodThere
        <5>. QED BY <1>4, <2>2, <5>1, <5>2
      <4>. QED BY <1>3, <4>1, <4>2, <4>3, <4>4
    <3>. QED BY <3>1, <3>2
  <2>3. ASSUME kind = "notion", NEW j \in ToSet(q.todo)
        PROVE  j = Root \/ \E o \in q.seen : j \in ToSet(Children[o])
    <3>1. CASE j \in ToSet(Tail(r.todo))
      BY <1>0, <1>1, <1>3, <2>3, <3>1 DEF Ahead
    <3>2. CASE j \in ToSet(Children[i])
      BY <1>0, <3>2
    <3>. QED BY <1>4, <2>3, <3>1, <3>2
  <2>4. kind = "notion" => q.walk = <<>>
    BY <1>0, <1>1 DEF Ahead
  <2>5. ASSUME kind = "repo", NEW j \in Items, Good(q, j)
        PROVE  IF world[j].there
               THEN \/ j \in q.seen \/ j \in ToSet(q.todo)
                    \/ \E d \in ToSet(q.walk) : j \in ToSet(Children[d])
               ELSE j \notin q.seen
    <3>1. IF world[j].there
          THEN \/ j \in r.seen \/ j \in ToSet(r.todo)
               \/ \E d \in ToSet(r.walk) : j \in ToSet(Children[d])
          ELSE j \notin r.seen
      BY <1>1, <1>2, <2>5 DEF Ahead
    <3>2. ToSet(q.todo) = ToSet(Tail(r.todo))
      BY <1>4, <2>5
    <3>. HIDE DEF q, r
    <3>. QED BY <1>0, <1>3, <3>1, <3>2
  <2>. HIDE DEF q, r, i
  <2>. QED BY <2>1, <2>2, <2>3, <2>4, <2>5 DEF Ahead
<1>7. \A o \in ToSet(q.snaps) : Good(q, o.item) => Right(o)
  BY <1>1, <1>2, <1>5
<1>8. kind \in {"notion", "repo"} /\ Placed(q) /\ RunTyped(q)
  BY <1>0
<1>. HIDE DEF q, r, i
<1>9. Followed(q)
  BY <1>6, <1>7, <1>8, PlacedFollowed
<1>. QED BY <1>9 DEF q

\* What is skipped is stored as it is.
LEMMA SkippedCurrent ==
  ASSUME SyncTyped, NewestKnown, NEW r, NEW p \in Snapshot, Good(r, p.item), Right(p), world[p.item].there,
         Skipped(docs[p.item], p)
  PROVE  UpToDate(p.item)
<1>. DEFINE i == p.item
            d == docs[i]
<1>0. i \in Items /\ d # None /\ d.status = p.status /\ kind \in {"notion", "repo"}
  BY DEF Snapshot, Skipped, SyncTyped, SourceTyped
<1>1. p.text = world[i].text /\ p.stamp = world[i].stamp /\ p.status = StatusNow(i)
  BY DEF Right
<1>2. CASE kind = "notion"
  <2>1. d.stamp >= p.stamp
    BY <1>2 DEF Skipped
  <2>2. NotNewer(d.stamp, d.text, i)
    BY <1>0, <1>2 DEF NewestKnown
  <2>3. d.stamp \in Nat /\ world[i].stamp \in Nat
    BY <1>0 DEF SyncTyped, SourceTyped, Document
  <2>4. d.stamp = world[i].stamp /\ d.text = world[i].text
    BY <1>1, <2>1, <2>2, <2>3 DEF NotNewer
  <2>. QED BY <1>0, <1>1, <2>4 DEF UpToDate
<1>3. CASE kind = "repo"
  <2>1. StatusNow(i) = world[i].status
    BY <1>3 DEF StatusNow, From
  <2>2. p.status # "archived"
    BY <1>0, <1>1, <1>3, <2>1 DEF Good, Left, SyncTyped, SourceTyped
  <2>3. d.text = p.text
    BY <1>3, <2>2 DEF Skipped
  <2>. QED BY <1>0, <1>1, <1>3, <2>3 DEF UpToDate
<1>. QED BY <1>0, <1>2, <1>3

\* A document whose row keeps what it says of its item.
LEMMA CurrentStays ==
  ASSUME NEW i \in Items, UNCHANGED <<kind, world>>, docs[i] # None => docs'[i] # None,
         \/ docs'[i] = docs[i]
         \/ /\ docs[i] # None /\ docs'[i].status = docs[i].status
            /\ docs'[i].text = docs[i].text /\ docs'[i].stamp = docs[i].stamp
  PROVE  UpToDate(i) => UpToDate(i)'
BY DEF UpToDate, StatusNow, From

\* What is stored of an item that was read rightly is what it is.
LEMMA StoredCurrent ==
  ASSUME UNCHANGED <<kind, world>>, NEW p \in Snapshot, Right(p), world[p.item].there,
         docs'[p.item] = DocumentRow(p)
  PROVE  UpToDate(p.item)'
<1>1. DocumentRow(p) \in Document /\ None \notin Document
  BY SyncAssumption DEF DocumentRow, NewIndexStatus, Document, Snapshot
<1>2. DocumentRow(p).status = p.status /\ DocumentRow(p).text = p.text /\ DocumentRow(p).stamp = p.stamp
  BY DEF DocumentRow
<1>3. StatusNow(p.item)' = StatusNow(p.item)
  BY DEF StatusNow, From
<1>. QED BY <1>1, <1>2, <1>3 DEF UpToDate, Right

\* A document stored, or found to be as it is, leaves the others as they are.
LEMMA StoringFollowed ==
  ASSUME SyncTyped, NewestKnown, NEW s \in Syncs, Followed(run[s]),
         UNCHANGED <<kind, world, touched>>,
         Found(s) \/ Upserted(s) \/ Indexing(s) \/ Indexed(s) \/ Failed(s)
  PROVE  Followed(run[s])'
<1>. DEFINE r == run[s]
<1>0. PICK p \in Snapshot, i \in Items :
        /\ RunTyped(r) /\ r.at \in StoringAt /\ r.snaps # <<>>
        /\ ToSet(r.snaps) = {p} \cup ToSet(Tail(r.snaps)) /\ p = Head(r.snaps)
        /\ p = Snap(s) /\ i = p.item
  <2>1. RunTyped(r) /\ r.at \in StoringAt
    BY DEF SyncTyped, StoringAt, Found, Upserted, Indexing, Indexed, Failed
  <2>2. r.snaps # <<>>
    BY <2>1 DEF RunTyped
  <2>. QED BY <2>1, <2>2, Turn DEF Snap
<1>1. \A j : Good(run[s], j)' <=> Good(run'[s], j)
  BY DEF Good, Left, From
<1>2. /\ run'[s].scope = r.scope /\ run'[s].seen = r.seen
      /\ run'[s].failed \in {r.failed, TRUE}
      /\ \/ run'[s].snaps = r.snaps
         \/ run'[s].snaps = Tail(r.snaps) /\ Passed(run'[s], r)
  BY DEF Found, Upserted, Indexing, Indexed, Failed, Stays, Passed, Retains
<1>3. \A j : Good(run[s], j)' <=> Good(r, j)
  BY <1>2 DEF Good, Left, From
<1>4. ToSet(run'[s].snaps) \subseteq ToSet(r.snaps)
  BY <1>0, <1>2
<1>5. \A o \in ToSet(run'[s].snaps) : Good(run[s], o.item)' => Right(o)'
  <2>1. \A o : Right(o)' <=> Right(o)
    BY DEF Right, StatusNow, From
  <2>. QED BY <1>3, <1>4, <2>1 DEF Followed
<1>6. run'[s].at \notin ReadingAt
  BY <1>2 DEF Found, Upserted, Indexing, Indexed, Failed, Passed, Stored, ReadingAt
<1>7. ASSUME ~run'[s].failed PROVE StoringRight(run[s])'
  <2>0. StoringRight(r) /\ ~Failed(s)
    BY <1>0, <1>2, <1>7 DEF Followed, RunTyped, Failed
  <2>1. ASSUME NEW j \in Items, Good(r, j), world[j].there, UpToDate(j) PROVE UpToDate(j)'
    <3>1. CASE docs'[j] = docs[j]
      BY <2>1, <3>1, CurrentStays
    <3>2. CASE Upserted(s) /\ j = i
      <4>1. docs'[i] = DocumentRow(p)
        BY <1>0, <3>2 DEF Upserted, SyncTyped
      <4>2. Right(p)
        BY <1>0, <2>1, <3>2 DEF Followed
      <4>. QED BY <1>0, <2>1, <3>2, <4>1, <4>2, StoredCurrent
    <3>3. CASE Indexed(s) /\ j = i
      <4>1. docs[j] \in Document
        BY <1>0, <3>3 DEF Indexed, RunTyped, SyncTyped, Snap
      <4>2. docs'[j] = [docs[j] EXCEPT !.index = run[s].outcome]
        BY <1>0, <3>3 DEF Indexed, SyncTyped
      <4>3. docs'[j].status = docs[j].status /\ docs'[j].text = docs[j].text
            /\ docs'[j].stamp = docs[j].stamp /\ docs'[j] \in Document
        <5>1. run[s].outcome \in {"indexed", "failed"}
          BY <1>0, <3>3 DEF Indexed, RunTyped
        <5>. QED BY <4>1, <4>2, <5>1 DEF Document
      <4>. QED BY <2>1, <4>1, <4>3, SyncAssumption, CurrentStays
    <3>4. CASE (Upserted(s) \/ Indexed(s)) /\ j # i
      BY <1>0, <3>1, <3>4 DEF Upserted, Indexed, SyncTyped
    <3>. QED BY <2>0, <3>1, <3>2, <3>3, <3>4 DEF Found, Indexing
  <2>2. ASSUME Good(r, i) PROVE world[i].there /\ Right(p)
    BY <1>0, <2>0, <2>2 DEF StoringRight, Followed
  <2>3. ASSUME Good(r, i), Passed(run'[s], r) \/ run'[s].at \in {"embed", "persist", "status"}
        PROVE  UpToDate(i)'
    <3>1. CASE Found(s)
      <4>1. Skipped(docs[i], p)
        BY <1>0, <2>3, <3>1 DEF Found, Passed, Stored
      <4>2. UpToDate(i)
        BY <1>0, <2>2, <2>3, <4>1, SkippedCurrent
      <4>. QED BY <1>0, <2>1, <2>2, <2>3, <4>2
    <3>2. CASE Upserted(s)
      <4>1. docs'[i] = DocumentRow(p)
        BY <1>0, <3>2 DEF Upserted, SyncTyped
      <4>. QED BY <1>0, <2>2, <2>3, <4>1, StoredCurrent
    <3>3. CASE Indexing(s) \/ Indexed(s)
      <4>1. UpToDate(i)
        BY <1>0, <2>0, <2>3, <3>3 DEF Indexing, Indexed, StoringRight
      <4>. QED BY <1>0, <2>1, <2>2, <2>3, <4>1
    <3>. QED BY <2>0, <3>1, <3>2, <3>3
  <2>4. ASSUME NEW j \in Items, Good(r, j), world[j].there
        PROVE  j \in r.seen /\ (UpToDate(j)' \/ \E o \in ToSet(run'[s].snaps) : o.item = j)
    <3>1. j \in r.seen /\ (UpToDate(j) \/ \E o \in ToSet(r.snaps) : o.item = j)
      BY <2>0, <2>4 DEF StoringRight
    <3>2. CASE run'[s].snaps = r.snaps
      BY <2>1, <2>4, <3>1, <3>2
    <3>3. CASE run'[s].snaps = Tail(r.snaps) /\ Passed(run'[s], r)
      <4>1. CASE j = i
        BY <2>3, <2>4, <3>1, <3>3, <4>1
      <4>2. CASE j # i
        BY <1>0, <2>1, <2>4, <3>1, <3>3, <4>2
      <4>. QED BY <4>1, <4>2
    <3>. QED BY <1>2, <3>2, <3>3
  <2>5. ASSUME NEW j \in Items, Good(r, j), ~world[j].there
        PROVE  j \notin r.seen /\ run'[s].at # "mark"
    <3>1. kind = "repo"
      BY <2>5, GoodThere, FromTyped DEF SyncTyped, SourceTyped
    <3>2. run'[s].at # "mark"
      BY <2>0, <3>1 DEF Found, Upserted, Indexing, Indexed, Passed, Stored
    <3>. QED BY <2>0, <2>5, <3>2 DEF StoringRight
  <2>6. ASSUME run'[s].at \in {"embed", "persist", "status"} PROVE run'[s].snaps = r.snaps
    BY <2>0, <2>6 DEF Found, Upserted, Indexing, Indexed, Passed, Stays, Stored
  <2>7. \A o \in ToSet(run'[s].snaps) : o.item \in run'[s].seen
    BY <1>2, <1>4, <2>0 DEF StoringRight
  <2>8. run'[s].at \in {"embed", "persist", "status"} =>
          (Good(run[s], Head(run[s].snaps).item)' => UpToDate(Head(run[s].snaps).item)')
    <3>. SUFFICES ASSUME run'[s].at \in {"embed", "persist", "status"},
                         Good(run[s], Head(run[s].snaps).item)'
                  PROVE  UpToDate(Head(run[s].snaps).item)'
      OBVIOUS
    <3>1. Head(run'[s].snaps).item = i
      BY <1>0, <2>6
    <3>2. Good(run[s], i)'
      BY <3>1 DEF Good, Left, From
    <3>3. UpToDate(i)'
      BY <1>3, <2>3, <3>2
    <3>. QED BY <3>1, <3>3 DEF UpToDate, StatusNow, From
  <2>9. \A j \in Items : Good(run[s], j)' =>
          IF world'[j].there
          THEN j \in run'[s].seen /\ (UpToDate(j)' \/ \E o \in ToSet(run'[s].snaps) : o.item = j)
          ELSE j \notin run'[s].seen /\ (run'[s].at = "mark" => UpToDate(j)')
    BY <1>2, <1>3, <2>4, <2>5
  <2>. QED BY <2>7, <2>8, <2>9 DEF StoringRight
<1>. QED BY <1>5, <1>6, <1>7 DEF Followed

\* What the repositories selected no longer have is archived, and nothing else.
LEMMA ArchivedFollowed ==
  ASSUME SyncTyped, NEW s \in Syncs, Followed(run[s]), UNCHANGED <<kind, world, touched>>, Archived(s)
  PROVE  Followed(run[s])'
<1>. DEFINE r == run[s]
<1>0. /\ RunTyped(r) /\ r.at = "archive" /\ kind = "repo" /\ r.snaps = <<>> /\ run'[s].at = "mark"
      /\ run'[s].snaps = <<>> /\ run'[s].scope = r.scope /\ run'[s].seen = r.seen
      /\ run'[s].failed = r.failed
  BY DEF SyncTyped, Archived, RunTyped, Stays, Retains
<1>1. \A j : Good(run[s], j)' <=> Good(r, j)
  BY <1>0 DEF Good, Left, From
<1>2. ToSet(run'[s].snaps) = {} /\ ToSet(r.snaps) = {}
  BY <1>0, NothingIn
<1>3. ASSUME ~run'[s].failed PROVE StoringRight(run[s])'
  <2>0. StoringRight(r)
    BY <1>0, <1>3 DEF Followed
  <2>1. ASSUME NEW i \in Items, Good(r, i)
        PROVE  IF world[i].there THEN i \in r.seen /\ UpToDate(i)' ELSE i \notin r.seen /\ UpToDate(i)'
    <3>. DEFINE files == UNION {ToSet(Children[d]) : d \in r.scope}
    <3>1. docs'[i] = IF docs[i] # None /\ docs[i].status = "active" /\ i \in files \ r.seen
                     THEN [docs[i] EXCEPT !.status = "archived", !.index = "pending"]
                     ELSE docs[i]
      BY DEF Archived, ArchiveMissing
    <3>2. i \in files
      BY <1>0, <2>1 DEF Good
    <3>. HIDE DEF files
    <3>3. CASE world[i].there
      <4>1. i \in r.seen /\ UpToDate(i)
        BY <1>2, <2>0, <2>1, <3>3 DEF StoringRight
      <4>2. docs'[i] = docs[i]
        BY <3>1, <4>1
      <4>. QED BY <3>3, <4>1, <4>2, CurrentStays
    <3>4. CASE ~world[i].there
      <4>1. i \notin r.seen
        BY <2>0, <2>1, <3>4 DEF StoringRight
      <4>2. docs'[i] # None => docs'[i].status # "active"
        <5>1. docs[i] \in Document \cup {None}
          BY DEF SyncTyped
        <5>. QED BY <3>1, <3>2, <4>1, <5>1 DEF Document
      <4>. QED BY <3>4, <4>1, <4>2 DEF UpToDate
    <3>. QED BY <3>3, <3>4
  <2>2. \A j \in Items : Good(run[s], j)' =>
          IF world'[j].there
          THEN j \in run'[s].seen /\ UpToDate(j)'
          ELSE j \notin run'[s].seen /\ UpToDate(j)'
    BY <1>0, <1>1, <2>1
  <2>. QED BY <1>0, <1>2, <2>2 DEF StoringRight
<1>. QED BY <1>0, <1>2, <1>3 DEF Followed, ReadingAt

\* At first nothing is seen and everything is ahead.
LEMMA BegunFollowed ==
  ASSUME SyncTyped, NEW s \in Syncs, Begun(s), UNCHANGED <<kind, world>>, RunTyped(run[s])'
  PROVE  Followed(run[s])'
<1>1. run'[s].snaps = <<>> /\ run'[s].seen = {} /\ ToSet(run'[s].snaps) = {} /\ kind \in {"notion", "repo"}
  BY NothingIn DEF Begun, SyncTyped, SourceTyped
<1>2. CASE kind = "notion"
  <2>1. run'[s].at = "item" /\ run'[s].walk = <<>> /\ run'[s].todo = <<Root>>
    BY <1>2 DEF Begun
  <2>2. ToSet(run'[s].todo) = {Root}
    BY <2>1 DEF ToSet
  <2>3. Ahead(run[s])'
    BY <1>1, <1>2, <2>1, <2>2 DEF Ahead, Good
  <2>. QED BY <1>1, <2>1, <2>3 DEF Followed, ReadingRight, StoringAt
<1>3. CASE kind = "repo"
  <2>1. /\ run'[s].at = "list" /\ run'[s].walk = SetToSeq(run'[s].scope) /\ run'[s].scope \subseteq Repos
    BY <1>3 DEF Begun
  <2>2. ToSet(run'[s].walk) = run'[s].scope
    <3>1. IsFiniteSet(run'[s].scope)
      BY <2>1, SyncAssumption, FS_Subset
    <3>. QED BY <2>1, <3>1, Walked
  <2>3. Ahead(run[s])'
    BY <1>1, <1>3, <2>2 DEF Ahead, Good
  <2>. QED BY <1>1, <2>1, <2>3 DEF Followed, ReadingRight, StoringAt
<1>. QED BY <1>1, <1>2, <1>3

\* An edit takes an item, and the pages under it, out of what is answered for.
LEMMA EditFollowed ==
  ASSUME SyncTyped, SourceStep, UNCHANGED <<docs, run>>, NEW s \in Syncs, Followed(run[s])
  PROVE  Followed(run[s])'
<1>0. PICK j \in Items : touched' = touched \cup {j} /\ \A k \in Items \ {j} : world'[k] = world[k]
  BY SourceItem DEF SyncTyped
<1>1. kind' = kind /\ kind \in {"notion", "repo"} /\ RunTyped(run[s])
  BY SourceItem DEF SyncTyped, SourceTyped
<1>2. ASSUME NEW i \in Items, Good(run[s], i)'
      PROVE  /\ Good(run[s], i) /\ world'[i] = world[i] /\ StatusNow(i)' = StatusNow(i)
             /\ UpToDate(i)' <=> UpToDate(i)
  <2>1. From(i)' = From(i)
    BY <1>1 DEF From
  <2>2. From(i) \cap touched = {} /\ \A k \in From(i) : world'[k] = world[k]
    BY <1>0, <1>2, <2>1, FromTyped DEF Good
  <2>3. i \in From(i)
    BY FromTyped
  <2>4. StatusNow(i)' = StatusNow(i)
    BY <2>1, <2>2, <2>3 DEF StatusNow
  <2>5. Left(i)' <=> Left(i)
    BY <1>1, <2>1, <2>2 DEF Left
  <2>6. Good(run[s], i)
    BY <1>1, <1>2, <2>1, <2>2, <2>5 DEF Good
  <2>. QED BY <1>1, <2>2, <2>3, <2>4, <2>6 DEF UpToDate
<1>3. ASSUME NEW p \in ToSet(run[s].snaps), Good(run[s], p.item)' PROVE Right(p)'
  BY <1>1, <1>2, <1>3, SnapsTyped DEF Followed, Right
<1>4. ASSUME run[s].at \in ReadingAt PROVE ReadingRight(run[s])'
  <2>1. ReadingRight(run[s])
    BY <1>4 DEF Followed
  <2>2. ASSUME run[s].at \in {"stamp", "text"} PROVE run[s].reading.item \in Items
    BY <1>1, <2>2 DEF RunTyped, Partial
  <2>3. Ahead(run[s])'
    <3>1. Ahead(run[s])
      BY <2>1 DEF ReadingRight
    <3>2. \A i : From(i)' = From(i)
      BY <1>1 DEF From
    <3>. QED BY <1>1, <1>2, <3>1, <3>2 DEF Ahead
  <2>4. run[s].at = "stamp" /\ Good(run[s], run[s].reading.item)' =>
          /\ run[s].reading.stamp = world'[run[s].reading.item].stamp
          /\ run[s].reading.status = StatusNow(run[s].reading.item)'
    BY <1>2, <2>1, <2>2 DEF ReadingRight
  <2>5. run[s].at = "text" /\ Good(run[s], run[s].reading.item)' =>
          run[s].reading.text = world'[run[s].reading.item].text
    BY <1>2, <2>1, <2>2 DEF ReadingRight
  <2>. QED BY <2>3, <2>4, <2>5 DEF ReadingRight
<1>5. ASSUME StoringRight(run[s]), run[s].at \in StoringAt \cup {"archive", "mark"}
      PROVE  StoringRight(run[s])'
  <2>1. run[s].at \in {"embed", "persist", "status"} => Head(run[s].snaps).item \in Items
    BY <1>1, Turn DEF RunTyped, StoringAt
  <2>. QED BY <1>2, <1>5, <2>1 DEF StoringRight
<1>. QED BY <1>3, <1>4, <1>5 DEF Followed

\* Where a step leaves the source and the documents as they are.
LEMMA FollowedKept ==
  ASSUME UNCHANGED <<kind, world, docs, touched>>, NEW s \in Syncs, Followed(run'[s])
  PROVE  Followed(run[s])'
<1>1. \A i : From(i)' = From(i)
  BY DEF From
<1>2. \A i : StatusNow(i)' = StatusNow(i)
  BY <1>1 DEF StatusNow
<1>3. \A i : UpToDate(i)' <=> UpToDate(i)
  BY <1>2 DEF UpToDate
<1>4. \A i : Good(run[s], i)' <=> Good(run'[s], i)
  BY <1>1 DEF Good, Left
<1>5. StoringRight(run'[s]) => StoringRight(run[s])'
  BY <1>3, <1>4 DEF StoringRight
<1>6. ReadingRight(run'[s]) => ReadingRight(run[s])'
  BY <1>1, <1>2, <1>4 DEF ReadingRight, Ahead
<1>. QED BY <1>2, <1>4, <1>5, <1>6 DEF Followed, Right

\* A process goes on as it is answered for.
LEMMA FollowedStep ==
  ASSUME SyncTyped, NewestKnown, NEW s \in Syncs, Moved(s), UNCHANGED <<kind, clock, world>>,
         RunTyped(run[s])', Begun(s) \/ (UNCHANGED touched /\ Followed(run[s])), run'[s].at # "idle"
  PROVE  Followed(run[s])'
<1>1. CASE Begun(s)
  BY <1>1, BegunFollowed
<1>. SUFFICES ASSUME UNCHANGED touched, Followed(run[s]) PROVE Followed(run[s])'
  BY <1>1
<1>0. RunTyped(run'[s]) \/ ~UNCHANGED docs
  BY DEF RunTyped
<1>2. CASE UNCHANGED docs /\ Followed(run'[s])
  BY <1>2, FollowedKept
<1>3. CASE UNCHANGED docs /\ Listed(s)
  BY <1>0, <1>2, <1>3, ListedFollowed
<1>4. ASSUME UNCHANGED docs, NEW p, Stamped(s, p) PROVE Followed(run'[s])
  <2>1. CASE Half(s, p) /\ run'[s].at = "stamp"
    BY <1>4, <2>1, HalfFollowed DEF Stamped
  <2>2. CASE Took(s, p) /\ run[s].at = "text" /\ p.text = run[s].reading.text
    <3>1. RunTyped(run[s]) /\ run[s].reading.item = p.item /\ kind = "repo" /\ run[s].todo # <<>>
          /\ p.item = Head(run[s].todo)
      BY <2>2 DEF SyncTyped, RunTyped, Took
    <3>2. ReadingRight(run[s])
      BY <2>2 DEF Followed, ReadingAt
    <3>3. Good(run[s], p.item) => p.text = world[p.item].text
      BY <2>2, <3>1, <3>2 DEF ReadingRight
    <3>4. p.stamp = world[p.item].stamp /\ p.status = StatusRead(run[s], p.item) /\ world[p.item].there
      BY <1>4 DEF Stamped
    <3>5. Good(run[s], p.item) => p.status = StatusNow(p.item)
      BY <3>1, <3>4 DEF StatusRead, StatusNow, From
    <3>. QED BY <1>0, <1>4, <2>2, <3>3, <3>4, <3>5, TookFollowed DEF Right
  <2>. QED BY <1>4, <2>1, <2>2 DEF Stamped
<1>5. ASSUME UNCHANGED docs, NEW p, Copied(s, p) PROVE Followed(run'[s])
  <2>1. CASE Half(s, p) /\ run'[s].at = "text"
    BY <1>5, <2>1, HalfFollowed DEF Copied
  <2>2. CASE /\ Took(s, p) /\ run[s].at = "stamp"
             /\ p.stamp = run[s].reading.stamp /\ p.status = run[s].reading.status
    <3>1. RunTyped(run[s]) /\ run[s].reading.item = p.item
      BY <2>2 DEF SyncTyped, RunTyped, Took
    <3>2. ReadingRight(run[s])
      BY <2>2 DEF Followed, ReadingAt
    <3>3. Good(run[s], p.item) => p.stamp = world[p.item].stamp /\ p.status = StatusNow(p.item)
      BY <2>2, <3>1, <3>2 DEF ReadingRight
    <3>4. p.text = world[p.item].text /\ world[p.item].there
      BY <1>5 DEF Copied
    <3>. QED BY <1>0, <1>5, <2>2, <3>3, <3>4, TookFollowed DEF Right
  <2>. QED BY <1>5, <2>1, <2>2 DEF Copied
<1>6. CASE Found(s) \/ Upserted(s) \/ Indexing(s) \/ Indexed(s) \/ Failed(s)
  BY <1>6, StoringFollowed
<1>7. CASE Archived(s)
  BY <1>7, ArchivedFollowed
<1>8. ~Ended(s)
  BY DEF Ended, Idle
<1>. QED BY <1>1, <1>2, <1>3, <1>4, <1>5, <1>6, <1>7, <1>8 DEF Moved

LEMMA QuietStep ==
  ASSUME RunsSound, SyncTyped, NewestKnown, QuietInv, [Next]_vars
  PROVE  QuietInv'
<1>1. CASE UNCHANGED <<kind, clock, world, docs, run, sole, touched>>
  <2>1. \A s \in Syncs : Followed(run[s]) => Followed(run[s])'
    BY <1>1, FollowedKept
  <2>. QED BY <1>1, <2>1 DEF QuietInv
<1>2. CASE SourceStep /\ UNCHANGED <<docs, run, sole>>
  <2>1. \A s \in Syncs : Followed(run[s]) => Followed(run[s])'
    BY <1>2, EditFollowed
  <2>. QED BY <1>2, <2>1 DEF QuietInv
<1>3. ASSUME NEW t \in Syncs, SyncStep(t) \/ Upsert(t), UNCHANGED <<kind, clock, world>>
      PROVE  QuietInv'
  <2>. SUFFICES ASSUME NEW s \in Syncs, sole' = s
                PROVE  /\ \A u \in Syncs \ {s} : run'[u].at = "idle"
                       /\ run'[s].at # "idle" => Followed(run[s])'
    BY DEF QuietInv
  <2>1. Moved(t) /\ RunTyped(run[t])'
    BY <1>3, Moves, SyncTypedStep DEF SyncTyped
  <2>2. \A u \in Syncs \ {t} : run'[u] = run[u]
    BY <1>3, RunStep DEF RunsSound
  <2>3. CASE Begun(t)
    <3>1. s = t /\ \A u \in Syncs \ {t} : run[u].at = "idle"
      BY <2>3, SyncAssumption DEF Begun
    <3>. QED BY <1>3, <2>1, <2>2, <2>3, <3>1, FollowedStep
  <2>4. CASE ~Begun(t)
    <3>1. UNCHANGED <<sole, touched>>
      BY <2>1, <2>4 DEF Moved, Ended
    <3>2. run[t].at # "idle"
      <4>1. Begin(t) => Begun(t)
        BY BeginMove DEF SyncTyped
      <4>. QED BY <1>3, <2>4, <4>1, RunStep
    <3>3. s = t /\ (\A u \in Syncs \ {s} : run[u].at = "idle") /\ Followed(run[s])
      BY <3>1, <3>2 DEF QuietInv
    <3>. QED BY <1>3, <2>1, <2>2, <3>1, <3>3, FollowedStep
  <2>. QED BY <2>3, <2>4
<1>. QED BY <1>1, <1>2, <1>3, StepCases

LEMMA QuietInit == Init => SyncTyped /\ NewestKnown /\ QuietInv
<1>. SUFFICES ASSUME Init PROVE NewestKnown /\ QuietInv
  BY SyncTypedInit
<1>1. \A s \in Syncs : run[s] = Idle
  BY DEF Init, SyncInit
<1>2. \A i \in Items : docs[i] = None
  BY DEF Init, SyncInit
<1>3. Idle.at = "idle" /\ ToSet(Idle.snaps) = {}
  BY NothingIn DEF Idle
<1>. QED BY <1>1, <1>2, <1>3 DEF NewestKnown, QuietInv

\* At its end nothing is left to store, so that what it answers for is stored.
LEMMA QuietSoCurrent ==
  ASSUME SyncTyped, QuietInv
  PROVE  QuietSyncCurrent
<1>. SUFFICES ASSUME NEW s \in Syncs, run[s].at = "mark", sole = s, ~run[s].failed,
                     NEW i \in Items, InReach(s, i), From(i) \cap touched = {}, ~Left(i)
              PROVE  UpToDate(i)
  BY DEF QuietSyncCurrent
<1>1. StoringRight(run[s])
  BY DEF QuietInv, Followed
<1>2. ToSet(run[s].snaps) = {}
  BY NothingIn DEF SyncTyped, RunTyped
<1>3. Good(run[s], i)
  BY DEF Good, InReach
<1>. QED BY <1>1, <1>2, <1>3 DEF StoringRight

\* The source, the rows and the runs have their types, and each run has what the step
\* it is at needs: a page to read, a snapshot to store, a document to index
\* (runNotionSync, runLocalRepoSync).
THEOREM ConnectorTypes == Spec => []SyncTyped
<1>1. SyncInv /\ SyncTyped /\ [Next]_vars => SyncTyped'
  BY SyncTypedStep DEF SyncInv
<1>. QED BY SyncTypedInit, ConnectorInvariant, <1>1, PTL DEF Spec

\* Of a page no snapshot and no row has a stamp newer than the page, and what has its
\* stamp has its text: the record of a page is read before its blocks, so that an
\* edit between the two leaves an older stamp, and the page is read again.
THEOREM NothingNewerIsKnown == Spec => []NewestKnown
<1>1. SyncInv /\ SyncTyped /\ NewestKnown /\ [Next]_vars => NewestKnown'
  BY NewestKnownStep DEF SyncInv
<1>. QED BY QuietInit, ConnectorInvariant, ConnectorTypes, <1>1, PTL DEF Spec

\* A process that had the store to itself and ends without a failure leaves, of what
\* it may find and nobody touched since it began, every page and file stored as it is
\* now, its status with those of the pages over it, and what is gone archived:
\* whatever earlier processes left half done, skipped items included
\* (shouldSkipStaleDocument, determineStatus, archiveMissingDocuments).
THEOREM QuietSyncsAreCurrent == Spec => []QuietSyncCurrent
<1>1. SyncInv /\ SyncTyped /\ NewestKnown /\ QuietInv /\ [Next]_vars => QuietInv'
  BY QuietStep DEF SyncInv
<1>2. SyncTyped /\ QuietInv => QuietSyncCurrent
  BY QuietSoCurrent
<1>. QED BY QuietInit, ConnectorInvariant, ConnectorTypes, NothingNewerIsKnown, <1>1, <1>2, PTL DEF Spec

-----------------------------------------------------------------------------
(* The chunks of a document and its text                                    *)

\* A place holds one chunk.
PlacedOnce == \A i \in Items : \A c, d \in chunks[i] : c.place = d.place => c = d

LEMMA PlacedStep ==
  ASSUME SyncInv, PlacedOnce, NEW s \in Syncs, SyncStep(s) \/ Upsert(s)
  PROVE  PlacedOnce'
<1>. SUFFICES ASSUME NEW i \in Items
              PROVE  \A c, d \in chunks'[i] : c.place = d.place => c = d
  BY DEF PlacedOnce
<1>0. RowsSound /\ \A c, d \in chunks[i] : c.place = d.place => c = d
  BY DEF SyncInv, PlacedOnce
<1>1. CASE chunks'[i] = chunks[i]
  BY <1>0, <1>1
<1>2. CASE Upsert(s)
  <2>1. \A text : \A c, d \in Rows(i, text) : c.place = d.place => c = d
    BY DEF Rows
  <2>. QED BY <1>0, <1>1, <1>2, <2>1, UpsertRows
<1>3. CASE Persist(s) /\ chunks'[i] # chunks[i]
  <2>. DEFINE vectored(c) == Vectored(c, run[s].vectors, run[s].model)
  <2>1. Persisted(s)
    BY <1>3, PersistCases DEF NotPersisted
  <2>2. chunks'[i] = {vectored(c) : c \in chunks[i]}
    BY <1>0, <1>3, <2>1 DEF Persisted, RowsSound
  <2>3. \A c \in chunks[i] : vectored(c).place = c.place
    <3>1. ASSUME NEW c \in chunks[i] PROVE vectored(c).place = c.place
      <4>1. ChunkSound(c) /\ \A v \in run[s].vectors : v.of = v.id[3]
        BY <1>0 DEF SyncInv, RowsSound, RunsSound, RunSound
      <4>2. Plain(vectored(c)) = Plain(c)
        BY <4>1, VectoredSound
      <4>. HIDE DEF vectored
      <4>. QED BY <4>2 DEF Plain
    <3>. QED BY <3>1
  <2>. HIDE DEF vectored
  <2>. QED BY <1>0, <2>2, <2>3
<1>. QED BY <1>1, <1>2, <1>3, SyncWriters

\* The rows of a document are the chunks of its text, by their places.
LEMMA RowsOfText ==
  ASSUME SyncInv, PlacedOnce, NEW i \in Items, docs[i] # None, IsText(docs[i].text)
  PROVE  LET parts == ChunksOf(docs[i].text)
         IN /\ Contents(i) = ContentsOf(parts)
            /\ \A c \in chunks[i] :
                 \E k \in DOMAIN parts : c.path = parts[k].path /\ c.content = parts[k].content
<1>. DEFINE parts == ChunksOf(docs[i].text)
            rows == Rows(i, docs[i].text)
            C == chunks[i]
<1>1. PICK n \in Nat : DOMAIN parts = 1 .. n
  BY ChunksRepeat
<1>2. {Plain(c) : c \in C} = {Plain(c) : c \in rows}
  BY DEF SyncInv, WholeRows, Whole
<1>3. /\ \A c \in rows : \E k \in 1 .. n :
           c.place = k /\ c.path = parts[k].path /\ c.content = parts[k].content
      /\ \A k \in 1 .. n : \E c \in rows : c.place = k /\ c.content = parts[k].content
  <2>. DEFINE row(k) == [id |-> ChunkId(i, k, parts[k].content), place |-> k, path |-> parts[k].path,
                         content |-> parts[k].content, of |-> None, by |-> None]
  <2>1. rows = {row(k) : k \in 1 .. n}
    BY <1>1 DEF Rows
  <2>2. \A k : row(k).place = k /\ row(k).path = parts[k].path /\ row(k).content = parts[k].content
    OBVIOUS
  <2>. HIDE DEF parts, rows, row
  <2>. QED BY <2>1, <2>2
<1>. HIDE DEF parts, rows
<1>4. ASSUME NEW c \in C
      PROVE  \E k \in 1 .. n : c.place = k /\ c.path = parts[k].path /\ c.content = parts[k].content
  <2>1. PICK d \in rows : Plain(c) = Plain(d)
    BY <1>2
  <2>2. c.place = d.place /\ c.path = d.path /\ c.content = d.content
    BY <2>1 DEF Plain
  <2>. QED BY <1>3, <2>2
<1>5. ASSUME NEW k \in 1 .. n PROVE \E c \in C : c.place = k /\ c.content = parts[k].content
  <2>1. PICK d \in rows : d.place = k /\ d.content = parts[k].content
    BY <1>3
  <2>2. PICK c \in C : Plain(c) = Plain(d)
    BY <1>2
  <2>3. c.place = d.place /\ c.content = d.content
    BY <2>2 DEF Plain
  <2>. QED BY <2>1, <2>3
<1>6. \A c, d \in C : c.place = d.place => c = d
  BY DEF PlacedOnce
<1>. HIDE DEF C
<1>7. Cardinality(C) = n
  <2>. DEFINE l == [c \in C |-> c.place]
  <2>1. l \in [C -> 1 .. n] /\ (\A c, d \in C : l[c] = l[d] => c = d) /\ \A k \in 1 .. n : \E c \in C : l[c] = k
    BY <1>4, <1>5, <1>6
  <2>. HIDE DEF l
  <2>. QED BY <2>1, Numbered
<1>. DEFINE at(k) == CHOOSE c \in C : c.place = k
<1>8. \A k \in 1 .. n : at(k).content = parts[k].content
  <2>. TAKE k \in 1 .. n
  <2>1. PICK c \in C : c.place = k /\ c.content = parts[k].content
    BY <1>5
  <2>2. at(k) \in C /\ at(k).place = k
    BY <2>1
  <2>. QED BY <1>6, <2>1, <2>2
<1>9. Contents(i) = [k \in 1 .. n |-> at(k).content]
  BY <1>7 DEF Contents, C
<1>. HIDE DEF at
<1>10. Contents(i) = ContentsOf(parts)
  BY <1>1, <1>8, <1>9 DEF ContentsOf
<1>. QED BY <1>1, <1>4, <1>10 DEF parts, C

\* What is stored as the text of a document is one.
LEMMA DocumentText ==
  ASSUME SyncTyped, NEW i \in Items, docs[i] # None
  PROVE  IsText(docs[i].text)
<1>1. docs[i] \in Document
  BY DEF SyncTyped
<1>2. docs[i].text \in Said
  BY <1>1 DEF Document
<1>. QED BY <1>2, SyncAssumption

\* Whoever replaced them last, at every place there is one chunk.
THEOREM OneChunkAPlace == Spec => []PlacedOnce
<1>1. Init => PlacedOnce
  BY DEF Init, SyncInit, PlacedOnce
<1>2. SyncInv /\ PlacedOnce /\ [Next]_vars => PlacedOnce'
  <2>. SUFFICES ASSUME SyncInv, PlacedOnce, [Next]_vars PROVE PlacedOnce'
    OBVIOUS
  <2>1. CASE UNCHANGED <<docs, chunks, run, overlapped>>
    BY <2>1 DEF PlacedOnce
  <2>. QED BY <2>1, NextCases, PlacedStep
<1>. QED BY <1>1, <1>2, ConnectorInvariant, PTL DEF Spec

\* The stored chunks of a document, in order, are its text, word for word, once the
\* tokens are left out which some of them share with the end of the full one before:
\* between sections, fences and windows nothing is lost, invented, moved or said twice
\* but that overlap, and no chunk is empty or longer than it may be
\* (parseMarkdownSectionsWithLocations, chunkDocument, replaceDocumentChunks).
THEOREM ChunksRepeatTheText == Spec => []ChunksRepeatText
<1>1. SyncInv /\ SyncTyped /\ PlacedOnce => ChunksRepeatText
  <2>. SUFFICES ASSUME SyncInv, SyncTyped, PlacedOnce, NEW i \in Items, docs[i] # None
                PROVE  RepeatsText(Contents(i), docs[i].text)
    BY DEF ChunksRepeatText
  <2>1. IsText(docs[i].text)
    BY DocumentText
  <2>2. Contents(i) = ContentsOf(ChunksOf(docs[i].text))
    BY <2>1, RowsOfText
  <2>. QED BY <2>1, <2>2, ChunksRepeat
<1>. QED BY <1>1, ConnectorInvariant, ConnectorTypes, OneChunkAPlace, PTL

\* Where no heading of a text skips a level, whatever a stored chunk of it says comes
\* from a line under the headings that are the chunk's path, and what stands in a
\* fence is no heading (parseMarkdownSectionsWithLocations, replaceDocumentChunks).
THEOREM ChunksAreFiledRightly == Spec => []ChunksHeaded
<1>1. SyncInv /\ SyncTyped /\ PlacedOnce => ChunksHeaded
  <2>. SUFFICES ASSUME SyncInv, SyncTyped, PlacedOnce, NEW i \in Items, docs[i] # None,
                       WellNested(docs[i].text), NEW c \in chunks[i]
                PROVE  UnderItsHeadings(c.path, c.content, docs[i].text)
    BY DEF ChunksHeaded, HeadedAsWritten
  <2>. DEFINE parts == ChunksOf(docs[i].text)
  <2>1. IsText(docs[i].text)
    BY DocumentText
  <2>2. PICK k \in DOMAIN parts : c.path = parts[k].path /\ c.content = parts[k].content
    BY <2>1, RowsOfText
  <2>3. UnderItsHeadings(parts[k].path, parts[k].content, docs[i].text)
    BY <2>1, ChunksUnderHeadings
  <2>. HIDE DEF parts
  <2>. QED BY <2>2, <2>3
<1>. QED BY <1>1, ConnectorInvariant, ConnectorTypes, OneChunkAPlace, PTL

-----------------------------------------------------------------------------
(* A request                                                                *)

LEMMA Excepting ==
  ASSUME NEW S, NEW f, f = [x \in S |-> f[x]], NEW y \in S, NEW v, NEW g, g = [f EXCEPT ![y] = v]
  PROVE  g = [x \in S |-> g[x]] /\ g[y] = v /\ \A x \in S \ {y} : g[x] = f[x]
OBVIOUS

\* What a request stores is its own.
Framed(q) ==
  /\ ask' = [r \in Requests |-> ask'[r]] /\ trace' = [r \in Requests |-> trace'[r]]
  /\ question' = [r \in Requests |-> question'[r]] /\ gap' = [r \in Requests |-> gap'[r]]
  /\ replaced' = [r \in Requests |-> replaced'[r]]
  /\ \A r \in Requests \ {q} :
       /\ ask'[r] = ask[r] /\ trace'[r] = trace[r] /\ question'[r] = question[r]
       /\ gap'[r] = gap[r] /\ replaced'[r] = replaced[r]

LEMMA RequestFrame ==
  ASSUME RequestsSound, NEW q \in Requests, RequestStep(q)
  PROVE  Framed(q)
<1>1. ask' = [r \in Requests |-> ask'[r]] /\ \A r \in Requests \ {q} : ask'[r] = ask[r]
  <2>1. PICK a : ask' = [ask EXCEPT ![q] = a]
    BY Zenon DEF RequestStep, Ask, Search, Fetch, StoreQuestion, Trace, StoreGap, Fail, To
  <2>. QED BY <2>1, Excepting DEF RequestsSound
<1>2. /\ trace' = [r \in Requests |-> trace'[r]] /\ \A r \in Requests \ {q} : trace'[r] = trace[r]
      /\ replaced' = [r \in Requests |-> replaced'[r]]
      /\ \A r \in Requests \ {q} : replaced'[r] = replaced[r]
  BY DEF RequestsSound, RequestStep, Ask, Search, Fetch, StoreQuestion, Trace, StoreGap, Fail
<1>3. /\ question' = [r \in Requests |-> question'[r]]
      /\ \A r \in Requests \ {q} : question'[r] = question[r]
      /\ gap' = [r \in Requests |-> gap'[r]] /\ \A r \in Requests \ {q} : gap'[r] = gap[r]
  BY DEF RequestsSound, RequestStep, Ask, Search, Fetch, StoreQuestion, Trace, StoreGap, Fail
<1>. QED BY <1>1, <1>2, <1>3 DEF Framed

LEMMA FoundSound ==
  ASSUME RowsSound, NEW ids
  PROVE  SourcesSound({[item |-> c.item, id |-> c.id, content |-> c.content] :
                         c \in {d \in Chunks : d.id \in ids}})
<1>1. \A c \in Chunks : c.item \in Items /\ c.id[3] = c.content
  BY DEF Chunks, RowsSound, ChunkSound
<1>. QED BY <1>1 DEF SourcesSound

\* What an action makes of a request, field by field.
LEMMA Asked ==
  ASSUME RequestsSound, NEW q \in Requests, NEW a, To(q, a)
  PROVE  ask'[q] = a
BY Excepting DEF RequestsSound, To

LEMMA AskStep ==
  ASSUME RowsSound, RequestsSound, NEW q \in Requests, RequestStep(q)
  PROVE  AskSound(q)'
<1>. DEFINE a == ask[q]
<1>0. /\ AskSound(q) /\ IsAsk(a) /\ q \in DOMAIN trace /\ q \in DOMAIN question /\ q \in DOMAIN gap
      /\ q \in DOMAIN replaced
  BY DEF RequestsSound, AskSound
<1>1. CASE Ask(q)
  <2>1. PICK m, k : ask'[q] = [NotAsked EXCEPT !.at = "search", !.model = m, !.topK = k]
    BY <1>1, Asked, Zenon DEF Ask
  <2>2. IsAsk(ask'[q]) /\ ask'[q].at = "search" /\ ask'[q].sources = {}
    BY <2>1 DEF NotAsked, IsAsk
  <2>3. a.at = "idle" /\ UNCHANGED <<question, trace, gap, replaced>>
    BY <1>1 DEF Ask
  <2>. QED BY <1>0, <2>2, <2>3 DEF AskSound, SourcesSound
<1>2. CASE Search(q)
  <2>1. PICK at \in {"store", "fetch"} : \E ids : ask'[q] = [a EXCEPT !.at = at, !.found = ids]
    BY <1>2, Asked, Zenon DEF Search
  <2>2. IsAsk(ask'[q]) /\ ask'[q].at = at /\ ask'[q].sources = a.sources
    BY <1>0, <2>1 DEF IsAsk
  <2>3. a.at = "search" /\ UNCHANGED <<question, trace, gap, replaced>>
    BY <1>2 DEF Search
  <2>. QED BY <1>0, <2>2, <2>3 DEF AskSound, SourcesSound
<1>3. CASE Fetch(q)
  <2>1. PICK sources : SourcesSound(sources) /\ ask'[q] = [a EXCEPT !.at = "store", !.sources = sources]
    BY <1>3, Asked, FoundSound, Zenon DEF Fetch
  <2>2. IsAsk(ask'[q]) /\ ask'[q].at = "store" /\ ask'[q].sources = sources
    BY <1>0, <2>1 DEF IsAsk
  <2>3. a.at = "fetch" /\ UNCHANGED <<question, trace, gap, replaced>>
    BY <1>3 DEF Fetch
  <2>. QED BY <1>0, <2>1, <2>2, <2>3 DEF AskSound, SourcesSound
<1>4. CASE StoreQuestion(q)
  <2>1. PICK answered \in MayBeAnswered(a.sources), confident \in BOOLEAN :
          /\ question' = [question EXCEPT ![q] = [answered |-> answered]]
          /\ ask'[q] = [a EXCEPT !.at = After("store", NeedsGap(answered, confident)),
                                 !.gap = NeedsGap(answered, confident),
                                 !.sources = IF answered THEN @ ELSE {}]
    BY <1>4, Asked, Zenon DEF StoreQuestion
  <2>2. answered \in BOOLEAN /\ (answered => a.sources # {})
    BY DEF MayBeAnswered
  <2>3. /\ IsAsk(ask'[q]) /\ ask'[q].at = "trace" /\ (ask'[q].gap \/ answered)
        /\ ask'[q].sources = IF answered THEN a.sources ELSE {}
    BY <1>0, <2>1, <2>2 DEF IsAsk, NeedsGap, After
  <2>4. question'[q] = [answered |-> answered] /\ question'[q] # None
    BY <1>0, <2>1, <2>2, ChatAssumption
  <2>5. a.at = "store" /\ UNCHANGED <<trace, gap, replaced>>
    BY <1>4 DEF StoreQuestion
  <2>6. (question'[q].answered => ask'[q].sources # {}) /\ (ask'[q].gap \/ question'[q].answered)
    BY <2>2, <2>3, <2>4
  <2>7. SourcesSound(ask'[q].sources) /\ SourcesSound(trace'[q]) /\ ~gap'[q]
    BY <1>0, <2>3, <2>5 DEF AskSound, SourcesSound
  <2>. QED BY <2>3, <2>4, <2>6, <2>7 DEF AskSound, SourcesSound
<1>5. CASE Trace(q)
  <2>1. CASE ask'[q] = [a EXCEPT !.at = "failed"] /\ UNCHANGED trace
    <3>1. /\ IsAsk(ask'[q]) /\ ask'[q].at = "failed" /\ ask'[q].sources = a.sources
          /\ a.at = "trace" /\ UNCHANGED <<question, gap>>
      BY <1>0, <1>5, <2>1 DEF IsAsk, Trace
    <3>. QED BY <1>0, <2>1, <3>1 DEF AskSound, SourcesSound
  <2>2. CASE ask'[q] = [a EXCEPT !.at = After("trace", a.gap)] /\ trace'[q] = a.sources
    <3>1. /\ IsAsk(ask'[q]) /\ ask'[q].sources = a.sources /\ ask'[q].gap = a.gap
          /\ ask'[q].at = IF a.gap THEN "gap" ELSE "answered"
      BY <1>0, <2>2 DEF IsAsk, After
    <3>2. replaced'[q] = {} /\ a.at = "trace" /\ UNCHANGED <<question, gap>>
      BY <1>0, <1>5 DEF Trace
    <3>. QED BY <1>0, <2>2, <3>1, <3>2 DEF AskSound, SourcesSound
  <2>3. CASE Traceable(a.sources)
    <3>1. To(q, [a EXCEPT !.at = After("trace", a.gap)]) /\ trace' = [trace EXCEPT ![q] = a.sources]
      BY <1>5, <2>3, Zenon DEF Trace
    <3>. QED BY <1>0, <2>2, <3>1, Asked, Zenon
  <2>4. CASE ~Traceable(a.sources)
    BY <1>5, <2>1, <2>4, Asked, Zenon DEF Trace
  <2>. QED BY <2>3, <2>4
<1>6. CASE StoreGap(q)
  <2>1. ask'[q] = [a EXCEPT !.at = After("gap", TRUE)]
    BY <1>6, Asked, Zenon DEF StoreGap
  <2>2. /\ IsAsk(ask'[q]) /\ ask'[q].at = "answered" /\ ask'[q].sources = a.sources
        /\ ask'[q].gap = a.gap
    BY <1>0, <2>1 DEF IsAsk, After
  <2>3. a.at = "gap" /\ gap'[q] = TRUE /\ UNCHANGED <<question, trace, replaced>>
    BY <1>0, <1>6 DEF StoreGap
  <2>. QED BY <1>0, <2>2, <2>3 DEF AskSound, SourcesSound
<1>7. CASE Fail(q)
  <2>1. ask'[q] = [a EXCEPT !.at = "failed"]
    BY <1>7, Asked, Zenon DEF Fail
  <2>2. IsAsk(ask'[q]) /\ ask'[q].at = "failed" /\ ask'[q].sources = a.sources
    BY <1>0, <2>1 DEF IsAsk
  <2>3. a.at # "answered" /\ UNCHANGED <<question, trace, gap, replaced>>
    BY <1>7 DEF Fail
  <2>. QED BY <1>0, <2>2, <2>3 DEF AskSound, SourcesSound
<1>. QED BY <1>1, <1>2, <1>3, <1>4, <1>5, <1>6, <1>7 DEF RequestStep

\* Replacing a document takes its sources from every trace, and says so.
LEMMA ReplaceStep ==
  ASSUME RequestsSound, NEW s \in Syncs, Replace(s)
  PROVE  RequestsSound'
<1>1. PICK i : /\ trace' = [q \in Requests |-> {t \in trace[q] : t.item # i}]
               /\ replaced' = [q \in Requests |-> replaced[q] \cup {i}]
               /\ UNCHANGED <<ask, question, gap>>
  BY DEF Replace
<1>2. ASSUME NEW q \in Requests PROVE AskSound(q)'
  <2>1. AskSound(q)
    BY DEF RequestsSound
  <2>2. trace'[q] = {t \in trace[q] : t.item # i} /\ replaced'[q] = replaced[q] \cup {i}
    BY <1>1
  <2>3. ask[q].at \in {"gap", "answered"} =>
          trace'[q] = {t \in ask[q].sources : t.item \notin replaced'[q]}
    BY <2>1, <2>2 DEF AskSound
  <2>. QED BY <1>1, <2>1, <2>2, <2>3 DEF AskSound, SourcesSound
<1>. QED BY <1>1, <1>2 DEF RequestsSound

LEMMA RequestsStep ==
  ASSUME RowsSound, RequestsSound, [Next]_vars
  PROVE  RequestsSound'
<1>1. ASSUME NEW q \in Requests, RequestStep(q) PROVE RequestsSound'
  <2>1. Framed(q) /\ AskSound(q)'
    BY <1>1, RequestFrame, AskStep
  <2>2. \A r \in Requests \ {q} : AskSound(r)'
    BY <2>1 DEF RequestsSound, AskSound, SourcesSound, Framed
  <2>. QED BY <2>1, <2>2 DEF RequestsSound, Framed
<1>2. ASSUME UNCHANGED <<ask, question, trace, gap, replaced>> PROVE RequestsSound'
  BY <1>2 DEF RequestsSound, AskSound, SourcesSound
<1>3. ASSUME NEW d \in Drafters, DraftStep(d) PROVE RequestsSound'
  BY <1>2, <1>3 DEF DraftStep, ReadGap, PersistDraft
<1>. QED BY <1>1, <1>2, <1>3, ReplaceStep DEF Next

\* A source whose document is not replaced keeps its chunk.
LEMMA SourceKept ==
  ASSUME SyncInv, NEW s \in Syncs, SyncStep(s) \/ Upsert(s), NEW i \in Items,
         SyncStep(s) \/ i # Snap(s).item, NEW c \in chunks[i]
  PROVE  \E d \in chunks'[i] : d.id = c.id /\ d.content = c.content
<1>1. CASE chunks'[i] = chunks[i]
  BY <1>1
<1>2. CASE chunks'[i] # chunks[i]
  <2>1. SyncStep(s)
    BY <1>2, UpsertRows DEF SyncInv
  <2>2. chunks'[i] = {Vectored(b, run[s].vectors, run[s].model) : b \in chunks[i]}
    BY <1>2, <2>1, ChunksStay, Zenon DEF SyncInv
  <2>3. Vectored(c, run[s].vectors, run[s].model) \in chunks'[i]
    BY <2>2, Zenon
  <2>4. ChunkSound(c) /\ \A v \in run[s].vectors : v.of = v.id[3]
    BY DEF SyncInv, RowsSound, RunsSound, RunSound
  <2>. QED BY <2>3, <2>4, VectoredSound
<1>. QED BY <1>1, <1>2

LEMMA TraceFaithfulStep ==
  ASSUME SyncInv, RequestsSound, TraceFaithful, [Next]_vars
  PROVE  TraceFaithful'
<1>0. \A q \in Requests : SourcesSound(trace[q]) /\ SourcesSound(ask[q].sources)
  BY DEF RequestsSound, AskSound
<1>1. ASSUME NEW q \in Requests, RequestStep(q) PROVE TraceFaithful'
  <2>1. UNCHANGED chunks
    BY <1>1 DEF RequestStep, Ask, Search, Fetch, StoreQuestion, Trace, StoreGap, Fail
  <2>2. CASE UNCHANGED trace
    BY <2>1, <2>2 DEF TraceFaithful
  <2>3. CASE Trace(q) /\ ~UNCHANGED trace
    <3>1. Traceable(ask[q].sources) /\ trace' = [trace EXCEPT ![q] = ask[q].sources]
      BY <2>3, Zenon DEF Trace
    <3>2. \A t \in ask[q].sources : \E c \in chunks[t.item] : c.id = t.id /\ c.content = t.content
      BY <1>0, <3>1 DEF Traceable, SourcesSound, SyncInv, RowsSound, ChunkSound
    <3>3. \A r \in Requests : trace'[r] = trace[r] \/ trace'[r] = ask[q].sources
      BY <3>1 DEF RequestsSound
    <3>. QED BY <2>1, <3>2, <3>3 DEF TraceFaithful
  <2>. QED BY <1>1, <2>2, <2>3 DEF RequestStep, Ask, Search, Fetch, StoreQuestion, StoreGap, Fail
<1>2. ASSUME NEW d \in Drafters, DraftStep(d) PROVE TraceFaithful'
  BY <1>2 DEF DraftStep, ReadGap, PersistDraft, TraceFaithful
<1>3. ASSUME SourceStep \/ \E s \in Syncs : SyncStep(s), UNCHANGED trace PROVE TraceFaithful'
  <2>1. CASE SourceStep
    BY <1>3, <2>1 DEF SourceStep, Edit, Delete, TraceFaithful
  <2>2. ASSUME NEW s \in Syncs, SyncStep(s) PROVE TraceFaithful'
    <3>. SUFFICES ASSUME NEW q \in Requests, NEW t \in trace[q]
                  PROVE  \E c \in chunks'[t.item] : c.id = t.id /\ c.content = t.content
      BY <1>3 DEF TraceFaithful
    <3>1. PICK c \in chunks[t.item] : c.id = t.id /\ c.content = t.content
      BY DEF TraceFaithful
    <3>2. t.item \in Items
      BY <1>0 DEF SourcesSound
    <3>. QED BY <2>2, <3>1, <3>2, SourceKept
  <2>. QED BY <1>3, <2>1, <2>2
<1>4. ASSUME NEW s \in Syncs, Replace(s) PROVE TraceFaithful'
  <2>. SUFFICES ASSUME NEW q \in Requests, NEW t \in trace'[q]
                PROVE  \E c \in chunks'[t.item] : c.id = t.id /\ c.content = t.content
    BY DEF TraceFaithful
  <2>1. t \in trace[q] /\ t.item # Snap(s).item /\ Upsert(s)
    BY <1>4 DEF Replace
  <2>2. PICK c \in chunks[t.item] : c.id = t.id /\ c.content = t.content
    BY <2>1 DEF TraceFaithful
  <2>3. t.item \in Items
    BY <1>0, <2>1 DEF SourcesSound
  <2>. QED BY <2>1, <2>2, <2>3, SourceKept
<1>5. CASE UNCHANGED vars
  BY <1>5 DEF TraceFaithful
<1>. QED BY <1>1, <1>2, <1>3, <1>4, <1>5 DEF Next

-----------------------------------------------------------------------------
(* A draft                                                                  *)

\* A question with a gap is through: its sources stay, of its trace only what is
\* replaced goes.
LEMMA GapStays ==
  ASSUME RequestsSound, [Next]_vars, NEW q \in Requests, gap[q]
  PROVE  gap'[q] /\ ask'[q] = ask[q] /\ replaced[q] \subseteq replaced'[q]
<1>0. ask[q].at = "answered"
  BY DEF RequestsSound, AskSound
<1>1. ASSUME NEW r \in Requests, RequestStep(r)
      PROVE  gap'[q] /\ ask'[q] = ask[q] /\ replaced[q] \subseteq replaced'[q]
  <2>1. r # q
    BY <1>0, <1>1 DEF RequestStep, Ask, Search, Fetch, StoreQuestion, Trace, StoreGap, Fail
  <2>. QED BY <1>1, <2>1, RequestFrame DEF Framed
<1>2. ASSUME NEW d \in Drafters, DraftStep(d) PROVE UNCHANGED <<ask, gap, replaced>>
  BY <1>2 DEF DraftStep, ReadGap, PersistDraft
<1>3. ASSUME NEW s \in Syncs, Replace(s)
      PROVE  UNCHANGED <<ask, gap>> /\ replaced[q] \subseteq replaced'[q]
  BY <1>3 DEF Replace
<1>. QED BY <1>1, <1>2, <1>3 DEF Next

LEMMA CompleteStays ==
  ASSUME RequestsSound, [Next]_vars, NEW q \in Requests, NEW sources, Complete(q, sources)
  PROVE  Complete(q, sources)'
BY GapStays DEF Complete

LEMMA DraftsStep ==
  ASSUME RequestsSound, DraftsSound, [Next]_vars
  PROVE  DraftsSound'
<1>0. \A q \in Requests : \A sources : Complete(q, sources) =>
        /\ gap'[q] /\ sources \subseteq ask'[q].sources
        /\ {t \in ask'[q].sources : t.item \notin replaced'[q]} \subseteq sources
  BY CompleteStays DEF Complete
<1>w. ASSUME NEW d \in Drafters, writing'[d] = writing[d], writing[d] # None
      PROVE  writing'[d].of \in Requests /\ Complete(writing[d].of, writing[d].sources)'
  <2>1. writing[d].of \in Requests /\ Complete(writing[d].of, writing[d].sources)
    BY <1>w DEF DraftsSound
  <2>. QED BY <1>0, <1>w, <2>1 DEF Complete
<1>d. ASSUME NEW q \in Requests, NEW t \in DraftTypes, draft'[q][t] = draft[q][t], draft[q][t] # None
      PROVE  Complete(q, draft[q][t])'
  <2>1. Complete(q, draft[q][t])
    BY <1>d DEF DraftsSound
  <2>. QED BY <1>0, <1>d, <2>1 DEF Complete
<1>1. ASSUME UNCHANGED draftVars PROVE DraftsSound'
  BY <1>1, <1>w, <1>d DEF DraftsSound
<1>2. ASSUME NEW d \in Drafters, NEW q \in Requests, ReadGap(d, q) PROVE DraftsSound'
  <2>1. writing' = [writing EXCEPT ![d] = [of |-> q, sources |-> trace[q]]]
    BY <1>2 DEF ReadGap, Cited
  <2>2. writing'[d].of = q /\ writing'[d].sources = trace[q]
    BY <2>1 DEF DraftsSound
  <2>3. Complete(q, trace[q])
    BY <1>2 DEF ReadGap, RequestsSound, AskSound, Complete
  <2>4. Complete(writing[d].of, writing[d].sources)'
    BY <1>0, <2>2, <2>3 DEF Complete
  <2>5. \A e \in Drafters \ {d} : writing'[e] = writing[e]
    BY <2>1 DEF DraftsSound
  <2>6. UNCHANGED draft /\ writing' = [e \in Drafters |-> writing'[e]]
    BY <1>2, <2>1 DEF ReadGap, DraftsSound
  <2>7. \A e \in Drafters : writing'[e] # None =>
          writing'[e].of \in Requests /\ Complete(writing[e].of, writing[e].sources)'
    BY <1>w, <2>2, <2>4, <2>5
  <2>8. \A r \in Requests, t \in DraftTypes : draft'[r][t] # None => Complete(r, draft[r][t])'
    BY <1>d, <2>6
  <2>. QED BY <2>6, <2>7, <2>8 DEF DraftsSound
<1>3. ASSUME NEW d \in Drafters, NEW t \in DraftTypes, PersistDraft(d, t) PROVE DraftsSound'
  <2>. DEFINE w == writing[d]
  <2>1. w.of \in Requests /\ Complete(w.of, w.sources)
    BY <1>3 DEF PersistDraft, DraftsSound
  <2>2. writing' = [writing EXCEPT ![d] = None]
    BY <1>3 DEF PersistDraft
  <2>3. writing' = [e \in Drafters |-> writing'[e]] /\ writing'[d] = None
        /\ \A e \in Drafters \ {d} : writing'[e] = writing[e]
    BY <2>2, Excepting DEF DraftsSound
  <2>4. \A e \in Drafters : writing'[e] # None =>
          writing'[e].of \in Requests /\ Complete(writing[e].of, writing[e].sources)'
    BY <1>w, <2>3
  <2>5. draft' = [draft EXCEPT ![w.of][t] = w.sources] \/ draft' = draft
    BY <1>3 DEF PersistDraft
  <2>6. draft' = [q \in Requests |-> [u \in DraftTypes |-> draft'[q][u]]]
    <3>1. draft = [q \in Requests |-> [u \in DraftTypes |-> draft[q][u]]]
      BY DEF DraftsSound
    <3>. HIDE DEF w
    <3>2. CASE draft' = [draft EXCEPT ![w.of][t] = w.sources]
      <4>1. \A q \in Requests : draft'[q] = [u \in DraftTypes |-> draft'[q][u]]
        BY <3>1, <3>2
      <4>. QED BY <3>1, <3>2, <4>1
    <3>. QED BY <2>5, <3>1, <3>2
  <2>7. ASSUME NEW q \in Requests, NEW u \in DraftTypes, draft'[q][u] # None
        PROVE  Complete(q, draft[q][u])'
    <3>1. CASE draft'[q][u] = draft[q][u]
      BY <1>d, <2>7, <3>1
    <3>2. CASE draft'[q][u] # draft[q][u]
      <4>1. q = w.of /\ draft'[q][u] = w.sources
        BY <2>1, <2>5, <3>2 DEF DraftsSound
      <4>2. Complete(q, w.sources)
        BY <2>1, <4>1
      <4>. HIDE DEF w
      <4>. QED BY <1>0, <4>1, <4>2 DEF Complete
    <3>. QED BY <3>1, <3>2
  <2>. QED BY <2>3, <2>4, <2>6, <2>7 DEF DraftsSound
<1>4. ASSUME NEW q \in Requests, RequestStep(q) PROVE UNCHANGED draftVars
  BY <1>4 DEF RequestStep, Ask, Search, Fetch, StoreQuestion, Trace, StoreGap, Fail
<1>5. ASSUME NEW s \in Syncs, Replace(s) PROVE UNCHANGED draftVars
  BY <1>5 DEF Replace
<1>. QED BY <1>1, <1>2, <1>3, <1>4, <1>5 DEF Next, DraftStep

-----------------------------------------------------------------------------
(* The theorems                                                             *)

LEMMA ChatInvInit == Init => ChatInv
<1>. SUFFICES ASSUME Init PROVE ChatInv
  OBVIOUS
<1>1. RequestsSound
  BY DEF Init, NotAsked, RequestsSound, AskSound, IsAsk, SourcesSound
<1>2. TraceFaithful /\ DraftsSound
  BY DEF Init, TraceFaithful, DraftsSound
<1>. QED BY <1>1, <1>2 DEF ChatInv

THEOREM ChatInvariant == Spec => []ChatInv
<1>1. SyncInv /\ ChatInv /\ [Next]_vars => ChatInv'
  BY RequestsStep, TraceFaithfulStep, DraftsStep DEF ChatInv, SyncInv
<1>. QED BY ChatInvInit, <1>1, ConnectorInvariant, PTL DEF Spec

\* A stored source refers to a chunk with the very content the answer was given
\* (persistQuestionRetrievalSelection, ON DELETE CASCADE), whatever connectors
\* replace between search, answer and trace, and after.
THEOREM TracesAreFaithful == Spec => []TraceFaithful
<1>1. ChatInv => TraceFaithful
  BY DEF ChatInv
<1>. QED BY <1>1, ChatInvariant, PTL

\* A request that executeQuestion() answered has its question, a gap or an answer,
\* and every source of it whose document was not replaced afterwards.
THEOREM AnswersHaveTheirSources == Spec => []AnswersAreBacked
<1>1. ChatInv => AnswersAreBacked
  BY DEF ChatInv, RequestsSound, AskSound, AnswersAreBacked
<1>. QED BY <1>1, ChatInvariant, PTL

\* createDraft() names sources of the answer only, and each whose document was not
\* replaced: a gap is stored after its trace, so none is read without it.
THEOREM DraftsNameTheSources == Spec => []DraftsComplete
<1>1. ChatInv => DraftsComplete
  BY DEF ChatInv, DraftsSound, Complete, DraftsComplete
<1>. QED BY <1>1, ChatInvariant, PTL
=============================================================================
