# Townbase: a verification of its protocols in TLA+

Townbase is a self-hosted assistant for one organisation: an API server
(NestJS, `apps/api`) over one PostgreSQL database, with uploaded files, two
kinds of connectors (Notion, local Git repositories), retrieval and answers
through a paid model provider, and one administrator. What it computes is
mostly straightforward; what it promises is not: a job queue that survives
crashes and takeovers, calls that are paid for at most once and never beyond a
budget, tokens that are spent once, files whose bytes and rows stay together.
These modules state such promises, model the code that keeps them step by
step, check the models with TLC and prove the central properties with TLAPS.

Contents: [components](#1-components), [plan](#2-plan),
[file runs](#3-file-runs), [model calls](#4-model-calls),
[authentication](#5-administrator-authentication),
[the first administrator](#6-the-first-administrator),
[files and their index](#7-files-and-their-index),
[connectors, chunks and chat](#8-connectors-chunks-and-chat),
[runs and bounds](#9-runs-and-bounds), [fairness](#10-fairness),
[proofs](#11-proofs), [findings](#12-where-code-and-documents-disagree),
[limits](#13-what-is-not-modelled).

All paths below are relative to the repository (`src/` in `PROJECT.json`).
Line numbers are those of the commit the project was written for.

## 1 Components

One API process serves HTTP requests concurrently (one Node event loop, so
interleavings fall between awaited calls) and runs the worker of the file
queue. PostgreSQL gives row locks, transactions at READ COMMITTED and advisory
locks; a second API process may run against the same database during a
restart. The components meet at four places: the session check that every
request transaction repeats (`auth`), the advisory locks 3 (file operation),
4 (owner of the queue), 5 (pending inputs) and 6 (run rows), the row lock of
`Installation` (settings and calls), and the files of the data directory.
The connectors are processes of their own and share nothing with the API but
the tables of documents and chunks, which questions read and refer to.

| component | state | operations | hard because |
|---|---|---|---|
| **file runs** `files/file-run.service.ts` | FileRun, FileRunRequest, pending files, `active`, identities, timers | start, retry, stop, drain/execute/complete, cleanup, boot, shutdown | crash between any two steps; two processes; try-locks; stop, shutdown and completion race; lost answers; retention |
| **model calls** `model-integration/*` | ModelCall, ModelExecutionSettings, ModelCredential, ModelTransferPolicy | run, configure, replace/disable keys, set transfers, usage | an admission reads in several statements; outcome of a sent call may be unknown; deadlines against late answers; month boundary |
| **administrator authentication** `auth/auth.service.ts` | AdministratorSession, AuthenticationState (failure lanes, recovery token), the token's file | login, session, authorizedOperation, sensitiveOperation, logout, changePassword, issueRecovery, recover | revocation against requests under way; expiry during work; token file against commit; counting windows |
| **first administrator** `setup/*` | BootstrapState, token file, Administrator, Installation | issue, register, cleanup | file written before the commit, removed after it |
| **access decision** `access/access.service.ts` | the requester of a request | authenticate | read-only |
| **file store** `files/file-management.service.ts`, `file-foundation.ts`, `file-storage.ts` | FileOriginal, FileVersion, files on disk | upload, replace, scope, remove, reference, reconcile | two-phase write of file and row; reconcile deletes what has no row |
| **file indexing** `files/file-index.service.ts` | FileIndex, FileIndexChunk | index, search | one paid call per chunk, sources may change between calls |
| **file extraction** `files/file-extractor.ts`, `file-parser.ts`, `file-chunker.ts` | a child process | extract, cancel | timeout, abort and exit of the child race |
| **agent configuration** `agent/agent.service.ts` | BasicAgent | snapshot, save | optimistic revision under `sensitiveOperation` |
| **knowledge gaps and drafts** `knowledge-gaps/*` | KnowledgeGap, ActionDraft | persist candidate, update status, create draft | a draft is written from a trace that may go meanwhile |
| **chat** `chat/*` | Question, QuestionSource | executeQuestion | no transaction spans two queries; traces cascade with chunks; late failure |
| **connectors** `packages/connectors` | Document | sync of Notion pages and of local files | a source that is edited while it is read; partial failure; two syncs at once |
| **chunk storage and embedding** `packages/connectors/src/embedding.ts`, `document-chunks.ts` | DocumentChunk, index status | replace chunks, embed | partial failure, no retry of unchanged documents |
| **rag core** `packages/rag-core` | none | chunker, markdown, retrieval modes | boundaries of pure algorithms |
| **agent core** `packages/agent-core` | none | prompts, citations, confidence | mostly wording |
| **evaluation, diagnostics, deployment, web** | none that matters | | offline or presentation |

What makes each component correct, in a sentence:

- *file runs*: jobs of one target do not overlap, the queue is bounded, a job
  ends exactly once and only a run that is still running stores a result, for
  the version and scope it was admitted for; an input stays on disk as long as
  a retry may need it; nothing stays running without a worker.
- *model calls*: the month's real cost keeps to the budget; a request is sent
  at most once; a charge equals the bill; one answer at a time; what was
  disallowed in the meantime is not admitted.
- *authentication*: after a logout, a password change or a recovery no commit
  happens under an older session; a token works once; blocks hold as long as
  they say, and an expired session commits nothing.
- *first administrator*: one administrator ever; the file holds a token that
  works, or no token works.
- *file store*: every row has its bytes, bytes without a row go away but never
  those of a write under way; a reference is served only while it is in scope.
- *file indexing*: the chunks searched belong to the indexed version and scope;
  a repeated run pays for no chunk twice.
- *connectors*: a sync nobody disturbs leaves what the source holds; a vector
  is of its chunk's text, and "indexed" means embedded.
- *chat, gaps and drafts*: a trace names what the answer was given; an answered
  request has its sources or a gap; a draft names all sources of its answer.
- *rag core*: chunks repeat their text in order and stand under its headings.

`PROJECT.json` lists for every component what is modelled, and under `hazards`
the places in the code where these promises could fail, with the properties
that watch them or the reason why none does yet.

## 2 Plan

| step | modules | abstract specification | state |
|---|---|---|---|
| 1 | `FileRuns` (+ `MCFileRuns`, `FileRunsProofs`) | `RunQueue` (+ `RunQueueProofs`), checked and proved through the refinement | done |
| 2 | `ModelCalls` (+ `MCModelCalls`, `ModelCallsProofs`) | `CallLedger`, checked and proved through the refinement | done |
| 3 | `AdminAuth` (+ `MCAdminAuth`, `AdminAuthProofs`): boundary lock, sessions, lanes, recovery token and file | | done |
| 4 | `Bootstrap` (+ `MCBootstrap`, `BootstrapProofs`): issue, register, cleanup, token file | | done |
| 5 | `FileStore` (+ `FileStoreProofs`): upload, replace, scope, remove, reconcile, reprocess, reference | | checked and proved |
| 6 | `FileIndexing` (+ `MCFileIndexing`), which extends 5 by the index jobs under the same lock | | checked and proved (`FileStoreProofs`) |
| 7 | `Chunking` (+ `ChunkProofs`): sections, fences, windows | the text itself: what chunks repeat, and under which headings | checked and proved |
| 8 | `ConnectorSync`, which extends 7: Notion and local repositories, chunks, embedding | the source: what an undisturbed sync leaves | checked and proved (`ChatProofs`) |
| 9 | `Chat` (+ `MCChat`, `ChatProofs`), which extends 8: questions, traces, gaps, drafts beside the syncs | | checked and proved |
| 10 | `FileExtractor` (the child process), `AgentConfig` (revisioned settings), `RetrievalModes` (a pure choice) | | planned |

Theorems worth having: the refinement of each abstract specification, and each safety
property, for any constants. All of these are proved ([section 11](#11-proofs)).

Conventions. A module has its constants with a named assumption, the
variables grouped as the code groups them, helpers, `Init`, one action per
transaction or awaited call, `Next`, `Spec`, fairness and properties.
An operator named like another with a suffix and a comment "mutant" is a
plausible mistake in the code (a guard left out, an off-by-one); nothing uses
it but the check that a property notices it.  No module has a recursive
operator, so that every module can be proved about.  An extending module (`FileIndexing`,
`Chat`) adds variables and steps to what it extends and leaves its definitions alone.

## 3 File runs

`FileRuns.tla` models `apps/api/src/files/file-run.service.ts` with the parts of
`file-management.service.ts` and `file-foundation.ts` it runs against. A file
job (register, replace, reprocess, index) is admitted as a row of FileRun,
executed by the one worker of the process that owns the queue, and ends as
`succeeded`, `failed` or `interrupted`.

**State.** Rows (`status`, `job`, `result`, `code`, `input`, `expired`, `bound`),
sources (`latest`, `deleted`, `scopeRev`), the files of the pending directory
(`pending`), the advisory locks (`fileLock` 3, `owner` 4, `inputLock` 5), the
memory of each process (`phase`, `closing`, `identity` and the worker's
variables), the requests in flight (`cpc`, `creq`), and the session (`epoch`).
A run's number stands for its place in the order of creation; the original a
run registers has the number of the run. Lock 6 is held across two actions
only by a completing worker (`TxHeld`); all its other users need it for a
single action.

**Actions.** A transaction is one action, everything between two awaited calls
falls between two actions, and a crash may come anywhere.

| code | actions |
|---|---|
| `start`, `retry`: first transaction | `Register`, `Replace`, `Derive`, `Retry`, `RetryRecovered` |
| `acknowledged`/`staging`, `reserve` | `Enter`, `Recheck`, `Stage`, `Reserve` (create, bind, refuse), `Settle` |
| `stop` | `Stop` (row), `StopAbort` (work in memory) |
| `remove`, `setScope` of the file store | `ManageLock`, `ManageCommit` |
| `wake`, `drain` | `Peek`, `TakeFileLock`, `FileLockBusy`, `Claim`, `Activate`, `StartCleanup` |
| `execute`, `complete` | `Check`, `Extract`, `Commit`, `Write`, `Fail`, `Finish`, `Monitor` |
| `cleanup` | `Clean`, `Discard`, `Sweep`, `Drop` |
| `onModuleInit`, `onModuleDestroy` | `BootOwn`, `BootInterrupt`, `BootClean`, `BootFail`, `Halt`, `HaltCurrent`, `HaltQueued` |
| environment | `Crash`, `LoseLock`, `Revoke`, `Age` |

**Abstract specification.** `RunQueue.tla` is the queue a user sees: runs are
admitted in an order, one per target and at most `Limit`; the oldest starts
when no other runs; a result appears in the step that ends the run; what has
ended stays. `FileRuns!ImplementsQueue` maps `status` to `st`, the target key to
`key` and "has a result version" to `stored`.

**Properties.** `InputKept`, `OneSuccessPerUpload`, `VersionsAccounted`,
`ShutdownLeavesNothingActive`, `ResultsCurrent`, `EndedRunsFrozen`,
`ImplementsQueue`, and under fairness `RunsEnd`, `ShutdownEnds`, `OrphansSwept`.
Each is stated in words at its definition. All but the last three are proved;
`AdmissionBounded` and `TypeOK` are proved as well (`AdmissionSafe`, `TypeCorrect`)
and need no run.

**Stranded runs.** Two statements leave a run `running` that nobody works on, when
they fail: the update by which `execute()` records a failure (1121-1130; the
error is only logged, and `this.active` is cleared) and the claim, when it commits
and its answer is lost (839-852). Both are alternatives of their actions
(`Fail`, `Claim`; `wout` is then "unsaved"), drawn from the allowance of lost answers.
Since the index `FileRun_one_running` admits one running row, such a run
(`Stranded`) keeps every other from being claimed until somebody stops it or the
process is started again. `RunsEnd` therefore promises less than one would wish: a run
ends unless a stranded run holds up the queue of a process that stays up (`HeldUp`), and
a shutdown leaves nothing active but what is stranded, which the next start interrupts.
That nothing else holds up the queue is what the two properties show.

Simplifications that a reader should know:

- `Age` puts all ended rows past retention at once; a cleanup drops all of them
  where the code drops a hundred at a time.
- `startMaintenance` and the interrupting UPDATE of a start are one step
  (`BootInterrupt`); a timer's cleanup does not begin once the process is closing
  (`StartCleanup`), which the code allows and which changes nothing a shutdown waits for.
- No request lasts ninety days: `Age` waits for requests that are asking to repeat an
  upload which has ended.
- A replay of a known identifier changes no state, whether its payload is the
  same or not, so `Asks` starts with identifiers not in use.
- A process that loses its ownership stays closed for the rest of its life, as
  in the code; what comes after it is a shutdown, a crash or the other
  process.
- `SIGTERM` during boot is a crash; other users of lock 3 are `ManageLock`.

## 4 Model calls

`ModelCalls.tla` models `ModelExecutionService.run()`
(`apps/api/src/model-integration/model-execution.service.ts`) and the changes of
settings, credentials and transfers it reads
(`model-integration.service.ts`, `transfer-policy.ts`).

**State.** The settings of the administrator (`limit`, `enabled`, `allowed`) and
the callers' `session`; ModelCall (`status`, `created`, `charged`, `budget`); what
the provider saw (`sent`) and will bill (`bill`); where each caller stands (`pc`,
`req`, `aborted`); the open admission (`lock`, the time it read as `clock`, the
rows it `swept`, the sum it has `seen`); the clock `now`. `budget` is a history of
the configuration a row refers to by its digest.

**Actions.**

| code | actions |
|---|---|
| entry, `existingWork`/`preflight` | `Begin`, `Preflight` |
| reading the master key between the transactions | `ReadMasterKey` |
| the admission transaction: lock, sweep, prior row, preflight, rate and concurrency | `Admit` |
| the two sums of `exposure()`, each with a snapshot of its own | `ReadCharged`, `Reserve` |
| rollback | `AdmissionFails` |
| the check after the commit, the provider | `NotSent`, `Transmit`, `Answer`, `NoAnswer` |
| what follows | `MarkUnknown`, `Settle` |
| settings | `Configure`, `SetCredential`, `SetTransfers`, `Logout` |
| environment | `Crash`, `Cancel`, `Expire`, `Tick` |

The sweep of overdue rows belongs to the admission: it takes effect with its
commit, a refusal rolls it back, and its row locks keep `NotSent` and
`MarkUnknown` of the same row waiting. `Settle` takes the lock of the
Installation row; `NotSent` and `MarkUnknown` do not. An administrator's change
excludes an open admission, since the latter shares the authentication lock;
a session may expire at any time.

**Abstract specification.** `CallLedger.tla` says what the administrator is
promised about money: a call opens in one step, only if what the month was
charged, the reservations of all open calls and its own fit into the budget;
it closes once and costs no more than it reserved. `ImplementsLedger` is the
refinement; it would fail if what was read in `ReadCharged` could be out of date
in `Reserve` in the wrong direction.

**Properties.** `BudgetKept`, `ImplementsLedger`, `SentOnce`, `HonestCharges`,
`OneAnswer`, `AdmittedUnderPolicy`, `SettledFinal`, and under fairness
`CallsReturn`; `TypeOK` and all but `CallsReturn` are proved. `BudgetKept` counts what the provider really bills, up to what was
reserved: the code cannot hold a provider to the limits it is given, and
`Answer` refuses usage beyond them, which leaves the reservation in the books.

Simplifications:

- The cost of a call is fixed by its kind; token limits and model names of the
  settings do not vary.
- An identifier reused with other content, and text that content inspection
  rejects, are refused without a change of state and left out.
- Connection checks (`sensitiveOperation` with a small call) follow the same
  protocol as other calls and are not told apart.
- Requests of one session are serialised by the session row in the code; here
  callers are independent, which only adds interleavings.
- Ticks stand for seconds: `Timeout` is 90 s, `Window` 60 s, `RateLimit` 10 in the
  code and smaller in the runs.

## 5 Administrator authentication

`AdminAuth.tla` models `apps/api/src/auth/auth.service.ts` with the token file of
`apps/api/src/setup/token-file.ts`.

**State.** The password in force and how often it changed (`password`, `version`);
AdministratorSession (`state`, `ends`, `seen`, and as history `born`: the version
of the password entered, and `used`: the works committed); the two lanes of
AuthenticationState (`failures`, `start`, `blocked`) and the recovery token in
force (`hash`, `expires`, `consumed`); the directory (`file`, `temps`); who holds
the row of AuthenticationState (`writer`, `readers`) and of a session (`row`);
and the threads (`pc`, `arg`, `at`). A thread is an HTTP request, the timer or
the recovery command, which is a process of its own.

**Actions.** Every operation locks first and reads the clock then; the clock goes
on while its transaction is open, and its writes appear with the commit.

| code | actions |
|---|---|
| `transaction()` | `EnterWrite`, `EnterShared`, `EnterCleanup` |
| `withActiveSession`, `authorizedOperation`, `current`, `requester` | `LockRow`, `Use` |
| `login`, `sensitiveOperation`, `logout`, `changePassword`, `recover` | actions of the same names (`Sensitive`) |
| `issueRecovery`, `writeTokenFile` | `IssueUpdate`, `WriteTemporary`, `Rename`, `IssueCommit` |
| `cleanup` | `EnterCleanup`, `Sweep`, `DeleteFile` |
| environment | `Fail`, `Lose`, `Crash`, `Tick` |

`Lose` is a transaction that Prisma ends after 30 seconds or whose connection
breaks while its program waits for the file system: the locks are free, and the
program finds out only with its next statement. Where that statement is next
anyhow this is `Fail`.

**Properties.** `RevocationBoundary`, `CurrentCredential`, `TokenSpentOnce`,
`FailuresTakeTime`, and `CleanupSparesNewFile` (unless a transaction is lost, see
[section 12](#12-where-code-and-documents-disagree)). `TypeOK` and all of
these are proved.

Simplifications: an input of the wrong shape counts as a wrong one, as it does
in the code; a disabled administrator, a missing workspace and audit records
only refuse or fail (`Fail`); a round of the timer that can change nothing is
left out; `deleteTemporaryTokenFiles` is one step. One tick is the unit of all
times: the relations between the idle, the absolute and the token's life and
the window are kept in order of size only as far as the runs need them.

## 6 The first administrator

`Bootstrap.tla` models `apps/api/src/setup/setup.service.ts` with
`token-file.ts`. It is smaller than `AdminAuth` but shares its difficulty: the
token's file is written inside the transaction that stores its digest, and
removed outside of the one that spends it.

**State.** BootstrapState (`closed`, `hash`, `expires`, `failures`, `start`,
`blocked`), the number of administrators `registered`, the directory (`file`,
`temps`), the row lock `writer`, and the programs (`pc`, `arg`, `at`): requests,
the timer, and the command that issues a token.

| code | actions |
|---|---|
| `issue`, `writeTokenFile` | `IssueUpdate`, `WriteTemporary`, `Rename`, `IssueCommit` |
| `register` | `Present` (a token is given; the request waits for the row), `Register` (closed, blocked, refused, registered), `DeleteAfter` |
| `cleanup` | `EnterCleanup`, `Sweep`, `Remove` |
| environment | `Fail`, `Lose`, `Crash`, `Tick` |

**Properties.** `OneRegistration`, `GuessesTakeTime` (both proved), and under fairness
`SetupFilesRemoved`.

## 7 Files and their index

`FileStore.tla` models `file-management.service.ts`, `file-foundation.ts`,
`file-storage.ts`, the predicates of `file-index-state.ts` and `file-source.ts`,
and the reprocess job. `FileIndexing.tla` extends it by the index jobs of
`file-index.service.ts`, which run under the same lock. `FileRuns` models when
a job runs; these two, what it does to rows and files.

**State.** FileOriginal (`original`), FileVersion (`version`), FileIndex with its
chunks (`index`), the storage directory (`disk`), advisory lock 3 (`lock`), the
operation each process is in (`op`: its kind, its step and everything it has read),
the reference each reader is in (`reader`). `old` and `settled` stand for the
24 hours after which a replaced version is purged; `removed` is a history of
removals answered as complete.

| code | actions |
|---|---|
| `persistUpload`, `create` | `Upload`, `Extract`, `Write`, `Commit` |
| `reconcile` | `DropIndexes`, `Purge`, `Mark`, `Purged`, `Sweep`, `Unlink`, `Swept`, `ReconcileFails` |
| `setScope`, `remove`, maintenance | `Scope`, `ScopeCommit`, `Remove`, `RemoveCommit`, `Maintain` |
| reprocess job | `Reprocess`, `Parse`, `CommitText` |
| `reference`, reading | `Load`, `ReadFile`, `Recheck`, `Answer` |
| index job | `Index`, `Snapshot`, `LoadOriginal`, `Same`, `Differs`, `Rebind`, `NoReuse`, `Embed`, `Store` |
| `search` | the predicate `Found`, in the properties |
| environment | `Age`, `Crash`, `Lose` |

**Properties.** `FilesKept`: reconciliation never takes a file from its row.
`RemovedIsGone`: after a completed removal nothing of the original comes back.
`UnavailableOnlyByFault`: a reader that is overtaken by a removal says so.
`IndexFaithful` and `SuccessMeansSearchable`: the chunks found are those of the
text in force, and a job that succeeds leaves its version searchable. All five are
proved, and so is `SearchableIsReferenceable`: three predicates written at three places
agree. It holds of every state whatever happened before, and needs no run.

The lock's connection may be lost in the middle of the operations in `Losing`. The
run loses it during reprocess and index jobs only, and `FilesKept` and
`UnavailableOnlyByFault` are proved for `Losing` within these two kinds; what happens
otherwise is in [section 12](#12-where-code-and-documents-disagree).

Simplifications: the lengths and types an upload may have only refuse; a text
is a model value and its chunks are numbered; how many chunks the settings make
of it may differ from job to job (`1 .. MaxParts`); the ranking of search results
is left out.

## 8 Connectors, chunks and chat

Three modules, each extending the one before.

`Chunking.tla` is the pure part: `parseMarkdownSectionsWithLocations` as `ReadLine`
applied to one line after another (`ParserAt`), `splitTokens` as `Windows`, `chunkDocument` as
`ChunksOf`. A line is a heading with a level, a fence's delimiter with marker,
length and information, a blank or a body; its word stands for what it says.
The texts TLC checks have no word twice, so that neither a line that is lost, said
twice nor filed wrongly can hide behind an equal one; the theorems hold of every text.
`RepeatsText` is exact: the chunks, less what some of them have in common with the end of
the full chunk before (`GoesOn`, `News`), are the words of the text. The
reference definitions (`Fenced`, `HeadingsOver`, `RepeatsText`) say of a whole
text what the parser computes line by line.

`ConnectorSync.tla` models the syncs of `packages/connectors` as processes that
read a `world` which people edit at any time. For Notion the record of a page, with
the stamp later syncs compare, is read before its blocks and its children; for a
repository the entries of a directory come first, then each file. What was read is
stored document by document: `Find` (and skip), `Upsert` (row and chunks in one
transaction), `Embed`, `Persist` (vectors in a second one), `SetStatus`; the
repository connector then archives what it did not see. `Fault` is an error at
any of these, `Stop` the end of the process, `Vanished` a page that is gone while
it is read.

`Chat.tla` adds `executeQuestion()`: `Ask`, `Search`, `Fetch`, `StoreQuestion`,
`Trace`, `StoreGap`, `Fail`, no two of them in one transaction; the cascade by
which replacing a document's chunks deletes traces (`Replace` extends `Upsert`);
and `createDraft()` as `ReadGap` and `PersistDraft`.

**Properties.** `EmbeddingsFaithful`, `IndexedMeansEmbedded`, `QuietSyncCurrent` (an
undisturbed sync repairs what disturbed ones left, within the limits below),
`ChunksRepeatText`, `ChunksHeaded`, `TraceFaithful`, `AnswersAreBacked`,
`DraftsComplete`. All eight are proved.

`EmbeddingsFaithful` rests on a small thing: the identifier of a chunk contains a
digest of its content, so that vectors computed for a replaced text find no row.
The mutant `ChunkIdByPlace` drops it.

What is *not* promised, though one might expect it, and is therefore excluded by
the properties' conditions:

- Embeddings that failed are not tried again while the document is unchanged
  (`Skipped` looks at stamp or text only); after a change of the model unchanged
  documents keep vectors of the old one.
- Two syncs at once may store an older snapshot over a newer one, and mark a
  document as indexed whose chunks the other has just replaced (`sole`,
  `overlapped`).
- A Notion page that is gone is never archived, nor is a document whose status is
  "deprecated" in a repository; a file in an archived path is compared by its time
  alone (`Left`).
- A new sync of a document removes it from the traces of older answers.
- A request that fails after storing its question leaves a question without
  sources and without a gap; whether a source makes it answerable is decided
  before the language model, whose own opinion is not used for it.
- Of two drafts of one type written at once the later write stays.
- Two edits of a Notion page with one `last_edited_time`: a sync that read between
  them stored the page with the stamp of both, and `sync.ts:82-85` compares with `>=`, so
  that later syncs skip the page, though it has changed, until it is edited again. Notion's
  stamps may well be that coarse. `Edit` gives every edit a later stamp: `QuietSyncCurrent`, and with it
  `NothingNewerIsKnown` and `QuietSyncsAreCurrent`, assume that.

Simplifications: the tree of pages is fixed and free of repetitions; a database as
root, fixtures, the kind and priority of a document and `lastSyncedAt` (which
nothing reads) are left out; the paginated and nested reads of one page's blocks are one step
(`ReadText`), an edit between two of which gives the page a later stamp than was read
before; the queries of one nested `include` are one read of the trace (`ReadGap`), which
can only become smaller; scores are a choice among the chunks of the right model; gap status and draft wording do not matter to anything else and are left
out. The mode of a question neither limits nor filters: see
[section 12](#12-where-code-and-documents-disagree).

## 9 Runs and bounds

Every run is a `.cfg` for one of the MC modules; `PROJECT.json` names its
question. All state spaces are explored completely. Events of the environment
(crashes, stops, lost locks, expiry ...), and in `AdminAuth` the calls
themselves, are drawn from an allowance: `Init` chooses one of the set `Budgets`
(`FileRuns`) or `Allowances` (`ModelCalls`, `AdminAuth`), so that one run is the union
of several scenarios; in `FileStore`, `Bootstrap` and `ConnectorSync`, too. This bounds behaviours without changing any of the
program's steps. Symmetry is used only in runs without liveness.

| run (`.cfg`) | instance | shows |
|---|---|---|
| `requests` (`FileRuns_requests`) | 1 process, 2 clients, 2 identifiers, 2 rows, room for 1; a lost answer with a stop, a crash or a shutdown, or a stop with a crash or with ageing rows | `InputKept`, `ShutdownLeavesNothingActive`, `EndedRunsFrozen`, `ImplementsQueue` (two clients at the limit of the queue) |
| `processes` (`FileRuns_processes`) | 2 processes, all operations on one original; a deletion or change of scope (alone or with a stop), a revocation, a lost lock, a shutdown or a crash | `VersionsAccounted`, `ResultsCurrent`, `ImplementsQueue` |
| `retries` (`FileRuns_retries`) | 4 identifiers, 3 rows, one stop: retries of retries | `OneSuccessPerUpload` |
| `liveness` (`FileRuns_liveness`) | `FairSpec`; a crash, a shutdown, a lost answer (of an admission, of a claim, or of the record of a failure) | `RunsEnd`, `ShutdownEnds`, `OrphansSwept` |
| `call_settings` (`ModelCalls_settings`) | 2 callers, 3 calls of two kinds, 2 budgets, months of one tick; a change of the settings, of a credential or of the transfers, a logout, an expiry or a crash | `BudgetKept`, `ImplementsLedger`, `AdmittedUnderPolicy` |
| `call_answers` (`ModelCalls_answers`) | `FairSpec`; 2 callers, 2 answers, a provider that may bill too much, one answer a tick; two of a crash, a failing statement and a cancellation | `SentOnce`, `HonestCharges`, `OneAnswer`, `SettledFinal`, `CallsReturn` |
| `auth_safety` (`AdminAuth_safety`) | 2 threads, 2 sessions, 2 tokens, 2 passwords, 4 ticks, blocks from the first failure on; ten mixes of logins, requests, password changes, tokens, faults, lost transactions and crashes | `CurrentCredential`, `FailuresTakeTime`, `RevocationBoundary`, `TokenSpentOnce`, `CleanupSparesNewFile` |
| `setup` (`Bootstrap`) | `FairSpec`; 2 programs, 2 tokens, 3 ticks; two issuances and registrations with a fault, or with a lost transaction and a crash; four guesses | `GuessesTakeTime`, `OneRegistration`, `SetupFilesRemoved` |
| `store` (`FileStore_safety`) | 2 processes, a reader, 1 original, 2 storage keys, 2 texts, 2 chunks; a read with a crash, a fault or ageing, a fault with ageing, or a lost lock | `FilesKept`, `RemovedIsGone`, `UnavailableOnlyByFault`, `IndexFaithful`, `SuccessMeansSearchable` |
| `knowledge` (`Chat_knowledge`) | 2 syncs, a page with a page below it, two repositories, windows of 2 tokens with 1 shared, every text of up to four lines of nine kinds, a question, a draft; nine scenarios | `EmbeddingsFaithful`, `IndexedMeansEmbedded`, `QuietSyncCurrent`, `ChunksRepeatText`, `ChunksHeaded`, `TraceFaithful`, `AnswersAreBacked`, `DraftsComplete` |
| `second_original`, `archived` | violations, see [section 12](#12-where-code-and-documents-disagree) | |

Why the bounds are enough to be interesting:

- *Rows.* A conflict of two runs needs two rows; the queue limit is 1 or 2 so
  that it is reached. Three rows are needed for a retry of a retry, four for the
  second finding.
- *Pending files.* One more than rows, so that an admission finds a fresh name
  while files of ended runs are still there.
- *Processes.* Two: the one that lost ownership and its successor.
- *Events.* One of each kind, alone or in the pairs that act on the same state: what
  goes wrong here does so at the first stop, crash or lost lock.
- *Calls.* In `settings` an answer (3) and an embedding (2) fit the budget of 5
  together but not that of 4, and a third call fits neither; months of one tick
  make a call admitted at the end of a month settle in the next. With
  so short a month the deadline and the month end together; sweeps within a
  month happen in `answers`.
- *Sessions and tokens.* Two of each: the one that is revoked or replaced and the
  other. `MaxTime` lets a session reach both of its ends and a token its end.
- *Blocks.* The code blocks from the tenth failure on, the run from the first, so
  that three failures show two blocks and their doubling.
- *Time.* In `answers` two ticks of timeout give calls that expire and late steps
  of callers whose row was swept; the rate of one answer a tick refuses as well.
- *Storage keys.* One original with two versions: the newer replaces the older, a
  removal takes both, and no key is free for a third, so that intake refuses.
- *Texts.* Four lines are enough for a fence within a fence, a heading in a fence,
  three levels of headings and a section of three words, which makes two
  windows of two tokens. Longer texts repeat these cases; the other scenarios
  use a short and a long text, with one and two chunks.
- *Topics of a question.* One document with up to two chunks, up to `MaxTopK` = 2 of
  them asked for: found all, some, or some that are gone when they are fetched.

Each property of a passing run is paired with a mutant of the code's model,
under which TLC finds it violated: the properties see the hazards they are for.

The runs of `AdminAuth`, `Bootstrap` and `Chat` set `CHECK_DEADLOCK FALSE`: there the calls and
the time of an instance are used up. All other runs look for deadlocks.

## 10 Fairness

`FileRuns!FairSpec`: a step of a running worker, of a life cycle and of a
request under way happens eventually (weak fairness: code that is running goes
on, the file and database operations it awaits end); a process that stopped is
started again (`restart: unless-stopped`, `docker-compose.yml:17` and `:82`);
`TakeFileLock` and `StartCleanup` are try-locks repeated by timers, and are
strongly fair: a lock that is free again and again is found free once. Nothing
is assumed of events: no crash, stop or request has to happen.

`ModelCalls!FairSpec`: callers go on; the timeout of 90 s ends a call a provider
does not answer (`NoAnswer` is always possible); waiting for a row lock is
strongly fair, as PostgreSQL queues the waiters of a row.

`Bootstrap!FairSpec`: a program inside an operation goes on, the timer calls
`cleanup()` every minute (`setup.service.ts:40-47`), and time passes; a cleanup that
fails is tried again by the next round. It is the only component with a file
that must go in the end; the same promise for the recovery token's file is kept
by the same code of `token-file.ts`.

`AdminAuth`, `FileStore` and `Chat` state no fairness: all their properties are about
safety.

## 11 Proofs

TLAPS proves the following for all values of the constants, from the named
assumptions on constants only.

**`RunQueueProofs`**: `QueueSafe` and `QueueEndedIsFinal`, from the hypothesis
`QueueAssumption` on its parameters (met by `FileRuns`: `1 .. MaxRuns`, the target
keys, `QueueLimit`) and `QueueInv`: types,
one running, one per key, bounded, results only of completed runs. The bound
needs that adding one run to a finite set of fewer than `Limit` runs stays within
it, hence the assumption that `Runs` is finite.

**`FileRunsProofs`** has three parts. First `TypeCorrect`. Types alone are not inductive: a worker
that executes "no run" would write outside of the rows. `IndInv` adds what
each program counter knows: requests past `idle` have a process, an identifier
and a proper job (`CallsSound`), rows have proper jobs (`JobsSound`), a worker
past its claim has a run (`WorkSound`), only ended runs grow old
(`ExpiredEnded`). One lemma per action.

Then `QueueImplemented` (`Spec => ImplementsQueue`): every
action maps to a step of `RunQueue` or to a stutter. Most leave `status`, `job`
and `result` alone; `ReserveCreate` is `Admit`, `Claim` is `Start`, `Write` is
`Complete`, `Fail` is `GiveUp` or `Interrupt`, `Stop`, boots, shutdowns and
`Discard` are `Interrupt`, `Drop` is `Forget`. `AdmissionSafe`
(`Spec => []AdmissionBounded`) is argued on the steps of the queue (`NextQueue`,
`QueueKeepsLimit`), not on the forty actions that implement them.
`EndedFrozen` follows from the
refinement and the fact that only a running run gets a result. The third part has
five more properties, each from an invariant of its own that refers to the
earlier ones:

- `VersionsAccountedFor` (`[]VersionsAccounted`), by `VersionsSound`: the uploads of an
  original have its versions, each once. It is inductive because only one worker at
  a time is about to store a result (lock 6), and the version it found stays
  the latest until it does.
- `ShutdownComplete` (`[]ShutdownLeavesNothingActive`), by `ShutdownSound`: every active
  run that is not stranded has somebody who will still see to it (`RunsAttended`), and an admission
  keeps its process from stopping (`RequestsServed`), since it holds the input
  lock that a shutdown waits for.
- `ResultsAreCurrent` (`ResultsCurrent`), by `LeasesSound` and `AimsSound`: between
  `complete()`'s check and its commit nobody changes the target, since removals
  and changes of scope hold lock 3; should the worker lose that one, lock 4 still leaves
  no other process that would take it, until its connection breaks as well. Hence the hypothesis on `Budgets`: at
  most one lost connection, or nothing that manages files. Every scenario of the
  runs meets it, and it cannot be dropped: with two lost connections and a
  removal TLC finds a result stored for a file that was removed after the check.
- `OneSuccess` (`[]OneSuccessPerUpload`), by `FamilySound`: an upload and its retries form
  a family; once one of them succeeded, all others have ended, and retention
  forgets them no later (so that nothing registers again what a forgotten
  success had registered). It uses `AdmissionSafe`: two active runs of a family would
  share a key.
- `InputsKept` (`[]InputKept`), by `InputsSound` and `KeptSound`: the runs whose input is
  needed (`Needed`) only become fewer, so that what a cleanup has read of a row
  stays good enough to remove its file; cleanups and admissions exclude each
  other by the input lock, and no row refers to a file that is being staged.

**`ModelCallsProofs`**: an inductive invariant of four parts:

- `TypeOK`, with the exclusion of admissions: a caller is inside exactly while
  it holds the Installation row;
- `TxSound`, what an open admission relies on: its request still has no row and
  is still allowed, swept rows are still overdue, and every answer under way is;
  no step of another caller or of the administrator changes that;
- `CallsSound`: a committed row has at most one caller, which alone closes it,
  and which knows whether it was sent; before its deadline it is seen as under
  way;
- `RowsSound`: the books.

Theorems: `CallsTypeCorrect`, `CallsSentOnce`, `ChargesAreHonest`,
`OneAnswerAtATime` (needs, beyond the invariant, that an answer admitted in
`Reserve` finds all others overdue since its sweep), `CommittedUnderPolicy` and
`SettledIsFinal` (both from `RowSteps`: what any step can do to one row).

`MonthsStayWithinBudget` (`[]BudgetKept`) and `RunImplementsLedger` (`Spec => ImplementsLedger`)
are about sums. The model's `MapThenSumSet` is defined by recursion over a finite
set; the module shows that it unfolds, one element at a time, to a total (`Total`)
that does not depend on the order, by taking a smallest set for which that fails.
`Booked` then says of every month that what its rows may still cost fits the
budget its last row was admitted under, and of an open admission that the charges it
has read are no less than what is settled. With the two snapshots of `exposure()`
this is not obvious: a call that closed between them would be in neither. But
`Settle` waits for the Installation row, and the one step that does not wait and closes a
call, `NotSent`, closes it at no charge. The refinement reads off the same invariant that
an admission which commits fits the ledger.

**`BootstrapProofs`**: `OneAdministrator` (`Spec => OneRegistration`). The
invariant is that the count of administrators is what the flag says; the proof goes
through `OnlyRegisterCounts`: no step but a registration touches either, in
particular none of a program that has lost its transaction, and the token such a request
presented, when it began to wait, is the one in force when it has the row.
`SetupTypeCorrect`: the types, action by action. `GuessesArePaced`
(`[]GuessesTakeTime`): the time that n failures have cost is the sum of their delays,
since each failure past the threshold blocks from the time it is counted (`Paced`).
The sum (`BlockedFor`) is a recursive function; that it unfolds follows from
the least number for which it would not.

**`AdminAuthProofs`**: `AuthTypeCorrect`, `SessionsAreCurrent`
(`Spec => []CurrentCredential`), `RevocationHolds` (`Spec => RevocationBoundary`),
`RecoveredOnce` (`Spec => TokenSpentOnce`), `FailuresArePaced` (`[]FailuresTakeTime`, by the
argument of `GuessesArePaced` for each of the two lanes) and `CleanupIsSafe`
(`Spec => CleanupSparesNewFile`, by `CleanupSound`: while a cleanup that will remove the file
keeps its transaction, no token comes into force). The invariant `AuthInv` has, beyond the types
and `LocksSound` (a writer is alone, and whoever is about to write is the writer):

- `UseSound`: a session that is in use is open. It is kept because whoever revokes
  sessions is the writer, and then nobody uses one (`WriterAlone`);
- `CurrentCredential` itself: a change of the password revokes all sessions in the
  step that changes it, and a login verifies the password in the step that opens one;
- `TokensSound`: the token in force is unspent and as old as the password; a token on
  its way into force is unspent and nobody else's, so that an issuance that lost its
  transaction, or died, cannot bring back what was spent.

`LocksSound` is where losing a transaction matters: `Lose` frees the lock of a program
that goes on with its files, which is harmless because such a program no longer writes.

**`FileStoreProofs`**, for `FileStore` with its extension `FileIndexing`. `StoreTypeCorrect`
adds to the types that a name reserved for a file being written is nobody else's.
Most arguments use what rows can do (`RowsGrow`: versions are never replaced, only
purged; a deleted original stays deleted) instead of the thirty actions:

- `FilesAreKept` (`[]FilesKept`): whoever reconciles or uploads is alone with the
  files (`Sole`), and what it is about to remove or to register is as it was looked up
  (`Handled`). Under the hypothesis `Losing \subseteq JobKinds`.
- `UnavailableIsAFault` (`[]UnavailableOnlyByFault`), under the same hypothesis: the scope
  of an original only grows and a version does not come back, so that a reader that
  misses its file finds out on rechecking (`ReadersSound`).
- `IndexesAreFaithful`, `SuccessIsSearchable`: a job embeds, in order, the chunks of
  the one text that it took (`IndexSound`), and compares that text when it stores.
- `SearchableIsCited` (`[]SearchableIsReferenceable`) relates three predicates and needs
  no invariant: it holds of every state.
- `RemovedStaysGone` (`[]RemovedIsGone`): nothing comes back to a deleted original, so
  that the steps of `reconcile()` add up (`RemovalsSound`).

The last four hold whenever the lock is lost.

**`ChatProofs`**, for `ConnectorSync` and `Chat`. `ConnectorInvariant` and from it
`EmbeddingsAreFaithful`, `IndexedIsEmbedded` and `ChunksAreOfTheText` (a document's chunks
are at every step those of its text, whoever wrote last): the identifier of
a chunk, of a vector and of a source carries its content (`RowsSound`, `RunsSound`,
`SourcesSound`), and a process alone with the store is followed from the replacement of a
document to its status (`StagesSound`). `ChatInvariant` and from it `TracesAreFaithful`,
`AnswersHaveTheirSources` and `DraftsNameTheSources`: how far a request has come and
what it has stored by then (`AskSound`), and what a draft of it may name (`Complete`).
`ChatAssumption` says for the latter that a row of Question is not NULL.

`QuietSyncsAreCurrent` (`[]QuietSyncCurrent`) follows one sync from `Begin` to its end:

- `ConnectorTypes` (`[]SyncTyped`): the source, the rows and the runs are typed, and a
  run has what its next step needs.
- `NothingNewerIsKnown` (`[]NewestKnown`): of a page no snapshot and no row has a newer
  stamp than the page, and what has its stamp has its text. That the stamp is read
  before the text makes this inductive; it is why a document skipped by its stamp is
  current, whatever an earlier sync read while people edited.
- `QuietInv`, of the process that has had the store to itself (`Followed`): every item in
  its reach that nobody touched is already read or can be reached from what is still on
  its list (`Ahead`); what it read of such an item is what the item is, its status with
  those of the pages above (`Right`); and what it has passed is stored so
  (`StoringRight`), the archiving of what it did not see included.

The pages being a tree (`SyncAssumption`) is what makes reading every page once enough.

**`ChunkProofs`**, for `Chunking`: what the parser and the windows make of a text, for
every text, `MaxTokens` and `OverlapTokens`. The library's induction cannot be used, so
a function on `0 .. n` is shown to exist by building it a value at a time (`StepByStep`),
and two such functions, or a property of one, are compared by the least number at which
they differ (`LeastNatural`, `UpTo`).

- `ChunksRepeat`: the sections already filed and the lines still held say, together, what
  the lines read so far say (`ParserSays`); a fence is open in the parser where `Fenced`
  says so (`InFence`); every window but the
  first begins an overlap before the end of the full one before it, so what the windows of
  a section say anew is its tokens (`WindowsRepeat`), and the chunks of one section
  after those of another repeat both (`RepeatsThen`).
- `ChunksUnderHeadings`: where no heading skips a level the path has at place `v` the
  heading of level `v` over the next line (`Named`, kept by a heading in `NamedStep`), so
  each section is a piece of the text under one path (`HeadedSections`), and a word of
  a chunk is a word of a line of its section (`PartsFrom`).

`ChatProofs` brings both to the stored rows. A place holds one chunk (`OneChunkAPlace`),
so that the rows, which are those of the document's text (`ChunksAreOfTheText`), are its
chunks in order (`RowsOfText`); hence `ChunksRepeatTheText` (`[]ChunksRepeatText`) and
`ChunksAreFiledRightly` (`[]ChunksHeaded`). `SyncAssumption` says of the texts only
that they are sequences of lines; a word may stand in many of them.

Only model-checked:

- everything under fairness, which is out of the prover's reach: `RunsEnd`,
  `ShutdownEnds`, `OrphansSwept`, `CallsReturn`, `SetupFilesRemoved`;
- the two properties of the next section, which the code violates.

## 12 Where code and documents disagree

Two runs are expected to find a violation; each checks a sentence of a document
against what the code does.

1. `second_original` (`RecoveredUploadNotRepeated`;
   `docs/implementation/v0.2-d03-file-runs.md:31`). A registration fails; its retry
   stores a version that cannot be read; the retry of that one reprocesses it
   successfully. Another retry of the first run looks for a recovery by parent or
   target key (`file-run.service.ts:378-391`), finds neither, and registers a second
   original.
2. `archived` (`ArchivedNotRetrieved`; `TASK_v0.1_updated.md:1027`: archived and
   deprecated documents are excluded in every mode). The chat's retriever
   (`chat.runtime.ts:125-185`) searches without statuses and does not look at the
   status of what it fetches; the excluded statuses of
   `rag-core/src/retrieval-mode.ts` are used only by
   `connectors/src/retrieval-mode.ts`, which no request goes through.

Also noticed while modelling, with no run of their own:

- Between the claim of a run and the assignment of `this.active`
  (`file-run.service.ts:856`) a shutdown finds nothing to interrupt; the run is
  cancelled a moment later and recorded as *failed*, not *interrupted*
  (`v0.2-d03-file-runs.md:30`).
- A recovery cleanup that finds no token has no statement left between removing
  temporary files and removing the token's file (`auth.service.ts:600`). If its
  transaction ends in between, a token may be issued before the cleanup goes on
  and removes its file (`v0.2-b04-authentication.md:33`). The token stays in force;
  the operator has to issue another. `CleanupSparesNewFile` is stated for cleanups
  whose transaction is still there.
- If the connection that holds lock 3 breaks while an upload is between its file
  and its row, another process may reconcile the file away and the upload then
  commits a row without a file: `FilesKept` fails when `Losing` contains "upload"
  (`v0.2-d02-file-management.md:31`).
- A document whose first headings skip a level files later sections under
  a longer path, which keeps a heading that should have been replaced (`markdown.ts:78`; `README.md:52` promises the path of headings):
  `ChunksHeaded` is stated where no heading skips a level.
- `README.md:51` says that pages that are gone are archived; only the repository
  connector does so.

## 13 What is not modelled

Of the modelled components: encryption of keys, the wording of errors, the
read-only endpoints, a database that fails during a start or a shutdown of the
file runs (a start that fails is a crash), an `unlink` that
fails, and the loss of the connection that holds lock 5 (a loss of 3 and 4 is
modelled). The optimistic reading that a lock's connection is noticed as lost
only at the next check is kept: `LoseLock` takes the lock away at once, the
process learns of it in `CheckOwnerFails`. Ownership is checked at the head of
`drain()` and may be lost before the claim; the run then starts all the same, and
since `complete()` checks again it stores no result.

Two alternatives are missing because they reach nothing new: `ModelCalls!NotSent` does
not fail (what a failing update leaves behind, `Crash` leaves too), and `AdminAuth!Fail`
undoes the removal of temporary files, which the timer repeats.

Of the newer modules, what is left out is said where they are described
([7](#7-files-and-their-index), [8](#8-connectors-chunks-and-chat)).

Components not modelled, and why:

- *File extraction child process*: planned (`FileExtractor`); its timeout, abort and
  exit end in one of the outcomes that `FileRuns!Extract` and `FileStore!Extract`
  choose from. The parsers of file formats are third-party code.
- *Agent configuration*: planned; one revisioned row written under
  `sensitiveOperation`, whose protocol `AdminAuth!Sensitive` models.
- *Access decision*: a read-only check on top of the session.
- *Retrieval modes and rankings*: a pure choice of a strategy and a weighted sort, not
  used by the chat's own retriever.
- *Agent core, evaluation, diagnostics, deployment scripts, web client*: wording,
  offline scoring, operator's scripts and presentation, without protocol state.

## Running it

    tlc -config FileRuns_requests.cfg MCFileRuns.tla
    tlc -config ModelCalls_settings.cfg MCModelCalls.tla
    tlc -config AdminAuth_safety.cfg MCAdminAuth.tla
    tlc -config Bootstrap.cfg MCBootstrap.tla
    tlc -config FileStore_safety.cfg MCFileIndexing.tla
    tlc -config Chat_knowledge.cfg MCChat.tla
    tlapm RunQueueProofs.tla
    tlapm FileRunsProofs.tla
    tlapm ModelCallsProofs.tla
    tlapm AdminAuthProofs.tla
    tlapm BootstrapProofs.tla
    tlapm FileStoreProofs.tla
    tlapm ChunkProofs.tla
    tlapm ChatProofs.tla
