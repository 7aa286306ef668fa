-------------------------------- MODULE Chat --------------------------------
(***************************************************************************)
(* Questions answered from the documents while connectors replace them, and *)
(* drafts written for the gaps they leave: apps/api/src/chat/               *)
(* {chat-contract,chat.service,chat.runtime}.ts, knowledge-gaps/            *)
(* {knowledge-gap-rules,knowledge-gaps.service,draft-generator}.ts and      *)
(* packages/database/src/{embedding,retrieval-mode,knowledge-gap,           *)
(* action-draft}.ts.                                                        *)
(*                                                                         *)
(* executeQuestion() awaits one query after another and no transaction      *)
(* spans two of them: the vector search, the chunks it found, the language  *)
(* model, the question, its trace, its knowledge gap.  A row of the trace   *)
(* refers to a chunk, and goes with it (ON DELETE CASCADE).  createDraft()  *)
(* reads the gap with the trace, and stores the draft in a later query.     *)
(***************************************************************************)
EXTENDS ConnectorSync

CONSTANTS
  Requests,   \* questions, asked once each
  MaxTopK,    \* MAX_TOP_K
  Drafters,   \* calls of createDraft()
  DraftTypes  \* an issue, a file, a page

ASSUME ChatAssumption ==
  /\ MaxTopK \in Nat \ {0} /\ \A a \in Allowances : a["ask"] \in Nat /\ a["draft"] \in Nat
  /\ None \notin [answered : BOOLEAN]  \* a row of Question is not NULL

VARIABLES
  ask,      \* what each request is doing: [at, model, topK, found, sources, gap]
  question, \* Question rows: [answered], or None
  trace,    \* QuestionSource rows of each question: [item, id, content]
  gap,      \* whether the question has a KnowledgeGap row
  writing,  \* what each call of createDraft() has read: [of, sources], or None
  draft,    \* ActionDraft rows of each gap: the sources its body names, or None
  replaced  \* history: documents replaced since the trace was stored

draftVars == <<writing, draft>>
chatVars == <<ask, question, trace, gap, draftVars, replaced>>
vars == <<syncVars, chatVars>>

NotAsked ==
  [at |-> "idle", model |-> None, topK |-> 0, found |-> {}, sources |-> {}, gap |-> FALSE]

Init ==
  /\ SyncInit
  /\ ask = [q \in Requests |-> NotAsked]
  /\ question = [q \in Requests |-> None]
  /\ trace = [q \in Requests |-> {}]
  /\ gap = [q \in Requests |-> FALSE]
  /\ writing = [d \in Drafters |-> None]
  /\ draft = [q \in Requests |-> [t \in DraftTypes |-> None]]
  /\ replaced = [q \in Requests |-> {}]

To(q, a) == ask' = [ask EXCEPT ![q] = a]
Chunks == UNION {{[item |-> i, id |-> c.id, content |-> c.content, by |-> c.by] : c \in chunks[i]} :
                   i \in Items}

-----------------------------------------------------------------------------
(* A request *)

\* How many sources may be asked for; the strategy of the mode has no say in it,
\* and a mode without a strategy is refused.
AskedFor == 1 .. MaxTopK

\* The question is embedded by whatever model the server is configured with.
Ask(q) ==
  /\ ask[q].at = "idle" /\ Spend("ask")
  /\ \E m \in Models, k \in AskedFor :
       To(q, [NotAsked EXCEPT !.at = "search", !.model = m, !.topK = k])
  /\ UNCHANGED <<sourceVars, storeVars, run, historyVars, question, trace, gap, draftVars, replaced>>

\* searchDocumentChunksByEmbedding(): the nearest chunks among those the same
\* model embedded, whatever the status of their documents.
Search(q) ==
  /\ ask[q].at = "search"
  /\ LET embedded == {c \in Chunks : c.by = ask[q].model}
     IN \E found \in SUBSET embedded :
          /\ Cardinality(found) = Smaller(ask[q].topK, Cardinality(embedded))
          /\ To(q, [ask[q] EXCEPT !.at = IF found = {} THEN "store" ELSE "fetch",
                                  !.found = {c.id : c \in found}])
  /\ UNCHANGED <<syncVars, question, trace, gap, draftVars, replaced>>

\* Of what was found, what is still there.
Fetch(q) ==
  /\ ask[q].at = "fetch"
  /\ To(q, [ask[q] EXCEPT !.at = "store",
              !.sources = {[item |-> c.item, id |-> c.id, content |-> c.content] :
                             c \in {d \in Chunks : d.id \in ask[q].found}}])
  /\ UNCHANGED <<syncVars, question, trace, gap, draftVars, replaced>>

NeedsGapIfAnswered(answered, confident) == answered /\ ~confident  \* mutant
\* shouldCreateKnowledgeGap(): no answer, a gap the model names, low confidence.
NeedsGap(answered, confident) == ~answered \/ ~confident

\* isRetrievalAnswerable(): it depends on the scores, where there are any.
MayBeAnswered(sources) == IF sources = {} THEN {FALSE} ELSE BOOLEAN

\* mutant: the gap is stored before the trace
AfterGapFirst(at, needsGap) ==
  CASE at = "store" -> IF needsGap THEN "gap" ELSE "trace"
    [] at = "gap" -> "trace"
    [] at = "trace" -> "answered"
\* The order in which a request stores what it found out.
After(at, needsGap) ==
  CASE at = "store" -> "trace"
    [] at = "trace" -> IF needsGap THEN "gap" ELSE "answered"
    [] at = "gap" -> "answered"

\* What is answerable is answered by the language model, confidently or not;
\* then the question is stored.
StoreQuestion(q) ==
  /\ ask[q].at = "store"
  /\ \E answered \in MayBeAnswered(ask[q].sources), confident \in BOOLEAN :
       /\ question' = [question EXCEPT ![q] = [answered |-> answered]]
       /\ To(q, [ask[q] EXCEPT !.at = After("store", NeedsGap(answered, confident)),
                               !.gap = NeedsGap(answered, confident),
                               !.sources = IF answered THEN @ ELSE {}])
  /\ UNCHANGED <<syncVars, trace, gap, draftVars, replaced>>

TraceableAnyway(sources) == TRUE  \* mutant: nothing holds a trace to its chunks
\* Every source has to refer to a chunk, or the transaction fails.
Traceable(sources) == \A t \in sources : \E c \in chunks[t.item] : c.id = t.id

\* persistQuestionRetrievalSelection(): all of the sources, in one transaction.
Trace(q) ==
  /\ ask[q].at = "trace"
  /\ IF Traceable(ask[q].sources)
     THEN /\ trace' = [trace EXCEPT ![q] = ask[q].sources]
          /\ To(q, [ask[q] EXCEPT !.at = After("trace", ask[q].gap)])
     ELSE To(q, [ask[q] EXCEPT !.at = "failed"]) /\ UNCHANGED trace
  /\ replaced' = [replaced EXCEPT ![q] = {}]
  /\ UNCHANGED <<syncVars, question, gap, draftVars>>

StoreGap(q) ==
  /\ ask[q].at = "gap"
  /\ gap' = [gap EXCEPT ![q] = TRUE]
  /\ To(q, [ask[q] EXCEPT !.at = After("gap", TRUE)])
  /\ UNCHANGED <<syncVars, question, trace, draftVars, replaced>>

\* The language model's answer may not parse, a query may fail: nothing is undone.
Fail(q) ==
  /\ ask[q].at \in {"search", "fetch", "store", "trace", "gap"} /\ Spend("fault")
  /\ To(q, [ask[q] EXCEPT !.at = "failed"])
  /\ UNCHANGED <<sourceVars, storeVars, run, historyVars, question, trace, gap, draftVars, replaced>>

RequestStep(q) ==
  \/ Ask(q) \/ Search(q) \/ Fetch(q) \/ StoreQuestion(q) \/ Trace(q) \/ StoreGap(q) \/ Fail(q)

-----------------------------------------------------------------------------
(* A draft for a gap *)

\* The sources a draft names: those of the stored trace, in the order of rank.
Cited(q) == trace[q]

\* createDraft(): the gap with its question, the trace and its chunks, in one query.
ReadGap(d, q) ==
  /\ writing[d] = None /\ gap[q] /\ Spend("draft")
  /\ writing' = [writing EXCEPT ![d] = [of |-> q, sources |-> Cited(q)]]
  /\ UNCHANGED <<sourceVars, storeVars, run, historyVars, ask, question, trace, gap, draft, replaced>>

\* persistActionDraft(): one draft of each type, the later one replaces it; or an
\* error, and nothing is stored.
PersistDraft(d, t) ==
  /\ writing[d] # None
  /\ \/ draft' = [draft EXCEPT ![writing[d].of][t] = writing[d].sources]
     \/ UNCHANGED draft
  /\ writing' = [writing EXCEPT ![d] = None]
  /\ UNCHANGED <<syncVars, ask, question, trace, gap, replaced>>

DraftStep(d) ==
  \/ \E q \in Requests : ReadGap(d, q)
  \/ \E t \in DraftTypes : PersistDraft(d, t)

-----------------------------------------------------------------------------

\* Replacing a document's chunks deletes the traces that refer to them.
Replace(s) ==
  /\ Upsert(s)
  /\ LET i == Snap(s).item
     IN /\ trace' = [q \in Requests |-> {t \in trace[q] : t.item # i}]
        /\ replaced' = [q \in Requests |-> replaced[q] \cup {i}]
  /\ UNCHANGED <<ask, question, gap, draftVars>>

Next ==
  \/ \E q \in Requests : RequestStep(q)
  \/ \E d \in Drafters : DraftStep(d)
  \/ (SourceStep \/ \E s \in Syncs : SyncStep(s)) /\ UNCHANGED chatVars
  \/ \E s \in Syncs : Replace(s)

Spec == Init /\ [][Next]_vars

-----------------------------------------------------------------------------
(* Properties *)

\* A stored source is a chunk with the very content the answer was given, though
\* the document may be replaced between search, answer and trace, and after.
TraceFaithful ==
  \A q \in Requests : \A t \in trace[q] :
    \E c \in chunks[t.item] : c.id = t.id /\ c.content = t.content

\* A request that succeeded has stored its question, with a gap or an answer, and
\* every source of the answer whose document was not replaced afterwards.
AnswersAreBacked ==
  \A q \in Requests :
    ask[q].at = "answered" =>
      /\ question[q] # None /\ (gap[q] \/ question[q].answered)
      /\ question[q].answered => ask[q].sources # {}
      /\ trace[q] = {t \in ask[q].sources : t.item \notin replaced[q]}

\* A draft names sources of the answer only, and every one whose document was not
\* replaced since: whatever else is stored, replaced or drafted meanwhile, nobody
\* drafts from a gap whose trace is not there yet.
DraftsComplete ==
  \A q \in Requests, t \in DraftTypes :
    draft[q][t] # None =>
      /\ draft[q][t] \subseteq ask[q].sources
      /\ {s \in ask[q].sources : s.item \notin replaced[q]} \subseteq draft[q][t]

\* Documents whose status the strategy of every mode excludes are not retrieved.
ArchivedNotRetrieved ==
  [][\A q \in Requests :
       ask[q].at = "fetch" /\ ask'[q].at = "store" =>
         \A t \in ask'[q].sources : docs[t.item].status # "archived"]_vars
=============================================================================
