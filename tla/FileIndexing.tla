---------------------------- MODULE FileIndexing ----------------------------
(***************************************************************************)
(* The index jobs of apps/api/src/files/file-index.service.ts, run by the   *)
(* worker of file-run.service.ts under the lock of FileStore: a snapshot of *)
(* the newest version, one model call for each chunk, and a transaction     *)
(* that stores them.  Every transaction checks the source again; it may     *)
(* also be refused, because the session or the run has ended meanwhile.     *)
(***************************************************************************)
EXTENDS FileStore

CONSTANT MaxParts  \* bound: chunks of one text; how many depends on the settings

ASSUME MaxPartsAssumption == MaxParts \in Nat \ {0}

-----------------------------------------------------------------------------
Index(a, o) == StartJob(a, "index", "snapshot", o)

\* snapshot() and the number of chunks the current settings make of the text.
Snapshot(a) ==
  LET q == op[a] IN
  /\ q.at = "snapshot"
  /\ \/ FailOp(a)
     \/ /\ CurrentFile(q.base) /\ Newest(q.of, q.base) /\ version[q.base].text # None
        /\ \E n \in 1 .. MaxParts :
             op' = [op EXCEPT ![a].at = "load", ![a].text = version[q.base].text,
                              ![a].scope = original[q.of].scope, ![a].parts = n]
        /\ UNCHANGED lock
  /\ UNCHANGED <<rowVars, disk, reader, removed, left>>

\* The original must still be there before anything is sent away.
LoadOriginal(a) ==
  /\ op[a].at = "load"
  /\ \/ FailOp(a)
     \/ disk[op[a].base] # None /\ Go(a, "compare") /\ UNCHANGED lock
  /\ UNCHANGED <<rowVars, disk, reader, removed, left>>

\* Mutant: the text is not compared.
SourceKeepsScope(a) ==
  CurrentFile(op[a].base) /\ original[op[a].of].scope = op[a].scope

\* check(): eligible, under the same scope, with the same text.
SourceUnchanged(a) ==
  /\ CurrentFile(op[a].base) /\ original[op[a].of].scope = op[a].scope
  /\ version[op[a].base].text = op[a].text

SameIndexAnyText(i, a) == i.scope = op[a].scope /\ i.parts = op[a].parts  \* mutant

\* An index of this text, scope and chunk size, with all of its chunks.
SameIndex(i, a) ==
  /\ i.text = op[a].text /\ i.scope = op[a].scope /\ i.parts = op[a].parts
  /\ Len(i.chunks) = i.parts

\* Nothing to do: the job succeeds, counted as unchanged.
Same(a) ==
  /\ op[a].at = "compare" /\ SourceUnchanged(a) /\ SameIndex(index[op[a].base], a)
  /\ Leave(a)
  /\ UNCHANGED <<rowVars, disk, reader, removed, left>>

Differs(a) ==
  /\ op[a].at = "compare"
  /\ \/ FailOp(a)
     \/ /\ SourceUnchanged(a) /\ ~SameIndex(index[op[a].base], a)
        /\ Go(a, "reuse") /\ UNCHANGED lock
  /\ UNCHANGED <<rowVars, disk, reader, removed, left>>

\* The same bytes and text under an earlier version of the same original.
Prior(a) == {k \in Versions(op[a].of) \ {op[a].base} :
               SameIndex(index[k], a) /\ version[k].content = version[op[a].base].content}

\* Copy the chunks of such a version, without a model call.
Rebind(a) ==
  /\ op[a].at = "reuse" /\ SourceUnchanged(a)
  /\ \E k \in Prior(a) :
       index' = [index EXCEPT ![op[a].base] =
                   [text |-> op[a].text, scope |-> op[a].scope, parts |-> op[a].parts,
                    chunks |-> index[k].chunks]]
  /\ Leave(a)
  /\ UNCHANGED <<original, version, old, settled, disk, reader, removed, left>>

NoReuse(a) ==
  /\ op[a].at = "reuse"
  /\ \/ FailOp(a)
     \/ SourceUnchanged(a) /\ Prior(a) = {} /\ Go(a, "embed") /\ UNCHANGED lock
  /\ UNCHANGED <<rowVars, disk, reader, removed, left>>

\* One model call for one chunk, authorized by the same check; a call without an
\* answer fails the job and is not repeated.
Embed(a) ==
  LET q == op[a] IN
  /\ q.at = "embed"
  /\ \/ FailOp(a)
     \/ /\ Len(q.vectors) < q.parts /\ SourceUnchanged(a)
        /\ op' = [op EXCEPT ![a].vectors = Append(@, <<q.text, Len(@) + 1>>)]
        /\ UNCHANGED lock
  /\ UNCHANGED <<rowVars, disk, reader, removed, left>>

\* Replace the version's index and its chunks, and complete the run.
Store(a) ==
  LET q == op[a] IN
  /\ q.at = "embed" /\ Len(q.vectors) = q.parts /\ SourceUnchanged(a)
  /\ index' = [index EXCEPT ![q.base] = [text |-> q.text, scope |-> q.scope,
                                         parts |-> q.parts, chunks |-> q.vectors]]
  /\ Leave(a)
  /\ UNCHANGED <<original, version, old, settled, disk, reader, removed, left>>

IndexStep(a) ==
  \/ Snapshot(a) \/ LoadOriginal(a) \/ Same(a) \/ Differs(a) \/ Rebind(a)
  \/ NoReuse(a) \/ Embed(a) \/ Store(a)

Next ==
  \/ StoreNext
  \/ \E a \in Apis : IndexStep(a) \/ \E o \in Originals : Index(a, o)

Spec == Init /\ [][Next]_vars

-----------------------------------------------------------------------------
(* Properties *)

\* A chunk a search may return was embedded from the text its version has now,
\* and all chunks of that text are there, whoever embedded them and whatever
\* was replaced, extracted again or rebound since.
IndexFaithful ==
  \A k \in Found :
    /\ Len(index[k].chunks) = index[k].parts
    /\ \A i \in 1 .. index[k].parts : index[k].chunks[i] = <<version[k].text, i>>

\* A job that succeeds, with or without work, leaves its version searchable.
SuccessMeansSearchable ==
  [][\A a \in Apis, k \in Keys :
       (Same(a) \/ Rebind(a) \/ Store(a)) /\ op[a].base = k => Searchable(k)']_vars
=============================================================================
