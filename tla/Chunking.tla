----------------------------- MODULE Chunking -------------------------------
(***************************************************************************)
(* How a document becomes chunks: parseMarkdownSectionsWithLocations() of   *)
(* rag-core/src/markdown.ts and chunkDocument() of rag-core/src/chunker.ts. *)
(*                                                                         *)
(* A text is a sequence of lines.  A line is a heading, the delimiter of a  *)
(* fence, a blank, or anything else ("body"); its word stands for what it   *)
(* says, level for a heading's level or a delimiter's length, and info for  *)
(* what follows a delimiter: nothing, a word, or something with a backtick. *)
(***************************************************************************)
EXTENDS Naturals, SequencesExt

CONSTANTS
  MaxTokens,    \* tokens of a chunk (600 in the code)
  OverlapTokens \* tokens a chunk shares with the one before (80)

ASSUME ChunkingAssumption == MaxTokens \in Nat \ {0} /\ OverlapTokens \in Nat

Smaller(a, b) == IF a < b THEN a ELSE b

NoFence == [kind |-> "none"]
Body(w) == [kind |-> "body", word |-> w]
Blank == [kind |-> "blank"]
Heading(n, w) == [kind |-> "heading", level |-> n, word |-> w]
Delimiter(m, n, i, w) == [kind |-> "fence", marker |-> m, level |-> n, info |-> i, word |-> w]

\* What the theorems take a text to be.
IsLine(l) ==
  l.kind \in {"body", "blank", "heading", "fence"} /\ (l.kind = "heading" => l.level \in Nat \ {0})
IsText(text) == text \in Seq(ToSet(text)) /\ \A l \in ToSet(text) : IsLine(l)

-----------------------------------------------------------------------------
(* Sections *)

\* A backtick in the information of a backtick fence makes it an ordinary line.
Opens(l) == l.kind = "fence" /\ (l.marker = "~" \/ l.info # "tick")

ClosesAny(l, fence) == l.kind = "fence"  \* mutant: any delimiter ends a fence
Closes(l, fence) ==
  /\ l.kind = "fence" /\ l.marker = fence.marker
  /\ l.level >= fence.level /\ l.info = "none"

\* The path keeps the first level - 1 headings of the path before.
PathAt(path, l) == Append(SubSeq(path, 1, Smaller(l.level - 1, Len(path))), l.word)

BeforeText == [line |-> 0, start |-> 1, body |-> <<>>, path |-> <<>>,
               saw |-> FALSE, fence |-> NoFence, sections |-> <<>>]

IsBlank(lines) == \A k \in DOMAIN lines : lines[k].kind = "blank"

Flush(p) ==
  [p EXCEPT !.body = <<>>,
            !.sections = IF IsBlank(p.body) THEN @
                         ELSE Append(@, [path |-> p.path, start |-> p.start,
                                         end |-> p.start + Len(p.body) - 1, lines |-> p.body])]

ReadLine(p, l) ==
  LET q == [p EXCEPT !.line = @ + 1]
      kept == [q EXCEPT !.body = Append(@, l)]
  IN CASE p.fence # NoFence -> [kept EXCEPT !.fence = IF Closes(l, @) THEN NoFence ELSE @]
       [] p.fence = NoFence /\ Opens(l) -> [kept EXCEPT !.fence = l]
       [] p.fence = NoFence /\ l.kind = "heading" ->
            [Flush(q) EXCEPT !.start = q.line + 1, !.path = PathAt(@, l), !.saw = TRUE]
       [] OTHER -> kept

\* The parser after each line.
ParserAt(text) ==
  LET p[k \in 0 .. Len(text)] == IF k = 0 THEN BeforeText ELSE ReadLine(p[k - 1], text[k])
  IN p

\* A text without a heading has no sections, whatever it says.
Sections(text) ==
  LET p == Flush(ParserAt(text)[Len(text)])
  IN IF p.saw THEN p.sections ELSE <<>>

-----------------------------------------------------------------------------
(* Windows of tokens *)

LineTokens(l) == CASE l.kind = "blank" -> <<>>
                   [] l.kind = "heading" -> <<0, l.word>>  \* its "#"
                   [] OTHER -> <<l.word>>
TokensOf(lines) == FlattenSeq([k \in DOMAIN lines |-> LineTokens(lines[k])])

Overlap == Smaller(OverlapTokens, MaxTokens - 1)
Step == MaxTokens - Overlap

\* mutant: the windows go on after one has reached the end
WindowsPastEnd(tokens) ==
  [w \in 1 .. (Len(tokens) + Step - 1) \div Step |->
     SubSeq(tokens, (w - 1) * Step + 1, Smaller((w - 1) * Step + MaxTokens, Len(tokens)))]

\* Windows start Step apart; the last is the first that reaches the end.
Windows(tokens) ==
  LET n == Len(tokens)
      count == IF n <= MaxTokens THEN 1
               ELSE 1 + (n - MaxTokens + Step - 1) \div Step
  IN IF n = 0 THEN <<>>
     ELSE [w \in 1 .. count |->
             SubSeq(tokens, (w - 1) * Step + 1, Smaller((w - 1) * Step + MaxTokens, n))]

SectionChunks(path, lines) ==
  LET windows == Windows(TokensOf(lines))
  IN [w \in DOMAIN windows |-> [path |-> path, content |-> windows[w]]]

\* Section after section, numbered through; a text without sections as a whole.
ChunksOf(text) ==
  LET sections == Sections(text)
  IN IF sections # <<>>
     THEN FlattenSeq([k \in DOMAIN sections |->
                        SectionChunks(sections[k].path, sections[k].lines)])
     ELSE SectionChunks(<<>>, text)

-----------------------------------------------------------------------------
(* What is promised of them, said without the parser *)

\* A line is fenced if an unfenced line above opens a fence that is not closed.
Fenced(text) ==
  LET f[k \in 1 .. Len(text)] ==
        \E j \in 1 .. k - 1 :
          /\ ~f[j] /\ Opens(text[j])
          /\ \A m \in j + 1 .. k - 1 :
               ~ (/\ text[m].kind = "fence" /\ text[m].marker = text[j].marker
                  /\ text[m].level >= text[j].level /\ text[m].info = "none")
  IN f

HeadingsOf(text) == {k \in DOMAIN text : text[k].kind = "heading" /\ ~Fenced(text)[k]}

\* The headings over line k: those not followed by one of their level or higher.
HeadingsOver(text, k) ==
  {h \in HeadingsOf(text) :
     h < k /\ \A g \in HeadingsOf(text) : h < g /\ g < k => text[g].level > text[h].level}

\* No heading skips a level, the first one included.
WellNested(text) ==
  \A h \in HeadingsOf(text) :
    \/ text[h].level = 1
    \/ \E g \in HeadingsOver(text, h) : text[g].level = text[h].level - 1

\* The words of them, in the order in which they come.
PathOver(text, k) ==
  LET over == HeadingsOver(text, k)
      nth(n) == CHOOSE h \in over : Cardinality({g \in over : g <= h}) = n
  IN [n \in 1 .. Cardinality(over) |-> text[nth(n)].word]

\* The lines that can be found: without the headings once there is a section.
FoundLines(text) ==
  {k \in DOMAIN text : /\ text[k].kind # "blank"
                       /\ Sections(text) # <<>> => k \notin HeadingsOf(text)}

\* What there is to find, in order.
WordsOf(text) ==
  FlattenSeq([k \in DOMAIN text |-> IF k \in FoundLines(text) THEN LineTokens(text[k]) ELSE <<>>])

\* Chunk k begins with what the full chunk before it ended with, and says more.
GoesOn(contents, k) ==
  /\ k > 1 /\ Len(contents[k - 1]) = MaxTokens /\ Len(contents[k]) > Overlap
  /\ SubSeq(contents[k], 1, Overlap) = SubSeq(contents[k - 1], MaxTokens - Overlap + 1, MaxTokens)

\* What each chunk says that those before it did not say.
News(contents, again) ==
  [k \in DOMAIN contents |->
     SubSeq(contents[k], IF k \in again THEN Overlap + 1 ELSE 1, Len(contents[k]))]

\* But for the overlap with which some of them go on, the chunks are the words:
\* nothing lost, nothing invented, nothing said twice, all in order.
Repeats(contents, words) ==
  \E again \in SUBSET {k \in DOMAIN contents : GoesOn(contents, k)} :
    FlattenSeq(News(contents, again)) = words

RepeatsText(contents, text) ==
  /\ Repeats(contents, WordsOf(text))
  /\ \A k \in DOMAIN contents : Len(contents[k]) \in 1 .. MaxTokens

\* Whatever a chunk says comes from a line that stands under the chunk's headings.
UnderItsHeadings(path, content, text) ==
  Sections(text) # <<>> =>
    \A token \in ToSet(content) :
      \E k \in FoundLines(text) : token \in ToSet(LineTokens(text[k])) /\ path = PathOver(text, k)
=============================================================================
