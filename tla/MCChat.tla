------------------------------- MODULE MCChat --------------------------------
(***************************************************************************)
(* Instances of Chat for TLC.                                       *)
(***************************************************************************)
EXTENDS Chat, TLC

CONSTANTS s1, s2, i1, i2, i3, r1, r2, m1, q1, d1

\* A page with one page below it; a repository with two files and one with one.
MCChildren ==
  [v \in Items \cup Repos |->
     CASE v = i1 -> <<i2>> [] v = r1 -> <<i1, i2>> [] v = r2 -> <<i3>> [] OTHER -> <<>>]
MCStatus == [i \in Items |-> IF i = i2 THEN "archived" ELSE "active"]

Short == <<Body(1)>>
Long == <<Body(2), Body(3), Body(4)>>

Quiet == [kind |-> "notion", items |-> {i1, i2}, first |-> "one", texts |-> "few", atOnce |-> 1,
          start |-> 2, edit |-> 0, remove |-> 0, fault |-> 0, stop |-> 0, ask |-> 0,
          draft |-> 0]
Edited == [Quiet EXCEPT !.edit = 1]
Together == [Edited EXCEPT !.items = {i1}, !.atOnce = 2]

\* Every text of up to four lines of these, told apart by their words.
Line(n, w) ==
  CASE n = 0 -> Blank [] n = 1 -> Body(w)
    [] n = 2 -> Heading(1, w) [] n = 3 -> Heading(2, w) [] n = 4 -> Heading(3, w)
    [] n = 5 -> Delimiter("backtick", 3, "none", w)
    [] n = 6 -> Delimiter("backtick", 4, "none", w) [] n = 7 -> Delimiter("~", 3, "none", w)
    [] n = 8 -> Delimiter("backtick", 3, "tick", w)
AllTexts == UNION {{[w \in 1 .. n |-> Line(f[w], w)] : f \in [1 .. n -> 0 .. 8]} : n \in 0 .. 4}

MCTexts == [one |-> {Short}, few |-> {Short, Long}, any |-> AllTexts]

OneText == [Quiet EXCEPT !.items = {i1}, !.first = "any", !.start = 1]
Asked == [Edited EXCEPT !.items = {i1}, !.ask = 1]
Repo == [Edited EXCEPT !.kind = "repo"]

\* Every text; pages, with a failure, an end or further edits; files of two
\* repositories; two processes at once, or a question, and a draft, besides.
KnowledgeBudgets ==
  {OneText,
   [Edited EXCEPT !.stop = 1, !.fault = 1], [Edited EXCEPT !.edit = 2],
   [Repo EXCEPT !.remove = 1], [Repo EXCEPT !.remove = 1, !.items = {i1, i3}],
   [Together EXCEPT !.fault = 1], [Together EXCEPT !.kind = "repo", !.fault = 1],
   [Asked EXCEPT !.fault = 1], [Asked EXCEPT !.draft = 1]}

\* Two documents, one of them archived by its path, and a question.
ArchivedBudgets == {[Asked EXCEPT !.items = {i1, i2}, !.start = 1]}

\* Processes are interchangeable.
Symmetry == Permutations(Syncs)
=============================================================================
