---------------------------- MODULE ChunkProofs -----------------------------
(***************************************************************************)
(* What the chunks of a text are, for every text and every size of chunk    *)
(* and overlap.                                                             *)
(*                                                                         *)
(* The text is followed line by line.  What the parser has filed and what   *)
(* it still holds say, one after the other, what the lines so far say       *)
(* (ParserSays); a section's windows, but for the overlap, repeat its       *)
(* tokens (WindowsRepeat), so the chunks of all sections repeat the         *)
(* text (ChunksRepeat).  The parser is in a fence where the text is         *)
(* (InFence), and where no heading skips a level its path names the         *)
(* headings over the next line (HeadedSections), so every chunk is filed    *)
(* under its headings (ChunksUnderHeadings).                                *)
(*                                                                         *)
(* Nothing is proved by induction over sequences as such: a function on     *)
(* 0 .. n is built one value after another (StepByStep), and what holds of  *)
(* 0 and is passed on holds up to n (UpTo).                                 *)
(***************************************************************************)
EXTENDS Chunking, FiniteSetTheorems, WellFoundedInduction, TLAPS

-----------------------------------------------------------------------------
(* Numbers and sequences                                                    *)

\* What has a member has a least one.
LEMMA LeastNatural ==
  ASSUME NEW T \in SUBSET Nat, T # {}
  PROVE  \E n \in T : \A m \in T : n <= m
<1>. DEFINE R == OpToRel(<, Nat)
<1>1. IsWellFoundedOn(R, Nat)
  BY NatLessThanWellFounded
<1>2. PICK n \in T : \A m \in T : <<m, n>> \notin R
  <2>. HIDE DEF R
  <2>. QED BY <1>1, WFMin
<1>3. \A m \in T : ~(m < n)
  BY <1>2 DEF OpToRel
<1>. QED BY <1>3

\* Induction up to n, for a set of numbers.
LEMMA UpTo ==
  ASSUME NEW n \in Nat, NEW T, 0 \in T, \A k \in 1 .. n : k - 1 \in T => k \in T
  PROVE  n \in T /\ 0 .. n \subseteq T
<1>. DEFINE B == {k \in 0 .. n : k \notin T}
<1>1. ASSUME B # {} PROVE FALSE
  <2>1. PICK k \in B : \A m \in B : k <= m
    <3>1. B \in SUBSET Nat
      OBVIOUS
    <3>. HIDE DEF B
    <3>. QED BY <1>1, <3>1, LeastNatural
  <2>2. k \in 1 .. n /\ k - 1 \in 0 .. n /\ k - 1 \notin B
    BY <2>1
  <2>. QED BY <2>1, <2>2
<1>. QED BY <1>1

\* A function may be defined step by step.
Follows(g, next, base, n, S) ==
  g \in [0 .. n -> S] /\ g[0] = base /\ \A k \in 1 .. n : g[k] = next[k][g[k - 1]]
Steps(n, S) == [1 .. n -> [S -> S]]

LEMMA StepByStep ==
  ASSUME NEW S, NEW n \in Nat, NEW base \in S, NEW next \in Steps(n, S)
  PROVE  \E g : Follows(g, next, base, n, S)
<1>. USE DEF Steps
<1>. DEFINE Is(g, m) == g \in [0 .. m -> S] /\ g[0] = base /\ \A k \in 1 .. m : g[k] = next[k][g[k - 1]]
            T == {m \in 0 .. n : \E g : Is(g, m)}
<1>1. 0 \in T
  <2>1. Is([k \in 0 .. 0 |-> base], 0)
    OBVIOUS
  <2>. HIDE DEF Is
  <2>. QED BY <2>1
<1>2. ASSUME NEW m \in 1 .. n, m - 1 \in T PROVE m \in T
  <2>1. PICK g : Is(g, m - 1)
    BY <1>2
  <2>. DEFINE h == [k \in 0 .. m |-> IF k = m THEN next[m][g[m - 1]] ELSE g[k]]
  <2>2. m - 1 \in 0 .. m - 1 /\ g[m - 1] \in S /\ next[m] \in [S -> S]
    BY <2>1
  <2>3. next[m][g[m - 1]] \in S
    BY <2>2
  <2>4. h \in [0 .. m -> S] /\ h[0] = base
    BY <2>1, <2>3
  <2>5. ASSUME NEW k \in 1 .. m PROVE h[k] = next[k][h[k - 1]]
    <3>1. k - 1 \in 0 .. m /\ k \in 0 .. m /\ k - 1 # m
      OBVIOUS
    <3>2. h[k - 1] = g[k - 1] /\ h[k] = IF k = m THEN next[m][g[m - 1]] ELSE g[k]
      BY <3>1
    <3>. QED BY <2>1, <3>2
  <2>6. Is(h, m)
    <3>. HIDE DEF h
    <3>. QED BY <2>4, <2>5
  <2>. HIDE DEF Is, h
  <2>. QED BY <2>6
<1>3. n \in T
  <2>1. \A m \in 1 .. n : m - 1 \in T => m \in T
    BY <1>2
  <2>. HIDE DEF T
  <2>. QED BY <1>1, <2>1, UpTo, Zenon
<1>4. PICK g : Is(g, n)
  <2>. HIDE DEF Is
  <2>. QED BY <1>3
<1>5. Follows(g, next, base, n, S)
  BY <1>4 DEF Follows
<1>. QED BY <1>5

\* The elements of sequences.
LEMMA Elements ==
  ASSUME NEW S, NEW s \in Seq(S)
  PROVE  /\ ToSet(s) \subseteq S /\ \A x : x \in ToSet(s) <=> \E k \in 1 .. Len(s) : s[k] = x
         /\ ToSet(s) = {} <=> s = <<>>
<1>1. DOMAIN s = 1 .. Len(s) /\ \A k \in 1 .. Len(s) : s[k] \in S
  OBVIOUS
<1>2. \A x : x \in ToSet(s) <=> \E k \in 1 .. Len(s) : s[k] = x
  BY <1>1 DEF ToSet
<1>3. s # <<>> => 1 \in 1 .. Len(s)
  OBVIOUS
<1>4. s = <<>> => 1 .. Len(s) = {}
  OBVIOUS
<1>. QED BY <1>1, <1>2, <1>3, <1>4

\* Append adds an element,
LEMMA AppendElements ==
  ASSUME NEW S, NEW s \in Seq(S), NEW x \in S
  PROVE  Append(s, x) \in Seq(S) /\ ToSet(Append(s, x)) = ToSet(s) \cup {x}
<1>1. /\ Append(s, x) \in Seq(S) /\ Len(Append(s, x)) = Len(s) + 1
      /\ \A k \in 1 .. Len(s) : Append(s, x)[k] = s[k]
      /\ Append(s, x)[Len(s) + 1] = x
  OBVIOUS
<1>2. 1 .. Len(s) + 1 = 1 .. Len(s) \cup {Len(s) + 1}
  OBVIOUS
<1>3. \A y : y \in ToSet(Append(s, x)) <=> \E k \in 1 .. Len(s) + 1 : Append(s, x)[k] = y
  BY <1>1, Elements
<1>4. \A y : y \in ToSet(s) <=> \E k \in 1 .. Len(s) : s[k] = y
  BY Elements
<1>. DEFINE a == Append(s, x)
<1>. HIDE DEF a
<1>5. \A y : y \in ToSet(a) <=> y \in ToSet(s) \cup {x}
  BY <1>1, <1>2, <1>3, <1>4 DEF a
<1>. QED BY <1>1, <1>5 DEF a

\* and concatenation all of another sequence.
LEMMA ConcatElements ==
  ASSUME NEW S, NEW s \in Seq(S), NEW t \in Seq(S)
  PROVE  s \o t \in Seq(S) /\ ToSet(s \o t) = ToSet(s) \cup ToSet(t)
<1>1. /\ s \o t \in Seq(S) /\ Len(s \o t) = Len(s) + Len(t)
      /\ \A k \in 1 .. Len(s) : (s \o t)[k] = s[k]
      /\ \A k \in 1 .. Len(t) : (s \o t)[Len(s) + k] = t[k]
  OBVIOUS
<1>2. Len(s) \in Nat /\ Len(t) \in Nat
  OBVIOUS
<1>3. ASSUME NEW y, y \in ToSet(s \o t) PROVE y \in ToSet(s) \cup ToSet(t)
  <2>1. PICK k \in 1 .. Len(s) + Len(t) : (s \o t)[k] = y
    BY <1>1, <1>3, Elements
  <2>2. k \in 1 .. Len(s) \/ (k - Len(s) \in 1 .. Len(t) /\ k = Len(s) + (k - Len(s)))
    BY <1>2
  <2>. QED BY <1>1, <2>1, <2>2, Elements
<1>4. \A y : y \in ToSet(s \o t) <=> \E k \in 1 .. Len(s) + Len(t) : (s \o t)[k] = y
  BY <1>1, Elements
<1>5. ASSUME NEW y, y \in ToSet(s) \cup ToSet(t) PROVE y \in ToSet(s \o t)
  <2>1. (\E k \in 1 .. Len(s) : s[k] = y) \/ (\E k \in 1 .. Len(t) : t[k] = y)
    BY <1>5, Elements
  <2>2. \A k \in 1 .. Len(s) : k \in 1 .. Len(s) + Len(t)
    BY <1>2
  <2>3. \A k \in 1 .. Len(t) : Len(s) + k \in 1 .. Len(s) + Len(t)
    BY <1>2
  <2>4. \E k \in 1 .. Len(s) + Len(t) : (s \o t)[k] = y
    BY <1>1, <2>1, <2>2, <2>3
  <2>. QED BY <1>4, <2>4
<1>. QED BY <1>1, <1>3, <1>5

\* A function on the first numbers is a sequence.
LEMMA Tabled ==
  ASSUME NEW S, NEW n \in Nat, NEW f, f = [k \in 1 .. n |-> f[k]], \A k \in 1 .. n : f[k] \in S
  PROVE  f \in Seq(S) /\ Len(f) = n /\ DOMAIN f = 1 .. n
<1>1. f \in [1 .. n -> S]
  OBVIOUS
<1>. QED BY <1>1

\* The first elements of a sequence, one at a time.
First(s, k) == SubSeq(s, 1, k)

LEMMA FirstElements ==
  ASSUME NEW S, NEW s \in Seq(S)
  PROVE  /\ Len(s) \in Nat /\ First(s, 0) = <<>> /\ First(s, Len(s)) = s
         /\ \A k \in 0 .. Len(s) : First(s, k) \in Seq(S) /\ Len(First(s, k)) = k
         /\ \A k \in 1 .. Len(s) : s[k] \in S /\ First(s, k) = Append(First(s, k - 1), s[k])
<1>. USE DEF First
<1>1. Len(s) \in Nat /\ First(s, 0) = <<>> /\ First(s, Len(s)) = s
  OBVIOUS
<1>2. ASSUME NEW k \in 0 .. Len(s) PROVE First(s, k) \in Seq(S) /\ Len(First(s, k)) = k
  OBVIOUS
<1>3. ASSUME NEW k \in 1 .. Len(s)
      PROVE  s[k] \in S /\ First(s, k) = Append(First(s, k - 1), s[k])
  OBVIOUS
<1>. QED BY <1>1, <1>2, <1>3

\* One sequence after another.
Then(a, b) == a \o b

LEMMA Concatenation ==
  ASSUME NEW S, NEW a \in Seq(S), NEW b \in Seq(S)
  PROVE  /\ Then(a, b) \in Seq(S)
         /\ Then(a, <<>>) = a /\ Then(<<>>, a) = a
         /\ ToSet(Then(a, b)) = ToSet(a) \cup ToSet(b)
BY ConcatElements DEF Then

\* Three sequences, put together either way.
LEMMA Associative ==
  ASSUME NEW S, NEW a \in Seq(S), NEW b \in Seq(S), NEW c \in Seq(S)
  PROVE  Then(Then(a, b), c) = Then(a, Then(b, c))
BY DEF Then

\* An element may be appended last, or to the second of two.
LEMMA AppendLast ==
  ASSUME NEW S, NEW a \in Seq(S), NEW b \in Seq(S), NEW x \in S
  PROVE  Append(a, x) \in Seq(S) /\ Then(a, Append(b, x)) = Append(Then(a, b), x)
BY DEF Then

\* The elements of two sequences put together.
LEMMA ThenIndexed ==
  ASSUME NEW S, NEW a \in Seq(S), NEW b \in Seq(S)
  PROVE  /\ Len(Then(a, b)) = Len(a) + Len(b)
         /\ \A k \in 1 .. Len(a) + Len(b) :
              Then(a, b)[k] = IF k <= Len(a) THEN a[k] ELSE b[k - Len(a)]
BY DEF Then

\* FlattenSeq puts one after another.
Joins(g, s, S) ==
  g \in [0 .. Len(s) -> Seq(S)] /\ g[0] = <<>> /\ \A k \in 1 .. Len(s) : g[k] = Then(g[k - 1], s[k])

LEMMA Flat ==
  ASSUME NEW S, NEW s \in Seq(Seq(S))
  PROVE  \E g : Joins(g, s, S) /\ FlattenSeq(s) = g[Len(s)]
<1>. DEFINE n == Len(s)
            next == [k \in 1 .. n |-> [a \in Seq(S) |-> Then(a, s[k])]]
            Is(f) == f = [i \in 1 .. n |-> IF i = 1 THEN s[i] ELSE Then(f[i - 1], s[i])]
            f == CHOOSE h : Is(h)
<1>1. n \in Nat /\ \A k \in 1 .. n : s[k] \in Seq(S)
  OBVIOUS
<1>0. n = 0 => s = <<>>
  OBVIOUS
<1>. HIDE DEF n
<1>2. next \in Steps(n, Seq(S)) /\ <<>> \in Seq(S)
  <2>1. \A k \in 1 .. n : \A a \in Seq(S) : Then(a, s[k]) \in Seq(S)
    BY <1>1, Concatenation
  <2>. QED BY <2>1 DEF Steps
<1>3. PICK g : g \in [0 .. n -> Seq(S)] /\ g[0] = <<>> /\ \A k \in 1 .. n : g[k] = Then(g[k - 1], s[k])
  <2>1. PICK g : Follows(g, next, <<>>, n, Seq(S))
    <3>. HIDE DEF next
    <3>. QED BY <1>1, <1>2, StepByStep
  <2>2. ASSUME NEW k \in 1 .. n PROVE g[k] = Then(g[k - 1], s[k])
    <3>1. k - 1 \in 0 .. n /\ g[k - 1] \in Seq(S)
      BY <1>1, <2>1 DEF Follows
    <3>2. g[k] = next[k][g[k - 1]] /\ next[k] = [a \in Seq(S) |-> Then(a, s[k])]
      BY <2>1 DEF Follows
    <3>. QED BY <3>1, <3>2
  <2>. QED BY <2>1, <2>2 DEF Follows
<1>. HIDE DEF next
<1>4. Is([k \in 1 .. n |-> g[k]])
  <2>. DEFINE h == [k \in 1 .. n |-> g[k]]
  <2>1. ASSUME NEW k \in 1 .. n PROVE h[k] = IF k = 1 THEN s[k] ELSE Then(h[k - 1], s[k])
    <3>1. CASE k = 1
      <4>1. h[k] = Then(<<>>, s[k])
        BY <1>3, <3>1
      <4>. QED BY <1>1, <3>1, <4>1, Concatenation
    <3>2. CASE k # 1
      <4>1. k - 1 \in 1 .. n
        BY <1>1, <3>2
      <4>2. h[k] = g[k] /\ h[k - 1] = g[k - 1]
        BY <4>1
      <4>. QED BY <1>3, <3>2, <4>2
    <3>. QED BY <3>1, <3>2
  <2>2. h = [k \in 1 .. n |-> h[k]]
    OBVIOUS
  <2>. HIDE DEF h
  <2>3. h = [k \in 1 .. n |-> IF k = 1 THEN s[k] ELSE Then(h[k - 1], s[k])]
    BY <2>1, <2>2
  <2>4. Is(h)
    BY <2>3
  <2>. HIDE DEF Is
  <2>. QED BY <2>4 DEF h
<1>5. Is(f)
  <2>. HIDE DEF Is
  <2>. QED BY <1>4
<1>6. \A k \in 1 .. n : f[k] = IF k = 1 THEN s[k] ELSE Then(f[k - 1], s[k])
  <2>. HIDE DEF f
  <2>. QED BY <1>5
<1>7. FlattenSeq(s) = IF n = 0 THEN s ELSE f[n]
  BY Zenon DEF FlattenSeq, Then, n
<1>. HIDE DEF f, Is
<1>. DEFINE T == {k \in 0 .. n : k # 0 => f[k] = g[k]}
<1>8. ASSUME NEW k \in 1 .. n, k - 1 \in T PROVE k \in T
  <2>1. CASE k = 1
    <3>1. g[k] = Then(<<>>, s[k])
      BY <1>3, <2>1
    <3>. QED BY <1>1, <1>6, <2>1, <3>1, Concatenation
  <2>2. CASE k # 1
    BY <1>3, <1>6, <1>8, <2>2
  <2>. QED BY <2>1, <2>2
<1>9. n \in T
  <2>1. 0 \in T /\ \A k \in 1 .. n : k - 1 \in T => k \in T
    BY <1>1, <1>8
  <2>. HIDE DEF T
  <2>. QED BY <1>1, <2>1, UpTo, Zenon
<1>10. Joins(g, s, S)
  BY <1>3 DEF Joins, n
<1>11. FlattenSeq(s) = g[n]
  BY <1>0, <1>3, <1>7, <1>9
<1>. QED BY <1>10, <1>11 DEF n

\* There is one way to do so.
LEMMA JoinsOnce ==
  ASSUME NEW S, NEW s \in Seq(Seq(S)), NEW g, Joins(g, s, S)
  PROVE  FlattenSeq(s) = g[Len(s)]
<1>1. PICK h : Joins(h, s, S) /\ FlattenSeq(s) = h[Len(s)]
  BY Flat
<1>. DEFINE n == Len(s)
            T == {k \in 0 .. n : g[k] = h[k]}
<1>2. n \in Nat
  OBVIOUS
<1>3. 0 \in T
  BY <1>1, <1>2 DEF Joins
<1>4. \A k \in 1 .. n : k - 1 \in T => k \in T
  BY <1>1, <1>2 DEF Joins
<1>5. n \in T
  <2>. HIDE DEF T, n
  <2>. QED BY <1>2, <1>3, <1>4, UpTo, Zenon
<1>. QED BY <1>1, <1>5

\* It is a sequence of what they are sequences of,
LEMMA FlatTyped ==
  ASSUME NEW S, NEW s \in Seq(Seq(S))
  PROVE  FlattenSeq(s) \in Seq(S)
<1>1. Len(s) \in 0 .. Len(s)
  OBVIOUS
<1>. QED BY <1>1, Flat DEF Joins

\* of nothing when there are none,
LEMMA FlatEmpty == FlattenSeq(<<>>) = <<>>
BY DEF FlattenSeq

\* goes on with the one that is appended,
LEMMA FlatAppend ==
  ASSUME NEW S, NEW s \in Seq(Seq(S)), NEW x \in Seq(S)
  PROVE  FlattenSeq(Append(s, x)) = Then(FlattenSeq(s), x)
<1>. DEFINE a == Append(s, x)
            n == Len(s)
<1>1. /\ a \in Seq(Seq(S)) /\ Len(a) = n + 1 /\ n \in Nat
      /\ a[n + 1] = x /\ \A k \in 1 .. n : a[k] = s[k]
  OBVIOUS
<1>. HIDE DEF a
<1>2. PICK g : Joins(g, a, S) /\ FlattenSeq(a) = g[n + 1]
  BY <1>1, Flat
<1>. DEFINE h == [k \in 0 .. n |-> g[k]]
<1>3. Joins(h, s, S)
  BY <1>1, <1>2 DEF Joins
<1>4. FlattenSeq(s) = g[n]
  <2>1. FlattenSeq(s) = h[n]
    <3>. HIDE DEF h
    <3>. QED BY <1>3, JoinsOnce
  <2>. QED BY <1>1, <2>1
<1>5. g[n + 1] = Then(g[n], x)
  <2>1. n + 1 \in 1 .. Len(a) /\ (n + 1) - 1 = n
    BY <1>1
  <2>2. g[n + 1] = Then(g[(n + 1) - 1], a[n + 1])
    BY <1>2, <2>1 DEF Joins
  <2>. QED BY <1>1, <2>1, <2>2
<1>. QED BY <1>2, <1>4, <1>5 DEF a

\* and with all of those that follow.
LEMMA FlatConcat ==
  ASSUME NEW S, NEW s \in Seq(Seq(S)), NEW t \in Seq(Seq(S))
  PROVE  FlattenSeq(Then(s, t)) = Then(FlattenSeq(s), FlattenSeq(t))
<1>. DEFINE P(k) == First(t, k)
            n == Len(t)
            T == {k \in 0 .. n : FlattenSeq(Then(s, P(k))) = Then(FlattenSeq(s), FlattenSeq(P(k)))}
<1>1. /\ n \in Nat /\ P(0) = <<>> /\ P(n) = t
      /\ \A k \in 0 .. n : P(k) \in Seq(Seq(S))
      /\ \A k \in 1 .. n : t[k] \in Seq(S) /\ P(k) = Append(P(k - 1), t[k])
  BY FirstElements
<1>. HIDE DEF P, n
<1>2. 0 \in T
  <2>1. FlattenSeq(s) \in Seq(S) /\ Then(s, <<>>) = s
    BY FlatTyped, Concatenation
  <2>2. Then(FlattenSeq(s), <<>>) = FlattenSeq(s)
    BY <2>1, Concatenation
  <2>. QED BY <1>1, <2>1, <2>2, FlatEmpty
<1>3. ASSUME NEW k \in 1 .. n, k - 1 \in T PROVE k \in T
  <2>0. k - 1 \in 0 .. n /\ k \in 0 .. n
    BY <1>1
  <2>1. P(k - 1) \in Seq(Seq(S)) /\ t[k] \in Seq(S) /\ P(k) = Append(P(k - 1), t[k])
    BY <1>1, <2>0
  <2>2. Then(s, P(k)) = Append(Then(s, P(k - 1)), t[k]) /\ Then(s, P(k - 1)) \in Seq(Seq(S))
    <3>1. Then(s, P(k - 1)) \in Seq(Seq(S))
      BY <2>1, Concatenation
    <3>2. \A p \in Seq(Seq(S)), x \in Seq(S) : Then(s, Append(p, x)) = Append(Then(s, p), x)
      BY AppendLast
    <3>. QED BY <2>1, <3>1, <3>2
  <2>3. FlattenSeq(Then(s, P(k))) = Then(FlattenSeq(Then(s, P(k - 1))), t[k])
    BY <2>1, <2>2, FlatAppend
  <2>4. FlattenSeq(P(k)) = Then(FlattenSeq(P(k - 1)), t[k])
    BY <2>1, FlatAppend
  <2>5. FlattenSeq(s) \in Seq(S) /\ FlattenSeq(P(k - 1)) \in Seq(S)
    BY <2>1, FlatTyped
  <2>6. FlattenSeq(Then(s, P(k - 1))) = Then(FlattenSeq(s), FlattenSeq(P(k - 1)))
    BY <1>3
  <2>7. Then(Then(FlattenSeq(s), FlattenSeq(P(k - 1))), t[k])
          = Then(FlattenSeq(s), Then(FlattenSeq(P(k - 1)), t[k]))
    BY <2>1, <2>5, Associative
  <2>. QED BY <2>0, <2>3, <2>4, <2>6, <2>7
<1>4. n \in T
  <2>1. \A k \in 1 .. n : k - 1 \in T => k \in T
    BY <1>3
  <2>. HIDE DEF T
  <2>. QED BY <1>1, <1>2, <2>1, UpTo, Zenon
<1>. QED BY <1>1, <1>4

-----------------------------------------------------------------------------
(* Windows                                                                  *)

\* The windows: how many there are, and that they leave nothing between them.
LEMMA StepTyped == Overlap \in Nat /\ Overlap < MaxTokens /\ Step \in Nat \ {0} /\ Step <= MaxTokens
BY ChunkingAssumption DEF Step, Overlap, Smaller

\* What multiples of the step amount to.
LEMMA Products ==
  ASSUME NEW a \in Nat, NEW b \in Nat, NEW s \in Nat, a <= b
  PROVE  a * s \in Nat /\ b * s \in Nat /\ a * s <= b * s /\ (a + 1) * s = a * s + s
<1>1. PICK c \in Nat : b = a + c
  <2>1. b - a \in Nat /\ b = a + (b - a)
    OBVIOUS
  <2>. QED BY <2>1
<1>2. b * s = a * s + c * s
  BY <1>1
<1>3. a * s \in Nat /\ c * s \in Nat
  OBVIOUS
<1>4. (a + 1) * s = a * s + s
  OBVIOUS
<1>. QED BY <1>2, <1>3, <1>4

\* What a division with remainder leaves.
LEMMA Quotients ==
  ASSUME NEW m \in Nat, NEW s \in Nat \ {0}
  PROVE  /\ m \div s \in Nat
         /\ (m \div s) * s <= m /\ m < (m \div s) * s + s
<1>1. m = s * (m \div s) + (m % s) /\ m % s \in 0 .. s - 1 /\ m \div s \in Int
  OBVIOUS
<1>2. m \div s \in Nat
  OBVIOUS
<1>3. s * (m \div s) = (m \div s) * s
  BY <1>1
<1>. QED BY <1>1, <1>2, <1>3

WindowCount(n) ==
  IF n <= MaxTokens THEN 1 ELSE 1 + (n - MaxTokens + Step - 1) \div Step
Start(w) == (w - 1) * Step
End(w, n) == Smaller(Start(w) + MaxTokens, n)

\* The first window starts at the start, each next one an overlap before the end of
\* the one before, which is full, and the last one ends at the end.
LEMMA WindowBounds ==
  ASSUME NEW n \in Nat \ {0}
  PROVE  /\ WindowCount(n) \in Nat \ {0} /\ End(WindowCount(n), n) = n /\ Start(1) = 0
         /\ \A w \in 1 .. WindowCount(n) :
              /\ Start(w) \in Nat /\ End(w, n) \in Start(w) + 1 .. n
              /\ End(w, n) - Start(w) <= MaxTokens
         /\ \A w \in 2 .. WindowCount(n) :
              /\ End(w - 1, n) = Start(w - 1) + MaxTokens
              /\ Start(w) + Overlap = End(w - 1, n) /\ End(w - 1, n) < End(w, n)
<1>. DEFINE c == WindowCount(n)
<1>0. Step \in Nat \ {0} /\ Step <= MaxTokens /\ MaxTokens \in Nat \ {0}
  BY StepTyped, ChunkingAssumption
<1>1. c \in Nat \ {0} /\ Start(c) + MaxTokens >= n
      /\ \A w \in 1 .. c : w # 1 => Start(w - 1) \in Nat /\ Start(w) = Start(w - 1) + Step
                                    /\ Start(w - 1) + MaxTokens < n
  <2>1. CASE n <= MaxTokens
    <3>1. c = 1
      BY <2>1 DEF WindowCount
    <3>2. Start(1) = 0
      BY <1>0 DEF Start
    <3>. QED BY <1>0, <2>1, <3>1, <3>2
  <2>2. CASE n > MaxTokens
    <3>. DEFINE m == n - MaxTokens + Step - 1
                q == m \div Step
    <3>1. m \in Nat
      BY <1>0, <2>2
    <3>2. q \in Nat /\ q * Step <= m /\ m < q * Step + Step
      <4>. HIDE DEF m
      <4>. QED BY <1>0, <3>1, Quotients
    <3>3. c = 1 + q
      BY <1>0, <2>2 DEF WindowCount
    <3>. HIDE DEF q, c
    <3>4. Start(c) = q * Step
      <4>1. c - 1 = q
        BY <3>2, <3>3
      <4>. QED BY <4>1 DEF Start
    <3>5. Start(c) + MaxTokens >= n
      BY <1>0, <3>1, <3>2, <3>4, Products
    <3>6. ASSUME NEW w \in 1 .. c, w # 1
          PROVE  Start(w - 1) \in Nat /\ Start(w) = Start(w - 1) + Step /\ Start(w - 1) + MaxTokens < n
      <4>. DEFINE v == w - 2
      <4>1. v \in Nat /\ v + 1 <= q /\ v + 1 \in Nat /\ w - 1 = v + 1 /\ (w - 1) - 1 = v
        BY <3>2, <3>3, <3>6
      <4>. HIDE DEF v
      <4>2. Start(w - 1) = v * Step /\ Start(w) = (v + 1) * Step
        BY <4>1 DEF Start
      <4>3. (v + 1) * Step <= q * Step /\ (v + 1) * Step = v * Step + Step /\ v * Step \in Nat
        <5>1. (v + 1) * Step <= q * Step /\ q * Step \in Nat
          BY <1>0, <3>2, <4>1, Products
        <5>2. v * Step \in Nat /\ (v + 1) * Step = v * Step + Step
          BY <1>0, <4>1, Products
        <5>. QED BY <5>1, <5>2
      <4>4. q * Step \in Nat
        BY <1>0, <3>2, Products
      <4>. QED BY <1>0, <3>2, <4>2, <4>3, <4>4
    <3>7. c \in Nat \ {0}
      BY <3>2, <3>3
    <3>. QED BY <3>5, <3>6, <3>7
  <2>. QED BY <1>0, <2>1, <2>2
<1>2. Start(1) = 0
  BY <1>0 DEF Start
<1>. HIDE DEF c
<1>3. ASSUME NEW w \in 1 .. c
      PROVE  /\ Start(w) \in Nat /\ End(w, n) \in Start(w) + 1 .. n
             /\ End(w, n) - Start(w) <= MaxTokens
  <2>1. CASE w = 1
    BY <1>0, <1>2, <2>1 DEF End, Smaller
  <2>2. CASE w # 1
    BY <1>0, <1>1, <2>2 DEF End, Smaller
  <2>. QED BY <2>1, <2>2
<1>4. ASSUME NEW w \in 2 .. c
      PROVE  /\ End(w - 1, n) = Start(w - 1) + MaxTokens
             /\ Start(w) + Overlap = End(w - 1, n) /\ End(w - 1, n) < End(w, n)
  <2>1. w \in 1 .. c /\ w # 1
    BY <1>1
  <2>2. Step = MaxTokens - Overlap /\ Overlap \in Nat
    BY StepTyped DEF Step
  <2>. QED BY <1>0, <1>1, <2>1, <2>2 DEF End, Smaller
<1>5. End(c, n) = n
  <2>1. Start(c) \in Nat
    BY <1>1, <1>3
  <2>. QED BY <1>0, <1>1, <2>1 DEF End, Smaller
<1>. QED BY <1>1, <1>2, <1>3, <1>4, <1>5 DEF c

\* What is after the a-th element, up to the b-th.
Piece(t, a, b) == SubSeq(t, a + 1, b)

LEMMA Pieces ==
  ASSUME NEW S, NEW t \in Seq(S), NEW a \in 0 .. Len(t), NEW b \in a .. Len(t)
  PROVE  Piece(t, a, b) \in Seq(S) /\ Len(Piece(t, a, b)) = b - a
         /\ \A k \in 1 .. b - a : Piece(t, a, b)[k] = t[a + k]
BY DEF Piece

\* A piece falls into two,
LEMMA SplitPiece ==
  ASSUME NEW S, NEW t \in Seq(S), NEW a \in 0 .. Len(t), NEW b \in a .. Len(t), NEW m \in a .. b
  PROVE  Piece(t, a, b) = Then(Piece(t, a, m), Piece(t, m, b))
BY DEF Piece, Then

\* so do the first elements,
LEMMA SplitFirst ==
  ASSUME NEW S, NEW t \in Seq(S), NEW b \in 0 .. Len(t), NEW m \in 0 .. b
  PROVE  First(t, b) = Then(First(t, m), Piece(t, m, b))
BY DEF Piece, Then, First

\* and a piece says nothing that they do not.
LEMMA PieceIn ==
  ASSUME NEW S, NEW t \in Seq(S), NEW b \in 0 .. Len(t), NEW a \in 0 .. b
  PROVE  ToSet(Piece(t, a, b)) \subseteq ToSet(First(t, b))
<1>1. First(t, a) \in Seq(S) /\ a \in 0 .. Len(t) /\ b \in a .. Len(t)
  BY FirstElements
<1>2. Piece(t, a, b) \in Seq(S)
  BY <1>1, Pieces
<1>3. First(t, b) = Then(First(t, a), Piece(t, a, b))
  BY SplitFirst
<1>. QED BY <1>1, <1>2, <1>3, Concatenation

\* A piece of a piece is a piece.
LEMMA PieceOfPiece ==
  ASSUME NEW S, NEW t \in Seq(S), NEW a \in 0 .. Len(t), NEW b \in a .. Len(t),
         NEW x \in 0 .. b - a, NEW y \in x .. b - a
  PROVE  Piece(Piece(t, a, b), x, y) = Piece(t, a + x, a + y)
<1>. DEFINE p == Piece(t, a, b)
            q == Piece(p, x, y)
            r == Piece(t, a + x, a + y)
<1>0. a \in Nat /\ b \in Nat /\ x \in Nat /\ y \in Nat /\ a <= b /\ x <= y /\ y <= b - a
  OBVIOUS
<1>1. p \in Seq(S) /\ Len(p) = b - a /\ \A k \in 1 .. b - a : p[k] = t[a + k]
  BY Pieces
<1>2. /\ x \in 0 .. Len(p) /\ y \in x .. Len(p) /\ a + x \in 0 .. Len(t) /\ a + y \in a + x .. Len(t)
      /\ (a + y) - (a + x) = y - x /\ y - x \in Nat
  BY <1>1
<1>. HIDE DEF p
<1>3. q \in Seq(S) /\ Len(q) = y - x /\ \A k \in 1 .. y - x : q[k] = p[x + k]
  BY <1>1, <1>2, Pieces
<1>4. r \in Seq(S) /\ Len(r) = y - x /\ \A k \in 1 .. y - x : r[k] = t[(a + x) + k]
  <2>1. /\ r \in Seq(S) /\ Len(r) = (a + y) - (a + x)
        /\ \A k \in 1 .. (a + y) - (a + x) : r[k] = t[(a + x) + k]
    BY <1>2, Pieces
  <2>. QED BY <1>2, <2>1
<1>5. ASSUME NEW k \in 1 .. y - x PROVE q[k] = r[k]
  <2>1. x + k \in 1 .. b - a /\ a + (x + k) = (a + x) + k
    BY <1>0
  <2>2. p[x + k] = t[a + (x + k)]
    BY <1>1, <2>1
  <2>. QED BY <1>3, <1>4, <2>1, <2>2
<1>. HIDE DEF q, r
<1>6. q = r
  <2>1. Len(q) = Len(r)
    BY <1>3, <1>4
  <2>2. \A k \in 1 .. Len(q) : q[k] = r[k]
    BY <1>3, <1>5
  <2>. QED BY ONLY <1>3, <1>4, <2>1, <2>2, SMTT(30)
<1>. QED BY <1>6 DEF q, r, p

\* What each chunk says anew.
LEMMA NewsTyped ==
  ASSUME NEW S, NEW C \in Seq(Seq(S)), NEW again,
         \A k \in again : k \in DOMAIN C /\ Overlap < Len(C[k])
  PROVE  /\ News(C, again) \in Seq(Seq(S)) /\ Len(News(C, again)) = Len(C)
         /\ \A k \in 1 .. Len(C) :
              News(C, again)[k] = IF k \in again THEN Piece(C[k], Overlap, Len(C[k])) ELSE C[k]
<1>. DEFINE n == Len(C)
            N == News(C, again)
<1>1. n \in Nat /\ DOMAIN C = 1 .. n /\ \A k \in 1 .. n : C[k] \in Seq(S)
  OBVIOUS
<1>2. N = [k \in 1 .. n |-> N[k]]
  BY <1>1 DEF News
<1>3. ASSUME NEW k \in 1 .. n
      PROVE  N[k] = (IF k \in again THEN Piece(C[k], Overlap, Len(C[k])) ELSE C[k]) /\ N[k] \in Seq(S)
  <2>1. N[k] = SubSeq(C[k], IF k \in again THEN Overlap + 1 ELSE 1, Len(C[k]))
    BY <1>1 DEF News
  <2>2. CASE k \in again
    <3>1. N[k] = Piece(C[k], Overlap, Len(C[k]))
      BY <2>1, <2>2 DEF Piece
    <3>2. Overlap \in 0 .. Len(C[k]) /\ Len(C[k]) \in Overlap .. Len(C[k])
      <4>1. Len(C[k]) \in Nat
        BY <1>1
      <4>. QED BY <2>2, <4>1, StepTyped
    <3>3. Piece(C[k], Overlap, Len(C[k])) \in Seq(S)
      BY <1>1, <3>2, Pieces
    <3>. QED BY <2>2, <3>1, <3>3
  <2>3. CASE k \notin again
    <3>1. N[k] = SubSeq(C[k], 1, Len(C[k]))
      BY <2>1, <2>3
    <3>2. SubSeq(C[k], 1, Len(C[k])) = C[k]
      BY <1>1, FirstElements DEF First
    <3>. QED BY <1>1, <2>3, <3>1, <3>2
  <2>. QED BY <2>2, <2>3
<1>. HIDE DEF N, n
<1>4. N \in Seq(Seq(S)) /\ Len(N) = n
  BY <1>1, <1>2, <1>3, Tabled
<1>. QED BY <1>3, <1>4 DEF N, n

\* Sequences with the same elements are the same.
LEMMA SameElements ==
  ASSUME NEW S, NEW p \in Seq(S), NEW q \in Seq(S), Len(p) = Len(q),
         \A k \in 1 .. Len(p) : p[k] = q[k]
  PROVE  p = q
OBVIOUS

\* Nothing repeats nothing.
LEMMA NothingRepeated == Repeats(<<>>, <<>>)
<1>1. News(<<>>, {}) = <<>>
  BY DEF News
<1>2. {} \in SUBSET {k \in DOMAIN <<>> : GoesOn(<<>>, k)}
  OBVIOUS
<1>. QED BY <1>1, <1>2, FlatEmpty DEF Repeats

\* Chunks that go on are long enough for the overlap.
LEMMA GoingOn ==
  ASSUME NEW S, NEW C \in Seq(Seq(S)), NEW again \in SUBSET {k \in DOMAIN C : GoesOn(C, k)}
  PROVE  \A k \in again : k \in 2 .. Len(C) /\ k \in DOMAIN C /\ Overlap < Len(C[k])
<1>1. DOMAIN C = 1 .. Len(C) /\ \A k \in 1 .. Len(C) : Len(C[k]) \in Nat
  OBVIOUS
<1>2. ASSUME NEW k \in again PROVE k \in 2 .. Len(C) /\ k \in DOMAIN C /\ Overlap < Len(C[k])
  <2>1. k \in 1 .. Len(C) /\ k > 1 /\ Len(C[k]) > Overlap
    BY <1>1 DEF GoesOn
  <2>. QED BY <1>1, <2>1, StepTyped
<1>. QED BY <1>2

\* Chunks of one thing and chunks of another repeat both.
LEMMA RepeatsThen ==
  ASSUME NEW S, NEW a \in Seq(Seq(S)), NEW b \in Seq(Seq(S)), NEW v, NEW w,
         Repeats(a, v), Repeats(b, w)
  PROVE  Repeats(Then(a, b), Then(v, w))
<1>. DEFINE m == Len(a)
            n == Len(b)
            c == Then(a, b)
<1>0. m \in Nat /\ n \in Nat /\ DOMAIN a = 1 .. m /\ DOMAIN b = 1 .. n
  OBVIOUS
<1>1. PICK x \in SUBSET {k \in DOMAIN a : GoesOn(a, k)} : FlattenSeq(News(a, x)) = v
  BY DEF Repeats
<1>2. PICK y \in SUBSET {k \in DOMAIN b : GoesOn(b, k)} : FlattenSeq(News(b, y)) = w
  BY DEF Repeats
<1>. DEFINE again == {k \in 1 .. m + n : IF k <= m THEN k \in x ELSE k - m \in y}
            N == News(c, again)
            V == News(a, x)
            W == News(b, y)
<1>3. /\ c \in Seq(Seq(S)) /\ Len(c) = m + n
      /\ \A k \in 1 .. m + n : c[k] = IF k <= m THEN a[k] ELSE b[k - m]
  BY Concatenation, ThenIndexed
<1>4. (\A k \in x : k \in 2 .. m /\ k \in DOMAIN a /\ Overlap < Len(a[k]))
      /\ (\A k \in y : k \in 2 .. n /\ k \in DOMAIN b /\ Overlap < Len(b[k]))
  BY GoingOn
<1>. HIDE DEF m, n, c
<1>5. DOMAIN c = 1 .. m + n
  BY <1>0, <1>3
<1>6. ASSUME NEW k \in again PROVE k \in DOMAIN c /\ GoesOn(c, k)
  <2>1. CASE k <= m
    <3>1. k \in x /\ k \in 2 .. m /\ k - 1 \in 1 .. m + n /\ k - 1 <= m /\ k \in 1 .. m + n
      BY <1>0, <1>4, <2>1
    <3>2. c[k] = a[k] /\ c[k - 1] = a[k - 1]
      BY <1>3, <2>1, <3>1
    <3>3. GoesOn(a, k)
      BY <3>1
    <3>. QED BY <1>5, <3>1, <3>2, <3>3 DEF GoesOn
  <2>2. CASE ~(k <= m)
    <3>. DEFINE j == k - m
    <3>1. j \in y /\ j \in 2 .. n /\ k \in 1 .. m + n
      BY <1>4, <2>2
    <3>2. k - 1 \in 1 .. m + n /\ ~(k - 1 <= m) /\ (k - 1) - m = j - 1 /\ k > 1
      BY <1>0, <3>1
    <3>3. c[k] = b[j] /\ c[k - 1] = b[j - 1]
      BY <1>3, <2>2, <3>1, <3>2
    <3>4. GoesOn(b, j)
      BY <3>1
    <3>. HIDE DEF j
    <3>. QED BY <1>5, <3>1, <3>2, <3>3, <3>4 DEF GoesOn
  <2>. QED BY <2>1, <2>2
<1>7. /\ V \in Seq(Seq(S)) /\ Len(V) = m
      /\ \A k \in 1 .. m : V[k] = IF k \in x THEN Piece(a[k], Overlap, Len(a[k])) ELSE a[k]
      /\ W \in Seq(Seq(S)) /\ Len(W) = n
      /\ \A k \in 1 .. n : W[k] = IF k \in y THEN Piece(b[k], Overlap, Len(b[k])) ELSE b[k]
  BY <1>4, NewsTyped DEF m, n
<1>8. /\ N \in Seq(Seq(S)) /\ Len(N) = m + n
      /\ \A k \in 1 .. m + n :
           N[k] = IF k \in again THEN Piece(c[k], Overlap, Len(c[k])) ELSE c[k]
  <2>1. again \in SUBSET {k \in DOMAIN c : GoesOn(c, k)}
    BY <1>6
  <2>. HIDE DEF again
  <2>2. \A k \in again : k \in DOMAIN c /\ Overlap < Len(c[k])
    BY <1>3, <2>1, GoingOn
  <2>3. /\ N \in Seq(Seq(S)) /\ Len(N) = Len(c)
        /\ \A k \in 1 .. Len(c) :
             N[k] = IF k \in again THEN Piece(c[k], Overlap, Len(c[k])) ELSE c[k]
    <3>1. c \in Seq(Seq(S))
      BY <1>3
    <3>. QED BY <2>2, <3>1, NewsTyped, Zenon
  <2>. QED BY <1>3, <2>3
<1>9. again \in SUBSET {k \in DOMAIN c : GoesOn(c, k)}
  BY <1>6
<1>. HIDE DEF N, V, W
<1>10. ASSUME NEW k \in 1 .. m + n PROVE N[k] = IF k <= m THEN V[k] ELSE W[k - m]
  <2>1. CASE k <= m
    <3>1. k \in 1 .. m /\ (k \in again <=> k \in x) /\ c[k] = a[k]
      BY <1>0, <1>3, <2>1
    <3>. QED BY <1>7, <1>8, <2>1, <3>1
  <2>2. CASE ~(k <= m)
    <3>1. k - m \in 1 .. n /\ (k \in again <=> k - m \in y) /\ c[k] = b[k - m]
      BY <1>0, <1>3, <2>2
    <3>. QED BY <1>7, <1>8, <2>2, <3>1
  <2>. QED BY <2>1, <2>2
<1>11. /\ Then(V, W) \in Seq(Seq(S)) /\ Len(Then(V, W)) = m + n
       /\ \A k \in 1 .. m + n : Then(V, W)[k] = IF k <= m THEN V[k] ELSE W[k - m]
  <2>1. /\ Len(Then(V, W)) = Len(V) + Len(W)
        /\ \A k \in 1 .. Len(V) + Len(W) :
             Then(V, W)[k] = IF k <= Len(V) THEN V[k] ELSE W[k - Len(V)]
    BY <1>7, ThenIndexed
  <2>2. Then(V, W) \in Seq(Seq(S))
    BY <1>7, Concatenation
  <2>. QED BY <1>7, <2>1, <2>2
<1>12. N = Then(V, W)
  <2>. DEFINE U == Then(V, W)
  <2>1. N \in Seq(Seq(S)) /\ U \in Seq(Seq(S)) /\ Len(N) = Len(U)
    BY <1>8, <1>11
  <2>2. \A k \in 1 .. Len(N) : N[k] = U[k]
    BY <1>8, <1>10, <1>11
  <2>. HIDE DEF U
  <2>3. N = U
    BY <2>1, <2>2, SameElements
  <2>. QED BY <2>3 DEF U
<1>13. FlattenSeq(N) = Then(v, w)
  <2>1. FlattenSeq(V) = v /\ FlattenSeq(W) = w
    BY <1>1, <1>2 DEF V, W
  <2>. QED BY <1>7, <1>12, <2>1, FlatConcat
<1>14. Repeats(c, Then(v, w))
  <2>. HIDE DEF again
  <2>. QED BY <1>9, <1>13 DEF Repeats, N
<1>. QED BY <1>14 DEF c

\* A full window ends with the tokens the next one begins with, and what is new in
\* the windows are the tokens.
LEMMA WindowsRepeat ==
  ASSUME NEW S, NEW t \in Seq(S)
  PROVE  /\ Windows(t) \in Seq(Seq(S))
         /\ Windows(t) = <<>> <=> t = <<>>
         /\ \A k \in 1 .. Len(Windows(t)) : Len(Windows(t)[k]) \in 1 .. MaxTokens
         /\ Repeats(Windows(t), t)
<1>. DEFINE n == Len(t)
            c == WindowCount(n)
            W == Windows(t)
<1>0. n \in Nat /\ (n = 0 <=> t = <<>>)
  OBVIOUS
<1>1. CASE n = 0
  <2>1. W = <<>>
    BY <1>1 DEF Windows
  <2>2. Len(W) = 0 /\ W \in Seq(Seq(S))
    BY <2>1
  <2>3. Repeats(<<>>, <<>>)
    BY NothingRepeated
  <2>. HIDE DEF W, n
  <2>. QED BY <1>0, <1>1, <2>1, <2>2, <2>3 DEF W
<1>2. CASE n # 0
  <2>1. W = [w \in 1 .. c |-> Piece(t, Start(w), End(w, n))]
    BY <1>0, <1>2, Zenon DEF Windows, WindowCount, Piece, Start, End
  <2>2. /\ c \in Nat \ {0} /\ End(c, n) = n /\ Start(1) = 0
        /\ \A w \in 1 .. c : /\ Start(w) \in Nat /\ End(w, n) \in Start(w) + 1 .. n
                             /\ End(w, n) - Start(w) <= MaxTokens
        /\ \A w \in 2 .. c : /\ End(w - 1, n) = Start(w - 1) + MaxTokens
                             /\ Start(w) + Overlap = End(w - 1, n) /\ End(w - 1, n) < End(w, n)
    <3>1. n \in Nat \ {0}
      BY <1>0, <1>2
    <3>. HIDE DEF n
    <3>. QED BY <3>1, WindowBounds
  <2>. HIDE DEF c, W
  <2>3. ASSUME NEW w \in 1 .. c
        PROVE  /\ W[w] = Piece(t, Start(w), End(w, n)) /\ W[w] \in Seq(S)
               /\ Len(W[w]) = End(w, n) - Start(w) /\ Len(W[w]) \in 1 .. MaxTokens
               /\ Start(w) \in 0 .. Len(t) /\ End(w, n) \in Start(w) .. Len(t)
    <3>1. W[w] = Piece(t, Start(w), End(w, n))
      BY <2>1
    <3>2. /\ Start(w) \in 0 .. Len(t) /\ End(w, n) \in Start(w) .. Len(t)
          /\ End(w, n) - Start(w) \in 1 .. MaxTokens
      BY <1>0, <2>2, ChunkingAssumption
    <3>. QED BY <3>1, <3>2, Pieces
  <2>4. W \in Seq(Seq(S)) /\ Len(W) = c /\ W # <<>> /\ DOMAIN W = 1 .. c
    <3>1. W = [w \in 1 .. c |-> W[w]]
      BY <2>1
    <3>2. \A w \in 1 .. c : W[w] \in Seq(S)
      BY <2>3
    <3>3. W \in Seq(Seq(S)) /\ Len(W) = c
      <4>1. c \in Nat
        BY <2>2
      <4>. QED BY <3>1, <3>2, <4>1, Tabled
    <3>. QED BY <2>2, <3>3
  <2>. DEFINE N == News(W, 2 .. c)
              E(w) == IF w = 0 THEN 0 ELSE End(w, n)
              T == {w \in 0 .. c : FlattenSeq(First(N, w)) = First(t, E(w))}
  <2>5. ASSUME NEW w \in 2 .. c PROVE GoesOn(W, w)
    <3>. DEFINE s == Start(w)
                e == End(w, n)
                r == Start(w - 1)
                f == End(w - 1, n)
    <3>1. w \in 1 .. c /\ w - 1 \in 1 .. c /\ w > 1
      BY <2>2
    <3>2. f = r + MaxTokens /\ s + Overlap = f /\ f < e
      BY <2>2
    <3>3. /\ W[w] = Piece(t, s, e) /\ Len(W[w]) = e - s
          /\ s \in 0 .. Len(t) /\ e \in s .. Len(t)
          /\ W[w - 1] = Piece(t, r, f) /\ Len(W[w - 1]) = f - r
          /\ r \in 0 .. Len(t) /\ f \in r .. Len(t)
      BY <2>3, <3>1
    <3>4. Overlap \in Nat /\ Overlap < MaxTokens /\ MaxTokens \in Nat
      BY StepTyped, ChunkingAssumption
    <3>. HIDE DEF s, e, r, f
    <3>5. Len(W[w - 1]) = MaxTokens /\ Len(W[w]) > Overlap
      BY <1>0, <3>2, <3>3, <3>4
    <3>6. Piece(W[w], 0, Overlap) = Piece(t, s, f)
      <4>1. 0 \in 0 .. e - s /\ Overlap \in 0 .. e - s /\ s + 0 = s
        BY <1>0, <3>2, <3>3, <3>4
      <4>2. Piece(Piece(t, s, e), 0, Overlap) = Piece(t, s + 0, s + Overlap)
        BY <3>3, <4>1, PieceOfPiece
      <4>. QED BY <3>2, <3>3, <4>1, <4>2
    <3>7. Piece(W[w - 1], MaxTokens - Overlap, MaxTokens) = Piece(t, s, f)
      <4>1. /\ MaxTokens - Overlap \in 0 .. f - r /\ MaxTokens \in MaxTokens - Overlap .. f - r
            /\ r + (MaxTokens - Overlap) = s
        BY <1>0, <3>2, <3>3, <3>4
      <4>2. Piece(Piece(t, r, f), MaxTokens - Overlap, MaxTokens)
              = Piece(t, r + (MaxTokens - Overlap), r + MaxTokens)
        BY <3>3, <4>1, PieceOfPiece
      <4>. QED BY <3>2, <3>3, <4>1, <4>2
    <3>8. SubSeq(W[w], 1, Overlap) = SubSeq(W[w - 1], MaxTokens - Overlap + 1, MaxTokens)
      <4>1. Piece(W[w], 0, Overlap) = SubSeq(W[w], 1, Overlap)
        BY DEF Piece
      <4>. QED BY <3>6, <3>7, <4>1 DEF Piece
    <3>. QED BY <3>1, <3>5, <3>8 DEF GoesOn
  <2>6. \A k \in 2 .. c : k \in DOMAIN W /\ Overlap < Len(W[k])
    <3>1. ASSUME NEW k \in 2 .. c PROVE k \in DOMAIN W /\ Overlap < Len(W[k])
      <4>1. Len(W[k]) > Overlap
        BY <2>5 DEF GoesOn
      <4>2. k \in 1 .. c
        BY <2>2
      <4>3. Len(W[k]) \in Nat
        BY <2>3, <4>2
      <4>. QED BY <2>4, <4>1, <4>2, <4>3, StepTyped
    <3>. QED BY <3>1
  <2>7. /\ N \in Seq(Seq(S)) /\ Len(N) = c
        /\ \A k \in 1 .. c :
             N[k] = IF k \in 2 .. c THEN Piece(W[k], Overlap, Len(W[k])) ELSE W[k]
    <3>1. /\ N \in Seq(Seq(S)) /\ Len(N) = Len(W)
          /\ \A k \in 1 .. Len(W) :
               N[k] = IF k \in 2 .. c THEN Piece(W[k], Overlap, Len(W[k])) ELSE W[k]
      <4>. DEFINE again == 2 .. c
      <4>1. W \in Seq(Seq(S)) /\ \A k \in again : k \in DOMAIN W /\ Overlap < Len(W[k])
        BY <2>4, <2>6
      <4>. HIDE DEF again
      <4>2. /\ News(W, again) \in Seq(Seq(S)) /\ Len(News(W, again)) = Len(W)
            /\ \A k \in 1 .. Len(W) :
                 News(W, again)[k] = IF k \in again THEN Piece(W[k], Overlap, Len(W[k])) ELSE W[k]
        BY <4>1, NewsTyped
      <4>. QED BY <4>2 DEF again
    <3>. QED BY <2>4, <3>1
  <2>. HIDE DEF N
  <2>8. ASSUME NEW w \in 1 .. c
        PROVE  N[w] = Piece(t, E(w - 1), E(w)) /\ E(w) \in 0 .. Len(t) /\ E(w - 1) \in 0 .. E(w)
    <3>0. E(w) = End(w, n)
      BY <2>2
    <3>1. CASE w = 1
      <4>1. E(w - 1) = 0
        BY <3>1
      <4>2. N[w] = W[w] /\ W[w] = Piece(t, Start(w), End(w, n)) /\ Start(w) = 0
        BY <2>2, <2>3, <2>7, <3>1
      <4>3. End(w, n) \in 0 .. Len(t)
        BY <2>3, <4>2
      <4>. QED BY <3>0, <4>1, <4>2, <4>3
    <3>2. CASE w # 1
      <4>. DEFINE s == Start(w)
                  e == End(w, n)
                  f == End(w - 1, n)
      <4>1. w \in 2 .. c /\ w - 1 # 0
        BY <2>2, <3>2
      <4>2. E(w - 1) = f
        BY <4>1
      <4>3. s + Overlap = f /\ f < e
        BY <2>2, <4>1
      <4>4. /\ W[w] = Piece(t, s, e) /\ Len(W[w]) = e - s
            /\ s \in 0 .. Len(t) /\ e \in s .. Len(t)
        BY <2>3
      <4>5. N[w] = Piece(W[w], Overlap, Len(W[w]))
        BY <2>7, <4>1
      <4>. HIDE DEF s, e, f, E
      <4>6. /\ Overlap \in 0 .. e - s /\ e - s \in Overlap .. e - s /\ s + (e - s) = e
            /\ e \in 0 .. Len(t) /\ f \in 0 .. e
        BY <1>0, <4>3, <4>4, StepTyped
      <4>7. Piece(Piece(t, s, e), Overlap, e - s) = Piece(t, s + Overlap, s + (e - s))
        BY <4>4, <4>6, PieceOfPiece
      <4>8. N[w] = Piece(t, f, e)
        BY <4>3, <4>4, <4>5, <4>6, <4>7
      <4>. QED BY <3>0, <4>2, <4>6, <4>8 DEF e
    <3>. QED BY <3>1, <3>2
  <2>9. E(0) = 0 /\ E(c) = n
    BY <2>2
  <2>. HIDE DEF E
  <2>10. /\ First(N, 0) = <<>> /\ First(N, c) = N
         /\ \A w \in 0 .. c : First(N, w) \in Seq(Seq(S))
         /\ \A w \in 1 .. c : N[w] \in Seq(S) /\ First(N, w) = Append(First(N, w - 1), N[w])
    <3>1. N \in Seq(Seq(S)) /\ Len(N) = c
      BY <2>7
    <3>. QED BY <3>1, FirstElements
  <2>11. 0 \in T
    <3>1. First(t, E(0)) = <<>>
      BY <2>9, FirstElements
    <3>. QED BY <2>2, <2>10, <3>1, FlatEmpty
  <2>12. ASSUME NEW w \in 1 .. c, w - 1 \in T PROVE w \in T
    <3>0. w - 1 \in 0 .. c /\ w \in 0 .. c
      BY <2>2
    <3>1. FlattenSeq(First(N, w - 1)) = First(t, E(w - 1))
      BY <2>12
    <3>2. First(N, w - 1) \in Seq(Seq(S)) /\ N[w] \in Seq(S) /\ First(N, w) = Append(First(N, w - 1), N[w])
      BY <2>10, <3>0
    <3>3. FlattenSeq(First(N, w)) = Then(FlattenSeq(First(N, w - 1)), N[w])
      BY <3>2, FlatAppend
    <3>4. First(t, E(w)) = Then(First(t, E(w - 1)), Piece(t, E(w - 1), E(w)))
      BY <2>8, SplitFirst
    <3>. QED BY <2>8, <3>0, <3>1, <3>3, <3>4
  <2>13. c \in T
    <3>1. \A w \in 1 .. c : w - 1 \in T => w \in T
      BY <2>12
    <3>2. c \in Nat
      BY <2>2
    <3>. HIDE DEF T
    <3>. QED BY <2>11, <3>1, <3>2, UpTo, Zenon
  <2>14. FlattenSeq(N) = t
    BY <2>9, <2>10, <2>13, FirstElements
  <2>15. 2 .. c \in SUBSET {k \in DOMAIN W : GoesOn(W, k)}
    BY <2>5, <2>6
  <2>16. Repeats(W, t)
    BY <2>14, <2>15 DEF Repeats, N
  <2>. QED BY <1>0, <1>2, <2>3, <2>4, <2>16 DEF W
<1>. QED BY <1>1, <1>2

-----------------------------------------------------------------------------
(* Chunks of sections                                                       *)

\* Every element of a sequence, by a function.
Maps(m, A, B) == m \in [A -> B]
MapBy(m, s) == [k \in DOMAIN s |-> m[s[k]]]

LEMMA Mapped ==
  ASSUME NEW A, NEW B, NEW m, Maps(m, A, B), NEW s \in Seq(A)
  PROVE  /\ MapBy(m, s) \in Seq(B) /\ Len(MapBy(m, s)) = Len(s)
         /\ \A k \in 1 .. Len(s) : MapBy(m, s)[k] = m[s[k]]
         /\ MapBy(m, <<>>) = <<>>
BY DEF MapBy, Maps

\* One element more,
LEMMA MappedAppend ==
  ASSUME NEW A, NEW B, NEW m, Maps(m, A, B), NEW s \in Seq(A), NEW x \in A
  PROVE  MapBy(m, Append(s, x)) = Append(MapBy(m, s), m[x])
BY DEF MapBy, Maps

\* or a sequence more.
LEMMA MappedThen ==
  ASSUME NEW A, NEW B, NEW m, Maps(m, A, B), NEW s \in Seq(A), NEW t \in Seq(A)
  PROVE  MapBy(m, Then(s, t)) = Then(MapBy(m, s), MapBy(m, t))
<1>. DEFINE a == MapBy(m, s)
            b == MapBy(m, t)
            c == Then(s, t)
            d == MapBy(m, c)
            n == Len(s) + Len(t)
<1>1. /\ a \in Seq(B) /\ Len(a) = Len(s) /\ b \in Seq(B) /\ Len(b) = Len(t)
      /\ \A k \in 1 .. Len(s) : a[k] = m[s[k]]
      /\ \A k \in 1 .. Len(t) : b[k] = m[t[k]]
  BY Mapped
<1>2. c \in Seq(A) /\ Len(c) = n /\ \A k \in 1 .. n : c[k] = IF k <= Len(s) THEN s[k] ELSE t[k - Len(s)]
  BY DEF Then
<1>3. d \in Seq(B) /\ Len(d) = n /\ \A k \in 1 .. n : d[k] = m[c[k]]
  <2>. HIDE DEF n, c
  <2>. QED BY <1>2, Mapped
<1>. HIDE DEF a, b, c, d
<1>4. Then(a, b) \in Seq(B) /\ Len(Then(a, b)) = n
      /\ \A k \in 1 .. n : Then(a, b)[k] = IF k <= Len(s) THEN a[k] ELSE b[k - Len(s)]
  <2>1. Then(a, b) \in Seq(B)
    BY <1>1, Concatenation
  <2>2. /\ Len(Then(a, b)) = Len(a) + Len(b)
        /\ \A k \in 1 .. Len(a) + Len(b) :
             Then(a, b)[k] = IF k <= Len(a) THEN a[k] ELSE b[k - Len(a)]
    BY <1>1, ThenIndexed
  <2>. QED BY <1>1, <2>1, <2>2
<1>5. Len(s) \in Nat /\ Len(t) \in Nat
  OBVIOUS
<1>6. ASSUME NEW k \in 1 .. n PROVE d[k] = Then(a, b)[k]
  <2>1. d[k] = m[c[k]] /\ c[k] = (IF k <= Len(s) THEN s[k] ELSE t[k - Len(s)])
        /\ Then(a, b)[k] = IF k <= Len(s) THEN a[k] ELSE b[k - Len(s)]
    BY <1>2, <1>3, <1>4
  <2>2. CASE k <= Len(s)
    <3>1. k \in 1 .. Len(s)
      BY <1>5, <2>2
    <3>. QED BY <1>1, <2>1, <2>2, <3>1
  <2>3. CASE ~(k <= Len(s))
    <3>1. k - Len(s) \in 1 .. Len(t)
      BY <1>5, <2>3
    <3>. QED BY <1>1, <2>1, <2>3, <3>1
  <2>. QED BY <2>2, <2>3
<1>. HIDE DEF n
<1>7. \A x, y \in Seq(B) : Len(x) = Len(y) /\ (\A k \in 1 .. Len(x) : x[k] = y[k]) => x = y
  OBVIOUS
<1>8. d = Then(a, b)
  BY <1>3, <1>4, <1>6, <1>7
<1>. QED BY <1>8 DEF a, b, c, d

\* The tokens of lines, of which each has a sequence of them.
LinesOver(L, S) == \A l \in L : LineTokens(l) \in Seq(S)

LEMMA TokensByLine ==
  ASSUME NEW L, NEW S, LinesOver(L, S), NEW lines \in Seq(L)
  PROVE  /\ TokensOf(lines) \in Seq(S) /\ TokensOf(<<>>) = <<>>
         /\ \A l \in L : TokensOf(Append(lines, l)) = Then(TokensOf(lines), LineTokens(l))
<1>. DEFINE m == [l \in L |-> LineTokens(l)]
<1>1. Maps(m, L, Seq(S))
  BY DEF LinesOver, Maps
<1>2. ASSUME NEW s \in Seq(L) PROVE TokensOf(s) = FlattenSeq(MapBy(m, s)) /\ MapBy(m, s) \in Seq(Seq(S))
  <2>1. \A k \in DOMAIN s : m[s[k]] = LineTokens(s[k])
    OBVIOUS
  <2>2. [k \in DOMAIN s |-> LineTokens(s[k])] = MapBy(m, s)
    <3>. HIDE DEF m
    <3>. QED BY <2>1 DEF MapBy
  <2>. HIDE DEF m
  <2>. QED BY <1>1, <2>2, Mapped DEF TokensOf
<1>3. ASSUME NEW l \in L PROVE TokensOf(Append(lines, l)) = Then(TokensOf(lines), LineTokens(l))
  <2>1. m[l] = LineTokens(l) /\ LineTokens(l) \in Seq(S)
    BY DEF LinesOver
  <2>. HIDE DEF m
  <2>2. Append(lines, l) \in Seq(L)
    OBVIOUS
  <2>3. MapBy(m, Append(lines, l)) = Append(MapBy(m, lines), m[l])
    BY <1>1, MappedAppend
  <2>4. FlattenSeq(Append(MapBy(m, lines), LineTokens(l))) = Then(FlattenSeq(MapBy(m, lines)), LineTokens(l))
    <3>1. MapBy(m, lines) \in Seq(Seq(S))
      BY <1>2
    <3>. QED BY <2>1, <3>1, FlatAppend
  <2>. QED BY <1>2, <2>1, <2>2, <2>3, <2>4
<1>4. TokensOf(<<>>) = <<>>
  BY FlatEmpty DEF TokensOf
<1>5. TokensOf(lines) \in Seq(S)
  <2>. HIDE DEF m
  <2>. QED BY <1>2, FlatTyped
<1>. QED BY <1>3, <1>4, <1>5

\* What the chunks of one section say.
ContentsOf(parts) == [k \in DOMAIN parts |-> parts[k].content]
Part(P, S) == [path : P, content : Seq(S)]

LEMMA ContentsBy ==
  ASSUME NEW P, NEW S, NEW a \in Seq(Part(P, S))
  PROVE  /\ ContentsOf(a) \in Seq(Seq(S)) /\ ContentsOf(<<>>) = <<>>
         /\ Len(ContentsOf(a)) = Len(a) /\ \A k \in 1 .. Len(a) : ContentsOf(a)[k] = a[k].content
         /\ \A b \in Seq(Part(P, S)) : ContentsOf(Then(a, b)) = Then(ContentsOf(a), ContentsOf(b))
<1>. DEFINE A == Part(P, S)
            m == [p \in A |-> p.content]
<1>1. Maps(m, A, Seq(S))
  BY DEF Part, Maps
<1>. HIDE DEF A
<1>2. ASSUME NEW s \in Seq(A)
      PROVE  ContentsOf(s) = MapBy(m, s) /\ \A k \in 1 .. Len(s) : m[s[k]] = s[k].content
  <2>1. \A k \in DOMAIN s : m[s[k]] = s[k].content
    OBVIOUS
  <2>2. DOMAIN s = 1 .. Len(s)
    OBVIOUS
  <2>. HIDE DEF m
  <2>. QED BY <2>1, <2>2 DEF MapBy, ContentsOf
<1>3. a \in Seq(A)
  BY DEF A
<1>. HIDE DEF m
<1>4. ASSUME NEW b \in Seq(A) PROVE ContentsOf(Then(a, b)) = Then(ContentsOf(a), ContentsOf(b))
  <2>1. Then(a, b) \in Seq(A)
    BY <1>3, Concatenation
  <2>2. MapBy(m, Then(a, b)) = Then(MapBy(m, a), MapBy(m, b))
    BY <1>1, <1>3, MappedThen
  <2>. QED BY <1>2, <1>3, <2>1, <2>2
<1>5. ContentsOf(<<>>) = <<>>
  BY DEF ContentsOf
<1>6. /\ MapBy(m, a) \in Seq(Seq(S)) /\ Len(MapBy(m, a)) = Len(a)
      /\ \A k \in 1 .. Len(a) : MapBy(m, a)[k] = m[a[k]]
  BY <1>1, <1>3, Mapped
<1>7. ContentsOf(a) = MapBy(m, a) /\ \A k \in 1 .. Len(a) : m[a[k]] = a[k].content
  BY <1>2, <1>3
<1>8. \A b \in Seq(A) : ContentsOf(Then(a, b)) = Then(ContentsOf(a), ContentsOf(b))
  BY <1>4
<1>. QED BY <1>5, <1>6, <1>7, <1>8 DEF A

Fits(parts) == \A k \in 1 .. Len(parts) : Len(parts[k].content) \in 1 .. MaxTokens

\* The chunks of a section are its windows, under its path.
LEMMA SectionRepeats ==
  ASSUME NEW L, NEW S, LinesOver(L, S), NEW P, NEW path \in P, NEW lines \in Seq(L)
  PROVE  /\ SectionChunks(path, lines) \in Seq(Part(P, S)) /\ Fits(SectionChunks(path, lines))
         /\ ContentsOf(SectionChunks(path, lines)) = Windows(TokensOf(lines))
         /\ \A k \in 1 .. Len(SectionChunks(path, lines)) : SectionChunks(path, lines)[k].path = path
<1>. DEFINE W == Windows(TokensOf(lines))
            C == SectionChunks(path, lines)
<1>1. /\ W \in Seq(Seq(S)) /\ \A k \in 1 .. Len(W) : Len(W[k]) \in 1 .. MaxTokens
  <2>1. TokensOf(lines) \in Seq(S)
    BY TokensByLine
  <2>. QED BY <2>1, WindowsRepeat
<1>2. C = [w \in DOMAIN W |-> [path |-> path, content |-> W[w]]]
  BY DEF SectionChunks
<1>3. DOMAIN W = 1 .. Len(W) /\ Len(W) \in Nat /\ \A k \in 1 .. Len(W) : W[k] \in Seq(S)
  BY <1>1
<1>4. W = [w \in 1 .. Len(W) |-> W[w]]
  BY <1>1
<1>. HIDE DEF W, C
<1>5. \A k \in 1 .. Len(W) : C[k] = [path |-> path, content |-> W[k]] /\ C[k] \in Part(P, S)
  BY <1>2, <1>3 DEF Part
<1>6. C = [k \in 1 .. Len(W) |-> C[k]]
  BY <1>2, <1>3
<1>7. C \in Seq(Part(P, S)) /\ Len(C) = Len(W) /\ DOMAIN C = 1 .. Len(W)
  BY <1>3, <1>5, <1>6, Tabled
<1>8. Fits(C)
  BY <1>1, <1>5, <1>7 DEF Fits
<1>9. ContentsOf(C) = W
  BY <1>4, <1>5, <1>7 DEF ContentsOf
<1>. QED BY <1>5, <1>7, <1>8, <1>9 DEF C, W

\* Of all sections.
Sect(L, P) == [path : P, start : Int, end : Int, lines : Seq(L)]
PartsOf(sections) ==
  FlattenSeq([k \in DOMAIN sections |-> SectionChunks(sections[k].path, sections[k].lines)])
SaidBy(sections) == FlattenSeq([k \in DOMAIN sections |-> TokensOf(sections[k].lines)])

\* Chunks and words come section by section.
LEMMA PartsBySection ==
  ASSUME NEW L, NEW S, LinesOver(L, S), NEW P, NEW ss \in Seq(Sect(L, P))
  PROVE  /\ PartsOf(ss) \in Seq(Part(P, S)) /\ PartsOf(<<>>) = <<>>
         /\ \A x \in Sect(L, P) : PartsOf(Append(ss, x)) = Then(PartsOf(ss), SectionChunks(x.path, x.lines))
<1>. DEFINE A == Sect(L, P)
            B == Part(P, S)
            m == [x \in A |-> SectionChunks(x.path, x.lines)]
<1>1. \A x \in A : SectionChunks(x.path, x.lines) \in Seq(B)
  <2>1. ASSUME NEW x \in A PROVE SectionChunks(x.path, x.lines) \in Seq(B)
    <3>1. x.path \in P /\ x.lines \in Seq(L)
      BY DEF Sect
    <3>. QED BY <3>1, SectionRepeats
  <2>. QED BY <2>1
<1>2. Maps(m, A, Seq(B)) /\ \A x \in A : m[x] = SectionChunks(x.path, x.lines)
  <2>. HIDE DEF A, B
  <2>. QED BY <1>1 DEF Maps
<1>3. ss \in Seq(A)
  OBVIOUS
<1>. HIDE DEF A, B, m
<1>4. ASSUME NEW s \in Seq(A) PROVE PartsOf(s) = FlattenSeq(MapBy(m, s)) /\ MapBy(m, s) \in Seq(Seq(B))
  <2>1. \A k \in DOMAIN s : m[s[k]] = SectionChunks(s[k].path, s[k].lines)
    <3>1. \A k \in DOMAIN s : s[k] \in A
      OBVIOUS
    <3>. QED BY <1>2, <3>1
  <2>2. [k \in DOMAIN s |-> SectionChunks(s[k].path, s[k].lines)] = MapBy(m, s)
    BY <2>1 DEF MapBy
  <2>. QED BY <1>2, <2>2, Mapped DEF PartsOf
<1>5. ASSUME NEW x \in A PROVE PartsOf(Append(ss, x)) = Then(PartsOf(ss), SectionChunks(x.path, x.lines))
  <2>1. m[x] = SectionChunks(x.path, x.lines) /\ SectionChunks(x.path, x.lines) \in Seq(B)
    BY <1>1, <1>2 DEF A, B
  <2>2. Append(ss, x) \in Seq(A)
    BY <1>3
  <2>3. MapBy(m, Append(ss, x)) = Append(MapBy(m, ss), m[x])
    BY <1>2, <1>3, MappedAppend
  <2>4. MapBy(m, ss) \in Seq(Seq(B))
    BY <1>3, <1>4
  <2>5. FlattenSeq(Append(MapBy(m, ss), m[x])) = Then(FlattenSeq(MapBy(m, ss)), m[x])
    BY <2>1, <2>4, FlatAppend
  <2>. QED BY <1>3, <1>4, <2>1, <2>2, <2>3, <2>5
<1>6. PartsOf(<<>>) = <<>>
  BY FlatEmpty DEF PartsOf
<1>7. PartsOf(ss) \in Seq(B)
  BY <1>3, <1>4, FlatTyped
<1>. QED BY <1>5, <1>6, <1>7 DEF A, B

LEMMA SaidBySection ==
  ASSUME NEW L, NEW S, LinesOver(L, S), NEW P, NEW ss \in Seq(Sect(L, P))
  PROVE  /\ SaidBy(ss) \in Seq(S) /\ SaidBy(<<>>) = <<>>
         /\ \A x \in Sect(L, P) : SaidBy(Append(ss, x)) = Then(SaidBy(ss), TokensOf(x.lines))
<1>. DEFINE A == Sect(L, P)
            m == [x \in A |-> TokensOf(x.lines)]
<1>1. \A x \in A : TokensOf(x.lines) \in Seq(S)
  <2>1. ASSUME NEW x \in A PROVE TokensOf(x.lines) \in Seq(S)
    <3>1. x.lines \in Seq(L)
      BY DEF Sect
    <3>. QED BY <3>1, TokensByLine
  <2>. QED BY <2>1
<1>2. Maps(m, A, Seq(S)) /\ \A x \in A : m[x] = TokensOf(x.lines)
  <2>. HIDE DEF A
  <2>. QED BY <1>1 DEF Maps
<1>3. ss \in Seq(A)
  OBVIOUS
<1>. HIDE DEF A, m
<1>4. ASSUME NEW s \in Seq(A) PROVE SaidBy(s) = FlattenSeq(MapBy(m, s)) /\ MapBy(m, s) \in Seq(Seq(S))
  <2>1. \A k \in DOMAIN s : m[s[k]] = TokensOf(s[k].lines)
    <3>1. \A k \in DOMAIN s : s[k] \in A
      OBVIOUS
    <3>. QED BY <1>2, <3>1
  <2>2. [k \in DOMAIN s |-> TokensOf(s[k].lines)] = MapBy(m, s)
    BY <2>1 DEF MapBy
  <2>. QED BY <1>2, <2>2, Mapped DEF SaidBy
<1>5. ASSUME NEW x \in A PROVE SaidBy(Append(ss, x)) = Then(SaidBy(ss), TokensOf(x.lines))
  <2>1. m[x] = TokensOf(x.lines) /\ TokensOf(x.lines) \in Seq(S)
    BY <1>1, <1>2 DEF A
  <2>2. Append(ss, x) \in Seq(A)
    BY <1>3
  <2>3. MapBy(m, Append(ss, x)) = Append(MapBy(m, ss), m[x])
    BY <1>2, <1>3, MappedAppend
  <2>4. MapBy(m, ss) \in Seq(Seq(S))
    BY <1>3, <1>4
  <2>5. FlattenSeq(Append(MapBy(m, ss), m[x])) = Then(FlattenSeq(MapBy(m, ss)), m[x])
    BY <2>1, <2>4, FlatAppend
  <2>. QED BY <1>3, <1>4, <2>1, <2>2, <2>3, <2>5
<1>6. SaidBy(<<>>) = <<>>
  BY FlatEmpty DEF SaidBy
<1>7. SaidBy(ss) \in Seq(S)
  BY <1>3, <1>4, FlatTyped
<1>. QED BY <1>5, <1>6, <1>7 DEF A

\* All chunks fit.
LEMMA FitsThen ==
  ASSUME NEW P, NEW S, NEW a \in Seq(Part(P, S)), NEW b \in Seq(Part(P, S)), Fits(a), Fits(b)
  PROVE  Fits(Then(a, b))
<1>1. /\ Len(Then(a, b)) = Len(a) + Len(b)
      /\ \A k \in 1 .. Len(a) + Len(b) : Then(a, b)[k] = IF k <= Len(a) THEN a[k] ELSE b[k - Len(a)]
  BY ThenIndexed
<1>2. Len(a) \in Nat /\ Len(b) \in Nat
  OBVIOUS
<1>3. ASSUME NEW k \in 1 .. Len(a) + Len(b) PROVE Len(Then(a, b)[k].content) \in 1 .. MaxTokens
  <2>1. k \in 1 .. Len(a) \/ (k - Len(a) \in 1 .. Len(b) /\ ~(k <= Len(a)))
    BY <1>2
  <2>2. Then(a, b)[k] = IF k <= Len(a) THEN a[k] ELSE b[k - Len(a)]
    BY <1>1
  <2>3. CASE k \in 1 .. Len(a)
    <3>1. Then(a, b)[k] = a[k]
      BY <2>2, <2>3
    <3>. QED BY <2>3, <3>1 DEF Fits
  <2>4. CASE k - Len(a) \in 1 .. Len(b) /\ ~(k <= Len(a))
    <3>1. Then(a, b)[k] = b[k - Len(a)]
      BY <2>2, <2>4
    <3>. QED BY <2>4, <3>1 DEF Fits
  <2>. QED BY <2>1, <2>3, <2>4
<1>. QED BY <1>1, <1>3 DEF Fits

\* The chunks of all sections repeat them.
LEMMA SectionsRepeat ==
  ASSUME NEW L, NEW S, LinesOver(L, S), NEW P, NEW ss \in Seq(Sect(L, P))
  PROVE  /\ Fits(PartsOf(ss))
         /\ Repeats(ContentsOf(PartsOf(ss)), SaidBy(ss))
<1>. DEFINE A == Sect(L, P)
            n == Len(ss)
            F(k) == ContentsOf(PartsOf(First(ss, k)))
            T == {k \in 0 .. n : /\ Fits(PartsOf(First(ss, k)))
                                 /\ Repeats(F(k), SaidBy(First(ss, k)))}
<1>1. /\ n \in Nat /\ First(ss, 0) = <<>> /\ First(ss, n) = ss
      /\ \A k \in 0 .. n : First(ss, k) \in Seq(A)
      /\ \A k \in 1 .. n : ss[k] \in A /\ First(ss, k) = Append(First(ss, k - 1), ss[k])
  BY FirstElements
<1>2. 0 \in T
  <2>1. PartsOf(First(ss, 0)) = <<>> /\ SaidBy(First(ss, 0)) = <<>> /\ ContentsOf(<<>>) = <<>>
    BY <1>1, FlatEmpty DEF PartsOf, SaidBy, ContentsOf
  <2>2. Fits(<<>>)
    BY DEF Fits
  <2>. QED BY <1>1, <2>1, <2>2, NothingRepeated
<1>3. ASSUME NEW k \in 1 .. n, k - 1 \in T PROVE k \in T
  <2>. DEFINE f == First(ss, k - 1)
              x == ss[k]
              a == PartsOf(f)
              b == SectionChunks(x.path, x.lines)
              w == TokensOf(x.lines)
              s == SaidBy(f)
  <2>1. f \in Seq(A) /\ x \in A /\ First(ss, k) = Append(f, x) /\ k \in 0 .. n /\ k - 1 \in 0 .. n
    BY <1>1
  <2>2. x.path \in P /\ x.lines \in Seq(L)
    BY <2>1 DEF Sect
  <2>3. Fits(a) /\ Repeats(ContentsOf(a), s)
    BY <1>3
  <2>. HIDE DEF f, x
  <2>4. a \in Seq(Part(P, S)) /\ PartsOf(First(ss, k)) = Then(a, b)
    BY <2>1, PartsBySection
  <2>5. s \in Seq(S) /\ SaidBy(First(ss, k)) = Then(s, w)
    BY <2>1, SaidBySection
  <2>6. b \in Seq(Part(P, S)) /\ Fits(b) /\ ContentsOf(b) = Windows(w)
    <3>1. \A path \in P : \A lines \in Seq(L) :
            /\ SectionChunks(path, lines) \in Seq(Part(P, S)) /\ Fits(SectionChunks(path, lines))
            /\ ContentsOf(SectionChunks(path, lines)) = Windows(TokensOf(lines))
      BY SectionRepeats, Zenon
    <3>. QED BY <2>2, <3>1, Zenon
  <2>7. w \in Seq(S)
    BY <2>2, TokensByLine
  <2>8. Windows(w) \in Seq(Seq(S)) /\ Repeats(Windows(w), w)
    <3>. HIDE DEF w
    <3>. QED BY <2>7, WindowsRepeat
  <2>. HIDE DEF a, b, w, s
  <2>9. Fits(PartsOf(First(ss, k)))
    BY <2>3, <2>4, <2>6, FitsThen
  <2>10. ContentsOf(a) \in Seq(Seq(S)) /\ ContentsOf(Then(a, b)) = Then(ContentsOf(a), ContentsOf(b))
    BY <2>4, <2>6, ContentsBy
  <2>11. Repeats(Then(ContentsOf(a), Windows(w)), Then(s, w))
    BY <2>3, <2>8, <2>10, RepeatsThen
  <2>. QED BY <2>1, <2>4, <2>5, <2>6, <2>9, <2>10, <2>11
<1>4. n \in T
  <2>1. \A k \in 1 .. n : k - 1 \in T => k \in T
    BY <1>3
  <2>. HIDE DEF T, n
  <2>. QED BY <1>1, <1>2, <2>1, UpTo, Zenon
<1>. QED BY <1>1, <1>4

-----------------------------------------------------------------------------
(* The parser                                                               *)

\* The parser, line by line.
Words(L) == {l.word : l \in L}
Parsers(L) ==
  [line : Nat, start : Int, body : Seq(L), path : Seq(Words(L)), saw : BOOLEAN,
   fence : L \cup {NoFence}, sections : Seq(Sect(L, Seq(Words(L))))]
LevelsOver(L) == \A l \in L : l.kind = "heading" => l.level \in Nat \ {0}

\* The path names headings.
LEMMA PathTyped ==
  ASSUME NEW L, LevelsOver(L), NEW path \in Seq(Words(L)), NEW l \in L, l.kind = "heading"
  PROVE  PathAt(path, l) \in Seq(Words(L))
<1>. DEFINE n == Smaller(l.level - 1, Len(path))
<1>1. l.level \in Nat \ {0} /\ Len(path) \in Nat
  BY DEF LevelsOver
<1>2. n \in 0 .. Len(path)
  BY <1>1 DEF Smaller
<1>. HIDE DEF n
<1>3. SubSeq(path, 1, n) \in Seq(Words(L))
  <2>1. First(path, n) \in Seq(Words(L))
    BY <1>2, FirstElements
  <2>. QED BY <2>1 DEF First
<1>4. l.word \in Words(L)
  BY DEF Words
<1>5. \A q \in Seq(Words(L)), w \in Words(L) : Append(q, w) \in Seq(Words(L))
  OBVIOUS
<1>. QED BY <1>3, <1>4, <1>5 DEF PathAt, n

\* The lines so far become a section, unless they are blank.
Filed(L, p, sections) ==
  /\ IsBlank(p.body) => sections = p.sections
  /\ ~IsBlank(p.body) =>
       \E x \in Sect(L, Seq(Words(L))) :
          x.lines = p.body /\ x.path = p.path /\ sections = Append(p.sections, x)

LEMMA FlushTyped ==
  ASSUME NEW L, NEW p \in Parsers(L)
  PROVE  /\ Flush(p) \in Parsers(L)
         /\ Flush(p).body = <<>> /\ Flush(p).line = p.line /\ Flush(p).saw = p.saw
         /\ Flush(p).path = p.path /\ Flush(p).fence = p.fence
         /\ Filed(L, p, Flush(p).sections)
<1>. DEFINE P == Seq(Words(L))
            X == Sect(L, P)
            x == [path |-> p.path, start |-> p.start, end |-> p.start + Len(p.body) - 1,
                  lines |-> p.body]
<1>1. x \in X /\ x.lines = p.body /\ x.path = p.path
  <2>1. p.start \in Int /\ Len(p.body) \in Nat /\ p.body \in Seq(L) /\ p.path \in P
    BY DEF Parsers
  <2>2. p.start + Len(p.body) - 1 \in Int
    BY <2>1
  <2>. HIDE DEF P
  <2>. QED BY <2>1, <2>2 DEF Sect
<1>. HIDE DEF X, P, x
<1>2. p.sections \in Seq(X) /\ p \in Parsers(L)
  BY DEF X, P, Parsers
<1>3. <<>> \in Seq(L) /\ Append(p.sections, x) \in Seq(X)
  BY <1>1, <1>2
<1>4. Flush(p) = [p EXCEPT !.body = <<>>,
                           !.sections = IF IsBlank(p.body) THEN p.sections ELSE Append(p.sections, x)]
  BY DEF Flush, x
<1>5. CASE IsBlank(p.body)
  <2>1. Flush(p) = [p EXCEPT !.body = <<>>, !.sections = p.sections]
    BY <1>4, <1>5
  <2>. QED BY <1>2, <1>3, <1>5, <2>1 DEF Parsers, X, P, Filed
<1>6. CASE ~IsBlank(p.body)
  <2>1. Flush(p) = [p EXCEPT !.body = <<>>, !.sections = Append(p.sections, x)]
    BY <1>4, <1>6
  <2>2. /\ Flush(p).body = <<>> /\ Flush(p).line = p.line /\ Flush(p).saw = p.saw
        /\ Flush(p).path = p.path /\ Flush(p).fence = p.fence /\ Flush(p).start = p.start
        /\ Flush(p).sections = Append(p.sections, x)
    BY <1>2, <2>1 DEF Parsers
  <2>3. Flush(p) \in Parsers(L)
    BY <1>2, <1>3, <2>1 DEF Parsers, X, P
  <2>4. \E z \in X : z.lines = p.body /\ z.path = p.path /\ Flush(p).sections = Append(p.sections, z)
    BY <1>1, <2>2
  <2>. QED BY <1>6, <2>2, <2>3, <2>4 DEF X, P, Filed
<1>. QED BY <1>5, <1>6

Titles(p, l) == p.fence = NoFence /\ l.kind = "heading"

\* What one line does to the parser.
ReadOn(L, p, l, q) ==
  /\ q \in Parsers(L) /\ q.line = p.line + 1
  /\ q.fence = IF p.fence # NoFence THEN IF Closes(l, p.fence) THEN NoFence ELSE p.fence
               ELSE IF Opens(l) THEN l ELSE NoFence
  /\ ~Titles(p, l) => /\ q.body = Append(p.body, l) /\ q.sections = p.sections
                      /\ q.saw = p.saw /\ q.path = p.path
  /\ Titles(p, l) => /\ q.body = <<>> /\ q.saw /\ q.path = PathAt(p.path, l)
                     /\ Filed(L, p, q.sections)

LEMMA ReadFields ==
  ASSUME NEW L, LevelsOver(L), NEW p \in Parsers(L), NEW l \in L
  PROVE  ReadOn(L, p, l, ReadLine(p, l))
<1>. DEFINE o == [p EXCEPT !.line = @ + 1]
            kept == [o EXCEPT !.body = Append(@, l)]
            q == ReadLine(p, l)
            P == Seq(Words(L))
<1>0. q = CASE p.fence # NoFence -> [kept EXCEPT !.fence = IF Closes(l, @) THEN NoFence ELSE @]
            [] p.fence = NoFence /\ Opens(l) -> [kept EXCEPT !.fence = l]
            [] p.fence = NoFence /\ l.kind = "heading" ->
                 [Flush(o) EXCEPT !.start = o.line + 1, !.path = PathAt(@, l), !.saw = TRUE]
            [] OTHER -> kept
  BY Zenon DEF ReadLine
<1>. HIDE DEF q, P
<1>1. /\ o \in Parsers(L) /\ o.line = p.line + 1 /\ o.body = p.body /\ o.path = p.path
      /\ o.saw = p.saw /\ o.fence = p.fence /\ o.sections = p.sections
  BY DEF Parsers
<1>2. /\ kept \in Parsers(L) /\ kept.line = p.line + 1 /\ kept.body = Append(p.body, l)
      /\ kept.path = p.path /\ kept.saw = p.saw /\ kept.fence = p.fence /\ kept.sections = p.sections
  <2>1. Append(p.body, l) \in Seq(L)
    BY DEF Parsers
  <2>. HIDE DEF o
  <2>. QED BY <1>1, <2>1 DEF Parsers
<1>3. Opens(l) => l.kind = "fence"
  BY DEF Opens
<1>. HIDE DEF o, kept
<1>4. CASE p.fence # NoFence
  <2>1. q = [kept EXCEPT !.fence = IF Closes(l, p.fence) THEN NoFence ELSE p.fence]
    BY <1>0, <1>2, <1>4
  <2>2. (IF Closes(l, p.fence) THEN NoFence ELSE p.fence) \in L \cup {NoFence}
    BY DEF Parsers
  <2>3. ~Titles(p, l)
    BY <1>4 DEF Titles
  <2>. QED BY <1>2, <1>4, <2>1, <2>2, <2>3 DEF Parsers, q, ReadOn
<1>5. CASE p.fence = NoFence /\ Opens(l)
  <2>1. q = [kept EXCEPT !.fence = l]
    BY <1>0, <1>3, <1>5
  <2>2. ~Titles(p, l)
    BY <1>3, <1>5 DEF Titles
  <2>. QED BY <1>2, <1>5, <2>1, <2>2 DEF Parsers, q, ReadOn
<1>6. CASE p.fence = NoFence /\ ~Opens(l) /\ l.kind = "heading"
  <2>0. Titles(p, l)
    BY <1>6 DEF Titles
  <2>1. q = [Flush(o) EXCEPT !.start = o.line + 1, !.path = PathAt(Flush(o).path, l), !.saw = TRUE]
    BY <1>0, <1>6
  <2>2. /\ Flush(o) \in Parsers(L)
        /\ Flush(o).body = <<>> /\ Flush(o).line = o.line /\ Flush(o).path = o.path
        /\ Flush(o).fence = o.fence
        /\ Filed(L, o, Flush(o).sections)
    BY <1>1, FlushTyped
  <2>3. PathAt(p.path, l) \in P /\ o.line + 1 \in Int
    <3>1. p.path \in P
      BY DEF Parsers, P
    <3>2. o.line \in Nat
      BY <1>1 DEF Parsers
    <3>. QED BY <1>6, <3>1, <3>2, PathTyped DEF P
  <2>4. Flush(o).path = p.path
    BY <1>1, <2>2
  <2>5. q = [Flush(o) EXCEPT !.start = o.line + 1, !.path = PathAt(p.path, l), !.saw = TRUE]
    BY <2>1, <2>4
  <2>6. q \in Parsers(L)
    BY <2>2, <2>3, <2>5 DEF Parsers, P
  <2>7. /\ q.line = o.line /\ q.body = <<>> /\ q.saw = TRUE /\ q.path = PathAt(p.path, l)
        /\ q.fence = Flush(o).fence /\ q.sections = Flush(o).sections
    BY <2>2, <2>5 DEF Parsers
  <2>8. Filed(L, p, q.sections)
    BY <1>1, <2>2, <2>7 DEF Filed
  <2>9. q.fence = NoFence
    BY <1>1, <1>6, <2>2, <2>7
  <2>. QED BY <1>1, <1>6, <2>0, <2>6, <2>7, <2>8, <2>9 DEF q, ReadOn
<1>7. CASE p.fence = NoFence /\ ~Opens(l) /\ l.kind # "heading"
  <2>1. q = kept
    BY <1>0, <1>7
  <2>2. ~Titles(p, l)
    BY <1>7 DEF Titles
  <2>. QED BY <1>2, <1>7, <2>1, <2>2 DEF q, ReadOn
<1>. QED BY <1>4, <1>5, <1>6, <1>7

\* The parser after each line of a text.
Reads(g, L, text) ==
  /\ g \in [0 .. Len(text) -> Parsers(L)] /\ g[0] = BeforeText
  /\ \A k \in 1 .. Len(text) : g[k] = ReadLine(g[k - 1], text[k])

LEMMA ReadingIs ==
  ASSUME NEW L, LevelsOver(L), NEW text \in Seq(L)
  PROVE  \E g : Reads(g, L, text) /\ ParserAt(text)[Len(text)] = g[Len(text)]
<1>. DEFINE n == Len(text)
            S == Parsers(L)
            next == [k \in 1 .. n |-> [a \in S |-> ReadLine(a, text[k])]]
            Is(f) == f = [k \in 0 .. n |-> IF k = 0 THEN BeforeText ELSE ReadLine(f[k - 1], text[k])]
            f == CHOOSE h : Is(h)
<1>1. n \in Nat /\ \A k \in 1 .. n : text[k] \in L
  OBVIOUS
<1>. HIDE DEF n
<1>2. BeforeText \in S
  <2>1. <<>> \in Seq(L) /\ <<>> \in Seq(Words(L)) /\ <<>> \in Seq(Sect(L, Seq(Words(L))))
    OBVIOUS
  <2>. QED BY <2>1 DEF BeforeText, Parsers
<1>3. next \in Steps(n, S)
  <2>1. \A k \in 1 .. n : \A a \in S : ReadLine(a, text[k]) \in S
    BY <1>1, ReadFields DEF ReadOn
  <2>. HIDE DEF S
  <2>. QED BY <2>1 DEF Steps
<1>. HIDE DEF S
<1>4. PICK g : g \in [0 .. n -> S] /\ g[0] = BeforeText /\ \A k \in 1 .. n : g[k] = ReadLine(g[k - 1], text[k])
  <2>1. PICK g : Follows(g, next, BeforeText, n, S)
    <3>. HIDE DEF next
    <3>. QED BY <1>1, <1>2, <1>3, StepByStep
  <2>2. ASSUME NEW k \in 1 .. n PROVE g[k] = ReadLine(g[k - 1], text[k])
    <3>1. k - 1 \in 0 .. n /\ g[k - 1] \in S
      BY <1>1, <2>1 DEF Follows
    <3>2. g[k] = next[k][g[k - 1]] /\ next[k] = [a \in S |-> ReadLine(a, text[k])]
      BY <2>1 DEF Follows
    <3>. QED BY <3>1, <3>2
  <2>. QED BY <2>1, <2>2 DEF Follows
<1>. HIDE DEF next
<1>5. Is(g)
  <2>1. \A k \in 0 .. n : g[k] = IF k = 0 THEN BeforeText ELSE ReadLine(g[k - 1], text[k])
    BY <1>1, <1>4
  <2>2. g = [k \in 0 .. n |-> g[k]]
    BY <1>4
  <2>. QED BY <2>1, <2>2
<1>6. Is(f)
  <2>. HIDE DEF Is
  <2>. QED BY <1>5
<1>7. ParserAt(text) = f
  BY Zenon DEF ParserAt, n
<1>8. f[0] = BeforeText /\ \A k \in 1 .. n : f[k] = ReadLine(f[k - 1], text[k])
  <2>. HIDE DEF f
  <2>1. \A k \in 0 .. n : f[k] = IF k = 0 THEN BeforeText ELSE ReadLine(f[k - 1], text[k])
    BY <1>6
  <2>. QED BY <1>1, <2>1
<1>. HIDE DEF f, Is
<1>. DEFINE T == {k \in 0 .. n : f[k] = g[k]}
<1>9. n \in T
  <2>1. 0 \in T /\ \A k \in 1 .. n : k - 1 \in T => k \in T
    BY <1>1, <1>4, <1>8
  <2>. HIDE DEF T
  <2>. QED BY <1>1, <2>1, UpTo, Zenon
<1>. QED BY <1>4, <1>7, <1>9 DEF Reads, n, S

\* A fence that line j opened is open at line k.
OpenAt(text, f, j, k) ==
  /\ ~f[j] /\ Opens(text[j])
  /\ \A m \in j + 1 .. k - 1 : ~Closes(text[m], text[j])
Marks(f, n, text) ==
  f \in [1 .. n -> BOOLEAN] /\ \A k \in 1 .. n : f[k] = \E j \in 1 .. k - 1 : OpenAt(text, f, j, k)

\* There is one way to mark the fenced lines,
LEMMA MarksOnce ==
  ASSUME NEW n \in Nat, NEW text, NEW f, NEW m \in 1 .. n, Marks(f, m - 1, text)
  PROVE  \E h : Marks(h, m, text)
<1>. DEFINE e == \E j \in 1 .. m - 1 : OpenAt(text, f, j, m)
            h == [k \in 1 .. m |-> IF k = m THEN e ELSE f[k]]
<1>0. e \in BOOLEAN
  OBVIOUS
<1>. HIDE DEF e
<1>1. \A k \in 1 .. m - 1 : h[k] = f[k]
  OBVIOUS
<1>2. h[m] = e
  OBVIOUS
<1>3. h \in [1 .. m -> BOOLEAN]
  <2>1. f \in [1 .. m - 1 -> BOOLEAN]
    BY DEF Marks
  <2>2. \A k \in 1 .. m : k = m \/ k \in 1 .. m - 1
    OBVIOUS
  <2>. QED BY <1>0, <2>1, <2>2
<1>. HIDE DEF h
<1>. USE DEF e
<1>4. ASSUME NEW k \in 1 .. m, NEW j \in 1 .. k - 1 PROVE OpenAt(text, h, j, k) <=> OpenAt(text, f, j, k)
  <2>1. j \in 1 .. m - 1
    OBVIOUS
  <2>. QED BY <1>1, <2>1 DEF OpenAt
<1>5. ASSUME NEW k \in 1 .. m PROVE h[k] = \E j \in 1 .. k - 1 : OpenAt(text, h, j, k)
  <2>1. CASE k = m
    BY <1>2, <1>4, <2>1
  <2>2. CASE k # m
    <3>1. k \in 1 .. m - 1
      BY <2>2
    <3>2. f[k] = \E j \in 1 .. k - 1 : OpenAt(text, f, j, k)
      BY <3>1 DEF Marks
    <3>. QED BY <1>1, <1>4, <3>1, <3>2
  <2>. QED BY <2>1, <2>2
<1>6. Marks(h, m, text)
  BY <1>3, <1>5 DEF Marks
<1>. QED BY <1>6

\* and Fenced() is it.
LEMMA FencedIs ==
  ASSUME NEW L, NEW text \in Seq(L)
  PROVE  Marks(Fenced(text), Len(text), text)
<1>. DEFINE n == Len(text)
            T == {m \in 0 .. n : \E h : Marks(h, m, text)}
            Is(f) == f = [k \in 1 .. n |-> \E j \in 1 .. k - 1 :
                            /\ ~f[j] /\ Opens(text[j])
                            /\ \A m \in j + 1 .. k - 1 :
                                 ~ (/\ text[m].kind = "fence" /\ text[m].marker = text[j].marker
                                    /\ text[m].level >= text[j].level /\ text[m].info = "none")]
            f == CHOOSE h : Is(h)
<1>1. n \in Nat
  OBVIOUS
<1>0. Fenced(text) = f
  BY Zenon DEF Fenced, n
<1>. HIDE DEF n
<1>2. 0 \in T
  <2>. DEFINE z == [k \in 1 .. 0 |-> TRUE]
  <2>a. z \in [1 .. 0 -> BOOLEAN] /\ ~ \E k \in 1 .. 0 : TRUE
    OBVIOUS
  <2>. HIDE DEF z
  <2>1. Marks(z, 0, text)
    BY <2>a DEF Marks
  <2>. QED BY <1>1, <2>1
<1>3. ASSUME NEW m \in 1 .. n, m - 1 \in T PROVE m \in T
  <2>1. PICK h : Marks(h, m - 1, text)
    BY <1>3
  <2>. QED BY <1>1, <2>1, MarksOnce
<1>4. n \in T
  <2>1. \A m \in 1 .. n : m - 1 \in T => m \in T
    BY <1>3
  <2>. HIDE DEF T
  <2>. QED BY <1>1, <1>2, <2>1, UpTo, Zenon
<1>5. PICK g : Marks(g, n, text)
  BY <1>4
<1>6. Is(g)
  <2>. DEFINE e(h, k) == \E j \in 1 .. k - 1 : OpenAt(text, h, j, k)
  <2>1. g = [k \in 1 .. n |-> e(g, k)]
    <3>1. g = [k \in 1 .. n |-> g[k]] /\ \A k \in 1 .. n : g[k] = e(g, k)
      BY <1>5 DEF Marks
    <3>. HIDE DEF e
    <3>. QED BY <3>1
  <2>. QED BY <2>1, Zenon DEF OpenAt, Closes
<1>7. Is(f)
  <2>. HIDE DEF Is
  <2>. QED BY <1>6
<1>8. Marks(f, n, text)
  <2>. DEFINE e(h, k) == \E j \in 1 .. k - 1 : OpenAt(text, h, j, k)
  <2>. HIDE DEF f
  <2>1. f = [k \in 1 .. n |-> e(f, k)]
    BY <1>7, Zenon DEF OpenAt, Closes
  <2>2. \A k \in 1 .. n : e(f, k) \in BOOLEAN
    OBVIOUS
  <2>3. \A k \in 1 .. n : f[k] = e(f, k)
    <3>. HIDE DEF e
    <3>. QED BY <2>1
  <2>4. f \in [1 .. n -> BOOLEAN]
    <3>. HIDE DEF e
    <3>. QED BY <2>1, <2>2
  <2>. QED BY <2>3, <2>4 DEF Marks
<1>. QED BY <1>0, <1>8 DEF n

\* The parser is in a fence where the text is.
LEMMA InFence ==
  ASSUME NEW L, LevelsOver(L), \A l \in L : l.kind # "none", NEW text \in Seq(L),
         NEW g, Reads(g, L, text), NEW f, Marks(f, Len(text), text), NEW k \in 1 .. Len(text)
  PROVE  f[k] <=> g[k - 1].fence # NoFence
<1>. DEFINE n == Len(text)
            In(i) ==
              /\ g[i].fence # NoFence =>
                   \E j \in 1 .. i : OpenAt(text, f, j, i + 1) /\ g[i].fence = text[j]
              /\ g[i].fence = NoFence => ~ \E j \in 1 .. i : OpenAt(text, f, j, i + 1)
            T == {i \in 0 .. n : In(i)}
<1>1. n \in Nat /\ \A i \in 1 .. n : text[i] \in L
  OBVIOUS
<1>. HIDE DEF n
<1>2. \A i \in 1 .. n : f[i] \in BOOLEAN /\ f[i] = \E j \in 1 .. i - 1 : OpenAt(text, f, j, i)
  BY DEF Marks, n
<1>3. \A i \in 0 .. n : g[i] \in Parsers(L)
  BY DEF Reads, n
<1>4. \A l \in L : l # NoFence
  BY DEF NoFence
<1>5. 0 \in T
  <2>1. g[0].fence = NoFence
    BY DEF Reads, BeforeText
  <2>2. ~ \E j \in 1 .. 0 : OpenAt(text, f, j, 0 + 1)
    OBVIOUS
  <2>. QED BY <1>1, <2>1, <2>2
\* Of two lines that opened a fence the later would be fenced.
<1>6. ASSUME NEW i \in 0 .. n, NEW a \in 1 .. i, NEW b \in 1 .. i,
             OpenAt(text, f, a, i + 1), OpenAt(text, f, b, i + 1)
      PROVE  a = b
  <2>1. ASSUME NEW c \in 1 .. i, NEW d \in 1 .. i, OpenAt(text, f, c, i + 1),
               OpenAt(text, f, d, i + 1), c < d
        PROVE  FALSE
    <3>1. OpenAt(text, f, c, d)
      <4>1. \A m \in c + 1 .. d - 1 : m \in c + 1 .. (i + 1) - 1
        BY <1>1
      <4>. QED BY <2>1, <4>1 DEF OpenAt
    <3>2. c \in 1 .. d - 1 /\ d \in 1 .. n
      BY <1>1, <2>1
    <3>3. f[d]
      BY <1>2, <3>1, <3>2
    <3>. QED BY <2>1, <3>3 DEF OpenAt
  <2>2. ~(a < b) /\ ~(b < a)
    BY <1>6, <2>1
  <2>. QED BY <1>1, <2>2
<1>7. ASSUME NEW i \in 1 .. n, i - 1 \in T PROVE i \in T
  <2>0. i \in 0 .. n /\ i - 1 \in 0 .. n /\ (i - 1) + 1 = i /\ text[i] \in L
    BY <1>1
  <2>1. /\ g[i - 1].fence # NoFence =>
             \E j \in 1 .. i - 1 : OpenAt(text, f, j, i) /\ g[i - 1].fence = text[j]
        /\ g[i - 1].fence = NoFence => ~ \E j \in 1 .. i - 1 : OpenAt(text, f, j, i)
    BY <1>7, <2>0
  <2>2. g[i].fence = IF g[i - 1].fence # NoFence
                     THEN IF Closes(text[i], g[i - 1].fence) THEN NoFence ELSE g[i - 1].fence
                     ELSE IF Opens(text[i]) THEN text[i] ELSE NoFence
    <3>1. g[i] = ReadLine(g[i - 1], text[i]) /\ g[i - 1] \in Parsers(L)
      BY <1>3, <2>0 DEF Reads, n
    <3>2. ReadOn(L, g[i - 1], text[i], ReadLine(g[i - 1], text[i]))
      BY <2>0, <3>1, ReadFields
    <3>. QED BY <3>1, <3>2 DEF ReadOn
  \* A line that opened a fence before has it open still, unless this one closes it.
  <2>3. \A j \in 1 .. i - 1 : OpenAt(text, f, j, i + 1) <=>
                                OpenAt(text, f, j, i) /\ ~Closes(text[i], text[j])
    <3>1. ASSUME NEW j \in 1 .. i - 1
          PROVE  OpenAt(text, f, j, i + 1) <=> OpenAt(text, f, j, i) /\ ~Closes(text[i], text[j])
      <4>1. j + 1 .. (i + 1) - 1 = j + 1 .. i - 1 \cup {i}
        BY <2>0
      <4>. QED BY <4>1 DEF OpenAt
    <3>. QED BY <3>1
  <2>4. OpenAt(text, f, i, i + 1) <=> ~f[i] /\ Opens(text[i])
    <3>1. i + 1 .. (i + 1) - 1 = {}
      BY <2>0
    <3>. QED BY <3>1 DEF OpenAt
  <2>5. 1 .. i = 1 .. i - 1 \cup {i}
    BY <2>0
  <2>6. CASE g[i - 1].fence # NoFence
    <3>1. PICK j \in 1 .. i - 1 : OpenAt(text, f, j, i) /\ g[i - 1].fence = text[j]
      BY <2>1, <2>6
    <3>2. f[i]
      BY <1>2, <3>1
    <3>3. CASE Closes(text[i], text[j])
      <4>1. g[i].fence = NoFence
        BY <2>2, <2>6, <3>1, <3>3
      <4>2. ASSUME NEW a \in 1 .. i, OpenAt(text, f, a, i + 1) PROVE FALSE
        <5>1. a \in 1 .. i - 1 /\ OpenAt(text, f, a, i) /\ ~Closes(text[i], text[a])
          BY <2>3, <2>4, <2>5, <3>2, <4>2
        <5>2. a = j
          BY <1>6, <2>0, <3>1, <5>1
        <5>. QED BY <3>3, <5>1, <5>2
      <4>. QED BY <2>0, <4>1, <4>2
    <3>4. CASE ~Closes(text[i], text[j])
      <4>1. g[i].fence = text[j]
        BY <2>2, <2>6, <3>1, <3>4
      <4>2. OpenAt(text, f, j, i + 1) /\ j \in 1 .. i /\ text[j] # NoFence
        <5>1. text[j] \in L
          BY <1>1
        <5>. QED BY <1>4, <2>3, <2>5, <3>1, <3>4, <5>1
      <4>. QED BY <2>0, <4>1, <4>2
    <3>. QED BY <3>3, <3>4
  <2>7. CASE g[i - 1].fence = NoFence
    <3>1. ~f[i]
      BY <1>2, <2>1, <2>7
    <3>2. CASE Opens(text[i])
      <4>1. g[i].fence = text[i] /\ OpenAt(text, f, i, i + 1) /\ i \in 1 .. i /\ text[i] # NoFence
        BY <1>4, <2>0, <2>2, <2>4, <2>7, <3>1, <3>2
      <4>. QED BY <2>0, <4>1
    <3>3. CASE ~Opens(text[i])
      <4>1. g[i].fence = NoFence
        BY <2>2, <2>7, <3>3
      <4>2. ~ \E a \in 1 .. i : OpenAt(text, f, a, i + 1)
        BY <2>1, <2>3, <2>4, <2>5, <2>7, <3>3
      <4>. QED BY <2>0, <4>1, <4>2
    <3>. QED BY <3>2, <3>3
  <2>. QED BY <2>6, <2>7
<1>8. 0 .. n \subseteq T
  <2>1. \A i \in 1 .. n : i - 1 \in T => i \in T
    BY <1>7
  <2>. HIDE DEF T
  <2>. QED BY <1>1, <1>5, <2>1, UpTo, Zenon
<1>9. k \in 1 .. n /\ k - 1 \in 0 .. n /\ (k - 1) + 1 = k
  BY <1>1 DEF n
<1>10. In(k - 1)
  BY <1>8, <1>9
<1>11. f[k] <=> \E j \in 1 .. k - 1 : OpenAt(text, f, j, k)
  BY <1>2, <1>9
<1>. QED BY <1>9, <1>10, <1>11

-----------------------------------------------------------------------------
(* The chunks repeat the text                                               *)

\* What blank lines say.
LEMMA BlankSays ==
  ASSUME NEW L, NEW S, LinesOver(L, S), NEW lines \in Seq(L), IsBlank(lines)
  PROVE  TokensOf(lines) = <<>>
<1>. DEFINE n == Len(lines)
            T == {k \in 0 .. n : TokensOf(First(lines, k)) = <<>>}
<1>1. /\ n \in Nat /\ First(lines, 0) = <<>> /\ First(lines, n) = lines
      /\ \A k \in 0 .. n : First(lines, k) \in Seq(L)
      /\ \A k \in 1 .. n : lines[k] \in L /\ First(lines, k) = Append(First(lines, k - 1), lines[k])
  BY FirstElements
<1>2. \A k \in 1 .. n : LineTokens(lines[k]) = <<>>
  <2>1. \A k \in 1 .. n : k \in DOMAIN lines
    OBVIOUS
  <2>. QED BY <2>1 DEF IsBlank, LineTokens
<1>. HIDE DEF n
<1>3. 0 \in T
  BY <1>1, FlatEmpty DEF TokensOf
<1>4. ASSUME NEW k \in 1 .. n, k - 1 \in T PROVE k \in T
  <2>0. k \in 0 .. n /\ k - 1 \in 0 .. n
    BY <1>1
  <2>1. k \in 0 .. n /\ k - 1 \in 0 .. n /\ First(lines, k - 1) \in Seq(L) /\ lines[k] \in L
    BY <1>1, <2>0
  <2>2. TokensOf(First(lines, k)) = Then(TokensOf(First(lines, k - 1)), LineTokens(lines[k]))
    <3>1. TokensOf(Append(First(lines, k - 1), lines[k]))
            = Then(TokensOf(First(lines, k - 1)), LineTokens(lines[k]))
      BY <2>1, TokensByLine
    <3>. QED BY <1>1, <3>1
  <2>3. Then(<<>>, <<>>) = <<>>
    <3>1. <<>> \in Seq(S)
      OBVIOUS
    <3>. QED BY <3>1, Concatenation
  <2>. QED BY <1>2, <1>4, <2>1, <2>2, <2>3
<1>5. n \in T
  <2>1. \A k \in 1 .. n : k - 1 \in T => k \in T
    BY <1>4
  <2>. HIDE DEF T
  <2>. QED BY <1>1, <1>3, <2>1, UpTo, Zenon
<1>. QED BY <1>1, <1>5

\* What a text says without its headings.
Heads(text, f, k) == text[k].kind = "heading" /\ ~f[k]
LineByLine(text, f) ==
  [k \in DOMAIN text |-> IF Heads(text, f, k) THEN <<>> ELSE LineTokens(text[k])]

\* A heading files the lines above it.
LEMMA FiledSays ==
  ASSUME NEW L, NEW S, LinesOver(L, S), NEW p \in Parsers(L), NEW ss, Filed(L, p, ss)
  PROVE  SaidBy(ss) = Then(SaidBy(p.sections), TokensOf(p.body))
<1>. DEFINE P == Seq(Words(L))
<1>1. p.body \in Seq(L) /\ p.sections \in Seq(Sect(L, P))
  BY DEF Parsers
<1>. HIDE DEF P
<1>2. SaidBy(p.sections) \in Seq(S)
  BY <1>1, SaidBySection
<1>3. CASE IsBlank(p.body)
  <2>1. ss = p.sections
    BY <1>3 DEF Filed
  <2>2. TokensOf(p.body) = <<>>
    BY <1>1, <1>3, BlankSays
  <2>. QED BY <1>2, <2>1, <2>2, Concatenation
<1>4. CASE ~IsBlank(p.body)
  <2>1. PICK x \in Sect(L, P) : x.lines = p.body /\ ss = Append(p.sections, x)
    BY <1>4 DEF Filed, P
  <2>2. SaidBy(Append(p.sections, x)) = Then(SaidBy(p.sections), TokensOf(x.lines))
    BY <1>1, SaidBySection
  <2>. QED BY <2>1, <2>2
<1>. QED BY <1>3, <1>4

\* What is filed and what is still held say what the lines so far say.
LEMMA ParserSays ==
  ASSUME NEW L, LevelsOver(L), \A l \in L : l.kind # "none", NEW S, LinesOver(L, S), NEW text \in Seq(L),
         NEW g, Reads(g, L, text), NEW f, Marks(f, Len(text), text)
  PROVE  /\ LineByLine(text, f) \in Seq(Seq(S)) /\ g[Len(text)] \in Parsers(L)
         /\ Then(SaidBy(g[Len(text)].sections), TokensOf(g[Len(text)].body))
              = FlattenSeq(LineByLine(text, f))
<1>. DEFINE n == Len(text)
            w == LineByLine(text, f)
            P == Seq(Words(L))
            F(k) == FlattenSeq(First(w, k))
            G(k) == Then(SaidBy(g[k].sections), TokensOf(g[k].body))
            T == {k \in 0 .. n : G(k) = F(k)}
<1>1. n \in Nat /\ DOMAIN text = 1 .. n /\ \A k \in 1 .. n : text[k] \in L
  OBVIOUS
<1>. HIDE DEF n
<1>2. \A k \in 1 .. n : w[k] = (IF Heads(text, f, k) THEN <<>> ELSE LineTokens(text[k])) /\ w[k] \in Seq(S)
  <2>1. ASSUME NEW k \in 1 .. n
        PROVE  w[k] = (IF Heads(text, f, k) THEN <<>> ELSE LineTokens(text[k])) /\ w[k] \in Seq(S)
    <3>1. w[k] = IF Heads(text, f, k) THEN <<>> ELSE LineTokens(text[k])
      BY <1>1 DEF LineByLine
    <3>2. LineTokens(text[k]) \in Seq(S) /\ <<>> \in Seq(S)
      BY <1>1 DEF LinesOver
    <3>. QED BY <3>1, <3>2
  <2>. QED BY <2>1
<1>3. w \in Seq(Seq(S)) /\ Len(w) = n
  <2>1. w = [k \in 1 .. n |-> w[k]]
    BY <1>1 DEF LineByLine
  <2>. HIDE DEF w
  <2>. QED BY <1>1, <1>2, <2>1, Tabled
<1>. HIDE DEF w, P
<1>4. \A k \in 0 .. n : g[k] \in Parsers(L)
  BY DEF Reads, n
<1>5. ASSUME NEW k \in 0 .. n
      PROVE  g[k].body \in Seq(L) /\ g[k].sections \in Seq(Sect(L, P))
             /\ TokensOf(g[k].body) \in Seq(S) /\ SaidBy(g[k].sections) \in Seq(S)
  <2>1. g[k].body \in Seq(L) /\ g[k].sections \in Seq(Sect(L, P))
    BY <1>4 DEF Parsers, P
  <2>. QED BY <2>1, TokensByLine, SaidBySection
<1>6. /\ First(w, 0) = <<>> /\ First(w, n) = w
      /\ \A k \in 0 .. n : First(w, k) \in Seq(Seq(S))
      /\ \A k \in 1 .. n : First(w, k) = Append(First(w, k - 1), w[k])
  BY <1>3, FirstElements
<1>7. 0 \in T
  <2>1. g[0].sections = <<>> /\ g[0].body = <<>>
    BY DEF Reads, BeforeText
  <2>2. SaidBy(<<>>) = <<>> /\ TokensOf(<<>>) = <<>>
    BY FlatEmpty DEF SaidBy, TokensOf
  <2>3. Then(<<>>, <<>>) = <<>>
    <3>1. <<>> \in Seq(S)
      OBVIOUS
    <3>. QED BY <3>1, Concatenation
  <2>. QED BY <1>1, <1>6, <2>1, <2>2, <2>3, FlatEmpty
<1>8. ASSUME NEW k \in 1 .. n, k - 1 \in T PROVE k \in T
  <2>0. k \in 0 .. n /\ k - 1 \in 0 .. n /\ text[k] \in L
    BY <1>1
  <2>. DEFINE p == g[k - 1]
              q == g[k]
              l == text[k]
              a == SaidBy(p.sections)
              b == TokensOf(p.body)
  <2>1. p \in Parsers(L) /\ ReadOn(L, p, l, q)
    <3>1. q = ReadLine(p, l) /\ p \in Parsers(L)
      BY <1>4, <2>0 DEF Reads, n
    <3>. HIDE DEF p, q
    <3>. QED BY <2>0, <3>1, ReadFields
  <2>2. Titles(p, l) <=> Heads(text, f, k)
    <3>1. f[k] <=> g[k - 1].fence # NoFence
      BY InFence DEF n
    <3>. QED BY <3>1 DEF Titles, Heads
  <2>3. /\ p.body \in Seq(L) /\ p.sections \in Seq(Sect(L, P)) /\ a \in Seq(S) /\ b \in Seq(S)
    BY <1>5, <2>0
  <2>4. Then(a, b) = F(k - 1)
    BY <1>8
  <2>5. w[k] \in Seq(S) /\ F(k) = Then(F(k - 1), w[k]) /\ F(k - 1) \in Seq(S)
    <3>1. First(w, k - 1) \in Seq(Seq(S)) /\ First(w, k) = Append(First(w, k - 1), w[k])
      BY <1>6, <2>0
    <3>. QED BY <1>2, <3>1, FlatAppend, FlatTyped
  <2>. HIDE DEF F
  <2>6. CASE Titles(p, l)
    <3>1. q.body = <<>> /\ Filed(L, p, q.sections)
      BY <2>1, <2>6 DEF ReadOn
    <3>2. SaidBy(q.sections) = Then(a, b)
      <4>. HIDE DEF p, q
      <4>. QED BY <2>1, <3>1, FiledSays
    <3>3. TokensOf(q.body) = <<>>
      BY <3>1, FlatEmpty DEF TokensOf
    <3>4. w[k] = <<>>
      BY <1>2, <2>2, <2>6
    <3>5. G(k) = Then(F(k - 1), <<>>)
      BY <2>4, <3>2, <3>3
    <3>6. F(k) = Then(F(k - 1), <<>>)
      BY <2>5, <3>4
    <3>. QED BY <2>0, <3>5, <3>6
  <2>7. CASE ~Titles(p, l)
    <3>1. q.body = Append(p.body, l) /\ q.sections = p.sections
      BY <2>1, <2>7 DEF ReadOn
    <3>2. w[k] = LineTokens(l)
      BY <1>2, <2>2, <2>7
    <3>3. TokensOf(q.body) = Then(b, w[k])
      <4>1. TokensOf(Append(p.body, l)) = Then(b, LineTokens(l))
        <5>. HIDE DEF p
        <5>. QED BY <2>0, <2>3, TokensByLine
      <4>. QED BY <3>1, <3>2, <4>1
    <3>4. G(k) = Then(a, Then(b, w[k]))
      BY <3>1, <3>3
    <3>5. Then(a, Then(b, w[k])) = Then(Then(a, b), w[k])
      <4>. HIDE DEF a, b
      <4>. QED BY <2>3, <2>5, Associative
    <3>. QED BY <2>0, <2>4, <2>5, <3>4, <3>5
  <2>. QED BY <2>6, <2>7
<1>9. n \in T
  <2>1. \A k \in 1 .. n : k - 1 \in T => k \in T
    BY <1>8
  <2>. HIDE DEF T
  <2>. QED BY <1>1, <1>7, <2>1, UpTo, Zenon
<1>10. n \in 0 .. n
  BY <1>1
<1>. QED BY <1>3, <1>4, <1>6, <1>9, <1>10 DEF n, w

\* The lines of a text.
LEMMA TextLines ==
  ASSUME NEW text, IsText(text)
  PROVE  LET L == ToSet(text)
             S == {0} \cup Words(L)
         IN /\ text \in Seq(L) /\ LevelsOver(L) /\ (\A l \in L : l.kind # "none")
            /\ LinesOver(L, S)
<1>. DEFINE L == ToSet(text)
            S == {0} \cup Words(L)
<1>1. text \in Seq(L) /\ \A l \in L : IsLine(l)
  BY DEF IsText
<1>. HIDE DEF L
<1>2. LevelsOver(L) /\ \A l \in L : l.kind # "none"
  BY <1>1 DEF LevelsOver, IsLine
<1>3. ASSUME NEW l \in L PROVE LineTokens(l) \in Seq(S)
  <2>1. l.word \in S /\ 0 \in S
    BY DEF Words
  <2>. HIDE DEF S
  <2>2. <<>> \in Seq(S) /\ <<0, l.word>> \in Seq(S) /\ <<l.word>> \in Seq(S)
    BY <2>1
  <2>. QED BY <2>2 DEF LineTokens
<1>4. LinesOver(L, S)
  BY <1>3 DEF LinesOver
<1>. QED BY <1>1, <1>2, <1>4 DEF L

\* What repeating the text comes down to.
LEMMA RepeatingParts ==
  ASSUME NEW X, NEW C \in Seq(X), Fits(C), NEW text,
         Repeats(ContentsOf(C), WordsOf(text))
  PROVE  RepeatsText(ContentsOf(C), text) /\ \E n \in Nat : DOMAIN C = 1 .. n
<1>1. DOMAIN C = 1 .. Len(C) /\ Len(C) \in Nat
  OBVIOUS
<1>2. \A k \in DOMAIN ContentsOf(C) : Len(ContentsOf(C)[k]) \in 1 .. MaxTokens
  BY <1>1 DEF ContentsOf, Fits
<1>. QED BY <1>1, <1>2 DEF RepeatsText

\* The chunks of a text repeat it.
LEMMA ChunksRepeat ==
  ASSUME NEW text, IsText(text)
  PROVE  RepeatsText(ContentsOf(ChunksOf(text)), text) /\ \E n \in Nat : DOMAIN ChunksOf(text) = 1 .. n
<1>. DEFINE L == ToSet(text)
            S == {0} \cup Words(L)
            P == Seq(Words(L))
            n == Len(text)
            f == Fenced(text)
            C == ChunksOf(text)
            ss == Sections(text)
<1>1. /\ text \in Seq(L) /\ LevelsOver(L) /\ (\A l \in L : l.kind # "none") /\ LinesOver(L, S)
  BY TextLines
<1>. HIDE DEF L, S, f, C, ss
<1>2. n \in Nat /\ DOMAIN text = 1 .. n /\ \A k \in 1 .. n : text[k] \in L
  BY <1>1
<1>3. Marks(f, n, text)
  BY <1>1, FencedIs DEF f
<1>4. PICK g : Reads(g, L, text) /\ ParserAt(text)[n] = g[n]
  BY <1>1, ReadingIs
<1>. DEFINE p == Flush(g[n])
            w == LineByLine(text, f)
<1>5. /\ w \in Seq(Seq(S)) /\ g[n] \in Parsers(L)
      /\ Then(SaidBy(g[n].sections), TokensOf(g[n].body)) = FlattenSeq(w)
  <2>. HIDE DEF n, w
  <2>. QED BY <1>1, <1>3, <1>4, ParserSays DEF n, w
<1>6. p \in Parsers(L) /\ Filed(L, g[n], p.sections)
  <2>. HIDE DEF n
  <2>. QED BY <1>5, FlushTyped
<1>7. SaidBy(p.sections) = FlattenSeq(w)
  <2>1. SaidBy(p.sections) = Then(SaidBy(g[n].sections), TokensOf(g[n].body))
    <3>. HIDE DEF p, n
    <3>. QED BY <1>1, <1>5, <1>6, FiledSays
  <2>. QED BY <1>5, <2>1
<1>8. ss = IF p.saw THEN p.sections ELSE <<>>
  BY <1>4 DEF Sections, ss
<1>9. \A k \in 1 .. n : k \in FoundLines(text) <=>
                          text[k].kind # "blank" /\ (ss # <<>> => ~Heads(text, f, k))
  BY <1>2 DEF FoundLines, HeadingsOf, Heads, f, ss
<1>. DEFINE v == [k \in DOMAIN text |-> IF k \in FoundLines(text) THEN LineTokens(text[k]) ELSE <<>>]
<1>10. WordsOf(text) = FlattenSeq(v)
  BY DEF WordsOf
<1>11. \A k \in 1 .. n : text[k].kind = "blank" => LineTokens(text[k]) = <<>>
  BY DEF LineTokens
<1>12. CASE ss # <<>>
  <2>1. v = w
    <3>1. \A k \in 1 .. n : v[k] = w[k]
      <4>1. ASSUME NEW k \in 1 .. n PROVE v[k] = w[k]
        <5>1. v[k] = IF k \in FoundLines(text) THEN LineTokens(text[k]) ELSE <<>>
          BY <1>2
        <5>2. w[k] = IF Heads(text, f, k) THEN <<>> ELSE LineTokens(text[k])
          BY <1>2 DEF LineByLine
        <5>3. k \in FoundLines(text) <=> text[k].kind # "blank" /\ ~Heads(text, f, k)
          BY <1>9, <1>12
        <5>4. text[k].kind = "blank" => LineTokens(text[k]) = <<>>
          BY <1>11
        <5>. HIDE DEF v, w
        <5>. QED BY <5>1, <5>2, <5>3, <5>4
      <4>. QED BY <4>1
    <3>2. v = [k \in 1 .. n |-> v[k]] /\ w = [k \in 1 .. n |-> w[k]]
      BY <1>2 DEF LineByLine
    <3>. HIDE DEF v, w
    <3>. QED BY <3>1, <3>2
  <2>2. ss = p.sections /\ ss \in Seq(Sect(L, P))
    <3>1. p.sections \in Seq(Sect(L, P))
      BY <1>6 DEF Parsers
    <3>. QED BY <1>8, <1>12, <3>1
  <2>3. C = PartsOf(ss)
    BY <1>12, Zenon DEF ChunksOf, PartsOf, C, ss
  <2>. HIDE DEF P, v, w, p
  <2>4. /\ Fits(C) /\ C \in Seq(Part(P, S)) /\ Repeats(ContentsOf(C), SaidBy(ss))
    BY <1>1, <2>2, <2>3, SectionsRepeat, PartsBySection
  <2>5. Repeats(ContentsOf(C), WordsOf(text))
    BY <1>7, <1>10, <2>1, <2>2, <2>4
  <2>. QED BY <2>4, <2>5, RepeatingParts DEF C
<1>13. CASE ss = <<>>
  <2>. DEFINE t == TokensOf(text)
  <2>1. v = [k \in DOMAIN text |-> LineTokens(text[k])]
    BY <1>2, <1>9, <1>11, <1>13
  <2>2. WordsOf(text) = t
    BY <1>10, <2>1 DEF TokensOf
  <2>3. C = SectionChunks(<<>>, text)
    BY <1>13, Zenon DEF ChunksOf, C, ss
  <2>4. t \in Seq(S)
    BY <1>1, TokensByLine
  <2>5. /\ C \in Seq(Part({<<>>}, S)) /\ Fits(C) /\ ContentsOf(C) = Windows(t)
    BY <1>1, <2>3, SectionRepeats
  <2>. HIDE DEF t
  <2>6. Repeats(ContentsOf(C), WordsOf(text))
    BY <2>2, <2>4, <2>5, WindowsRepeat
  <2>. QED BY <2>5, <2>6, RepeatingParts DEF C
<1>. QED BY <1>12, <1>13

-----------------------------------------------------------------------------
(* The chunks stand under their headings                                    *)

\* What is numbered through.
LEMMA Numbered ==
  ASSUME NEW Q, NEW v \in Nat, NEW l, l \in [Q -> 1 .. v],
         \A g, h \in Q : l[g] = l[h] => g = h, \A n \in 1 .. v : \E h \in Q : l[h] = n
  PROVE  Cardinality(Q) = v
<1>1. IsFiniteSet(1 .. v) /\ Cardinality(1 .. v) = v
  BY FS_Interval
<1>. DEFINE b == [n \in 1 .. v |-> CHOOSE h \in Q : l[h] = n]
<1>2. \A n \in 1 .. v : b[n] \in Q /\ l[b[n]] = n
  OBVIOUS
<1>3. b \in [1 .. v -> Q]
  BY <1>2
<1>4. \A h \in Q : l[h] \in 1 .. v /\ b[l[h]] = h
  BY <1>2
<1>. HIDE DEF b
<1>5. b \in Bijection(1 .. v, Q)
  BY <1>2, <1>3, <1>4 DEF Bijection, Injection, Surjection, IsInjective
<1>6. ExistsBijection(1 .. v, Q)
  BY <1>5 DEF ExistsBijection
<1>. QED BY <1>1, <1>6, FS_Bijection

\* The headings over a line, one line further down.
LEMMA OverFacts ==
  ASSUME NEW text, NEW n \in Nat, HeadingsOf(text) \subseteq 1 .. n,
         \A h \in HeadingsOf(text) : text[h].level \in Nat \ {0}
  PROVE  /\ HeadingsOver(text, 1) = {}
         /\ \A k \in 1 .. n : k \notin HeadingsOf(text) =>
              HeadingsOver(text, k + 1) = HeadingsOver(text, k)
         /\ \A k \in HeadingsOf(text) :
              HeadingsOver(text, k + 1) =
                {h \in HeadingsOver(text, k) : text[h].level < text[k].level} \cup {k}
         /\ \A k : HeadingsOver(text, k) \subseteq HeadingsOf(text)
         /\ \A k : \A g, h \in HeadingsOver(text, k) : g < h => text[g].level < text[h].level
<1>. DEFINE H == HeadingsOf(text)
<1>0. \A h \in H : h \in 1 .. n /\ h \in Nat /\ text[h].level \in Nat \ {0}
  OBVIOUS
<1>. HIDE DEF H
<1>1. \A k : HeadingsOver(text, k) =
               {h \in H : h < k /\ \A g \in H : h < g /\ g < k => text[g].level > text[h].level}
  BY DEF HeadingsOver, H
<1>2. HeadingsOver(text, 1) = {}
  <2>1. ASSUME NEW h \in H, h < 1 PROVE FALSE
    BY <1>0, <2>1
  <2>. QED BY <1>1, <2>1
<1>3. ASSUME NEW k \in 1 .. n, k \notin H PROVE HeadingsOver(text, k + 1) = HeadingsOver(text, k)
  <2>1. \A h \in H : h < k + 1 <=> h < k
    BY <1>0, <1>3
  <2>. QED BY <1>1, <2>1
<1>4. ASSUME NEW k \in H
      PROVE  HeadingsOver(text, k + 1) =
               {h \in HeadingsOver(text, k) : text[h].level < text[k].level} \cup {k}
  <2>1. \A h \in H : h < k + 1 <=> h < k \/ h = k
    BY <1>0
  <2>2. ASSUME NEW h \in HeadingsOver(text, k + 1), h # k
        PROVE  h \in HeadingsOver(text, k) /\ text[h].level < text[k].level
    <3>1. h \in H /\ h < k
      BY <1>1, <2>1, <2>2
    <3>2. \A g \in H : h < g /\ g < k => text[g].level > text[h].level
      BY <1>1, <2>1
    <3>3. text[k].level > text[h].level
      BY <1>1, <2>1, <3>1
    <3>. QED BY <1>0, <1>1, <3>1, <3>2, <3>3
  <2>3. ASSUME NEW h \in HeadingsOver(text, k), text[h].level < text[k].level
        PROVE  h \in HeadingsOver(text, k + 1)
    <3>1. h \in H /\ h < k + 1
      BY <1>1, <2>1
    <3>2. ASSUME NEW g \in H, h < g, g < k + 1 PROVE text[g].level > text[h].level
      <4>1. CASE g = k
        BY <1>0, <2>3, <3>1, <4>1
      <4>2. CASE g # k
        <5>1. g < k
          BY <2>1, <3>2, <4>2
        <5>. QED BY <1>1, <3>2, <5>1
      <4>. QED BY <4>1, <4>2
    <3>. QED BY <1>1, <3>1, <3>2
  <2>4. k \in HeadingsOver(text, k + 1)
    <3>1. \A g \in H : ~(k < g /\ g < k + 1)
      BY <1>0
    <3>. QED BY <1>1, <2>1, <3>1
  <2>. QED BY <2>2, <2>3, <2>4
<1>5. ASSUME NEW k, NEW g \in HeadingsOver(text, k), NEW h \in HeadingsOver(text, k), g < h
      PROVE  text[g].level < text[h].level
  <2>1. g \in H /\ h \in H /\ h < k
    BY <1>1
  <2>2. text[h].level > text[g].level
    BY <1>1, <1>5, <2>1
  <2>. QED BY <1>0, <2>1, <2>2
<1>6. \A k : HeadingsOver(text, k) \subseteq H
  BY <1>1
<1>. QED BY <1>2, <1>3, <1>4, <1>5, <1>6 DEF H

\* The path names the headings by their levels.
Named(path, text, over) ==
  /\ \A v \in 1 .. Len(path) : \E h \in over : text[h].level = v /\ text[h].word = path[v]
  /\ \A h \in over : text[h].level \in 1 .. Len(path)

\* Such a path is the one that PathOver() reads off the text.
LEMMA NamedInOrder ==
  ASSUME NEW text, NEW W, NEW path \in Seq(W), NEW k, NEW n \in Nat, HeadingsOver(text, k) \subseteq 1 .. n,
         \A g, h \in HeadingsOver(text, k) : g < h => text[g].level < text[h].level,
         Named(path, text, HeadingsOver(text, k))
  PROVE  path = PathOver(text, k)
<1>. DEFINE O == HeadingsOver(text, k)
            m == Len(path)
            upto(h) == {g \in O : g <= h}
            nth(i) == CHOOSE h \in O : Cardinality(upto(h)) = i
<1>0. m \in Nat /\ path = [i \in 1 .. m |-> path[i]] /\ \A h \in O : h \in Nat
  OBVIOUS
<1>1. PathOver(text, k) = [i \in 1 .. Cardinality(O) |-> text[nth(i)].word]
  BY Zenon DEF PathOver
<1>2. /\ \A v \in 1 .. m : \E h \in O : text[h].level = v /\ text[h].word = path[v]
      /\ \A h \in O : text[h].level \in 1 .. m
  BY DEF Named
<1>3. \A g, h \in O : g < h => text[g].level < text[h].level
  OBVIOUS
<1>. HIDE DEF O, m
<1>4. \A g, h \in O : text[g].level = text[h].level => g = h
  <2>1. ASSUME NEW g \in O, NEW h \in O, text[g].level = text[h].level, g # h PROVE FALSE
    <3>1. g < h \/ h < g
      BY <1>0, <2>1
    <3>2. text[g].level \in Nat /\ text[h].level \in Nat
      BY <1>0, <1>2
    <3>. QED BY <1>3, <2>1, <3>1, <3>2
  <2>. QED BY <2>1
<1>5. Cardinality(O) = m
  <2>. DEFINE l == [h \in O |-> text[h].level]
  <2>1. \A h \in O : l[h] = text[h].level
    OBVIOUS
  <2>2. l \in [O -> 1 .. m]
    BY <1>2
  <2>. HIDE DEF l
  <2>3. \A g, h \in O : l[g] = l[h] => g = h
    BY <1>4, <2>1
  <2>4. \A i \in 1 .. m : \E h \in O : l[h] = i
    BY <1>2, <2>1
  <2>. QED BY <1>0, <2>2, <2>3, <2>4, Numbered
<1>6. ASSUME NEW h \in O PROVE Cardinality(upto(h)) = text[h].level
  <2>. DEFINE Q == upto(h)
              v == text[h].level
              l == [g \in Q |-> text[g].level]
  <2>0. v \in Nat /\ v \in 1 .. m /\ Q \subseteq O /\ h \in O
    BY <1>0, <1>2
  <2>1. \A g \in Q : l[g] = text[g].level
    OBVIOUS
  <2>2. \A g \in Q : text[g].level \in 1 .. v
    <3>1. ASSUME NEW g \in Q PROVE text[g].level \in 1 .. v
      <4>1. g \in O /\ (g = h \/ g < h)
        BY <1>0
      <4>2. text[g].level \in 1 .. m
        BY <1>2, <4>1
      <4>3. text[g].level <= text[h].level
        BY <1>0, <1>3, <2>0, <4>1, <4>2
      <4>. QED BY <2>0, <4>2, <4>3
    <3>. QED BY <3>1
  <2>3. \A i \in 1 .. v : \E g \in Q : text[g].level = i
    <3>1. ASSUME NEW i \in 1 .. v PROVE \E g \in Q : text[g].level = i
      <4>1. i \in 1 .. m
        BY <1>0, <2>0
      <4>2. PICK g \in O : text[g].level = i
        BY <1>2, <4>1
      <4>3. ~(h < g)
        BY <1>0, <1>3, <2>0, <4>2
      <4>4. g <= h
        BY <1>0, <4>3
      <4>. QED BY <4>2, <4>4
    <3>. QED BY <3>1
  <2>4. l \in [Q -> 1 .. v]
    BY <2>2
  <2>. HIDE DEF l, Q, v
  <2>5. \A g, j \in Q : l[g] = l[j] => g = j
    BY <1>4, <2>0, <2>1
  <2>6. \A i \in 1 .. v : \E g \in Q : l[g] = i
    BY <2>1, <2>3
  <2>7. Cardinality(Q) = v
    BY <2>0, <2>4, <2>5, <2>6, Numbered
  <2>. QED BY <2>7 DEF Q, v
<1>. HIDE DEF upto
<1>7. ASSUME NEW i \in 1 .. m PROVE text[nth(i)].word = path[i]
  <2>1. PICK h \in O : text[h].level = i /\ text[h].word = path[i]
    BY <1>2
  <2>2. nth(i) \in O /\ Cardinality(upto(nth(i))) = i
    BY <1>6, <2>1
  <2>3. text[nth(i)].level = i
    BY <1>6, <2>2
  <2>. HIDE DEF nth
  <2>4. nth(i) = h
    BY <1>4, <2>1, <2>2, <2>3
  <2>. QED BY <2>1, <2>4
<1>. HIDE DEF nth
<1>. QED BY <1>0, <1>1, <1>5, <1>7

\* A heading that skips no level replaces those of its level and below.
LEMMA NamedStep ==
  ASSUME NEW text, NEW W, NEW path \in Seq(W), NEW O, Named(path, text, O),
         NEW k, text[k].level \in Nat \ {0}, text[k].word \in W,
         text[k].level = 1 \/ \E g \in O : text[g].level = text[k].level - 1
  PROVE  Named(PathAt(path, text[k]), text, {h \in O : text[h].level < text[k].level} \cup {k})
<1>. DEFINE v == text[k].level
            m == Len(path)
            q == PathAt(path, text[k])
            Q == {h \in O : text[h].level < v} \cup {k}
<1>1. /\ \A i \in 1 .. m : \E h \in O : text[h].level = i /\ text[h].word = path[i]
      /\ \A h \in O : text[h].level \in 1 .. m
      /\ m \in Nat /\ v \in Nat \ {0}
  BY DEF Named
<1>2. v - 1 \in 0 .. m
  BY <1>1
<1>3. q = Append(First(path, v - 1), text[k].word)
  <2>1. Smaller(v - 1, m) = v - 1
    BY <1>1, <1>2 DEF Smaller
  <2>. HIDE DEF v, m
  <2>. QED BY <2>1 DEF PathAt, First, v, m
<1>4. Len(q) = v /\ q[v] = text[k].word /\ \A i \in 1 .. v - 1 : q[i] = path[i]
  <2>1. SubSeq(path, 1, v - 1) \in Seq(W) /\ Len(SubSeq(path, 1, v - 1)) = v - 1
        /\ \A i \in 1 .. v - 1 : SubSeq(path, 1, v - 1)[i] = path[i]
    BY <1>2
  <2>2. \A s \in Seq(W) : \A x \in W : /\ Len(Append(s, x)) = Len(s) + 1 /\ Append(s, x)[Len(s) + 1] = x
                                       /\ \A i \in 1 .. Len(s) : Append(s, x)[i] = s[i]
    OBVIOUS
  <2>3. (v - 1) + 1 = v
    BY <1>1
  <2>4. First(path, v - 1) \in Seq(W) /\ Len(First(path, v - 1)) = v - 1
        /\ \A i \in 1 .. v - 1 : First(path, v - 1)[i] = path[i]
    BY <2>1 DEF First
  <2>. HIDE DEF q, v
  <2>. QED BY <1>3, <2>2, <2>3, <2>4
<1>. HIDE DEF q, m
<1>5. ASSUME NEW i \in 1 .. v PROVE \E h \in Q : text[h].level = i /\ text[h].word = q[i]
  <2>1. CASE i = v
    BY <1>4, <2>1
  <2>2. CASE i # v
    <3>1. i \in 1 .. v - 1 /\ i \in 1 .. m /\ i < v
      BY <1>1, <1>2, <2>2
    <3>2. PICK h \in O : text[h].level = i /\ text[h].word = path[i]
      BY <1>1, <3>1
    <3>. QED BY <1>4, <3>1, <3>2
  <2>. QED BY <2>1, <2>2
<1>6. ASSUME NEW h \in Q PROVE text[h].level \in 1 .. v
  BY <1>1
<1>. QED BY <1>4, <1>5, <1>6 DEF Named, q

\* A section is a part of the text under one path of headings, without a heading.
Rightly(text, x) ==
  \E a \in 0 .. Len(text) : \E b \in a .. Len(text) :
     /\ x.lines = Piece(text, a, b)
     /\ \A j \in a + 1 .. b : j \notin HeadingsOf(text) /\ x.path = PathOver(text, j)
AllRightly(text, ss) == \A i \in 1 .. Len(ss) : Rightly(text, ss[i])

\* Filing a part of the text under one path keeps all sections such.
LEMMA FiledRightly ==
  ASSUME NEW L, NEW text, NEW p \in Parsers(L), NEW ss, Filed(L, p, ss), AllRightly(text, p.sections),
         NEW a \in 0 .. Len(text), NEW b \in a .. Len(text), p.body = Piece(text, a, b),
         \A j \in a + 1 .. b : j \notin HeadingsOf(text) /\ p.path = PathOver(text, j)
  PROVE  AllRightly(text, ss)
<1>1. CASE IsBlank(p.body)
  BY <1>1 DEF Filed
<1>2. CASE ~IsBlank(p.body)
  <2>1. PICK x \in Sect(L, Seq(Words(L))) :
          x.lines = p.body /\ x.path = p.path /\ ss = Append(p.sections, x)
    BY <1>2 DEF Filed
  <2>2. Rightly(text, x)
    BY <2>1 DEF Rightly
  <2>3. p.sections \in Seq(Sect(L, Seq(Words(L))))
    BY DEF Parsers
  <2>4. Len(ss) = Len(p.sections) + 1 /\ ss[Len(p.sections) + 1] = x
        /\ \A i \in 1 .. Len(p.sections) : ss[i] = p.sections[i]
    BY <2>1, <2>3
  <2>5. \A i \in 1 .. Len(ss) : i \in 1 .. Len(p.sections) \/ i = Len(p.sections) + 1
    BY <2>3, <2>4
  <2>. QED BY <2>2, <2>4, <2>5 DEF AllRightly
<1>. QED BY <1>1, <1>2

\* A piece, one line longer.
LEMMA PieceAppend ==
  ASSUME NEW S, NEW t \in Seq(S), NEW k \in 1 .. Len(t), NEW a \in 0 .. k - 1
  PROVE  Piece(t, a, k) = Append(Piece(t, a, k - 1), t[k]) /\ Piece(t, k, k) = <<>>
         /\ Piece(t, 0, 0) = <<>>
BY DEF Piece

\* Line j stands under the headings of line k, and is none.
SameHeadings(text, j, k) ==
  j \notin HeadingsOf(text) /\ HeadingsOver(text, j) = HeadingsOver(text, k)

\* What the parser has put together after k lines.
Headed(text, p, k) ==
  /\ Named(p.path, text, HeadingsOver(text, k + 1))
  /\ AllRightly(text, p.sections)
  /\ \E a \in 0 .. k : /\ p.body = Piece(text, a, k)
                       /\ \A j \in a + 1 .. k : SameHeadings(text, j, k + 1)

\* The lines it holds stand under its path.
LEMMA HeadedPath ==
  ASSUME NEW L, LevelsOver(L), NEW text \in Seq(L), NEW p \in Parsers(L), NEW k \in 0 .. Len(text),
         Headed(text, p, k)
  PROVE  \E a \in 0 .. Len(text) :
            /\ a <= k /\ p.body = Piece(text, a, k)
            /\ \A j \in a + 1 .. k : j \notin HeadingsOf(text) /\ p.path = PathOver(text, j)
<1>. DEFINE n == Len(text)
<1>1. n \in Nat /\ HeadingsOf(text) \subseteq 1 .. n /\ \A h \in HeadingsOf(text) : text[h].level \in Nat \ {0}
  <2>1. n \in Nat /\ DOMAIN text = 1 .. n /\ \A h \in 1 .. n : text[h] \in L
    OBVIOUS
  <2>. QED BY <2>1 DEF HeadingsOf, LevelsOver
<1>2. PICK a \in 0 .. k : p.body = Piece(text, a, k)
                          /\ \A j \in a + 1 .. k : SameHeadings(text, j, k + 1)
  BY DEF Headed
<1>3. Named(p.path, text, HeadingsOver(text, k + 1)) /\ p.path \in Seq(Words(L))
  BY DEF Headed, Parsers
<1>. HIDE DEF n
<1>4. ASSUME NEW j \in a + 1 .. k PROVE j \notin HeadingsOf(text) /\ p.path = PathOver(text, j)
  <2>1. Named(p.path, text, HeadingsOver(text, j)) /\ j \notin HeadingsOf(text)
    BY <1>2, <1>3 DEF SameHeadings
  <2>2. HeadingsOver(text, j) \subseteq 1 .. n
        /\ \A g, h \in HeadingsOver(text, j) : g < h => text[g].level < text[h].level
    BY <1>1, OverFacts
  <2>. QED BY <1>1, <1>3, <2>1, <2>2, NamedInOrder
<1>5. a \in 0 .. Len(text) /\ a <= k
  BY <1>1
<1>. QED BY <1>2, <1>4, <1>5

\* So it goes on, to the end of the text.
LEMMA HeadedSections ==
  ASSUME NEW L, LevelsOver(L), \A l \in L : l.kind # "none", NEW text \in Seq(L), WellNested(text),
         NEW g, Reads(g, L, text)
  PROVE  g[Len(text)] \in Parsers(L) /\ Headed(text, g[Len(text)], Len(text))
<1>. DEFINE n == Len(text)
            f == Fenced(text)
            T == {k \in 0 .. n : Headed(text, g[k], k)}
<1>1. n \in Nat /\ DOMAIN text = 1 .. n /\ \A h \in 1 .. n : text[h] \in L
  OBVIOUS
<1>2. HeadingsOf(text) \subseteq 1 .. n /\ \A h \in HeadingsOf(text) : text[h].level \in Nat \ {0}
  BY <1>1 DEF HeadingsOf, LevelsOver
<1>3. Marks(f, n, text)
  BY FencedIs
<1>. HIDE DEF n, f
<1>4. /\ HeadingsOver(text, 1) = {}
      /\ \A k \in 1 .. n : k \notin HeadingsOf(text) => HeadingsOver(text, k + 1) = HeadingsOver(text, k)
      /\ \A k \in HeadingsOf(text) :
           HeadingsOver(text, k + 1) =
             {h \in HeadingsOver(text, k) : text[h].level < text[k].level} \cup {k}
  BY <1>1, <1>2, OverFacts
<1>5. \A k \in 0 .. n : g[k] \in Parsers(L)
  BY DEF Reads, n
<1>6. 0 \in T
  <2>1. g[0].path = <<>> /\ g[0].sections = <<>> /\ g[0].body = <<>>
    BY DEF Reads, BeforeText
  <2>2. Named(<<>>, text, {}) /\ AllRightly(text, <<>>)
    BY DEF Named, AllRightly
  <2>3. Piece(text, 0, 0) = <<>> /\ \A j \in 0 + 1 .. 0 : FALSE
    BY DEF Piece
  <2>4. HeadingsOver(text, 0 + 1) = {} /\ 0 \in 0 .. 0
    BY <1>4
  <2>5. Headed(text, g[0], 0)
    BY <2>1, <2>2, <2>3, <2>4 DEF Headed
  <2>. QED BY <1>1, <2>5
<1>7. ASSUME NEW k \in 1 .. n, k - 1 \in T PROVE k \in T
  <2>. DEFINE p == g[k - 1]
              q == g[k]
              l == text[k]
  <2>0. k \in 0 .. n /\ k - 1 \in 0 .. n /\ l \in L /\ (k - 1) + 1 = k
    BY <1>1
  <2>1. p \in Parsers(L) /\ ReadOn(L, p, l, q) /\ q \in Parsers(L)
    <3>1. q = ReadLine(p, l) /\ p \in Parsers(L) /\ q \in Parsers(L)
      BY <1>5, <2>0 DEF Reads, n
    <3>. HIDE DEF p, q, l
    <3>. QED BY <2>0, <3>1, ReadFields
  <2>2. Titles(p, l) <=> k \in HeadingsOf(text)
    <3>1. f[k] <=> g[k - 1].fence # NoFence
      BY <1>3, InFence DEF n
    <3>. QED BY <1>1, <3>1 DEF Titles, HeadingsOf, f
  <2>3. Headed(text, p, k - 1)
    BY <1>7
  <2>4. Named(p.path, text, HeadingsOver(text, k)) /\ p.path \in Seq(Words(L))
    BY <2>0, <2>1, <2>3 DEF Headed, Parsers
  <2>5. AllRightly(text, p.sections)
    BY <2>3 DEF Headed
  <2>6. PICK a \in 0 .. k - 1 : p.body = Piece(text, a, k - 1)
          /\ \A j \in a + 1 .. k - 1 : SameHeadings(text, j, k)
    BY <2>0, <2>3 DEF Headed
  <2>. HIDE DEF p, q, l
  <2>7. CASE Titles(p, l)
    <3>1. q.body = <<>> /\ q.path = PathAt(p.path, l) /\ Filed(L, p, q.sections)
      BY <2>1, <2>7 DEF ReadOn
    <3>2. k \in HeadingsOf(text)
      BY <2>2, <2>7
    <3>3. Named(q.path, text, HeadingsOver(text, k + 1))
      <4>1. text[k].level = 1 \/ \E h \in HeadingsOver(text, k) : text[h].level = text[k].level - 1
        BY <3>2 DEF WellNested
      <4>2. text[k].level \in Nat \ {0} /\ text[k].word \in Words(L)
        BY <1>2, <2>0, <3>2 DEF Words, l
      <4>3. Named(PathAt(p.path, text[k]), text,
                  {h \in HeadingsOver(text, k) : text[h].level < text[k].level} \cup {k})
        BY <2>4, <4>1, <4>2, NamedStep
      <4>. QED BY <1>4, <3>1, <3>2, <4>3 DEF l
    <3>4. AllRightly(text, q.sections)
      <4>1. PICK b \in 0 .. Len(text) :
              /\ b <= k - 1 /\ p.body = Piece(text, b, k - 1)
              /\ \A j \in b + 1 .. k - 1 : j \notin HeadingsOf(text) /\ p.path = PathOver(text, j)
        BY <2>0, <2>1, <2>3, HeadedPath DEF n
      <4>2. k - 1 \in b .. Len(text)
        BY <2>0, <4>1 DEF n
      <4>. QED BY <2>1, <2>5, <3>1, <4>1, <4>2, FiledRightly
    <3>5. q.body = Piece(text, k, k) /\ k \in 0 .. k /\ \A j \in k + 1 .. k : FALSE
      BY <1>1, <2>0, <3>1 DEF Piece
    <3>6. Headed(text, q, k)
      BY <3>3, <3>4, <3>5 DEF Headed
    <3>. QED BY <2>0, <3>6 DEF q
  <2>8. CASE ~Titles(p, l)
    <3>1. q.body = Append(p.body, l) /\ q.sections = p.sections /\ q.path = p.path
      BY <2>1, <2>8 DEF ReadOn
    <3>2. HeadingsOver(text, k + 1) = HeadingsOver(text, k) /\ k \notin HeadingsOf(text)
      BY <1>4, <2>2, <2>8
    <3>3. q.body = Piece(text, a, k)
      <4>1. k \in 1 .. Len(text)
        BY DEF n
      <4>2. Piece(text, a, k) = Append(Piece(text, a, k - 1), text[k])
        BY <4>1, PieceAppend
      <4>. QED BY <2>6, <3>1, <4>2 DEF l
    <3>4. a \in 0 .. k /\ \A j \in a + 1 .. k : SameHeadings(text, j, k + 1)
      <4>1. \A j \in a + 1 .. k : j \in a + 1 .. k - 1 \/ j = k
        BY <2>0
      <4>. QED BY <2>0, <2>6, <3>2, <4>1 DEF SameHeadings
    <3>5. Headed(text, q, k)
      BY <2>4, <2>5, <3>1, <3>2, <3>3, <3>4 DEF Headed
    <3>. QED BY <2>0, <3>5 DEF q
  <2>. QED BY <2>7, <2>8
<1>8. n \in T
  <2>1. \A k \in 1 .. n : k - 1 \in T => k \in T
    BY <1>7
  <2>. HIDE DEF T
  <2>. QED BY <1>1, <1>6, <2>1, UpTo, Zenon
<1>9. n \in 0 .. n
  BY <1>1
<1>. QED BY <1>5, <1>8, <1>9 DEF n

\* What a line says.
TokenOf(x, l) == x \in ToSet(LineTokens(l))

\* What lines say, one of them says.
LEMMA TokensFrom ==
  ASSUME NEW L, NEW S, LinesOver(L, S), NEW lines \in Seq(L), NEW x \in ToSet(TokensOf(lines))
  PROVE  \E j \in 1 .. Len(lines) : TokenOf(x, lines[j])
<1>. DEFINE n == Len(lines)
            P(k) == TokensOf(First(lines, k))
            T == {k \in 0 .. n : \A y \in ToSet(P(k)) : \E j \in 1 .. k : TokenOf(y, lines[j])}
<1>1. /\ n \in Nat /\ First(lines, 0) = <<>> /\ First(lines, n) = lines
      /\ \A k \in 0 .. n : First(lines, k) \in Seq(L)
      /\ \A k \in 1 .. n : lines[k] \in L /\ First(lines, k) = Append(First(lines, k - 1), lines[k])
  BY FirstElements
<1>. HIDE DEF n
<1>3. 0 \in T
  <2>1. P(0) = <<>> /\ ToSet(<<>>) = {}
    BY <1>1, FlatEmpty DEF TokensOf, ToSet
  <2>. QED BY <1>1, <2>1
<1>4. ASSUME NEW k \in 1 .. n, k - 1 \in T PROVE k \in T
  <2>0. k \in 0 .. n /\ k - 1 \in 0 .. n
    BY <1>1
  <2>1. First(lines, k - 1) \in Seq(L) /\ lines[k] \in L /\ First(lines, k) = Append(First(lines, k - 1), lines[k])
    BY <1>1, <2>0
  <2>2. P(k) = Then(P(k - 1), LineTokens(lines[k])) /\ P(k - 1) \in Seq(S)
    <3>1. TokensOf(Append(First(lines, k - 1), lines[k]))
            = Then(TokensOf(First(lines, k - 1)), LineTokens(lines[k]))
          /\ TokensOf(First(lines, k - 1)) \in Seq(S)
      BY <2>1, TokensByLine
    <3>. QED BY <2>1, <3>1
  <2>3. LineTokens(lines[k]) \in Seq(S)
    BY <2>1 DEF LinesOver
  <2>4. ToSet(P(k)) = ToSet(P(k - 1)) \cup ToSet(LineTokens(lines[k]))
    <3>. HIDE DEF P
    <3>. QED BY <2>2, <2>3, Concatenation
  <2>. HIDE DEF P
  <2>5. \A y \in ToSet(P(k - 1)) : \E j \in 1 .. k - 1 : TokenOf(y, lines[j])
    BY <1>4
  <2>6. \A j \in 1 .. k - 1 : j \in 1 .. k
    BY <2>0
  <2>7. k \in 1 .. k
    OBVIOUS
  <2>. QED BY <2>0, <2>1, <2>4, <2>5, <2>6, <2>7 DEF TokenOf
<1>5. n \in T
  <2>1. \A k \in 1 .. n : k - 1 \in T => k \in T
    BY <1>4
  <2>. HIDE DEF T
  <2>. QED BY <1>1, <1>3, <2>1, UpTo, Zenon
<1>. QED BY <1>1, <1>5 DEF n

\* A window says what the tokens say.
LEMMA WindowsFrom ==
  ASSUME NEW S, NEW t \in Seq(S), NEW w \in 1 .. Len(Windows(t))
  PROVE  ToSet(Windows(t)[w]) \subseteq ToSet(t)
<1>. DEFINE n == Len(t)
            c == WindowCount(n)
            W == Windows(t)
<1>0. n \in Nat
  OBVIOUS
<1>1. n # 0
  <2>1. CASE n = 0
    <3>1. W = <<>>
      BY <2>1 DEF Windows
    <3>. QED BY <3>1
  <2>. QED BY <2>1
<1>2. W = [v \in 1 .. c |-> Piece(t, Start(v), End(v, n))]
  BY <1>0, <1>1, Zenon DEF Windows, WindowCount, Piece, Start, End
<1>3. c \in Nat \ {0} /\ \A v \in 1 .. c : Start(v) \in Nat /\ End(v, n) \in Start(v) + 1 .. n
  <2>1. n \in Nat \ {0}
    BY <1>0, <1>1
  <2>. HIDE DEF n
  <2>. QED BY <2>1, WindowBounds
<1>. HIDE DEF c
<1>4. Len(W) = c
  BY <1>2, <1>3
<1>. HIDE DEF W
<1>5. w \in 1 .. c
  BY <1>4 DEF W
<1>6. W[w] = Piece(t, Start(w), End(w, n))
  BY <1>2, <1>5
<1>7. End(w, n) \in 0 .. n /\ Start(w) \in 0 .. End(w, n)
  BY <1>0, <1>3, <1>5
<1>8. ToSet(W[w]) \subseteq ToSet(First(t, End(w, n)))
  BY <1>6, <1>7, PieceIn
<1>9. ToSet(First(t, End(w, n))) \subseteq ToSet(First(t, n))
  <2>. DEFINE e == End(w, n)
  <2>0. n \in 0 .. Len(t) /\ e \in 0 .. Len(t) /\ e \in 0 .. n
    BY <1>0, <1>7
  <2>. HIDE DEF e, n
  <2>1. First(t, e) \in Seq(S) /\ First(t, n) = Then(First(t, e), Piece(t, e, n))
    BY <2>0, FirstElements, SplitFirst
  <2>2. Piece(t, e, n) \in Seq(S)
    <3>1. n \in e .. Len(t)
      BY <2>0
    <3>. QED BY <2>0, <3>1, Pieces
  <2>. QED BY <2>1, <2>2, Concatenation DEF e
<1>. QED BY <1>8, <1>9, FirstElements DEF W

\* Each chunk is of one section.
Of(c, ss) ==
  \E i \in 1 .. Len(ss) : c.path = ss[i].path /\ ToSet(c.content) \subseteq ToSet(TokensOf(ss[i].lines))

LEMMA PartsFrom ==
  ASSUME NEW L, NEW S, LinesOver(L, S), NEW P, NEW ss \in Seq(Sect(L, P))
  PROVE  \A k \in 1 .. Len(PartsOf(ss)) : Of(PartsOf(ss)[k], ss)
<1>. DEFINE A == Sect(L, P)
            n == Len(ss)
            F(k) == PartsOf(First(ss, k))
            T == {k \in 0 .. n : \A i \in 1 .. Len(F(k)) : Of(F(k)[i], ss)}
<1>1. /\ n \in Nat /\ First(ss, 0) = <<>> /\ First(ss, n) = ss
      /\ \A k \in 0 .. n : First(ss, k) \in Seq(A)
      /\ \A k \in 1 .. n : ss[k] \in A /\ First(ss, k) = Append(First(ss, k - 1), ss[k])
  BY FirstElements
<1>2. 0 \in T
  <2>1. F(0) = <<>>
    BY <1>1, FlatEmpty DEF PartsOf
  <2>. QED BY <1>1, <2>1
<1>3. ASSUME NEW k \in 1 .. n, k - 1 \in T PROVE k \in T
  <2>. DEFINE x == ss[k]
              a == F(k - 1)
              b == SectionChunks(x.path, x.lines)
              t == TokensOf(x.lines)
  <2>0. k \in 0 .. n /\ k - 1 \in 0 .. n
    BY <1>1
  <2>1. First(ss, k - 1) \in Seq(A) /\ x \in A /\ First(ss, k) = Append(First(ss, k - 1), x)
    BY <1>1, <2>0
  <2>2. x.path \in P /\ x.lines \in Seq(L)
    BY <2>1 DEF Sect
  <2>. HIDE DEF x
  <2>3. a \in Seq(Part(P, S)) /\ F(k) = Then(a, b)
    BY <2>1, PartsBySection
  <2>4. /\ b \in Seq(Part(P, S)) /\ ContentsOf(b) = Windows(t)
        /\ \A i \in 1 .. Len(b) : b[i].path = x.path
    <3>1. b \in Seq(Part(P, S)) /\ ContentsOf(b) = Windows(t)
      BY <2>2, SectionRepeats
    <3>2. \A i \in 1 .. Len(b) : b[i].path = x.path
      <4>. DEFINE y == x.path
                  z == x.lines
      <4>0. y \in P /\ z \in Seq(L)
        BY <2>2
      <4>. HIDE DEF y, z
      <4>1. \A i \in 1 .. Len(SectionChunks(y, z)) : SectionChunks(y, z)[i].path = y
        BY <4>0, SectionRepeats
      <4>. QED BY <4>1 DEF y, z
    <3>. QED BY <3>1, <3>2
  <2>5. Len(ContentsOf(b)) = Len(b) /\ \A i \in 1 .. Len(b) : ContentsOf(b)[i] = b[i].content
    BY <2>4, ContentsBy
  <2>6. t \in Seq(S)
    BY <2>2, TokensByLine
  <2>. HIDE DEF a, b, t, F
  <2>7. ASSUME NEW i \in 1 .. Len(b) PROVE Of(b[i], ss)
    <3>1. i \in 1 .. Len(Windows(t))
      BY <2>4, <2>5
    <3>2. ToSet(b[i].content) \subseteq ToSet(t)
      BY <2>4, <2>5, <2>6, <3>1, WindowsFrom
    <3>3. b[i].path = ss[k].path /\ ToSet(b[i].content) \subseteq ToSet(TokensOf(ss[k].lines))
      BY <2>4, <3>2 DEF t, x
    <3>. QED BY <3>3 DEF Of
  <2>8. ASSUME NEW i \in 1 .. Len(a) PROVE Of(a[i], ss)
    BY <1>3 DEF a, F
  <2>9. /\ Len(F(k)) = Len(a) + Len(b) /\ Len(a) \in Nat /\ Len(b) \in Nat
        /\ \A i \in 1 .. Len(a) + Len(b) : F(k)[i] = IF i <= Len(a) THEN a[i] ELSE b[i - Len(a)]
    BY <2>3, <2>4, ThenIndexed
  <2>10. ASSUME NEW i \in 1 .. Len(F(k)) PROVE Of(F(k)[i], ss)
    <3>1. F(k)[i] = IF i <= Len(a) THEN a[i] ELSE b[i - Len(a)]
      BY <2>9
    <3>2. CASE i <= Len(a)
      <4>1. i \in 1 .. Len(a)
        BY <2>9, <3>2
      <4>. QED BY <2>8, <3>1, <3>2, <4>1
    <3>3. CASE ~(i <= Len(a))
      <4>1. i - Len(a) \in 1 .. Len(b)
        BY <2>9, <3>3
      <4>. QED BY <2>7, <3>1, <3>3, <4>1
    <3>. QED BY <3>2, <3>3
  <2>. QED BY <2>0, <2>10
<1>4. n \in T
  <2>1. \A k \in 1 .. n : k - 1 \in T => k \in T
    BY <1>3
  <2>. HIDE DEF T, n
  <2>. QED BY <1>1, <1>2, <2>1, UpTo, Zenon
<1>. QED BY <1>1, <1>4

\* The chunks of a text are filed under its headings.
LEMMA ChunksUnderHeadings ==
  ASSUME NEW text, IsText(text), WellNested(text), NEW k \in DOMAIN ChunksOf(text)
  PROVE  UnderItsHeadings(ChunksOf(text)[k].path, ChunksOf(text)[k].content, text)
<1>. DEFINE L == ToSet(text)
            S == {0} \cup Words(L)
            P == Seq(Words(L))
            n == Len(text)
            C == ChunksOf(text)
            ss == Sections(text)
<1>1. /\ text \in Seq(L) /\ LevelsOver(L) /\ (\A l \in L : l.kind # "none") /\ LinesOver(L, S)
  BY TextLines
<1>. HIDE DEF L, S, P, C, ss
<1>2. n \in Nat /\ DOMAIN text = 1 .. n /\ n \in 0 .. n
  BY <1>1
<1>3. CASE ss = <<>>
  BY <1>3 DEF UnderItsHeadings, ss
<1>4. CASE ss # <<>>
  <2>1. PICK g : Reads(g, L, text) /\ ParserAt(text)[n] = g[n]
    BY <1>1, ReadingIs
  <2>. DEFINE q == g[n]
              p == Flush(q)
  <2>2. q \in Parsers(L) /\ Headed(text, q, n)
    BY <1>1, <2>1, HeadedSections
  <2>3. ss = p.sections
    BY <1>4, <2>1 DEF Sections, ss
  <2>. HIDE DEF q
  <2>4. p \in Parsers(L) /\ Filed(L, q, p.sections)
    BY <2>2, FlushTyped
  <2>. HIDE DEF p
  <2>5. ss \in Seq(Sect(L, P))
    BY <2>3, <2>4 DEF Parsers, P
  <2>6. AllRightly(text, ss)
    <3>1. PICK a \in 0 .. n :
            q.body = Piece(text, a, n) /\ \A j \in a + 1 .. n : j \notin HeadingsOf(text) /\ q.path = PathOver(text, j)
      BY <1>1, <1>2, <2>2, HeadedPath
    <3>2. n \in a .. n /\ AllRightly(text, q.sections)
      BY <1>2, <2>2 DEF Headed
    <3>. QED BY <2>2, <2>3, <2>4, <3>1, <3>2, FiledRightly
  <2>7. C = PartsOf(ss)
    BY <1>4, Zenon DEF ChunksOf, PartsOf, C, ss
  <2>8. k \in 1 .. Len(C)
    <3>1. C \in Seq(Part(P, S))
      BY <1>1, <2>5, <2>7, PartsBySection
    <3>. QED BY <3>1 DEF C
  <2>9. PICK i \in 1 .. Len(ss) :
          C[k].path = ss[i].path /\ ToSet(C[k].content) \subseteq ToSet(TokensOf(ss[i].lines))
    BY <1>1, <2>5, <2>7, <2>8, PartsFrom DEF Of
  <2>10. PICK a \in 0 .. n : \E b \in a .. n :
           /\ ss[i].lines = Piece(text, a, b)
           /\ \A j \in a + 1 .. b : j \notin HeadingsOf(text) /\ ss[i].path = PathOver(text, j)
    BY <2>6 DEF AllRightly, Rightly
  <2>11. PICK b \in a .. n :
           /\ ss[i].lines = Piece(text, a, b)
           /\ \A j \in a + 1 .. b : j \notin HeadingsOf(text) /\ ss[i].path = PathOver(text, j)
    BY <2>10
  <2>12. ss[i].lines \in Seq(L)
    <3>1. ss[i] \in Sect(L, P)
      BY <2>5
    <3>. QED BY <3>1 DEF Sect
  <2>13. ASSUME NEW x \in ToSet(C[k].content)
         PROVE  \E h \in FoundLines(text) :
                  x \in ToSet(LineTokens(text[h])) /\ C[k].path = PathOver(text, h)
    <3>. DEFINE lines == ss[i].lines
    <3>1. x \in ToSet(TokensOf(lines))
      BY <2>9
    <3>. HIDE DEF lines
    <3>2. lines \in Seq(L)
      BY <2>12 DEF lines
    <3>3. PICK j \in 1 .. Len(lines) : TokenOf(x, lines[j])
      BY <1>1, <3>1, <3>2, TokensFrom
    <3>4. a + j \in a + 1 .. b /\ lines[j] = text[a + j]
      <4>1. a \in 0 .. Len(text) /\ b \in a .. Len(text)
        BY <1>2
      <4>2. Len(Piece(text, a, b)) = b - a /\ \A d \in 1 .. b - a : Piece(text, a, b)[d] = text[a + d]
        BY <1>1, <4>1, Pieces
      <4>. QED BY <1>2, <2>11, <3>3, <4>2 DEF lines
    <3>5. a + j \in 1 .. n
      BY <1>2, <3>4
    <3>6. text[a + j].kind # "blank"
      <4>1. ToSet(<<>>) = {}
        BY DEF ToSet
      <4>. QED BY <3>3, <3>4, <4>1 DEF TokenOf, LineTokens
    <3>7. a + j \in FoundLines(text)
      BY <1>2, <2>11, <3>4, <3>5, <3>6 DEF FoundLines
    <3>. QED BY <2>9, <2>11, <3>3, <3>4, <3>7 DEF TokenOf
  <2>. QED BY <2>13 DEF UnderItsHeadings, C
<1>. QED BY <1>3, <1>4

=============================================================================
