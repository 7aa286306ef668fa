--------------------------- MODULE BootstrapProofs --------------------------
(***************************************************************************)
(* One administrator, for every number of programs, tokens, failures and    *)
(* crashes: OneRegistration of Bootstrap.  The invariant it needs ties the   *)
(* count of administrators to the flag that every transaction reads first;  *)
(* a transaction that was lost writes neither of them.                      *)
(*                                                                         *)
(* GuessesTakeTime compares the clock with a sum of delays, a recursive     *)
(* function: that it is what its equation says is proved first, by taking   *)
(* the least number for which it would not be.                              *)
(***************************************************************************)
EXTENDS Bootstrap, WellFoundedInduction, TLAPS

\* The flag says how many administrators there are.
CountedByFlag ==
  /\ closed \in BOOLEAN
  /\ registered = IF closed THEN 1 ELSE 0

Registers(t) ==
  /\ ~closed /\ pc[t] = "register" /\ Matches(arg[t])
  /\ closed' = TRUE /\ registered' = registered + 1 /\ hash' = None
  /\ Goto(t, "delete")

LEMMA InitCounted == Init => CountedByFlag
  BY DEF Init, CountedByFlag

\* Besides a registration with the token in force, no step touches the flag or
\* the count.
CountsOnlyByRegister ==
  UNCHANGED <<closed, registered>> \/ \E t \in Threads : Registers(t)

LEMMA OnlyRegisterCounts == [Next]_vars => CountsOnlyByRegister
<1>. SUFFICES ASSUME [Next]_vars PROVE CountsOnlyByRegister
  OBVIOUS
<1>. USE DEF CountsOnlyByRegister
<1>1. CASE UNCHANGED vars
  BY <1>1 DEF vars, rowVars
<1>2. CASE Tick
  BY <1>2 DEF Tick, rowVars
<1>3. ASSUME NEW t \in Threads, Call(t)
      PROVE  UNCHANGED <<closed, registered>>
  BY <1>3 DEF Call, IssueUpdate, Present, rowVars
<1>4. ASSUME NEW t \in Threads, Step(t)
      PROVE  UNCHANGED <<closed, registered>> \/ Registers(t)
  <2>1. CASE WriteTemporary(t) BY <2>1 DEF WriteTemporary, rowVars
  <2>2. CASE Rename(t) BY <2>2 DEF Rename, rowVars
  <2>3. CASE IssueCommit(t) BY <2>3 DEF IssueCommit
  <2>4. CASE DeleteAfter(t) BY <2>4 DEF DeleteAfter, rowVars
  <2>5. CASE Sweep(t) BY <2>5 DEF Sweep, rowVars
  <2>6. CASE Remove(t) BY <2>6 DEF Remove
  <2>7. ASSUME NEW valid \in BOOLEAN, Register(t, valid)
        PROVE  UNCHANGED <<closed, registered>> \/ Registers(t)
    BY <2>7 DEF Register, Registers, Closed, rowVars
  <2>. QED BY <1>4, <2>1, <2>2, <2>3, <2>4, <2>5, <2>6, <2>7 DEF Step
<1>5. ASSUME NEW t \in Threads, EnterCleanup(t) \/ Fail(t) \/ Lose(t) \/ Crash(t)
      PROVE  UNCHANGED <<closed, registered>>
  BY <1>5 DEF EnterCleanup, Fail, Lose, Crash, rowVars
<1>. QED BY <1>1, <1>2, <1>3, <1>4, <1>5 DEF Next, Act

LEMMA CountedKept == CountedByFlag /\ [Next]_vars => CountedByFlag'
<1>. SUFFICES ASSUME CountedByFlag, [Next]_vars PROVE CountedByFlag'
  OBVIOUS
<1>1. CASE UNCHANGED <<closed, registered>>
  BY <1>1 DEF CountedByFlag
<1>2. ASSUME NEW t \in Threads, Registers(t)
      PROVE  CountedByFlag'
  BY <1>2 DEF CountedByFlag, Registers
<1>. QED BY <1>1, <1>2, OnlyRegisterCounts DEF CountsOnlyByRegister

\* What OneRegistration says of a step.
OneStep ==
  registered' # registered =>
    /\ registered = 0 /\ registered' = 1
    /\ expires > now /\ hash' = None
    /\ \E t \in Threads : /\ pc[t] = "register" /\ pc'[t] = "delete"
                          /\ arg[t] = hash /\ arg[t] \in Tokens

-----------------------------------------------------------------------------
(* Types                                                                    *)

USE DEF TypeOK, Labels, Issuing, rowVars, fileVars, threadVars

LEMMA InitTypes == Init => TypeOK
<1>. SUFFICES ASSUME Init PROVE TypeOK
  OBVIOUS
<1>. USE BootstrapAssumption DEF Init
<1>1. Never \in Int
  BY DEF Never
<1>2. closed \in BOOLEAN
  OBVIOUS
<1>3. RowTypes
  BY <1>1, <1>2 DEF RowTypes
<1>4. FileTypes /\ ThreadTypes
  BY DEF FileTypes, ThreadTypes
<1>. QED BY <1>3, <1>4

LEMMA EndTypes ==
  ASSUME TypeOK, NEW t \in Threads, End(t)
  PROVE  ThreadTypes'
  BY BootstrapAssumption DEF ThreadTypes, End, Release, Finish, Goto

LEMMA RowKept == ASSUME TypeOK, UNCHANGED rowVars PROVE RowTypes'
  BY DEF RowTypes

LEMMA FilesKept == ASSUME TypeOK, UNCHANGED <<issued, fileVars>> PROVE FileTypes'
  BY DEF FileTypes

LEMMA IssueUpdateTypes == ASSUME TypeOK, NEW t \in Threads, IssueUpdate(t) PROVE TypeOK'
<1>1. FileTypes' /\ ThreadTypes'
  BY BootstrapAssumption DEF FileTypes, ThreadTypes, IssueUpdate, Goto
<1>. QED BY <1>1, RowKept DEF IssueUpdate

LEMMA WriteTemporaryTypes == ASSUME TypeOK, NEW t \in Threads, WriteTemporary(t) PROVE TypeOK'
<1>1. FileTypes' /\ ThreadTypes'
  BY BootstrapAssumption DEF FileTypes, ThreadTypes, WriteTemporary, Goto
<1>. QED BY <1>1, RowKept DEF WriteTemporary

LEMMA RenameTypes == ASSUME TypeOK, NEW t \in Threads, Rename(t) PROVE TypeOK'
<1>1. FileTypes'
  BY DEF FileTypes, ThreadTypes, Rename
<1>2. CASE End(t)
  BY <1>1, <1>2, EndTypes, RowKept DEF Rename
<1>3. CASE ~End(t)
  <2>1. ThreadTypes'
    BY <1>3, BootstrapAssumption DEF ThreadTypes, Rename, Goto
  <2>. QED BY <1>1, <2>1, RowKept DEF Rename
<1>. QED BY <1>2, <1>3

LEMMA IssueCommitTypes == ASSUME TypeOK, NEW t \in Threads, IssueCommit(t) PROVE TypeOK'
<1>1. RowTypes'
  <2>1. arg[t] \in Tokens /\ at[t] \in Nat
    BY DEF ThreadTypes, IssueCommit
  <2>2. expires' \in Int /\ failures' \in Nat /\ start' \in Int
    BY <2>1, BootstrapAssumption DEF RowTypes, IssueCommit, Never
  <2>3. UNCHANGED <<closed, registered>> /\ hash' \in Tokens \cup {None}
    BY <2>1 DEF RowTypes, IssueCommit
  <2>. QED BY <2>2, <2>3 DEF RowTypes
<1>. QED BY <1>1, EndTypes, FilesKept DEF IssueCommit

LEMMA PresentTypes ==
  ASSUME TypeOK, NEW t \in Threads, NEW k \in issued \cup {None}, Present(t, k)
  PROVE  TypeOK'
<1>1. ThreadTypes'
  <2>1. k \in Tokens \cup {None}
    BY DEF FileTypes
  <2>. QED BY <2>1, BootstrapAssumption DEF ThreadTypes, Present, Goto
<1>. QED BY <1>1, RowKept, FilesKept DEF Present

LEMMA RegisterTypes ==
  ASSUME TypeOK, NEW t \in Threads, NEW valid, Register(t, valid)
  PROVE  TypeOK'
<1>1. ThreadTypes'
  BY BootstrapAssumption DEF ThreadTypes, Register, Finish, Goto
<1>2. ASSUME UNCHANGED rowVars PROVE RowTypes'
  BY <1>2, RowKept
<1>3. ASSUME Reject, UNCHANGED <<closed, registered, hash, expires>> PROVE RowTypes'
  BY <1>3 DEF RowTypes, Reject
<1>4. ASSUME closed' = TRUE, registered' = registered + 1, hash' = None,
             UNCHANGED <<expires, failures, start>>
      PROVE  RowTypes'
  <2>1. closed' \in BOOLEAN
    BY <1>4
  <2>2. registered' \in Nat
    BY <1>4 DEF RowTypes
  <2>. QED BY <1>4, <2>1, <2>2 DEF RowTypes
<1>5. RowTypes'
  BY <1>2, <1>3, <1>4 DEF Register
<1>. QED BY <1>1, <1>5, FilesKept DEF Register

LEMMA DeleteAfterTypes == ASSUME TypeOK, NEW t \in Threads, DeleteAfter(t) PROVE TypeOK'
<1>1. FileTypes' /\ ThreadTypes'
  BY BootstrapAssumption DEF FileTypes, ThreadTypes, DeleteAfter, Finish, Goto
<1>. QED BY <1>1, RowKept DEF DeleteAfter

LEMMA EnterCleanupTypes == ASSUME TypeOK, NEW t \in Threads, EnterCleanup(t) PROVE TypeOK'
<1>1. ThreadTypes'
  BY BootstrapAssumption DEF ThreadTypes, EnterCleanup, Goto
<1>. QED BY <1>1, RowKept, FilesKept DEF EnterCleanup

LEMMA SweepTypes == ASSUME TypeOK, NEW t \in Threads, Sweep(t) PROVE TypeOK'
<1>1. FileTypes'
  BY DEF FileTypes, Sweep
<1>2. CASE End(t)
  BY <1>1, <1>2, EndTypes, RowKept DEF Sweep
<1>3. CASE ~End(t)
  <2>1. ThreadTypes'
    BY <1>3, BootstrapAssumption DEF ThreadTypes, Sweep, Goto
  <2>. QED BY <1>1, <2>1, RowKept DEF Sweep
<1>. QED BY <1>2, <1>3

LEMMA RemoveTypes == ASSUME TypeOK, NEW t \in Threads, Remove(t) PROVE TypeOK'
<1>1. RowTypes' /\ FileTypes'
  BY DEF RowTypes, FileTypes, Remove
<1>. QED BY <1>1, EndTypes DEF Remove

LEMMA FailureTypes == ASSUME TypeOK, NEW t \in Threads, Fail(t) \/ Crash(t) PROVE TypeOK'
<1>1. FileTypes'
  BY DEF FileTypes, Fail, Crash
<1>. QED BY <1>1, EndTypes, RowKept DEF Fail, Crash

LEMMA LoseTypes == ASSUME TypeOK, NEW t \in Threads, Lose(t) PROVE TypeOK'
<1>1. ThreadTypes'
  BY DEF ThreadTypes, Lose, Release
<1>. QED BY <1>1, RowKept, FilesKept DEF Lose

LEMMA TickTypes == ASSUME TypeOK, Tick \/ UNCHANGED vars PROVE TypeOK'
<1>1. now' \in Nat /\ ThreadTypes'
  BY DEF ThreadTypes, Tick, vars
<1>. QED BY <1>1, RowKept, FilesKept DEF Tick, vars

LEMMA NextTypes == TypeOK /\ [Next]_vars => TypeOK'
  BY IssueUpdateTypes, WriteTemporaryTypes, RenameTypes, IssueCommitTypes, PresentTypes, RegisterTypes,
     DeleteAfterTypes, EnterCleanupTypes, SweepTypes, RemoveTypes, FailureTypes, LoseTypes,
     TickTypes
  DEF Next, Act, Call, Step

\* The types, and that whoever holds the row is inside an issuance or a cleanup.
THEOREM SetupTypeCorrect == Spec => []TypeOK
  BY InitTypes, NextTypes, PTL DEF Spec

-----------------------------------------------------------------------------
(* One administrator                                                        *)

LEMMA RegistersOnce == TypeOK /\ CountedByFlag /\ [Next]_vars => OneStep
<1>. SUFFICES ASSUME TypeOK, CountedByFlag, [Next]_vars PROVE OneStep
  OBVIOUS
<1>1. CASE UNCHANGED <<closed, registered>>
  BY <1>1 DEF OneStep
<1>2. ASSUME NEW t \in Threads, Registers(t)
      PROVE  OneStep
  <2>1. arg[t] = hash /\ arg[t] \in Tokens /\ expires > now
    BY <1>2 DEF Registers, Matches, ThreadTypes
  <2>2. pc[t] = "register" /\ pc'[t] = "delete"
    BY <1>2 DEF Registers, Goto, ThreadTypes
  <2>3. registered = 0 /\ registered' = 1 /\ hash' = None
    BY <1>2 DEF CountedByFlag, Registers
  <2>. QED BY <2>1, <2>2, <2>3 DEF OneStep
<1>. QED BY <1>1, <1>2, OnlyRegisterCounts DEF CountsOnlyByRegister

\* There is never a second administrator, and the first one was registered by a
\* request that presented the token in force, which no one can use again
\* (register()).
THEOREM OneAdministrator == Spec => OneRegistration
<1>1. Spec => []CountedByFlag
  BY InitCounted, CountedKept, PTL DEF Spec
<1>2. TypeOK /\ CountedByFlag /\ [Next]_vars => [OneStep]_vars
  BY RegistersOnce
<1>3. Spec => [][OneStep]_vars
  BY <1>1, <1>2, SetupTypeCorrect, PTL DEF Spec
<1>. QED BY <1>3 DEF OneRegistration, OneStep

-----------------------------------------------------------------------------
(* The pace of guesses                                                      *)

\* The least element of a set of naturals, from which inductions follow.
LEMMA LeastNatural ==
  ASSUME NEW T \in SUBSET Nat, T # {}
  PROVE  \E n \in T : \A m \in T : n <= m
<1>. DEFINE R == OpToRel(<, Nat)
<1>1. IsWellFoundedOn(R, Nat)
  BY NatLessThanWellFounded
<1>2. PICK n \in T : \A m \in T : <<m, n>> \notin R
  <2>. HIDE DEF R
  <2>. QED BY <1>1, WFMin
<1>3. \A m \in T : ~(m < n)
  BY <1>2 DEF OpToRel
<1>. QED BY <1>3

LEMMA DelayNatural == ASSUME NEW n \in Nat, n >= Threshold PROVE Delay(n) \in Nat
<1>. DEFINE k == IF n - Threshold < 6 THEN n - Threshold ELSE 6
<1>1. k \in 0 .. 6
  BY BootstrapAssumption
<1>2. 2 ^ k \in Nat
  <2>1. k = 0 \/ k = 1 \/ k = 2 \/ k = 3 \/ k = 4 \/ k = 5 \/ k = 6
    <3>. HIDE DEF k
    <3>. QED BY <1>1
  <2>2. /\ 2 ^ 0 \in Nat /\ 2 ^ 1 \in Nat /\ 2 ^ 2 \in Nat /\ 2 ^ 3 \in Nat
        /\ 2 ^ 4 \in Nat /\ 2 ^ 5 \in Nat /\ 2 ^ 6 \in Nat
    OBVIOUS
  <2>. HIDE DEF k
  <2>. QED BY <2>1, <2>2, Zenon
<1>. QED BY <1>2, BootstrapAssumption DEF Delay

\* f is BlockedFor up to N.
Sums(f, N) == \A n \in 0 .. N : f[n] = IF n < Threshold THEN 0 ELSE f[n - 1] + Delay(n)

LEMMA SumsAgree ==
  ASSUME NEW N \in Nat, NEW f, NEW g, Sums(f, N), Sums(g, N)
  PROVE  f[N] = g[N]
<1>. DEFINE T == {n \in 0 .. N : f[n] # g[n]}
<1>. SUFFICES ASSUME T # {} PROVE FALSE
  OBVIOUS
<1>1. PICK n \in T : \A m \in T : n <= m
  <2>1. T \in SUBSET Nat
    OBVIOUS
  <2>. HIDE DEF T
  <2>. QED BY <2>1, LeastNatural
<1>2. n \in 0 .. N /\ n >= Threshold
  BY <1>1, BootstrapAssumption DEF Sums
<1>3. n - 1 \in 0 .. N /\ n - 1 \notin T
  BY <1>1, <1>2, BootstrapAssumption
<1>. QED BY <1>1, <1>2, <1>3 DEF Sums

LEMMA SumsExist == \A N \in Nat : \E g \in [0 .. N -> Nat] : Sums(g, N)
<1>. DEFINE T == {N \in Nat : ~ \E g \in [0 .. N -> Nat] : Sums(g, N)}
<1>. SUFFICES ASSUME T # {} PROVE FALSE
  OBVIOUS
<1>1. PICK N \in T : \A m \in T : N <= m
  <2>1. T \in SUBSET Nat
    OBVIOUS
  <2>. HIDE DEF T
  <2>. QED BY <2>1, LeastNatural
<1>2. CASE N = 0
  <2>. DEFINE g == [n \in 0 .. 0 |-> 0]
  <2>1. g \in [0 .. N -> Nat] /\ Sums(g, N)
    BY <1>2, BootstrapAssumption DEF Sums
  <2>. QED BY <1>1, <2>1
<1>3. CASE N # 0
  <2>1. N \in Nat /\ N - 1 \in Nat /\ N - 1 \notin T
    BY <1>1, <1>3
  <2>2. PICK g \in [0 .. N - 1 -> Nat] : Sums(g, N - 1)
    BY <2>1
  <2>. DEFINE next == IF N < Threshold THEN 0 ELSE g[N - 1] + Delay(N)
              h == [n \in 0 .. N |-> IF n = N THEN next ELSE g[n]]
  <2>3. next \in Nat
    BY <2>1, <2>2, DelayNatural, BootstrapAssumption
  <2>4. h \in [0 .. N -> Nat]
    <3>. HIDE DEF next
    <3>. QED BY <2>1, <2>2, <2>3
  <2>5. ASSUME NEW n \in 0 .. N
        PROVE  h[n] = IF n < Threshold THEN 0 ELSE h[n - 1] + Delay(n)
    <3>1. CASE n = N
      BY <3>1, <2>1, BootstrapAssumption
    <3>2. CASE n # N
      <4>1. n \in 0 .. N - 1 /\ h[n] = g[n]
        BY <3>2, <2>1
      <4>2. n >= Threshold => n - 1 \in 0 .. N - 1 /\ h[n - 1] = g[n - 1]
        BY <4>1, <2>1, BootstrapAssumption
      <4>. QED BY <4>1, <4>2, <2>2, BootstrapAssumption DEF Sums
    <3>. QED BY <3>1, <3>2
  <2>6. Sums(h, N)
    <3>. HIDE DEF h
    <3>. QED BY <2>5 DEF Sums
  <2>. QED BY <1>1, <2>4, <2>6
<1>. QED BY <1>2, <1>3

LEMMA BlockedForStep ==
  /\ BlockedFor \in [Nat -> Nat]
  /\ \A n \in Nat : BlockedFor[n] = IF n < Threshold THEN 0 ELSE BlockedFor[n - 1] + Delay(n)
<1>. DEFINE Upto(n) == CHOOSE g \in [0 .. n -> Nat] : Sums(g, n)
            F == [n \in Nat |-> Upto(n)[n]]
<1>1. ASSUME NEW n \in Nat PROVE Upto(n) \in [0 .. n -> Nat] /\ Sums(Upto(n), n)
  BY SumsExist
<1>2. ASSUME NEW n \in Nat PROVE F[n] = IF n < Threshold THEN 0 ELSE F[n - 1] + Delay(n)
  <2>1. Upto(n)[n] = IF n < Threshold THEN 0 ELSE Upto(n)[n - 1] + Delay(n)
    <3>. HIDE DEF Upto
    <3>. QED BY <1>1 DEF Sums
  <2>2. CASE n < Threshold
    <3>. HIDE DEF Upto
    <3>. QED BY <2>1, <2>2
  <2>3. CASE ~(n < Threshold)
    <3>1. n - 1 \in Nat
      BY <2>3, BootstrapAssumption
    <3>2. Sums(Upto(n), n - 1)
      <4>. HIDE DEF Upto
      <4>. QED BY <1>1, <3>1 DEF Sums
    <3>3. Upto(n)[n - 1] = Upto(n - 1)[n - 1]
      <4>. HIDE DEF Upto
      <4>. QED BY <1>1, <3>1, <3>2, SumsAgree
    <3>. HIDE DEF Upto
    <3>. QED BY <2>1, <2>3, <3>1, <3>3
  <2>. QED BY <2>2, <2>3
<1>3. F = [n \in Nat |-> IF n < Threshold THEN 0 ELSE F[n - 1] + Delay(n)]
  <2>1. F = [n \in Nat |-> F[n]]
    OBVIOUS
  <2>. HIDE DEF F
  <2>. QED BY <1>2, <2>1, Zenon
<1>4. BlockedFor = [n \in Nat |-> IF n < Threshold THEN 0 ELSE BlockedFor[n - 1] + Delay(n)]
  <2>. HIDE DEF F
  <2>. QED BY <1>3, Zenon DEF BlockedFor
<1>5. \A n \in Nat : BlockedFor[n] = IF n < Threshold THEN 0 ELSE BlockedFor[n - 1] + Delay(n)
  BY <1>4, Zenon
<1>6. ASSUME NEW n \in Nat PROVE BlockedFor[n] \in Nat
  <2>1. Sums(BlockedFor, n)
    BY <1>5 DEF Sums
  <2>2. BlockedFor[n] = Upto(n)[n]
    <3>. HIDE DEF Upto
    <3>. QED BY <1>1, <2>1, SumsAgree
  <2>. HIDE DEF Upto
  <2>. QED BY <1>1, <2>2
<1>7. BlockedFor = [n \in Nat |-> BlockedFor[n]]
  BY <1>4, <1>5, Zenon
<1>. QED BY <1>5, <1>6, <1>7, Zenon

-----------------------------------------------------------------------------
\* A series begins with its first failure, and its last failure came after the
\* blocks before it; the block of that one ends as much later.
Paced ==
  /\ start # Never => start \in Nat /\ start <= now
  /\ failures > 0 => start # Never /\ BlockedFor[failures - 1] <= now - start
  /\ failures >= Threshold => blocked \in Int /\ BlockedFor[failures] <= blocked - start

LEMMA InitPaced == Init => Paced
  BY BootstrapAssumption DEF Init, Paced

LEMMA RejectPaced == ASSUME TypeOK, Paced, Reject, blocked <= now, UNCHANGED now PROVE Paced'
<1>. USE BootstrapAssumption DEF TypeOK, RowTypes
<1>. DEFINE inWindow == start # Never /\ now - start < Window
            n == IF inWindow THEN failures + 1 ELSE 1
<1>1. /\ n \in Nat \ {0} /\ failures' = n /\ start' = (IF inWindow THEN start ELSE now)
      /\ blocked' = Block(n)
  BY DEF Reject
<1>2. start' \in Nat /\ start' <= now /\ start' # Never
  BY <1>1 DEF Paced, Never
<1>3. BlockedFor[n - 1] <= now - start'
  <2>1. CASE n - 1 < Threshold
    BY <1>1, <1>2, <2>1, BlockedForStep
  <2>2. CASE n - 1 >= Threshold
    <3>1. inWindow /\ n - 1 = failures
      BY <1>1, <2>2
    <3>2. BlockedFor[failures] <= blocked - start /\ blocked \in Int
      BY <2>2, <3>1 DEF Paced
    <3>. QED BY <1>1, <1>2, <3>1, <3>2, BlockedForStep
  <2>. QED BY <1>1, <2>1, <2>2
<1>4. ASSUME n >= Threshold PROVE blocked' \in Int /\ BlockedFor[n] <= blocked' - start'
  <2>1. blocked' = now + Delay(n) /\ Delay(n) \in Nat
    BY <1>1, <1>4, DelayNatural DEF Block
  <2>2. BlockedFor[n] = BlockedFor[n - 1] + Delay(n) /\ BlockedFor[n - 1] \in Nat
    BY <1>1, <1>4, BlockedForStep
  <2>. HIDE DEF n
  <2>. QED BY <1>1, <1>2, <1>3, <2>1, <2>2
<1>. HIDE DEF n
<1>. QED BY <1>1, <1>2, <1>3, <1>4 DEF Paced

LEMMA NextPaced == TypeOK /\ Paced /\ [Next]_vars => Paced'
<1>. SUFFICES ASSUME TypeOK, Paced, [Next]_vars PROVE Paced'
  OBVIOUS
<1>1. ASSUME UNCHANGED <<failures, start, blocked>>, now' \in Nat, now' >= now PROVE Paced'
  BY <1>1, BlockedForStep, BootstrapAssumption DEF Paced, TypeOK, RowTypes, Never
<1>2. CASE UNCHANGED vars
  BY <1>1, <1>2 DEF vars, rowVars, TypeOK
<1>3. CASE Tick
  BY <1>1, <1>3 DEF Tick, rowVars, TypeOK
<1>4. ASSUME NEW t \in Threads, IssueCommit(t) PROVE Paced'
  <2>1. CASE UNCHANGED <<failures, start, blocked>>
    BY <1>1, <1>4, <2>1 DEF IssueCommit, TypeOK
  <2>2. CASE failures' = 0 /\ start' = Never
    BY <2>2, BootstrapAssumption DEF Paced
  <2>. QED BY <1>4, <2>1, <2>2 DEF IssueCommit
<1>5. ASSUME NEW t \in Threads, NEW valid, Register(t, valid) PROVE Paced'
  <2>1. CASE UNCHANGED <<failures, start, blocked>>
    BY <1>1, <1>5, <2>1 DEF Register, TypeOK
  <2>2. CASE Reject /\ blocked <= now
    BY <1>5, <2>2, RejectPaced DEF Register
  <2>. QED BY <1>5, <2>1, <2>2 DEF Register, rowVars
<1>6. ASSUME NEW t \in Threads,
             \/ IssueUpdate(t) \/ (\E k \in issued \cup {None} : Present(t, k)) \/ WriteTemporary(t) \/ Rename(t) \/ DeleteAfter(t)
             \/ EnterCleanup(t) \/ Sweep(t) \/ Remove(t) \/ Fail(t) \/ Lose(t) \/ Crash(t)
      PROVE  Paced'
  BY <1>1, <1>6 DEF IssueUpdate, Present, WriteTemporary, Rename, DeleteAfter, EnterCleanup, Sweep, Remove,
     Fail, Lose, Crash, rowVars, TypeOK
<1>. QED BY <1>2, <1>3, <1>4, <1>5, <1>6 DEF Next, Act, Call, Step

\* However often and from however many clients one guesses, the last failure of
\* a series came after the blocks of all before it (Reject, register()).
THEOREM GuessesArePaced == Spec => []GuessesTakeTime
<1>1. TypeOK /\ Paced => GuessesTakeTime
  BY DEF Paced, GuessesTakeTime
<1>. QED BY <1>1, InitPaced, NextPaced, SetupTypeCorrect, PTL DEF Spec
=============================================================================
