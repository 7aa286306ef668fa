-------------------------- MODULE AdminAuthProofs ---------------------------
(***************************************************************************)
(* The administrator's sessions and recovery tokens, for every number of    *)
(* threads, sessions, tokens, faults and crashes: CurrentCredential,        *)
(* RevocationBoundary and TokenSpentOnce of AdminAuth.                      *)
(*                                                                         *)
(* The argument is the lock of AuthenticationState.  Who changes a password *)
(* or ends a session holds it alone, so that no session is in use then      *)
(* (LocksSound, UseSound); who has lost it does not commit (TokensSound).   *)
(* The same lock paces failures (FailuresTakeTime): the writer is alone     *)
(* from its reading of the clock to the commit of what it counted.          *)
(***************************************************************************)
EXTENDS AdminAuth, WellFoundedInduction, TLAPS

Issuing == {"temporary", "rename", "commit"}

\* A session in use is open.
UseSound ==
  \A t \in Threads :
    /\ pc[t] \in Shared => arg[t].session \in Sessions
    /\ pc[t] = "work" => state[arg[t].session] = "open"

\* The token in force is unspent and as old as the password, unless consumed; a
\* token on its way into force is nobody else's and unspent.
TokensSound ==
  /\ hash # None => hash \in issued
  /\ hash # None /\ ~consumed => spent[hash] = 0 /\ tokenBorn[hash] = version
  /\ \A k \in Tokens \ issued : spent[k] = 0
  /\ \A t \in Threads :
       pc[t] \in Issuing =>
         /\ arg[t].token \in issued /\ arg[t].token # hash /\ spent[arg[t].token] = 0
         /\ \A u \in Threads \ {t} : pc[u] \in Issuing => arg[u].token # arg[t].token

AuthInv == TypeOK /\ UseSound /\ CurrentCredential /\ TokensSound

USE DEF TypeOK, Exclusive, Labels, Args, Uses, Writes, Lanes, Shared, Issuing, NoArg,
        adminVars, sessionVars, laneVars, tokenVars, fileVars, lockVars, threadVars

-----------------------------------------------------------------------------
(* The parts every action is made of *)

LEMMA InitAuth == Init => AuthInv
<1>. SUFFICES ASSUME Init PROVE AuthInv
  OBVIOUS
<1>. USE AuthAssumption DEF Init
<1>1. ThreadTypes
  BY DEF ThreadTypes
<1>2. SessionTypes
  BY DEF SessionTypes
<1>3. TokenTypes
  <2>1. Never \in Int
    BY DEF Never
  <2>2. tokenBorn \in [Tokens -> Nat] /\ spent \in [Tokens -> Nat]
    OBVIOUS
  <2>. QED BY <2>1, <2>2 DEF TokenTypes
<1>4. LocksSound
  BY DEF LocksSound
<1>5. UseSound
  BY DEF UseSound
<1>6. CurrentCredential
  BY DEF CurrentCredential
<1>7. TokensSound
  BY DEF TokensSound
<1>. QED BY <1>1, <1>2, <1>3, <1>4, <1>5, <1>6, <1>7 DEF AuthInv

\* A transaction that ends leaves locks and threads in order.
LEMMA EndKeeps ==
  ASSUME AuthInv, NEW t \in Threads, now' = now, End(t)
  PROVE  /\ ThreadTypes' /\ LocksSound'
         /\ \A u \in Threads : IF u = t THEN pc'[u] = "idle"
                               ELSE pc'[u] = pc[u] /\ arg'[u] = arg[u]
<1>. USE AuthAssumption DEF AuthInv, End, Release, Finish, Goto, ThreadTypes
<1>1. ThreadTypes'
  OBVIOUS
<1>2. LocksSound'
  BY DEF LocksSound
<1>. QED BY <1>1, <1>2

\* The same of one after which a cleanup follows.
LEMMA CleanKeeps ==
  ASSUME AuthInv, NEW t \in Threads, UNCHANGED <<now, arg, at>>, Release(t), Goto(t, "clean")
  PROVE  /\ ThreadTypes' /\ LocksSound'
         /\ \A u \in Threads : /\ arg'[u] = arg[u]
                               /\ IF u = t THEN pc'[u] = "clean" ELSE pc'[u] = pc[u]
<1>. USE AuthAssumption DEF AuthInv, Release, Goto, ThreadTypes
<1>1. ThreadTypes'
  OBVIOUS
<1>2. LocksSound'
  BY DEF LocksSound
<1>. QED BY <1>1, <1>2

\* Threads that stop using a session or issuing a token disturb nothing while
\* sessions and tokens stay.
LEMMA UseKept ==
  ASSUME AuthInv, UNCHANGED state,
         \A u \in Threads : pc'[u] \in Shared => pc'[u] = pc[u] /\ arg'[u] = arg[u]
  PROVE  UseSound'
  BY DEF AuthInv, UseSound

LEMMA CredentialKept ==
  ASSUME AuthInv, UNCHANGED <<version, born>>,
         \A s \in Sessions : state'[s] = "open" => state[s] = "open"
  PROVE  CurrentCredential'
  BY DEF AuthInv, CurrentCredential

LEMMA TokensKept ==
  ASSUME AuthInv, UNCHANGED <<version, tokenVars>>,
         \A u \in Threads : pc'[u] \in Issuing => pc[u] \in Issuing /\ arg'[u] = arg[u]
  PROVE  TokensSound' /\ TokenTypes'
  BY DEF AuthInv, TokensSound, TokenTypes

\* No session is in use while someone is about to write.
LEMMA WriterAlone ==
  ASSUME AuthInv, NEW t \in Threads, pc[t] = "open"
  PROVE  \A u \in Threads : pc[u] \notin Shared
  BY AuthAssumption DEF AuthInv, LocksSound, ThreadTypes

\* An operation that ends without touching sessions' states or tokens.
LEMMA EndOnly ==
  ASSUME AuthInv, NEW t \in Threads, End(t),
         UNCHANGED <<now, version, state, ends, born, tokenVars>>,
         seen' \in [Sessions -> Nat], used' \in [Sessions -> Nat]
  PROVE  AuthInv'
<1>1. ThreadTypes' /\ LocksSound'
  BY EndKeeps
<1>2. \A u \in Threads : pc'[u] \in Shared \cup Issuing => pc'[u] = pc[u] /\ arg'[u] = arg[u]
  BY EndKeeps
<1>3. SessionTypes'
  BY DEF AuthInv, SessionTypes
<1>4. UseSound'
  BY <1>2, UseKept
<1>5. CurrentCredential'
  BY CredentialKept
<1>6. TokensSound' /\ TokenTypes'
  BY <1>2, TokensKept
<1>. QED BY <1>1, <1>3, <1>4, <1>5, <1>6 DEF AuthInv

\* The common case: a step that leaves sessions and tokens alone.
LEMMA EndQuiet ==
  ASSUME AuthInv, NEW t \in Threads, End(t), UNCHANGED <<now, version, sessionVars, tokenVars>>
  PROVE  AuthInv'
  BY EndOnly DEF AuthInv, SessionTypes

-----------------------------------------------------------------------------
(* One lemma for each action                                                *)

LEMMA EnterWriteKeeps ==
  ASSUME AuthInv, NEW t \in Threads, NEW op \in Writes, NEW s \in Sessions \cup {None},
         NEW p \in Passwords \cup {None}, NEW k \in Tokens \cup {None},
         EnterWrite(t, op, s, p, k)
  PROVE  AuthInv'
<1>. USE AuthAssumption DEF AuthInv, EnterWrite, MayWrite, Goto, ThreadTypes
<1>1. ThreadTypes'
  OBVIOUS
<1>2. LocksSound'
  BY DEF LocksSound
<1>3. SessionTypes'
  BY DEF SessionTypes
<1>4. UseSound' /\ CurrentCredential'
  BY UseKept, CredentialKept
<1>5. TokensSound' /\ TokenTypes'
  BY TokensKept
<1>. QED BY <1>1, <1>2, <1>3, <1>4, <1>5

LEMMA EnterSharedKeeps ==
  ASSUME AuthInv, NEW t \in Threads, NEW use \in Uses, NEW s \in Sessions,
         EnterShared(t, use, s)
  PROVE  AuthInv'
<1>. USE AuthAssumption DEF AuthInv, EnterShared, Goto, ThreadTypes
<1>1. ThreadTypes'
  OBVIOUS
<1>2. LocksSound'
  BY DEF LocksSound
<1>3. SessionTypes'
  BY DEF SessionTypes
<1>4. UseSound' /\ CurrentCredential'
  BY CredentialKept DEF UseSound
<1>5. TokensSound' /\ TokenTypes'
  BY TokensKept
<1>. QED BY <1>1, <1>2, <1>3, <1>4, <1>5

LEMMA EnterCleanupKeeps ==
  ASSUME AuthInv, NEW t \in Threads, EnterCleanup(t)
  PROVE  AuthInv'
<1>. USE AuthAssumption DEF AuthInv, EnterCleanup, MayWrite, Goto, ThreadTypes
<1>1. ThreadTypes'
  BY DEF TokenTypes
<1>2. LocksSound'
  BY DEF LocksSound
<1>3. SessionTypes'
  BY DEF SessionTypes
<1>4. UseSound' /\ CurrentCredential'
  BY UseKept, CredentialKept
<1>5. TokensSound' /\ TokenTypes'
  BY TokensKept
<1>. QED BY <1>1, <1>2, <1>3, <1>4, <1>5

\* The session is alive when its row is locked: from here on it is in use.
LEMMA LockRowKeeps ==
  ASSUME AuthInv, NEW t \in Threads, LockRow(t)
  PROVE  AuthInv'
<1>1. CASE End(t)
  BY <1>1, EndQuiet DEF LockRow
<1>2. CASE ~End(t)
  <2>. USE <1>2, AuthAssumption DEF AuthInv, LockRow, Clock, Alive, Goto, ThreadTypes
  <2>1. ThreadTypes'
    OBVIOUS
  <2>2. LocksSound'
    BY DEF LocksSound
  <2>3. SessionTypes'
    BY DEF SessionTypes
  <2>4. UseSound' /\ CurrentCredential'
    BY CredentialKept DEF UseSound
  <2>5. TokensSound' /\ TokenTypes'
    BY TokensKept
  <2>. QED BY <2>1, <2>2, <2>3, <2>4, <2>5
<1>. QED BY <1>1, <1>2

LEMMA UseKeeps ==
  ASSUME AuthInv, NEW t \in Threads, Use(t)
  PROVE  AuthInv'
<1>1. seen \in [Sessions -> Nat] /\ used \in [Sessions -> Nat] /\ at[t] \in Nat
  BY DEF AuthInv, SessionTypes, ThreadTypes
<1>2. seen' \in [Sessions -> Nat]
  BY <1>1 DEF Use
<1>3. used' \in [Sessions -> Nat]
  BY <1>1 DEF Use
<1>. QED BY <1>2, <1>3, EndOnly DEF Use

\* A login opens a session with the password just verified, and may end another;
\* nobody uses a session meanwhile.
LEMMA LoginKeeps ==
  ASSUME AuthInv, NEW t \in Threads, Login(t)
  PROVE  AuthInv'
<1>1. CASE UNCHANGED sessionVars
  BY <1>1, EndQuiet DEF Login
<1>2. ASSUME NEW s \in Sessions, state[s] = "none",
             state' = [u \in Sessions |->
                         CASE u = s -> "open"
                           [] u = arg[t].session /\ state[u] = "open" -> "revoked"
                           [] OTHER -> state[u]],
             ends' = [ends EXCEPT ![s] = at[t] + Absolute],
             seen' = [seen EXCEPT ![s] = at[t]],
             born' = [born EXCEPT ![s] = version], UNCHANGED used
      PROVE  AuthInv'
  <2>. USE AuthAssumption DEF AuthInv, Login, Opened
  <2>1. ThreadTypes' /\ LocksSound'
    BY EndKeeps
  <2>2. \A u \in Threads : pc'[u] \in Shared \cup Issuing => pc'[u] = pc[u] /\ arg'[u] = arg[u]
    BY EndKeeps
  <2>3. SessionTypes'
    BY <1>2 DEF SessionTypes, ThreadTypes
  <2>4. UseSound'
    BY <2>2, WriterAlone DEF UseSound
  <2>5. CurrentCredential'
    BY <1>2 DEF CurrentCredential, SessionTypes
  <2>6. TokensSound' /\ TokenTypes'
    BY <2>2, TokensKept
  <2>. QED BY <2>1, <2>3, <2>4, <2>5, <2>6
<1>. QED BY <1>1, <1>2 DEF Login

LEMMA SensitiveKeeps ==
  ASSUME AuthInv, NEW t \in Threads, Sensitive(t)
  PROVE  AuthInv'
<1>1. seen' \in [Sessions -> Nat] /\ used' \in [Sessions -> Nat]
  BY DEF Sensitive, AuthInv, SessionTypes, ThreadTypes
<1>. QED BY <1>1, EndOnly DEF Sensitive

LEMMA LogoutKeeps ==
  ASSUME AuthInv, NEW t \in Threads, Logout(t)
  PROVE  AuthInv'
<1>. USE AuthAssumption DEF AuthInv, Logout, Opened
<1>1. ThreadTypes' /\ LocksSound'
  BY EndKeeps
<1>2. \A u \in Threads : pc'[u] \in Shared \cup Issuing => pc'[u] = pc[u] /\ arg'[u] = arg[u]
  BY EndKeeps
<1>3. SessionTypes'
  BY DEF SessionTypes
<1>4. UseSound'
  BY <1>2, WriterAlone DEF UseSound
<1>5. CurrentCredential'
  BY CredentialKept DEF SessionTypes
<1>6. TokensSound' /\ TokenTypes'
  BY <1>2, TokensKept
<1>. QED BY <1>1, <1>3, <1>4, <1>5, <1>6

\* A new password leaves no session open.
LEMMA RevokedKeeps ==
  ASSUME AuthInv, NEW t \in Threads, pc[t] = "open",
         state' = Revoked(t), version' = version + 1, UNCHANGED <<ends, seen, born, used>>,
         \A u \in Threads : pc'[u] \in Shared => pc'[u] = pc[u]
  PROVE  SessionTypes' /\ UseSound' /\ CurrentCredential'
<1>. USE DEF AuthInv, Revoked
<1>1. SessionTypes'
  BY DEF SessionTypes
<1>2. UseSound'
  BY WriterAlone DEF UseSound
<1>3. CurrentCredential'
  BY DEF CurrentCredential, SessionTypes
<1>. QED BY <1>1, <1>2, <1>3

LEMMA ChangePasswordKeeps ==
  ASSUME AuthInv, NEW t \in Threads, ChangePassword(t)
  PROVE  AuthInv'
<1>1. CASE Finish(t) /\ UNCHANGED <<adminVars, state, hash>>
  BY <1>1, EndQuiet DEF ChangePassword, End
<1>2. CASE /\ version' = version + 1 /\ state' = Revoked(t) /\ hash' = None
           /\ Goto(t, "clean") /\ UNCHANGED <<arg, at>>
  <2>. USE <1>2 DEF ChangePassword, Opened
  <2>1. ThreadTypes' /\ LocksSound'
    BY CleanKeeps
  <2>2. \A u \in Threads : pc'[u] \in Shared \cup Issuing => pc'[u] = pc[u] /\ arg'[u] = arg[u]
    BY CleanKeeps
  <2>3. SessionTypes' /\ UseSound' /\ CurrentCredential'
    BY <2>2, RevokedKeeps
  <2>4. TokenTypes'
    BY DEF AuthInv, TokenTypes
  <2>5. TokensSound'
    BY <2>2, AuthAssumption DEF AuthInv, TokensSound, TokenTypes
  <2>. QED BY <2>1, <2>3, <2>4, <2>5 DEF AuthInv
<1>. QED BY <1>1, <1>2 DEF ChangePassword, NoToken

LEMMA RecoverKeeps ==
  ASSUME AuthInv, NEW t \in Threads, Recover(t)
  PROVE  AuthInv'
<1>1. CASE Finish(t) /\ UNCHANGED <<adminVars, state, hash, consumed, spent>>
  BY <1>1, EndQuiet DEF Recover, End
<1>2. CASE /\ version' = version + 1 /\ state' = Revoked(t) /\ hash' = None /\ hash # None
           /\ consumed' = TRUE /\ spent' = [spent EXCEPT ![hash] = @ + 1]
           /\ Goto(t, "clean") /\ UNCHANGED <<arg, at>>
  <2>. USE <1>2 DEF Recover, Opened
  <2>1. ThreadTypes' /\ LocksSound'
    BY CleanKeeps
  <2>2. \A u \in Threads : pc'[u] \in Shared \cup Issuing => pc'[u] = pc[u] /\ arg'[u] = arg[u]
    BY CleanKeeps
  <2>3. SessionTypes' /\ UseSound' /\ CurrentCredential'
    BY <2>2, RevokedKeeps
  <2>4. TokenTypes'
    BY DEF AuthInv, TokenTypes
  <2>5. TokensSound'
    BY <2>2, AuthAssumption DEF AuthInv, TokensSound, TokenTypes
  <2>. QED BY <2>1, <2>3, <2>4, <2>5 DEF AuthInv
<1>. QED BY <1>1, <1>2 DEF Recover, NoToken

\* A token just drawn is nobody else's, and never was in force.
LEMMA IssueUpdateKeeps ==
  ASSUME AuthInv, NEW t \in Threads, IssueUpdate(t)
  PROVE  AuthInv'
<1>. PICK k \in Tokens \ issued :
       issued' = issued \cup {k} /\ arg' = [arg EXCEPT ![t].token = k]
  BY DEF IssueUpdate
<1>. USE AuthAssumption DEF AuthInv, IssueUpdate, Opened, Goto, ThreadTypes
<1>1. ThreadTypes'
  OBVIOUS
<1>2. LocksSound'
  BY DEF LocksSound
<1>3. SessionTypes'
  BY DEF SessionTypes
<1>4. UseSound' /\ CurrentCredential'
  BY UseKept, CredentialKept
<1>5. TokenTypes'
  BY DEF TokenTypes
<1>6. arg'[t].token = k /\ \A u \in Threads \ {t} : arg'[u] = arg[u] /\ pc'[u] = pc[u]
  OBVIOUS
<1>7. TokensSound'
  BY <1>6 DEF TokensSound, TokenTypes
<1>. QED BY <1>1, <1>2, <1>3, <1>4, <1>5, <1>7

\* An issuance goes on with its files.
LEMMA IssuingGoesOn ==
  ASSUME AuthInv, NEW t \in Threads, pc[t] \in Issuing, NEW label \in Issuing, Goto(t, label),
         UNCHANGED <<now, version, sessionVars, tokenVars, lockVars, arg, at>>
  PROVE  AuthInv'
<1>. USE DEF AuthInv, Goto, ThreadTypes
<1>1. ThreadTypes'
  OBVIOUS
<1>2. LocksSound'
  BY AuthAssumption DEF LocksSound
<1>3. SessionTypes'
  BY DEF SessionTypes
<1>4. UseSound' /\ CurrentCredential'
  BY UseKept, CredentialKept
<1>5. TokensSound' /\ TokenTypes'
  BY TokensKept
<1>. QED BY <1>1, <1>2, <1>3, <1>4, <1>5

LEMMA WriteTemporaryKeeps ==
  ASSUME AuthInv, NEW t \in Threads, WriteTemporary(t)
  PROVE  AuthInv'
  BY IssuingGoesOn DEF WriteTemporary

LEMMA RenameKeeps ==
  ASSUME AuthInv, NEW t \in Threads, Rename(t)
  PROVE  AuthInv'
<1>1. CASE End(t)
  BY <1>1, EndQuiet DEF Rename
<1>2. CASE ~End(t)
  BY <1>2, IssuingGoesOn DEF Rename
<1>. QED BY <1>1, <1>2

\* Only the writer brings its token into force.
LEMMA IssueCommitKeeps ==
  ASSUME AuthInv, NEW t \in Threads, IssueCommit(t)
  PROVE  AuthInv'
<1>1. CASE writer # t
  BY <1>1, EndQuiet DEF IssueCommit
<1>2. CASE writer = t
  <2>. USE <1>2, AuthAssumption DEF IssueCommit
  <2>1. ThreadTypes' /\ LocksSound'
    BY EndKeeps
  <2>2. \A u \in Threads : pc'[u] \in Shared \cup Issuing =>
          u # t /\ pc'[u] = pc[u] /\ arg'[u] = arg[u]
    BY EndKeeps
  <2>3. SessionTypes'
    BY DEF AuthInv, SessionTypes
  <2>4. UseSound' /\ CurrentCredential'
    BY <2>2, UseKept, CredentialKept
  <2>5. arg[t].token \in issued /\ spent[arg[t].token] = 0 /\ issued \subseteq Tokens
    BY DEF AuthInv, TokensSound, TokenTypes
  <2>6. TokenTypes'
    <3>1. tokenBorn' = [tokenBorn EXCEPT ![arg[t].token] = version] /\ version \in Nat
      BY DEF AuthInv, SessionTypes
    <3>2. tokenBorn' \in [Tokens -> Nat]
      BY <2>5, <3>1 DEF AuthInv, TokenTypes
    <3>3. expires' \in Int
      BY DEF AuthInv, ThreadTypes
    <3>4. consumed' = FALSE
      OBVIOUS
    <3>5. consumed' \in BOOLEAN
      BY <3>4
    <3>6. hash' \in Tokens /\ UNCHANGED <<issued, spent>>
      BY <2>5
    <3>. QED BY <3>2, <3>3, <3>5, <3>6 DEF AuthInv, TokenTypes
  <2>7. TokensSound'
    BY <2>2, <2>5 DEF AuthInv, TokensSound, TokenTypes
  <2>. QED BY <2>1, <2>3, <2>4, <2>6, <2>7 DEF AuthInv
<1>. QED BY <1>1, <1>2

LEMMA SweepKeeps ==
  ASSUME AuthInv, NEW t \in Threads, Sweep(t)
  PROVE  AuthInv'
<1>1. CASE End(t)
  BY <1>1, EndQuiet DEF Sweep
<1>2. CASE ~End(t)
  <2>. USE <1>2, AuthAssumption DEF AuthInv, Sweep, Goto, ThreadTypes
  <2>1. ThreadTypes'
    OBVIOUS
  <2>2. LocksSound'
    BY DEF LocksSound
  <2>3. SessionTypes'
    BY DEF SessionTypes
  <2>4. UseSound' /\ CurrentCredential'
    BY UseKept, CredentialKept
  <2>5. TokensSound' /\ TokenTypes'
    BY TokensKept
  <2>. QED BY <2>1, <2>2, <2>3, <2>4, <2>5
<1>. QED BY <1>1, <1>2

LEMMA DeleteFileKeeps ==
  ASSUME AuthInv, NEW t \in Threads, DeleteFile(t)
  PROVE  AuthInv'
<1>. USE AuthAssumption DEF DeleteFile
<1>1. ThreadTypes' /\ LocksSound'
  BY EndKeeps
<1>2. \A u \in Threads : pc'[u] \in Shared \cup Issuing => pc'[u] = pc[u] /\ arg'[u] = arg[u]
  BY EndKeeps
<1>3. SessionTypes'
  BY DEF AuthInv, SessionTypes
<1>4. UseSound' /\ CurrentCredential'
  BY <1>2, UseKept, CredentialKept
<1>5. TokenTypes'
  BY DEF AuthInv, TokenTypes
<1>6. TokensSound'
  BY <1>2 DEF AuthInv, TokensSound, TokenTypes
<1>. QED BY <1>1, <1>3, <1>4, <1>5, <1>6 DEF AuthInv

LEMMA FailureKeeps ==
  ASSUME AuthInv, NEW t \in Threads, Fail(t) \/ Crash(t)
  PROVE  AuthInv'
  BY EndQuiet DEF Fail, Crash

\* A writer that is lost gives up its lock, and is not about to write.
LEMMA LoseKeeps ==
  ASSUME AuthInv, NEW t \in Threads, Lose(t)
  PROVE  AuthInv'
<1>. USE AuthAssumption DEF AuthInv, Lose, Release
<1>1. ThreadTypes' /\ SessionTypes'
  BY DEF ThreadTypes, SessionTypes
<1>2. LocksSound'
  BY DEF LocksSound, ThreadTypes
<1>3. UseSound' /\ CurrentCredential'
  BY UseKept, CredentialKept
<1>4. TokensSound' /\ TokenTypes'
  BY TokensKept
<1>. QED BY <1>1, <1>2, <1>3, <1>4

LEMMA TickKeeps ==
  ASSUME AuthInv, Tick \/ UNCHANGED vars
  PROVE  AuthInv'
<1>. USE DEF AuthInv, Tick, vars
<1>1. ThreadTypes' /\ SessionTypes'
  BY DEF ThreadTypes, SessionTypes
<1>2. LocksSound'
  BY DEF LocksSound
<1>3. UseSound' /\ CurrentCredential'
  BY UseKept, CredentialKept
<1>4. TokensSound' /\ TokenTypes'
  BY TokensKept
<1>. QED BY <1>1, <1>2, <1>3, <1>4

LEMMA CallKeeps ==
  ASSUME AuthInv, NEW t \in Threads, Call(t)
  PROVE  AuthInv'
<1>1. ASSUME NEW s \in Sessions, NEW use \in Uses, EnterShared(t, use, s)
      PROVE  AuthInv'
  BY <1>1, EnterSharedKeeps
<1>2. ASSUME NEW op \in Writes, NEW s \in Sessions \cup {None}, NEW p \in Passwords \cup {None},
             NEW k \in Tokens \cup {None}, EnterWrite(t, op, s, p, k)
      PROVE  AuthInv'
  BY <1>2, EnterWriteKeeps
<1>3. issued \subseteq Tokens
  BY DEF AuthInv, TokenTypes
<1>. QED BY <1>1, <1>2, <1>3 DEF Call

LEMMA StepKeeps ==
  ASSUME AuthInv, NEW t \in Threads, Step(t)
  PROVE  AuthInv'
  BY LockRowKeeps, UseKeeps, LoginKeeps, SensitiveKeeps, LogoutKeeps, ChangePasswordKeeps,
     RecoverKeeps, IssueUpdateKeeps, WriteTemporaryKeeps, RenameKeeps, IssueCommitKeeps,
     SweepKeeps, DeleteFileKeeps
  DEF Step

LEMMA NextKeeps == AuthInv /\ [Next]_vars => AuthInv'
  BY CallKeeps, StepKeeps, EnterCleanupKeeps, FailureKeeps, LoseKeeps, TickKeeps DEF Next

LEMMA AuthInvariant == Spec => []AuthInv
  BY InitAuth, NextKeeps, PTL DEF Spec

-----------------------------------------------------------------------------
(* What follows                                                             *)

\* The types, and the exclusion of writers and readers (transaction()).
THEOREM AuthTypeCorrect == Spec => []TypeOK
<1>1. AuthInv => TypeOK
  BY DEF AuthInv
<1>. QED BY <1>1, AuthInvariant, PTL

\* Every session that is open was opened with the password in force.
THEOREM SessionsAreCurrent == Spec => []CurrentCredential
<1>1. AuthInv => CurrentCredential
  BY DEF AuthInv
<1>. QED BY <1>1, AuthInvariant, PTL

\* What the two properties say of a step.
CommitsWithin ==
  \A s \in Sessions :
    used'[s] > used[s] =>
      /\ state[s] = "open" /\ born[s] = version
      /\ now < ends[s] /\ now - seen'[s] < Idle
SpendsOnce ==
  \A k \in Tokens :
    spent'[k] > spent[k] =>
      /\ spent[k] = 0 /\ tokenBorn[k] = version
      /\ \E t \in Threads : arg[t].token = k /\ at[t] < expires

\* Only two actions commit work, and one spends a token.
LEMMA CallsUseNothing ==
  ASSUME NEW t \in Threads, Call(t) \/ EnterCleanup(t) \/ Fail(t) \/ Lose(t) \/ Crash(t)
  PROVE  UNCHANGED <<used, spent>>
<1>1. CASE Call(t)
  BY <1>1 DEF Call, EnterShared, EnterWrite
<1>2. CASE EnterCleanup(t) \/ Fail(t) \/ Lose(t) \/ Crash(t)
  BY <1>2 DEF EnterCleanup, Fail, Lose, Crash
<1>. QED BY <1>1, <1>2

LEMMA StepUses ==
  ASSUME NEW t \in Threads, Step(t)
  PROVE  (UNCHANGED used \/ Use(t) \/ Sensitive(t)) /\ (UNCHANGED spent \/ Recover(t))
<1>1. CASE LockRow(t) BY <1>1 DEF LockRow
<1>2. CASE Use(t) BY <1>2 DEF Use
<1>3. CASE Login(t) BY <1>3 DEF Login
<1>4. CASE Sensitive(t) BY <1>4 DEF Sensitive
<1>5. CASE Logout(t) BY <1>5 DEF Logout
<1>6. CASE ChangePassword(t) BY <1>6 DEF ChangePassword
<1>7. CASE Recover(t) BY <1>7 DEF Recover
<1>8. CASE IssueUpdate(t) BY <1>8 DEF IssueUpdate
<1>9. CASE WriteTemporary(t) BY <1>9 DEF WriteTemporary
<1>10. CASE Rename(t) BY <1>10 DEF Rename
<1>11. CASE IssueCommit(t) BY <1>11 DEF IssueCommit
<1>12. CASE Sweep(t) BY <1>12 DEF Sweep
<1>13. CASE DeleteFile(t) BY <1>13 DEF DeleteFile
<1>. QED BY <1>1, <1>2, <1>3, <1>4, <1>5, <1>6, <1>7, <1>8, <1>9, <1>10, <1>11, <1>12, <1>13
         DEF Step

LEMMA WhoUses ==
  ASSUME [Next]_vars
  PROVE  UNCHANGED used \/ \E t \in Threads : Use(t) \/ Sensitive(t)
<1>1. CASE Tick \/ UNCHANGED vars
  BY <1>1 DEF Tick, vars
<1>. QED BY <1>1, CallsUseNothing, StepUses DEF Next

LEMMA WhoSpends ==
  ASSUME [Next]_vars
  PROVE  UNCHANGED spent \/ \E t \in Threads : Recover(t)
<1>1. CASE Tick \/ UNCHANGED vars
  BY <1>1 DEF Tick, vars
<1>. QED BY <1>1, CallsUseNothing, StepUses DEF Next

LEMMA UseCommitsWithin ==
  ASSUME AuthInv, NEW t \in Threads, Use(t)
  PROVE  CommitsWithin
<1>. USE DEF AuthInv
<1>1. SUFFICES ASSUME NEW s \in Sessions, used'[s] > used[s]
      PROVE  /\ state[s] = "open" /\ born[s] = version
             /\ now < ends[s] /\ now - seen'[s] < Idle
  BY DEF CommitsWithin
<1>2. /\ s = arg[t].session /\ pc[t] = "work" /\ seen' = [seen EXCEPT ![s] = at[t]]
      /\ ~(now >= ends[s] \/ now - at[t] >= Idle)
  BY <1>1 DEF Use, SessionTypes
<1>3. state[s] = "open" /\ born[s] = version
  BY <1>2 DEF UseSound, CurrentCredential
<1>4. now < ends[s] /\ now - at[t] < Idle /\ seen'[s] = at[t]
  BY <1>2, AuthAssumption DEF SessionTypes, ThreadTypes
<1>. QED BY <1>3, <1>4

LEMMA SensitiveCommitsWithin ==
  ASSUME AuthInv, NEW t \in Threads, Sensitive(t)
  PROVE  CommitsWithin
  BY AuthAssumption
  DEF Sensitive, Accepted, Alive, CommitsWithin, AuthInv, ThreadTypes, SessionTypes,
      CurrentCredential

LEMMA RecoverSpendsOnce ==
  ASSUME AuthInv, NEW t \in Threads, Recover(t)
  PROVE  SpendsOnce
  BY AuthAssumption DEF Recover, SpendsOnce, AuthInv, ThreadTypes, TokenTypes, TokensSound

LEMMA Commits == AuthInv /\ [Next]_vars => CommitsWithin
<1>. SUFFICES ASSUME AuthInv, [Next]_vars PROVE CommitsWithin
  OBVIOUS
<1>1. CASE UNCHANGED used
  BY <1>1 DEF CommitsWithin, AuthInv, SessionTypes
<1>. QED BY <1>1, WhoUses, UseCommitsWithin, SensitiveCommitsWithin

LEMMA Spends == AuthInv /\ [Next]_vars => SpendsOnce
<1>. SUFFICES ASSUME AuthInv, [Next]_vars PROVE SpendsOnce
  OBVIOUS
<1>1. CASE UNCHANGED spent
  BY <1>1 DEF SpendsOnce, AuthInv, TokenTypes
<1>. QED BY <1>1, WhoSpends, RecoverSpendsOnce

\* No work is committed under a session that was revoked, has reached its absolute or
\* its idle end, or was opened with an older password (authorizedOperation(),
\* sensitiveOperation()).
THEOREM RevocationHolds == Spec => RevocationBoundary
<1>1. AuthInv /\ [Next]_vars => [CommitsWithin]_vars
  BY Commits
<1>2. Spec => [][CommitsWithin]_vars
  BY <1>1, AuthInvariant, PTL DEF Spec
<1>. QED BY <1>2 DEF RevocationBoundary, CommitsWithin

\* A recovery token changes the password once, within its life, and never after
\* the password was changed otherwise (issueRecovery(), recover()).
THEOREM RecoveredOnce == Spec => TokenSpentOnce
<1>1. AuthInv /\ [Next]_vars => [SpendsOnce]_vars
  BY Spends
<1>2. Spec => [][SpendsOnce]_vars
  BY <1>1, AuthInvariant, PTL DEF Spec
<1>. QED BY <1>2 DEF TokenSpentOnce, SpendsOnce

-----------------------------------------------------------------------------
(* The pace of failures                                                     *)

\* The least element of a set of naturals, from which inductions follow.
LEMMA LeastNatural ==
  ASSUME NEW T \in SUBSET Nat, T # {}
  PROVE  \E n \in T : \A m \in T : n <= m
<1>. DEFINE R == OpToRel(<, Nat)
<1>1. IsWellFoundedOn(R, Nat)
  BY NatLessThanWellFounded
<1>2. PICK n \in T : \A m \in T : <<m, n>> \notin R
  <2>. HIDE DEF R
  <2>. QED BY <1>1, WFMin
<1>3. \A m \in T : ~(m < n)
  BY <1>2 DEF OpToRel
<1>. QED BY <1>3

LEMMA DelayNatural == ASSUME NEW n \in Nat, n >= Threshold PROVE Delay(n) \in Nat
<1>. DEFINE k == Least(6, n - Threshold)
<1>1. k \in 0 .. 6
  BY AuthAssumption DEF Least
<1>2. 2 ^ k \in Nat
  <2>1. k = 0 \/ k = 1 \/ k = 2 \/ k = 3 \/ k = 4 \/ k = 5 \/ k = 6
    <3>. HIDE DEF k
    <3>. QED BY <1>1
  <2>2. /\ 2 ^ 0 \in Nat /\ 2 ^ 1 \in Nat /\ 2 ^ 2 \in Nat /\ 2 ^ 3 \in Nat
        /\ 2 ^ 4 \in Nat /\ 2 ^ 5 \in Nat /\ 2 ^ 6 \in Nat
    OBVIOUS
  <2>. HIDE DEF k
  <2>. QED BY <2>1, <2>2, Zenon
<1>3. \A d \in Nat : Least(MaxDelay, d) \in Nat
  BY AuthAssumption DEF Least
<1>. QED BY <1>2, <1>3, Zenon DEF Delay

\* f is BlockedFor up to N.
Sums(f, N) == \A n \in 0 .. N : f[n] = IF n < Threshold THEN 0 ELSE f[n - 1] + Delay(n)

LEMMA SumsAgree ==
  ASSUME NEW N \in Nat, NEW f, NEW g, Sums(f, N), Sums(g, N)
  PROVE  f[N] = g[N]
<1>. DEFINE T == {n \in 0 .. N : f[n] # g[n]}
<1>. SUFFICES ASSUME T # {} PROVE FALSE
  OBVIOUS
<1>1. PICK n \in T : \A m \in T : n <= m
  <2>1. T \in SUBSET Nat
    OBVIOUS
  <2>. HIDE DEF T
  <2>. QED BY <2>1, LeastNatural
<1>2. n \in 0 .. N /\ n >= Threshold
  BY <1>1, AuthAssumption DEF Sums
<1>3. n - 1 \in 0 .. N /\ n - 1 \notin T
  BY <1>1, <1>2, AuthAssumption
<1>. QED BY <1>1, <1>2, <1>3 DEF Sums

LEMMA SumsExist == \A N \in Nat : \E g \in [0 .. N -> Nat] : Sums(g, N)
<1>. DEFINE T == {N \in Nat : ~ \E g \in [0 .. N -> Nat] : Sums(g, N)}
<1>. SUFFICES ASSUME T # {} PROVE FALSE
  OBVIOUS
<1>1. PICK N \in T : \A m \in T : N <= m
  <2>1. T \in SUBSET Nat
    OBVIOUS
  <2>. HIDE DEF T
  <2>. QED BY <2>1, LeastNatural
<1>2. CASE N = 0
  <2>. DEFINE g == [n \in 0 .. 0 |-> 0]
  <2>1. g \in [0 .. N -> Nat] /\ Sums(g, N)
    BY <1>2, AuthAssumption DEF Sums
  <2>. QED BY <1>1, <2>1
<1>3. CASE N # 0
  <2>1. N \in Nat /\ N - 1 \in Nat /\ N - 1 \notin T
    BY <1>1, <1>3
  <2>2. PICK g \in [0 .. N - 1 -> Nat] : Sums(g, N - 1)
    BY <2>1
  <2>. DEFINE next == IF N < Threshold THEN 0 ELSE g[N - 1] + Delay(N)
              h == [n \in 0 .. N |-> IF n = N THEN next ELSE g[n]]
  <2>3. next \in Nat
    BY <2>1, <2>2, DelayNatural, AuthAssumption
  <2>4. h \in [0 .. N -> Nat]
    <3>. HIDE DEF next
    <3>. QED BY <2>1, <2>2, <2>3
  <2>5. ASSUME NEW n \in 0 .. N
        PROVE  h[n] = IF n < Threshold THEN 0 ELSE h[n - 1] + Delay(n)
    <3>1. CASE n = N
      BY <3>1, <2>1, AuthAssumption
    <3>2. CASE n # N
      <4>1. n \in 0 .. N - 1 /\ h[n] = g[n]
        BY <3>2, <2>1
      <4>2. n >= Threshold => n - 1 \in 0 .. N - 1 /\ h[n - 1] = g[n - 1]
        BY <4>1, <2>1, AuthAssumption
      <4>. QED BY <4>1, <4>2, <2>2, AuthAssumption DEF Sums
    <3>. QED BY <3>1, <3>2
  <2>6. Sums(h, N)
    <3>. HIDE DEF h
    <3>. QED BY <2>5 DEF Sums
  <2>. QED BY <1>1, <2>4, <2>6
<1>. QED BY <1>2, <1>3

LEMMA BlockedForStep ==
  /\ BlockedFor \in [Nat -> Nat]
  /\ \A n \in Nat : BlockedFor[n] = IF n < Threshold THEN 0 ELSE BlockedFor[n - 1] + Delay(n)
<1>. DEFINE Upto(n) == CHOOSE g \in [0 .. n -> Nat] : Sums(g, n)
            F == [n \in Nat |-> Upto(n)[n]]
<1>1. ASSUME NEW n \in Nat PROVE Upto(n) \in [0 .. n -> Nat] /\ Sums(Upto(n), n)
  BY SumsExist
<1>2. ASSUME NEW n \in Nat PROVE F[n] = IF n < Threshold THEN 0 ELSE F[n - 1] + Delay(n)
  <2>1. Upto(n)[n] = IF n < Threshold THEN 0 ELSE Upto(n)[n - 1] + Delay(n)
    <3>. HIDE DEF Upto
    <3>. QED BY <1>1 DEF Sums
  <2>2. CASE n < Threshold
    <3>. HIDE DEF Upto
    <3>. QED BY <2>1, <2>2
  <2>3. CASE ~(n < Threshold)
    <3>1. n - 1 \in Nat
      BY <2>3, AuthAssumption
    <3>2. Sums(Upto(n), n - 1)
      <4>. HIDE DEF Upto
      <4>. QED BY <1>1, <3>1 DEF Sums
    <3>3. Upto(n)[n - 1] = Upto(n - 1)[n - 1]
      <4>. HIDE DEF Upto
      <4>. QED BY <1>1, <3>1, <3>2, SumsAgree
    <3>. HIDE DEF Upto
    <3>. QED BY <2>1, <2>3, <3>1, <3>3
  <2>. QED BY <2>2, <2>3
<1>3. F = [n \in Nat |-> IF n < Threshold THEN 0 ELSE F[n - 1] + Delay(n)]
  <2>1. F = [n \in Nat |-> F[n]]
    OBVIOUS
  <2>. HIDE DEF F
  <2>. QED BY <1>2, <2>1, Zenon
<1>4. BlockedFor = [n \in Nat |-> IF n < Threshold THEN 0 ELSE BlockedFor[n - 1] + Delay(n)]
  <2>. HIDE DEF F
  <2>. QED BY <1>3, Zenon DEF BlockedFor
<1>5. \A n \in Nat : BlockedFor[n] = IF n < Threshold THEN 0 ELSE BlockedFor[n - 1] + Delay(n)
  BY <1>4, Zenon
<1>6. ASSUME NEW n \in Nat PROVE BlockedFor[n] \in Nat
  <2>1. Sums(BlockedFor, n)
    BY <1>5 DEF Sums
  <2>2. BlockedFor[n] = Upto(n)[n]
    <3>. HIDE DEF Upto
    <3>. QED BY <1>1, <2>1, SumsAgree
  <2>. HIDE DEF Upto
  <2>. QED BY <1>1, <2>2
<1>7. BlockedFor = [n \in Nat |-> BlockedFor[n]]
  BY <1>4, <1>5, Zenon
<1>. QED BY <1>5, <1>6, <1>7, Zenon

\* A series begins with its first failure, and its last failure, before the given
\* time, came after the blocks before it; the block of that one ends as much later.
InPace(n, first, until, time) ==
  /\ first # Never => first \in Nat /\ first <= time
  /\ n > 0 => first # Never /\ BlockedFor[n - 1] <= time - first
  /\ n >= Threshold => until \in Int /\ BlockedFor[n] <= until - first

LaneTypes == failures \in [Lanes -> Nat] /\ start \in [Lanes -> Int] /\ blocked \in [Lanes -> Int]

LanesPaced(time) == \A l \in Lanes : InPace(failures[l], start[l], blocked[l], time)

\* What a writer will count comes after what was counted.
Paced ==
  /\ LaneTypes /\ LanesPaced(now)
  /\ \A t \in Threads : pc[t] = "open" => at[t] <= now /\ LanesPaced(at[t])

LEMMA InitPaced == Init => Paced
<1>. SUFFICES ASSUME Init PROVE Paced
  OBVIOUS
<1>1. Never \in Int
  BY DEF Never
<1>2. LaneTypes
  BY <1>1 DEF Init, LaneTypes
<1>3. LanesPaced(now)
  BY AuthAssumption DEF Init, LanesPaced, InPace
<1>. QED BY <1>2, <1>3 DEF Init, Paced

LEMMA PacedLater ==
  ASSUME NEW n \in Nat, NEW first \in Int, NEW until \in Int, NEW x \in Nat, NEW y \in Nat,
         x <= y, InPace(n, first, until, x)
  PROVE  InPace(n, first, until, y)
<1>1. n > 0 => BlockedFor[n - 1] \in Nat
  BY BlockedForStep
<1>. QED BY <1>1 DEF InPace

LEMMA RejectPaced ==
  ASSUME LaneTypes, NEW lane \in Lanes, NEW t \in Nat, Reject(lane, t), ~IsBlocked(lane, t),
         LanesPaced(t)
  PROVE  LaneTypes' /\ \A l \in Lanes : InPace(failures'[l], start'[l], blocked'[l], t)
<1>. DEFINE inWindow == start[lane] # Never /\ t - start[lane] < Window
            n == IF inWindow THEN failures[lane] + 1 ELSE 1
            first == IF inWindow THEN start[lane] ELSE t
            until == IF n >= Threshold THEN t + Delay(n) ELSE Never
<1>0. failures[lane] \in Nat /\ InPace(failures[lane], start[lane], blocked[lane], t)
  BY DEF LaneTypes, LanesPaced
<1>1. /\ failures' = [failures EXCEPT ![lane] = n] /\ start' = [start EXCEPT ![lane] = first]
      /\ blocked' = [blocked EXCEPT ![lane] = until]
  BY DEF Reject
<1>2. n \in Nat \ {0} /\ first \in Nat /\ first <= t /\ first # Never
  BY <1>0, AuthAssumption DEF InPace, Never
<1>3. n >= Threshold => Delay(n) \in Nat
  BY <1>2, DelayNatural, AuthAssumption
<1>4. until \in Int
  BY <1>2, <1>3 DEF Never
<1>5. BlockedFor[n - 1] <= t - first
  <2>1. CASE n - 1 < Threshold
    <3>1. BlockedFor[n - 1] = 0
      BY <1>2, <2>1, BlockedForStep
    <3>. QED BY <1>2, <3>1
  <2>2. CASE n - 1 >= Threshold
    <3>1. inWindow /\ n - 1 = failures[lane]
      BY <1>0, <1>2, <2>2, AuthAssumption
    <3>2. BlockedFor[failures[lane]] <= blocked[lane] - start[lane] /\ blocked[lane] \in Int
      BY <1>0, <2>2, <3>1 DEF InPace
    <3>3. blocked[lane] <= t
      BY <3>2 DEF IsBlocked
    <3>4. start[lane] \in Int /\ BlockedFor[failures[lane]] \in Nat
      BY <1>0, BlockedForStep DEF LaneTypes
    <3>. QED BY <3>1, <3>2, <3>3, <3>4
  <2>. HIDE DEF n
  <2>. QED BY <1>2, <2>1, <2>2, AuthAssumption
<1>6. ASSUME n >= Threshold PROVE BlockedFor[n] <= until - first
  <2>1. until = t + Delay(n)
    BY <1>6
  <2>. HIDE DEF n, first, until
  <2>2. BlockedFor[n] = BlockedFor[n - 1] + Delay(n) /\ BlockedFor[n - 1] \in Nat
    BY <1>2, <1>6, BlockedForStep, AuthAssumption
  <2>. QED BY <1>2, <1>3, <1>5, <1>6, <2>1, <2>2
<1>. HIDE DEF n, first, until
<1>7. LaneTypes'
  BY <1>1, <1>2, <1>4 DEF LaneTypes
<1>8. InPace(n, first, until, t)
  BY <1>2, <1>4, <1>5, <1>6 DEF InPace
<1>9. /\ failures'[lane] = n /\ start'[lane] = first /\ blocked'[lane] = until
      /\ \A l \in Lanes : l # lane =>
           failures'[l] = failures[l] /\ start'[l] = start[l] /\ blocked'[l] = blocked[l]
  BY <1>1 DEF LaneTypes
<1>. QED BY <1>7, <1>8, <1>9 DEF LanesPaced

LEMMA ResetPaced ==
  ASSUME LaneTypes, NEW lanes \in SUBSET Lanes, Reset(lanes), NEW t \in Nat, LanesPaced(t)
  PROVE  LaneTypes' /\ \A l \in Lanes : InPace(failures'[l], start'[l], blocked'[l], t)
<1>1. Never \in Int
  BY DEF Never
<1>2. LaneTypes'
  BY <1>1 DEF LaneTypes, Reset
<1>3. InPace(0, Never, Never, t)
  BY AuthAssumption DEF InPace
<1>4. ASSUME NEW l \in Lanes
      PROVE  \/ failures'[l] = 0 /\ start'[l] = Never /\ blocked'[l] = Never
             \/ failures'[l] = failures[l] /\ start'[l] = start[l] /\ blocked'[l] = blocked[l]
  BY DEF Reset
<1>. QED BY <1>2, <1>3, <1>4 DEF LanesPaced

\* A step leaves the lanes as they are, and whoever enters reads the clock ...
Aside ==
  /\ UNCHANGED laneVars /\ now' \in Nat /\ now <= now'
  /\ \A t \in Threads :
       pc'[t] = "open" =>
         (pc[t] = "open" /\ at'[t] = at[t]) \/ (at'[t] = now /\ now' = now)

\* ... or counts or forgets, as the writer, who is done with it.
Counts(t) ==
  /\ pc[t] = "open" /\ now' = now /\ (\A u \in Threads : pc'[u] # "open")
  /\ \/ \E l \in Lanes : Reject(l, at[t]) /\ ~IsBlocked(l, at[t])
     \/ \E lanes \in SUBSET Lanes : Reset(lanes)
Forgets ==
  now' = now /\ (\A u \in Threads : pc'[u] # "open") /\ \E lanes \in SUBSET Lanes : Reset(lanes)

LEMMA LanesLater ==
  ASSUME LaneTypes, NEW x \in Nat, NEW y \in Nat, x <= y, LanesPaced(x) PROVE LanesPaced(y)
<1>1. ASSUME NEW l \in Lanes
      PROVE failures[l] \in Nat /\ start[l] \in Int /\ blocked[l] \in Int
  BY DEF LaneTypes
<1>. QED BY <1>1, PacedLater DEF LanesPaced

LEMMA AsidePaced == ASSUME AuthInv, Paced, Aside PROVE Paced'
<1>1. now \in Nat /\ at \in [Threads -> Nat]
  BY DEF AuthInv, ThreadTypes
<1>2. LaneTypes'
  BY DEF Aside, Paced, LaneTypes
<1>3. LanesPaced(now')
  BY <1>1, LanesLater DEF Aside, Paced
<1>4. ASSUME NEW t \in Threads, pc'[t] = "open" PROVE at'[t] <= now' /\ LanesPaced(at'[t])
  BY <1>1, <1>4 DEF Aside, Paced
<1>5. LanesPaced(now)'
  BY <1>3 DEF Aside, LanesPaced
<1>6. ASSUME NEW t \in Threads, pc'[t] = "open" PROVE at'[t] <= now' /\ LanesPaced(at[t])'
  BY <1>4, <1>6 DEF Aside, LanesPaced
<1>. QED BY <1>2, <1>5, <1>6 DEF Paced

LEMMA CountsPaced == ASSUME AuthInv, Paced, NEW t \in Threads, Counts(t) PROVE Paced'
<1>1. now \in Nat /\ at[t] \in Nat /\ at[t] <= now /\ LaneTypes /\ LanesPaced(at[t])
  BY DEF AuthInv, ThreadTypes, Paced, Counts
<1>2. LaneTypes' /\ \A l \in Lanes : InPace(failures'[l], start'[l], blocked'[l], at[t])
  BY <1>1, RejectPaced, ResetPaced DEF Counts
<1>3. \A l \in Lanes : failures'[l] \in Nat /\ start'[l] \in Int /\ blocked'[l] \in Int
  BY <1>2 DEF LaneTypes
<1>4. \A l \in Lanes : InPace(failures'[l], start'[l], blocked'[l], now')
  BY <1>1, <1>2, <1>3, PacedLater DEF Counts
<1>. QED BY <1>2, <1>4 DEF Counts, Paced, LanesPaced

LEMMA ForgetsPaced == ASSUME AuthInv, Paced, Forgets PROVE Paced'
<1>1. now \in Nat /\ LaneTypes /\ LanesPaced(now)
  BY DEF AuthInv, ThreadTypes, Paced
<1>2. LaneTypes' /\ \A l \in Lanes : InPace(failures'[l], start'[l], blocked'[l], now')
  BY <1>1, ResetPaced DEF Forgets
<1>. QED BY <1>2 DEF Forgets, Paced, LanesPaced

\* The writer is alone: whatever it does, nobody else is about to write.
LEMMA WriterLeaves ==
  ASSUME AuthInv, NEW t \in Threads, NEW label, label # "open",
         pc[t] = "open" \/ writer = t, pc' = [pc EXCEPT ![t] = label]
  PROVE  \A u \in Threads : pc'[u] # "open"
<1>1. writer = t
  BY DEF AuthInv, LocksSound
<1>. QED BY <1>1 DEF AuthInv, LocksSound, ThreadTypes

\* Most steps take a thread somewhere else than to the beginning of a write.
LEMMA ElsewhereAside ==
  ASSUME AuthInv, NEW t \in Threads, NEW label, label # "open", Goto(t, label),
         UNCHANGED <<now, laneVars>>,
         \A u \in Threads : u # t => at'[u] = at[u]
  PROVE  Aside
  BY DEF Goto, Aside, AuthInv, ThreadTypes

LEMMA EndAside ==
  ASSUME AuthInv, NEW t \in Threads, Finish(t), UNCHANGED <<now, laneVars>> PROVE Aside
<1>1. Goto(t, "idle") /\ \A u \in Threads : u # t => at'[u] = at[u]
  BY DEF Finish, AuthInv, ThreadTypes
<1>. QED BY <1>1, ElsewhereAside

LEMMA MovesAside ==
  ASSUME AuthInv, NEW t \in Threads,
         \/ LockRow(t) \/ Use(t) \/ Logout(t) \/ IssueUpdate(t) \/ WriteTemporary(t)
         \/ Rename(t) \/ Sweep(t) \/ DeleteFile(t) \/ EnterCleanup(t)
         \/ Fail(t) \/ Crash(t)
  PROVE  Aside
<1>1. CASE Finish(t) /\ UNCHANGED <<now, laneVars>>
  BY <1>1, EndAside
<1>2. CASE LockRow(t) /\ ~End(t)
  <2>1. Goto(t, "work") /\ UNCHANGED <<now, laneVars>> /\ at' = [at EXCEPT ![t] = Clock(t)]
    BY <1>2 DEF LockRow
  <2>2. \A u \in Threads : u # t => at'[u] = at[u]
    BY <2>1 DEF AuthInv, ThreadTypes
  <2>. QED BY <2>1, <2>2, ElsewhereAside
<1>3. CASE EnterCleanup(t)
  <2>1. Goto(t, "sweep") /\ UNCHANGED <<now, laneVars>> /\ at' = [at EXCEPT ![t] = now]
    BY <1>3 DEF EnterCleanup
  <2>2. \A u \in Threads : u # t => at'[u] = at[u]
    BY <2>1 DEF AuthInv, ThreadTypes
  <2>. QED BY <2>1, <2>2, ElsewhereAside
<1>4. CASE IssueUpdate(t)
  <2>1. Goto(t, "temporary") /\ UNCHANGED <<now, laneVars>> /\ at' = at
    BY <1>4 DEF IssueUpdate
  <2>. QED BY <2>1, ElsewhereAside
<1>5. CASE WriteTemporary(t)
  <2>1. Goto(t, "rename") /\ UNCHANGED <<now, laneVars>> /\ at' = at
    BY <1>5 DEF WriteTemporary
  <2>. QED BY <2>1, ElsewhereAside
<1>6. CASE Rename(t) /\ ~End(t)
  <2>1. Goto(t, "commit") /\ UNCHANGED <<now, laneVars>> /\ at' = at
    BY <1>6 DEF Rename
  <2>. QED BY <2>1, ElsewhereAside
<1>7. CASE Sweep(t) /\ ~End(t)
  <2>1. Goto(t, "delete") /\ UNCHANGED <<now, laneVars>> /\ at' = at
    BY <1>7 DEF Sweep
  <2>. QED BY <2>1, ElsewhereAside
<1>8. CASE LockRow(t) /\ End(t) BY <1>1, <1>8 DEF LockRow, End
<1>9. CASE Use(t) BY <1>1, <1>9 DEF Use, End
<1>10. CASE Logout(t) BY <1>1, <1>10 DEF Logout, End
<1>11. CASE Rename(t) /\ End(t) BY <1>1, <1>11 DEF Rename, End
<1>12. CASE Sweep(t) /\ End(t) BY <1>1, <1>12 DEF Sweep, End
<1>13. CASE DeleteFile(t) BY <1>1, <1>13 DEF DeleteFile, End
<1>14. CASE Fail(t) BY <1>1, <1>14 DEF Fail, End
<1>15. CASE Crash(t) BY <1>1, <1>15 DEF Crash, End
<1>. QED BY <1>2, <1>3, <1>4, <1>5, <1>6, <1>7, <1>8, <1>9, <1>10, <1>11, <1>12, <1>13, <1>14, <1>15

\* What a writer with a password or a token does to the lanes.
Judged(t) ==
  /\ pc[t] = "open" /\ now' = now /\ (Goto(t, "idle") \/ Goto(t, "clean"))
  /\ \/ UNCHANGED laneVars /\ \A u \in Threads : u # t => at'[u] = at[u]
     \/ \E l \in Lanes : Reject(l, at[t]) /\ ~IsBlocked(l, at[t])
     \/ \E lanes \in SUBSET Lanes : Reset(lanes)

LEMMA JudgedPaced == ASSUME AuthInv, Paced, NEW t \in Threads, Judged(t) PROVE Paced'
<1>1. \A u \in Threads : pc'[u] # "open"
  BY WriterLeaves DEF Judged, Goto
<1>2. CASE UNCHANGED laneVars /\ \A u \in Threads : u # t => at'[u] = at[u]
  BY <1>2, ElsewhereAside, AsidePaced DEF Judged
<1>3. CASE \E l \in Lanes : Reject(l, at[t]) /\ ~IsBlocked(l, at[t])
  BY <1>1, <1>3, CountsPaced DEF Counts, Judged
<1>4. CASE \E lanes \in SUBSET Lanes : Reset(lanes)
  BY <1>1, <1>4, CountsPaced DEF Counts, Judged
<1>. QED BY <1>2, <1>3, <1>4 DEF Judged

LEMMA WritersJudged ==
  ASSUME AuthInv, NEW t \in Threads,
         Login(t) \/ Sensitive(t) \/ ChangePassword(t) \/ Recover(t)
  PROVE  Judged(t)
<1>1. Finish(t) => Goto(t, "idle") /\ \A u \in Threads : u # t => at'[u] = at[u]
  BY DEF Finish, AuthInv, ThreadTypes
<1>2. {"login"} \in SUBSET Lanes /\ Lanes \in SUBSET Lanes
  OBVIOUS
<1>3. CASE Login(t)
  BY <1>1, <1>2, <1>3 DEF Login, Opened, End, Judged
<1>4. CASE Sensitive(t)
  BY <1>1, <1>2, <1>4 DEF Sensitive, Refused, Accepted, Opened, End, Judged
<1>5. CASE ChangePassword(t)
  BY <1>1, <1>2, <1>5 DEF ChangePassword, Refused, Accepted, Opened, Judged
<1>6. CASE Recover(t)
  BY <1>1, <1>2, <1>6 DEF Recover, Opened, Judged
<1>. QED BY <1>3, <1>4, <1>5, <1>6

LEMMA IssueCommitPaced == ASSUME AuthInv, Paced, NEW t \in Threads, IssueCommit(t) PROVE Paced'
<1>1. CASE UNCHANGED laneVars
  BY <1>1, EndAside, AsidePaced DEF IssueCommit, End
<1>2. CASE writer = t
  <2>1. \A u \in Threads : pc'[u] # "open"
    BY <1>2, WriterLeaves DEF IssueCommit, End, Finish, Goto
  <2>. QED BY <1>2, <2>1, ForgetsPaced DEF IssueCommit, Forgets
<1>. QED BY <1>1, <1>2 DEF IssueCommit

LEMMA EnterAside ==
  ASSUME AuthInv, NEW t \in Threads, Call(t) PROVE Aside
<1>1. ASSUME NEW use, NEW s, EnterShared(t, use, s) PROVE Aside
  <2>1. Goto(t, "row") /\ UNCHANGED <<now, laneVars>> /\ at' = [at EXCEPT ![t] = now]
    BY <1>1 DEF EnterShared
  <2>2. \A u \in Threads : u # t => at'[u] = at[u]
    BY <2>1 DEF AuthInv, ThreadTypes
  <2>. QED BY <2>1, <2>2, ElsewhereAside
<1>2. ASSUME NEW op, NEW s, NEW p, NEW k, EnterWrite(t, op, s, p, k) PROVE Aside
  <2>1. /\ UNCHANGED <<now, laneVars>> /\ pc' = [pc EXCEPT ![t] = "open"]
        /\ at' = [at EXCEPT ![t] = now]
    BY <1>2 DEF EnterWrite, Goto
  <2>. QED BY <2>1 DEF Aside, AuthInv, ThreadTypes
<1>. QED BY <1>1, <1>2 DEF Call

LEMMA NextPaced == AuthInv /\ Paced /\ [Next]_vars => Paced'
<1>. SUFFICES ASSUME AuthInv, Paced, [Next]_vars PROVE Paced'
  OBVIOUS
<1>1. CASE Tick \/ UNCHANGED vars
  <2>1. Aside
    BY <1>1 DEF Tick, vars, Aside, AuthInv, ThreadTypes
  <2>. QED BY <2>1, AsidePaced
<1>2. ASSUME NEW t \in Threads, Call(t) PROVE Paced'
  BY <1>2, EnterAside, AsidePaced
<1>3. ASSUME NEW t \in Threads, Step(t) PROVE Paced'
  BY <1>3, MovesAside, AsidePaced, WritersJudged, JudgedPaced, IssueCommitPaced DEF Step
<1>4. ASSUME NEW t \in Threads, EnterCleanup(t) \/ Fail(t) \/ Crash(t) PROVE Paced'
  BY <1>4, MovesAside, AsidePaced
<1>5. ASSUME NEW t \in Threads, Lose(t) PROVE Paced'
  <2>1. Aside
    BY <1>5 DEF Lose, Aside, AuthInv, ThreadTypes
  <2>. QED BY <2>1, AsidePaced
<1>. QED BY <1>1, <1>2, <1>3, <1>4, <1>5 DEF Next

\* Whatever requests arrive at once, a failure that counts comes after the blocks
\* of all failures of its series and its lane before it: they are counted by a
\* writer, who is alone from the reading of the clock to the commit (reject()).
THEOREM FailuresArePaced == Spec => []FailuresTakeTime
<1>1. Paced => FailuresTakeTime
  BY DEF Paced, LanesPaced, InPace, FailuresTakeTime
<1>. QED BY <1>1, InitPaced, NextPaced, AuthInvariant, PTL DEF Spec

-----------------------------------------------------------------------------
(* The file of a token in force                                             *)

\* A cleanup that will remove the file, and whose transaction is still there, has
\* seen that no token is in force, and none has come into force since.
CleanupSound ==
  \A t \in Threads :
    writer = t /\ (pc[t] = "delete" \/ (pc[t] = "sweep" /\ arg[t].op = "remove")) => Outdated(now)

LEMMA InitCleanup == Init => CleanupSound
  BY AuthAssumption DEF Init, CleanupSound

\* A token that is out of date stays so, and a cleanup goes on as it began.
LEMMA CleanupKept ==
  ASSUME AuthInv, CleanupSound, now' \in Nat, now' >= now,
         hash' \in {hash, None}, expires' = expires,
         \A u \in Threads :
           writer' = u /\ pc'[u] \in {"sweep", "delete"} =>
             writer = u /\ pc'[u] = pc[u] /\ arg'[u] = arg[u]
  PROVE  CleanupSound'
<1>1. now \in Nat /\ expires \in Int
  BY DEF AuthInv, ThreadTypes, TokenTypes
<1>2. Outdated(now) => Outdated(now)'
  BY <1>1 DEF Outdated
<1>. QED BY <1>2 DEF CleanupSound

\* Who ends, ends a cleanup of its own only.
LEMMA EndCleanup ==
  ASSUME AuthInv, CleanupSound, NEW t \in Threads, End(t),
         now' = now, hash' \in {hash, None}, expires' = expires
  PROVE  CleanupSound'
<1>1. now \in Nat
  BY DEF AuthInv, ThreadTypes
<1>2. ASSUME NEW u \in Threads, writer' = u, pc'[u] \in {"sweep", "delete"}
      PROVE  writer = u /\ pc'[u] = pc[u] /\ arg'[u] = arg[u]
  BY <1>2, AuthAssumption DEF End, Release, Finish, Goto, AuthInv, ThreadTypes
<1>. QED BY <1>1, <1>2, CleanupKept

\* Whoever is the writer leaves no other cleanup that is.
LEMMA WriterCleanup ==
  ASSUME AuthInv, NEW t \in Threads, writer = t \/ writer = None,
         writer' \in {writer, t, None},
         pc'[t] \notin {"sweep", "delete"}
  PROVE  CleanupSound'
  BY AuthAssumption DEF CleanupSound

\* A thread that goes on to something else than a cleanup.
LEMMA OtherCleanup ==
  ASSUME AuthInv, CleanupSound, NEW t \in Threads,
         UNCHANGED <<now, hash, expires, writer>>,
         \A u \in Threads \ {t} : pc'[u] = pc[u] /\ arg'[u] = arg[u],
         pc'[t] \notin {"sweep", "delete"}
  PROVE  CleanupSound'
<1>1. now \in Nat
  BY DEF AuthInv, ThreadTypes
<1>. QED BY <1>1, CleanupKept

LEMMA NextCleanup == AuthInv /\ CleanupSound /\ [Next]_vars => CleanupSound'
<1>. SUFFICES ASSUME AuthInv, CleanupSound, [Next]_vars PROVE CleanupSound'
  OBVIOUS
<1>0. /\ now \in Nat /\ pc \in [Threads -> Labels] /\ arg \in [Threads -> Args]
      /\ \A t \in Threads : pc[t] = "open" => writer = t
  BY DEF AuthInv, ThreadTypes, LocksSound
<1>1. CASE Tick \/ UNCHANGED vars
  BY <1>0, <1>1, CleanupKept DEF Tick, vars
<1>2. ASSUME NEW t \in Threads, NEW op, NEW s, NEW p, NEW k, EnterWrite(t, op, s, p, k)
      PROVE  CleanupSound'
  BY <1>0, <1>2, WriterCleanup DEF EnterWrite, MayWrite, Goto
<1>3. ASSUME NEW t \in Threads, NEW use, NEW s, EnterShared(t, use, s) PROVE CleanupSound'
  BY <1>0, <1>3, OtherCleanup DEF EnterShared, Goto
<1>4. ASSUME NEW t \in Threads,
             \/ Use(t) \/ Login(t) \/ Sensitive(t) \/ Logout(t) \/ DeleteFile(t) \/ Fail(t) \/ Crash(t)
      PROVE  CleanupSound'
  BY <1>4, EndCleanup DEF Use, Login, Sensitive, Logout, DeleteFile, Fail, Crash
<1>5. ASSUME NEW t \in Threads, ChangePassword(t) \/ Recover(t) PROVE CleanupSound'
  <2>1. writer = t /\ pc'[t] \in {"idle", "clean"} /\ writer' \in {writer, t, None}
    BY <1>0, <1>5 DEF ChangePassword, Recover, Opened, Release, Finish, Goto
  <2>. QED BY <2>1, WriterCleanup
<1>6. ASSUME NEW t \in Threads, IssueCommit(t) PROVE CleanupSound'
  <2>1. CASE writer = t
    BY <1>0, <1>6, <2>1, WriterCleanup DEF IssueCommit, End, Release, Finish, Goto
  <2>2. CASE writer # t
    BY <1>6, <2>2, EndCleanup DEF IssueCommit
  <2>. QED BY <2>1, <2>2
<1>7. ASSUME NEW t \in Threads,
             LockRow(t) \/ IssueUpdate(t) \/ WriteTemporary(t) \/ Rename(t)
      PROVE  CleanupSound'
  <2>1. CASE End(t)
    BY <1>7, <2>1, EndCleanup DEF LockRow, IssueUpdate, WriteTemporary, Rename, Goto
  <2>2. CASE ~End(t)
    BY <1>0, <1>7, <2>2, OtherCleanup
       DEF LockRow, IssueUpdate, WriteTemporary, Rename, Goto
  <2>. QED BY <2>1, <2>2
<1>8. ASSUME NEW t \in Threads, EnterCleanup(t) PROVE CleanupSound'
  <2>1. writer' = t /\ arg'[t].op = (IF Outdated(now) THEN "remove" ELSE "spare")
        /\ pc'[t] = "sweep" /\ UNCHANGED <<now, hash, expires>>
    BY <1>0, <1>8 DEF EnterCleanup, Goto
  <2>2. arg'[t].op = "remove" => Outdated(now)'
    BY <2>1 DEF Outdated
  <2>. QED BY <2>1, <2>2 DEF CleanupSound
<1>9. ASSUME NEW t \in Threads, Sweep(t) PROVE CleanupSound'
  <2>1. CASE End(t)
    BY <1>9, <2>1, EndCleanup DEF Sweep
  <2>2. CASE ~End(t)
    <3>1. /\ pc[t] = "sweep" /\ arg[t].op = "remove" /\ UNCHANGED <<writer, now, hash, expires>>
          /\ \A u \in Threads \ {t} : pc'[u] = pc[u] /\ arg'[u] = arg[u]
      BY <1>0, <1>9, <2>2 DEF Sweep, Goto
    <3>. QED BY <3>1 DEF CleanupSound, Outdated
  <2>. QED BY <2>1, <2>2
<1>10. ASSUME NEW t \in Threads, Lose(t) PROVE CleanupSound'
  BY <1>0, <1>10, AuthAssumption DEF Lose, Release, CleanupSound
<1>. QED BY <1>1, <1>2, <1>3, <1>4, <1>5, <1>6, <1>7, <1>8, <1>9, <1>10 DEF Next, Call, Step

\* A cleanup that still has its transaction does not remove the file of a token in
\* force: it looks under the lock that whoever brings a token into force needs
\* (cleanup(), issueRecovery()).
THEOREM CleanupIsSafe == Spec => CleanupSparesNewFile
<1> DEFINE Spares ==
      \A t \in Threads :
        pc[t] = "delete" /\ writer = t /\ file = hash /\ file' # file =>
          hash = None \/ expires <= now
<1>1. CleanupSound => [Spares]_vars
  <2>1. CleanupSound => Spares
    BY DEF CleanupSound, Outdated
  <2>. HIDE DEF Spares
  <2>. QED BY <2>1
<1>2. Spec => []CleanupSound
  BY InitCleanup, NextCleanup, AuthInvariant, PTL DEF Spec
<1>3. Spec => [][Spares]_vars
  BY <1>1, <1>2, PTL DEF Spec
<1>. QED BY <1>3 DEF CleanupSparesNewFile
=============================================================================
