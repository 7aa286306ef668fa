----------------------------- MODULE AdminAuth ------------------------------
(***************************************************************************)
(* The administrator's sessions, password and recovery token:               *)
(* apps/api/src/auth/auth.service.ts, with the token file of                *)
(* apps/api/src/setup/token-file.ts.                                        *)
(*                                                                         *)
(* Every operation is one transaction that first locks the row              *)
(* AuthenticationState, shared by those who use a session and exclusive for *)
(* all others, and then reads the clock.  What a transaction writes takes   *)
(* effect with its commit; time goes on while it is open, and the token     *)
(* file is written and removed inside it.  A transaction may also be lost   *)
(* while its program goes on: Prisma ends it after its timeout, or the      *)
(* connection breaks.                                                       *)
(***************************************************************************)
EXTENDS Integers, FiniteSets

CONSTANTS
  Threads,    \* requests, the timer of cleanup() and the recovery command
  Sessions,   \* session tokens, as random as they are
  Tokens,     \* recovery tokens
  Passwords,
  Absolute,   \* SESSION_ABSOLUTE_MS, in ticks (8 h in the code)
  Idle,       \* SESSION_IDLE_MS (30 min)
  TokenLife,  \* RECOVERY_TTL_MS (60 min)
  Window,     \* AUTH_WINDOW_MS (15 min)
  Threshold,  \* failures that block (10)
  MaxDelay,   \* the longest block (60 s)
  MaxTime,    \* bound: the last tick of the clock
  Allowances, \* bound: how often each of Events happens, one of these
  None        \* no thread, session or token

Lanes == {"login", "recovery"}
Uses == {"view", "work"}
Writes == {"login", "sensitive", "logout", "change", "recover", "issue"}
Events == Uses \cup Writes \cup {"fault", "lost", "crash"}
Never == -1

ASSUME AuthAssumption ==
  /\ Absolute \in Nat \ {0} /\ Idle \in Nat \ {0} /\ TokenLife \in Nat \ {0}
  /\ Window \in Nat /\ Threshold \in Nat \ {0} /\ MaxDelay \in Nat \ {0}
  /\ MaxTime \in Nat /\ Allowances \subseteq [Events -> Nat]
  /\ None \notin Threads \cup Sessions \cup Tokens
  /\ Passwords # {}
  \* enough tokens to draw a new one each time
  /\ \A most \in Allowances :
       most["login"] <= Cardinality(Sessions) /\ most["issue"] <= Cardinality(Tokens)

VARIABLES
  now,       \* clock_timestamp()
  \* Administrator
  password,  \* what passwordHash verifies
  version,   \* how often it was changed
  \* AdministratorSession
  state,     \* "none" before the row, "open", or "revoked"
  ends,      \* expiresAt
  seen,      \* lastSeenAt
  born,      \* the version of the password that was entered
  used,      \* how many works were committed under the session
  \* AuthenticationState
  failures, start, blocked,  \* of each lane
  hash,      \* the token that recoveryHash is of
  expires,   \* recoveryExpiresAt
  consumed,  \* recoveryConsumedAt IS NOT NULL
  \* tokens, as far as the operator has seen them
  issued,    \* tokens drawn
  tokenBorn, \* the version of the password when a token was committed
  spent,     \* how often a token changed the password
  \* the directory of the token file
  file,      \* the token in the file
  temps,     \* tokens in temporary files
  \* transactions
  writer,    \* who holds AuthenticationState FOR UPDATE
  readers,   \* who holds it FOR SHARE
  row,       \* who holds the row of a session
  pc,        \* where each thread stands
  arg,       \* what it was called with
  at,        \* the time it read
  left       \* what is left of the allowance

adminVars == <<password, version>>
sessionVars == <<state, ends, seen, born, used>>
laneVars == <<failures, start, blocked>>
tokenVars == <<hash, expires, consumed, issued, tokenBorn, spent>>
fileVars == <<file, temps>>
lockVars == <<writer, readers, row>>
threadVars == <<pc, arg, at>>
vars == <<now, adminVars, sessionVars, laneVars, tokenVars, fileVars, lockVars, threadVars, left>>

Spend(e) == left[e] > 0 /\ left' = [left EXCEPT ![e] = @ - 1]
NoArg == [op |-> "none", session |-> None, password |-> None, token |-> None]

\* session(): the session is open and has not run out.
Alive(s, t) == s # None /\ state[s] = "open" /\ t < ends[s] /\ t - seen[s] < Idle

\* A mutant of IsBlocked: recover() does not look.
IsBlockedAtLogin(lane, t) == lane = "login" /\ blocked[lane] > t

IsBlocked(lane, t) == blocked[lane] > t

Least(a, b) == IF a < b THEN a ELSE b

\* The block after so many failures: a unit, doubled up to six times.
Delay(n) == Least(MaxDelay, 2 ^ Least(6, n - Threshold))

Init ==
  /\ now = 0
  /\ password \in Passwords /\ version = 0
  /\ state = [s \in Sessions |-> "none"]
  /\ ends = [s \in Sessions |-> 0] /\ seen = [s \in Sessions |-> 0]
  /\ born = [s \in Sessions |-> 0] /\ used = [s \in Sessions |-> 0]
  /\ failures = [l \in Lanes |-> 0]
  /\ start = [l \in Lanes |-> Never] /\ blocked = [l \in Lanes |-> Never]
  /\ hash = None /\ expires = Never /\ consumed = FALSE
  /\ issued = {}
  /\ tokenBorn = [k \in Tokens |-> 0] /\ spent = [k \in Tokens |-> 0]
  /\ file = None /\ temps = {}
  /\ writer = None /\ readers = {} /\ row = [s \in Sessions |-> None]
  /\ pc = [t \in Threads |-> "idle"]
  /\ arg = [t \in Threads |-> NoArg]
  /\ at = [t \in Threads |-> 0]
  /\ left \in Allowances

Goto(t, label) == pc' = [pc EXCEPT ![t] = label]

\* A transaction ends, or is gone already, and with it its locks.
Release(t) ==
  /\ writer' = (IF writer = t THEN None ELSE writer)
  /\ readers' = readers \ {t}
  /\ row' = [s \in Sessions |-> IF row[s] = t THEN None ELSE row[s]]

Finish(t) ==
  /\ Goto(t, "idle") /\ arg' = [arg EXCEPT ![t] = NoArg] /\ at' = [at EXCEPT ![t] = 0]

End(t) == Release(t) /\ Finish(t)

\* A mutant of MayWrite: the revocation boundary is only shared.
MayWriteBesideReaders == writer = None

MayWrite == writer = None /\ readers = {}

-----------------------------------------------------------------------------
\* transaction(): the lock and the clock.
EnterWrite(t, op, s, p, k) ==
  /\ pc[t] = "idle" /\ MayWrite
  /\ writer' = t
  /\ at' = [at EXCEPT ![t] = now]
  /\ arg' = [arg EXCEPT ![t] = [op |-> op, session |-> s, password |-> p, token |-> k]]
  /\ Goto(t, "open") /\ Spend(op)
  /\ UNCHANGED <<now, adminVars, sessionVars, laneVars, tokenVars, fileVars, readers, row>>

EnterShared(t, use, s) ==
  /\ pc[t] = "idle" /\ writer = None /\ state[s] # "none"
  /\ readers' = readers \cup {t}
  /\ at' = [at EXCEPT ![t] = now]
  /\ arg' = [arg EXCEPT ![t] = [NoArg EXCEPT !.op = use, !.session = s]]
  /\ Goto(t, "row") /\ Spend(use)
  /\ UNCHANGED <<now, adminVars, sessionVars, laneVars, tokenVars, fileVars, writer, row>>

\* The clock is read again once the session's row is locked.
Clock(t) == now

\* withActiveSession(): the session's row is locked, too.
LockRow(t) ==
  LET s == arg[t].session IN
  /\ pc[t] = "row" /\ row[s] = None
  /\ IF Alive(s, Clock(t))
     THEN /\ row' = [row EXCEPT ![s] = t] /\ at' = [at EXCEPT ![t] = Clock(t)]
          /\ Goto(t, "work") /\ UNCHANGED <<writer, readers, arg>>
     ELSE End(t)
  /\ UNCHANGED <<now, adminVars, sessionVars, laneVars, tokenVars, fileVars, left>>

\* authorizedOperation() looks at the clock once more after its work; current()
\* and requester() do not.
Use(t) ==
  LET s == arg[t].session
      late == now >= ends[s] \/ now - at[t] >= Idle
  IN
  /\ pc[t] = "work"
  /\ IF arg[t].op = "work" /\ late THEN UNCHANGED <<seen, used>>
     ELSE /\ seen' = [seen EXCEPT ![s] = at[t]]
          /\ used' = [used EXCEPT ![s] = IF arg[t].op = "work" THEN @ + 1 ELSE @]
  /\ End(t)
  /\ UNCHANGED <<now, adminVars, state, ends, born, laneVars, tokenVars, fileVars, left>>

-----------------------------------------------------------------------------
\* reject(): a failure counts in its window and may block the lane.
Reject(lane, t) ==
  LET inWindow == start[lane] # Never /\ t - start[lane] < Window
      n == IF inWindow THEN failures[lane] + 1 ELSE 1
  IN
  /\ failures' = [failures EXCEPT ![lane] = n]
  /\ start' = [start EXCEPT ![lane] = IF inWindow THEN @ ELSE t]
  /\ blocked' = [blocked EXCEPT ![lane] = IF n >= Threshold THEN t + Delay(n) ELSE Never]

\* resetLogin(), and the same for the other lane.
Reset(lanes) ==
  /\ failures' = [l \in Lanes |-> IF l \in lanes THEN 0 ELSE failures[l]]
  /\ start' = [l \in Lanes |-> IF l \in lanes THEN Never ELSE start[l]]
  /\ blocked' = [l \in Lanes |-> IF l \in lanes THEN Never ELSE blocked[l]]

\* A mutant of Revoked: the session of the request itself stays.
RevokedOthers(t) ==
  [s \in Sessions |-> IF state[s] = "open" /\ s # arg[t].session THEN "revoked" ELSE state[s]]

\* The sessions after the password changed: none is left open.
Revoked(t) == [s \in Sessions |-> IF state[s] = "open" THEN "revoked" ELSE state[s]]

Opened(t, op) == pc[t] = "open" /\ arg[t].op = op

\* A correct login replaces the session its browser had.
Login(t) ==
  LET a == arg[t] IN
  /\ Opened(t, "login")
  /\ \/ /\ IsBlocked("login", at[t]) /\ UNCHANGED <<sessionVars, laneVars>>
     \/ /\ ~IsBlocked("login", at[t]) /\ a.password # password
        /\ Reject("login", at[t]) /\ UNCHANGED sessionVars
     \/ /\ ~IsBlocked("login", at[t]) /\ a.password = password
        /\ \E s \in Sessions :
             /\ state[s] = "none"
             /\ state' = [u \in Sessions |->
                            CASE u = s -> "open"
                              [] u = a.session /\ state[u] = "open" -> "revoked"
                              [] OTHER -> state[u]]
             /\ ends' = [ends EXCEPT ![s] = at[t] + Absolute]
             /\ seen' = [seen EXCEPT ![s] = at[t]]
             /\ born' = [born EXCEPT ![s] = version]
        /\ Reset({"login"}) /\ UNCHANGED used
  /\ End(t)
  /\ UNCHANGED <<now, adminVars, tokenVars, fileVars, left>>

\* The part of an operation with a password that does not succeed.
Refused(t) ==
  /\ \/ ~Alive(arg[t].session, at[t]) /\ UNCHANGED laneVars
     \/ Alive(arg[t].session, at[t]) /\ IsBlocked("login", at[t]) /\ UNCHANGED laneVars
     \/ /\ Alive(arg[t].session, at[t]) /\ ~IsBlocked("login", at[t])
        /\ arg[t].password # password /\ Reject("login", at[t])

Accepted(t) ==
  Alive(arg[t].session, at[t]) /\ ~IsBlocked("login", at[t]) /\ arg[t].password = password

\* sensitiveOperation(): the session may have run out during the work.
Sensitive(t) ==
  LET s == arg[t].session
      late == now >= ends[s] \/ now - seen[s] >= Idle
  IN
  /\ Opened(t, "sensitive")
  /\ \/ Refused(t) /\ UNCHANGED <<seen, used>>
     \/ Accepted(t) /\ late /\ UNCHANGED <<seen, used, laneVars>>
     \/ /\ Accepted(t) /\ ~late
        /\ seen' = [seen EXCEPT ![s] = now]
        /\ used' = [used EXCEPT ![s] = @ + 1]
        /\ Reset({"login"})
  /\ End(t)
  /\ UNCHANGED <<now, adminVars, state, ends, born, tokenVars, fileVars, left>>

Logout(t) ==
  LET s == arg[t].session IN
  /\ Opened(t, "logout")
  /\ state' = IF Alive(s, at[t]) THEN [state EXCEPT ![s] = "revoked"] ELSE state
  /\ End(t)
  /\ UNCHANGED <<now, adminVars, ends, seen, born, used, laneVars, tokenVars, fileVars, left>>

\* A mutant of NoToken: the recovery token is left alone.
SameToken == hash

\* recoveryHash after a change of the password.
NoToken == None

\* A changed password ends all sessions and the recovery token; the commit is
\* followed by a cleanup.
ChangePassword(t) ==
  /\ Opened(t, "change")
  /\ \/ Refused(t) /\ Finish(t) /\ UNCHANGED <<adminVars, state, hash>>
     \/ /\ Accepted(t)
        /\ password' \in Passwords /\ version' = version + 1
        /\ state' = Revoked(t) /\ hash' = NoToken /\ Reset({"login"})
        /\ Goto(t, "clean") /\ UNCHANGED <<arg, at>>
  /\ Release(t)
  /\ UNCHANGED <<now, ends, seen, born, used, expires, consumed, issued, tokenBorn, spent,
                 fileVars, left>>

Recover(t) ==
  LET k == arg[t].token
      good == k = hash /\ hash # None /\ expires > at[t] /\ ~consumed
  IN
  /\ Opened(t, "recover")
  /\ \/ /\ IsBlocked("recovery", at[t]) \/ ~good
        /\ IF IsBlocked("recovery", at[t]) THEN UNCHANGED laneVars ELSE Reject("recovery", at[t])
        /\ Finish(t) /\ UNCHANGED <<adminVars, state, hash, consumed, spent>>
     \/ /\ ~IsBlocked("recovery", at[t]) /\ good
        /\ password' \in Passwords /\ version' = version + 1
        /\ state' = Revoked(t)
        /\ hash' = NoToken /\ consumed' = TRUE /\ spent' = [spent EXCEPT ![k] = @ + 1]
        /\ Reset(Lanes)
        /\ Goto(t, "clean") /\ UNCHANGED <<arg, at>>
  /\ Release(t)
  /\ UNCHANGED <<now, ends, seen, born, used, expires, issued, tokenBorn, fileVars, left>>

-----------------------------------------------------------------------------
\* issueRecovery(): leftovers are removed and the row is updated ...
IssueUpdate(t) ==
  /\ Opened(t, "issue")
  /\ \E k \in Tokens \ issued :
       issued' = issued \cup {k} /\ arg' = [arg EXCEPT ![t].token = k]
  /\ temps' = {}
  /\ Goto(t, "temporary")
  /\ UNCHANGED <<now, adminVars, sessionVars, laneVars, hash, expires, consumed, tokenBorn,
                 spent, file, lockVars, at, left>>

\* ... the token is written to a temporary file, which takes the place of the
\* old one ...
WriteTemporary(t) ==
  /\ pc[t] = "temporary"
  /\ temps' = temps \cup {arg[t].token}
  /\ Goto(t, "rename")
  /\ UNCHANGED <<now, adminVars, sessionVars, laneVars, tokenVars, file, lockVars, arg, at, left>>

\* writeTokenFile() fails if the temporary file is gone, and removes its own.
Rename(t) ==
  LET k == arg[t].token IN
  /\ pc[t] = "rename"
  /\ temps' = temps \ {k}
  /\ IF k \in temps
     THEN file' = k /\ Goto(t, "commit") /\ UNCHANGED <<lockVars, arg, at>>
     ELSE End(t) /\ UNCHANGED file
  /\ UNCHANGED <<now, adminVars, sessionVars, laneVars, tokenVars, left>>

\* ... and only then the transaction commits, if it is still there.
IssueCommit(t) ==
  LET k == arg[t].token IN
  /\ pc[t] = "commit"
  /\ IF writer = t
     THEN /\ hash' = k /\ expires' = at[t] + TokenLife /\ consumed' = FALSE
          /\ tokenBorn' = [tokenBorn EXCEPT ![k] = version]
          /\ Reset({"recovery"})
     ELSE UNCHANGED <<hash, expires, consumed, tokenBorn, laneVars>>
  /\ End(t)
  /\ UNCHANGED <<now, adminVars, sessionVars, issued, spent, fileVars, left>>

-----------------------------------------------------------------------------
\* A mutant of Outdated: off by one at the end of the token's life.
OutdatedEarly(t) == hash = None \/ expires <= t + 1

\* cleanup() removes the file unless a token is in force.
Outdated(t) == hash = None \/ expires <= t

\* The timer, or what follows a changed password.  (A round of the timer that
\* finds neither a file nor a token, and keeps its transaction, changes nothing
\* and is left out.)
EnterCleanup(t) ==
  /\ \/ pc[t] = "clean"
     \/ /\ pc[t] = "idle"
        /\ file # None \/ temps # {} \/ hash # None \/ left["lost"] > 0
  /\ MayWrite
  /\ writer' = t
  /\ at' = [at EXCEPT ![t] = now]
  /\ arg' = [arg EXCEPT ![t] = [NoArg EXCEPT !.op = IF Outdated(now) THEN "remove" ELSE "spare",
                                            !.token = hash]]
  /\ Goto(t, "sweep")
  /\ UNCHANGED <<now, adminVars, sessionVars, laneVars, tokenVars, fileVars, readers, row, left>>

\* Only a recoveryHash still to be cleared needs the transaction once more
\* before the file is removed.
Sweep(t) ==
  /\ pc[t] = "sweep"
  /\ temps' = {}
  /\ IF arg[t].op = "remove" /\ (arg[t].token = None \/ writer = t)
     THEN Goto(t, "delete") /\ UNCHANGED <<lockVars, arg, at>>
     ELSE End(t)
  /\ UNCHANGED <<now, adminVars, sessionVars, laneVars, tokenVars, file, left>>

DeleteFile(t) ==
  /\ pc[t] = "delete"
  /\ file' = None
  /\ hash' = (IF writer = t THEN None ELSE hash)
  /\ End(t)
  /\ UNCHANGED <<now, adminVars, sessionVars, laneVars, expires, consumed, issued, tokenBorn,
                 spent, temps, left>>

-----------------------------------------------------------------------------
\* A statement, an audit record, the work or a file operation fails:
\* all that the transaction wrote is undone, and writeTokenFile() removes its
\* temporary file.
Fail(t) ==
  /\ pc[t] \notin {"idle", "clean"} /\ Spend("fault")
  /\ temps' = (IF pc[t] = "rename" THEN temps \ {arg[t].token} ELSE temps)
  /\ End(t)
  /\ UNCHANGED <<now, adminVars, sessionVars, laneVars, tokenVars, file>>

\* The transaction is gone while its program is still busy with files.  (One
\* that is gone before its next statement fails there: Fail.)
Lose(t) ==
  /\ writer = t /\ pc[t] # "open" /\ Spend("lost")
  /\ Release(t)
  /\ UNCHANGED <<now, adminVars, sessionVars, laneVars, tokenVars, fileVars, threadVars>>

\* The process of a thread dies; its files stay.
Crash(t) ==
  /\ pc[t] # "idle" /\ Spend("crash")
  /\ End(t)
  /\ UNCHANGED <<now, adminVars, sessionVars, laneVars, tokenVars, fileVars>>

Tick ==
  /\ now < MaxTime /\ now' = now + 1
  /\ UNCHANGED <<adminVars, sessionVars, laneVars, tokenVars, fileVars, lockVars, threadVars, left>>

\* The calls: a browser shows a session it was given, an operator a token seen
\* in the file, or something else.
Call(t) ==
  \/ \E s \in Sessions, use \in Uses : EnterShared(t, use, s)
  \/ \E s \in Sessions \cup {None}, p \in Passwords : EnterWrite(t, "login", s, p, None)
  \/ \E s \in Sessions, p \in Passwords, op \in {"sensitive", "change"} :
       state[s] # "none" /\ EnterWrite(t, op, s, p, None)
  \/ \E s \in Sessions : state[s] # "none" /\ EnterWrite(t, "logout", s, None, None)
  \/ \E k \in issued \cup {None} : EnterWrite(t, "recover", None, None, k)
  \/ EnterWrite(t, "issue", None, None, None) /\ now + TokenLife <= MaxTime

\* What a thread does once its call has begun.
Step(t) ==
  \/ LockRow(t) \/ Use(t)
  \/ Login(t) \/ Sensitive(t) \/ Logout(t) \/ ChangePassword(t) \/ Recover(t)
  \/ IssueUpdate(t) \/ WriteTemporary(t) \/ Rename(t) \/ IssueCommit(t)
  \/ Sweep(t) \/ DeleteFile(t)

Next ==
  \/ \E t \in Threads : \/ Call(t) \/ Step(t) \/ EnterCleanup(t)
                         \/ Fail(t) \/ Lose(t) \/ Crash(t)
  \/ Tick

Spec == Init /\ [][Next]_vars

-----------------------------------------------------------------------------
\* Types of threads, sessions and tokens, and who holds the locks: a writer
\* excludes the readers, and whoever is about to write is the writer
\* (transaction(), withActiveSession()).
Exclusive == {"open", "temporary", "rename", "commit", "sweep", "delete"}
Shared == {"row", "work"}
Labels == Exclusive \cup Shared \cup {"idle", "clean"}
Args == [op : Uses \cup Writes \cup {"none", "remove", "spare"},
         session : Sessions \cup {None}, password : Passwords \cup {None},
         token : Tokens \cup {None}]

ThreadTypes ==
  /\ now \in Nat
  /\ pc \in [Threads -> Labels] /\ arg \in [Threads -> Args] /\ at \in [Threads -> Nat]

SessionTypes ==
  /\ version \in Nat
  /\ state \in [Sessions -> {"none", "open", "revoked"}]
  /\ ends \in [Sessions -> Nat] /\ seen \in [Sessions -> Nat]
  /\ born \in [Sessions -> Nat] /\ used \in [Sessions -> Nat]

TokenTypes ==
  /\ hash \in Tokens \cup {None} /\ expires \in Int /\ consumed \in BOOLEAN
  /\ issued \subseteq Tokens
  /\ tokenBorn \in [Tokens -> Nat] /\ spent \in [Tokens -> Nat]

LocksSound ==
  /\ readers \subseteq Threads
  /\ \A t \in Threads : t \in readers <=> pc[t] \in Shared
  /\ writer # None => writer \in Threads /\ pc[writer] \in Exclusive /\ readers = {}
  /\ \A t \in Threads : pc[t] = "open" => writer = t

TypeOK == ThreadTypes /\ SessionTypes /\ TokenTypes /\ LocksSound

\* No work is committed under a session that was revoked, that has reached its
\* absolute end, that would be idle by now had it last been seen when the work was
\* let in, or that was opened with a password since changed, however long the work
\* took: the shared lock keeps revocation away until the commit, and the clock is
\* read again after the work (authorizedOperation(), sensitiveOperation()).
RevocationBoundary ==
  [][\A s \in Sessions :
       used'[s] > used[s] =>
         /\ state[s] = "open" /\ born[s] = version
         /\ now < ends[s] /\ now - seen'[s] < Idle]_vars

\* A session that is open was opened with the password in force: changing it,
\* with the password or with a token, ends all sessions, those just opened by a
\* login under way, too (changePassword(), recover(), login()).
CurrentCredential == \A s \in Sessions : state[s] = "open" => born[s] = version

\* A recovery token changes the password at most once, within its life, and
\* never after the password was changed otherwise, whichever file a failed
\* issuance or a crash left behind (issueRecovery(), recover()).
TokenSpentOnce ==
  [][\A k \in Tokens :
       spent'[k] > spent[k] =>
         /\ spent[k] = 0 /\ tokenBorn[k] = version
         /\ \E t \in Threads : arg[t].token = k /\ at[t] < expires]_vars

\* The blocks after the failures up to the n-th.
BlockedFor[n \in Nat] == IF n < Threshold THEN 0 ELSE BlockedFor[n - 1] + Delay(n)

\* Failures are bounded in time, whatever requests arrive at once: a failure that
\* counts comes after the blocks of all failures before it (reject()).
FailuresTakeTime ==
  \A l \in Lanes : failures[l] > 0 => BlockedFor[failures[l] - 1] <= now - start[l]

\* A cleanup never removes the file of a token in force, also when that token was
\* issued after the cleanup had been asked for: it decides and deletes under the
\* lock, as long as its transaction is there (cleanup();
\* docs/implementation/v0.2-b04-authentication.md:33).
CleanupSparesNewFile ==
  [][\A t \in Threads :
       pc[t] = "delete" /\ writer = t /\ file = hash /\ file' # file =>
         hash = None \/ expires <= now]_vars

=============================================================================
