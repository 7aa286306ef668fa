----------------------------- MODULE Bootstrap ------------------------------
(***************************************************************************)
(* The first administrator: apps/api/src/setup/setup.service.ts with the    *)
(* token file of token-file.ts.                                             *)
(*                                                                         *)
(* issue(), register() and cleanup() each lock the row BootstrapState and   *)
(* then read the clock.  issue() replaces the token's file before its       *)
(* transaction commits; register() removes the file after its transaction,  *)
(* without the lock.  A transaction may be lost while its program is still  *)
(* busy with files, a process may crash anywhere.                           *)
(***************************************************************************)
EXTENDS Integers, FiniteSets

CONSTANTS
  Threads,    \* requests, the timer of cleanup() and the issuing command
  Tokens,     \* bootstrap tokens, as random as they are
  TokenLife,  \* BOOTSTRAP_TTL_MS, in ticks (60 min in the code)
  Window,     \* failures this close together count as one series (15 min)
  Threshold,  \* failures that block (10)
  MaxDelay,   \* the longest block (60 s)
  MaxTime,    \* bound: the last tick of the clock
  Allowances, \* bound: how often each of Events happens, one of these
  None        \* no thread or token

Events == {"issue", "register", "fault", "lost", "crash"}
Never == -1

ASSUME BootstrapAssumption ==
  /\ TokenLife \in Nat \ {0} /\ Window \in Nat
  /\ Threshold \in Nat \ {0} /\ MaxDelay \in Nat \ {0} /\ MaxTime \in Nat
  /\ None \notin Threads \cup Tokens
  /\ \A most \in Allowances :
       most \in [Events -> Nat] /\ most["issue"] <= Cardinality(Tokens)

VARIABLES
  now,        \* clock_timestamp()
  closed,     \* initializedAt is set or an administrator exists
  registered, \* how many administrators were created
  hash,       \* the token that BootstrapState.tokenHash is of
  expires,    \* expiresAt
  failures, start, blocked,
  issued,     \* tokens drawn
  file,       \* the token in the file
  temps,      \* tokens in temporary files
  writer,     \* who holds the row FOR UPDATE
  pc, arg, at, \* where each thread stands, the token it works with or presents,
              \* the time it read
  left        \* what is left of the allowance

rowVars == <<closed, registered, hash, expires, failures, start, blocked>>
fileVars == <<file, temps>>
threadVars == <<pc, arg, at>>
vars == <<now, rowVars, issued, fileVars, writer, threadVars, left>>

Spend(e) == left[e] > 0 /\ left' = [left EXCEPT ![e] = @ - 1]
Goto(t, label) == pc' = [pc EXCEPT ![t] = label]
Release(t) == writer' = IF writer = t THEN None ELSE writer
Finish(t) == /\ Goto(t, "idle")
             /\ arg' = [arg EXCEPT ![t] = None] /\ at' = [at EXCEPT ![t] = 0]
End(t) == Release(t) /\ Finish(t)

Init ==
  /\ now = 0
  /\ closed = FALSE /\ registered = 0
  /\ hash = None /\ expires = Never
  /\ failures = 0 /\ start = Never /\ blocked = Never
  /\ issued = {} /\ file = None /\ temps = {}
  /\ writer = None
  /\ pc = [t \in Threads |-> "idle"]
  /\ arg = [t \in Threads |-> None]
  /\ at = [t \in Threads |-> 0]
  /\ left \in Allowances

-----------------------------------------------------------------------------
(* issue(): the row, the file, the commit                                   *)

Closed == closed

\* A closed installation, or another workspace, refuses without effect.
IssueUpdate(t) ==
  /\ pc[t] = "idle" /\ writer = None /\ ~Closed /\ Spend("issue")
  /\ writer' = t
  /\ \E k \in Tokens \ issued :
       issued' = issued \cup {k} /\ arg' = [arg EXCEPT ![t] = k]
  /\ at' = [at EXCEPT ![t] = now]
  /\ Goto(t, "temporary")
  /\ UNCHANGED <<now, rowVars, fileVars>>

WriteTemporary(t) ==
  /\ pc[t] = "temporary"
  /\ temps' = temps \cup {arg[t]}
  /\ Goto(t, "rename")
  /\ UNCHANGED <<now, rowVars, issued, file, writer, arg, at, left>>

Rename(t) ==
  /\ pc[t] = "rename"
  /\ temps' = temps \ {arg[t]}
  /\ IF arg[t] \in temps
     THEN file' = arg[t] /\ Goto(t, "commit") /\ UNCHANGED <<writer, arg, at>>
     ELSE End(t) /\ UNCHANGED file
  /\ UNCHANGED <<now, rowVars, issued, left>>

\* A new token, and a fresh start for whoever was blocked.
IssueCommit(t) ==
  /\ pc[t] = "commit"
  /\ IF writer = t
     THEN /\ hash' = arg[t] /\ expires' = at[t] + TokenLife
          /\ failures' = 0 /\ start' = Never /\ blocked' = Never
     ELSE UNCHANGED <<hash, expires, failures, start, blocked>>
  /\ End(t)
  /\ UNCHANGED <<now, closed, registered, issued, fileVars, left>>

-----------------------------------------------------------------------------
(* register(): one transaction, and the file afterwards                     *)

Delay(n) == LET d == 2 ^ (IF n - Threshold < 6 THEN n - Threshold ELSE 6)
            IN IF d < MaxDelay THEN d ELSE MaxDelay

BlockForLast(n) == IF n = Threshold THEN now + Delay(n) ELSE Never  \* mutant
Block(n) == IF n >= Threshold THEN now + Delay(n) ELSE Never

\* A wrong token or a wrong field counts; the window starts with the first.
Reject ==
  LET inWindow == start # Never /\ now - start < Window
      n == IF inWindow THEN failures + 1 ELSE 1
  IN
  /\ failures' = n
  /\ start' = IF inWindow THEN start ELSE now
  /\ blocked' = Block(n)

MatchesAnyIssued(k) == k \in issued  \* mutant: a token once drawn will do
Matches(k) == k # None /\ k = hash /\ expires > now

\* A request presents a token somebody has seen, or a guess; it then waits for the
\* row, and other issuances and registrations may come before it.
Present(t, k) ==
  /\ pc[t] = "idle" /\ Spend("register")
  /\ arg' = [arg EXCEPT ![t] = k]
  /\ Goto(t, "register")
  /\ UNCHANGED <<now, rowVars, issued, fileVars, writer, at>>

\* With the row locked: closed, throttled, refused, or registered; closed and
\* registered go on to remove the file.
Register(t, validFields) ==
  LET k == arg[t] IN
  /\ pc[t] = "register" /\ writer = None
  /\ \/ /\ Closed /\ Goto(t, "delete")
        /\ UNCHANGED <<rowVars, arg, at>>
     \/ /\ ~Closed /\ blocked > now /\ Finish(t)
        /\ UNCHANGED rowVars
     \/ /\ ~Closed /\ blocked <= now /\ ~(Matches(k) /\ validFields)
        /\ Reject /\ Finish(t) /\ UNCHANGED <<closed, registered, hash, expires>>
     \/ /\ ~Closed /\ blocked <= now /\ Matches(k) /\ validFields
        /\ closed' = TRUE /\ registered' = registered + 1 /\ hash' = None
        /\ Goto(t, "delete")
        /\ UNCHANGED <<expires, failures, start, blocked, arg, at>>
  /\ UNCHANGED <<now, issued, fileVars, writer, left>>

DeleteAfter(t) ==
  /\ pc[t] = "delete"
  /\ file' = None
  /\ Finish(t)
  /\ UNCHANGED <<now, rowVars, issued, temps, writer, left>>

-----------------------------------------------------------------------------
(* cleanup(): at the start of the process and every 60 seconds              *)

OutdatedIfNone(t) == hash = None  \* mutant: an expired token keeps its file
OutdatedOf(t) == hash = None \/ expires <= at[t] \/ Closed

\* (A round that has nothing to remove changes nothing and is left out.)
EnterCleanup(t) ==
  /\ pc[t] = "idle" /\ writer = None /\ (file # None \/ temps # {} \/ hash # None)
  /\ writer' = t
  /\ at' = [at EXCEPT ![t] = now]
  /\ Goto(t, "sweep")
  /\ UNCHANGED <<now, rowVars, issued, fileVars, arg, left>>

\* The temporary files first; the row is read, and a token in it cleared, only
\* by a transaction that is still there.
Sweep(t) ==
  /\ pc[t] = "sweep"
  /\ temps' = {}
  /\ IF writer = t /\ OutdatedOf(t)
     THEN Goto(t, "remove") /\ UNCHANGED <<writer, arg, at>>
     ELSE End(t)
  /\ UNCHANGED <<now, rowVars, issued, file, left>>

Remove(t) ==
  /\ pc[t] = "remove"
  /\ file' = None
  /\ hash' = IF writer = t THEN None ELSE hash
  /\ End(t)
  /\ UNCHANGED <<now, closed, registered, expires, failures, start, blocked, issued, temps, left>>

-----------------------------------------------------------------------------
\* A statement or a file operation fails: the transaction is undone, and the
\* temporary file removed; a failed removal after register() is a warning.
Fail(t) ==
  /\ pc[t] # "idle" /\ Spend("fault")
  /\ temps' = IF pc[t] = "rename" THEN temps \ {arg[t]} ELSE temps
  /\ End(t)
  /\ UNCHANGED <<now, rowVars, issued, file>>

Lose(t) ==
  /\ writer = t /\ Spend("lost")
  /\ Release(t)
  /\ UNCHANGED <<now, rowVars, issued, fileVars, threadVars>>

Crash(t) ==
  /\ pc[t] # "idle" /\ Spend("crash")
  /\ End(t)
  /\ UNCHANGED <<now, rowVars, issued, fileVars>>

Tick ==
  /\ now < MaxTime /\ now' = now + 1
  /\ UNCHANGED <<rowVars, issued, fileVars, writer, threadVars, left>>

Call(t) ==
  \/ IssueUpdate(t) /\ now + TokenLife <= MaxTime
  \/ \E k \in issued \cup {None} : Present(t, k)

Step(t) == \/ WriteTemporary(t) \/ Rename(t) \/ IssueCommit(t)
           \/ \E valid \in BOOLEAN : Register(t, valid)
           \/ DeleteAfter(t) \/ Sweep(t) \/ Remove(t)

Act == \E t \in Threads : \/ Call(t) \/ Step(t) \/ EnterCleanup(t)
                          \/ Fail(t) \/ Lose(t) \/ Crash(t)
Next == Act \/ Tick

Spec == Init /\ [][Next]_vars

\* The programs go on, the timer rings, and time passes.
Fairness ==
  /\ \A t \in Threads : WF_vars(Step(t))
  /\ WF_vars(\E t \in Threads : EnterCleanup(t))
  /\ WF_vars(Tick)
FairSpec == Spec /\ Fairness

-----------------------------------------------------------------------------
Labels == {"idle", "temporary", "rename", "commit", "register", "delete", "sweep", "remove"}
Issuing == {"temporary", "rename", "commit"}

\* Types (blocked is only compared); who holds the row is inside an issuance or
\* a cleanup, and an issuance has a token (issue(), cleanup()).
RowTypes ==
  /\ closed \in BOOLEAN /\ registered \in Nat
  /\ hash \in Tokens \cup {None} /\ expires \in Int
  /\ failures \in Nat /\ start \in Int
FileTypes ==
  issued \subseteq Tokens /\ file \in Tokens \cup {None} /\ temps \subseteq Tokens
ThreadTypes ==
  /\ pc \in [Threads -> Labels]
  /\ arg \in [Threads -> Tokens \cup {None}] /\ at \in [Threads -> Nat]
  /\ \A t \in Threads : pc[t] \in Issuing => arg[t] \in Tokens
  /\ writer # None => writer \in Threads /\ pc[writer] \in Issuing \cup {"sweep", "remove"}

TypeOK == now \in Nat /\ RowTypes /\ FileTypes /\ ThreadTypes

\* One administrator is ever created, by the request that presents the very token
\* in force, which nobody can use again: not with what failed, lost or repeated
\* issuances have left in the file, nor with a token replaced while the request
\* waited for the row (register(), issue()).
OneRegistration ==
  [][registered' # registered =>
       /\ registered = 0 /\ registered' = 1
       /\ expires > now /\ hash' = None
       /\ \E t \in Threads : /\ pc[t] = "register" /\ pc'[t] = "delete"
                             /\ arg[t] = hash /\ arg[t] \in Tokens]_vars

\* The blocks after the failures up to the n-th.
BlockedFor[n \in Nat] == IF n < Threshold THEN 0 ELSE BlockedFor[n - 1] + Delay(n)

\* Guesses are bounded in time, from however many clients they come: a failure
\* comes after the blocks of all failures of its window before it.
GuessesTakeTime == failures > 0 => BlockedFor[failures - 1] <= now - start

\* What a failed issuance, a crash, a spent or an expired token leaves in the
\* directory is removed in the end.
SetupFilesRemoved ==
  \A k \in Tokens :
    /\ (file = k /\ hash # k) ~> (file # k \/ hash = k)
    /\ (file = k /\ expires <= now) ~> (file # k \/ expires > now)
    /\ k \in temps ~> k \notin temps
=============================================================================
