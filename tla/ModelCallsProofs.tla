-------------------------- MODULE ModelCallsProofs --------------------------
(***************************************************************************)
(* Safety of paid calls for any callers, requests, prices and time limits:  *)
(* what the books say of a single call, what an admission relies on, what   *)
(* the calls of a month cost together, and that run() is a ledger.          *)
(***************************************************************************)
EXTENDS ModelCalls, FiniteSetTheorems, WellFoundedInduction, TLAPS

\* The caller has a committed row of its own to finish.
Owns(c) == pc[c] \in {"dispatch", "waiting", "mark", "settle"}

Closed == {"not_sent", "succeeded", "incomplete"}

\* What an open admission relies on does not change under it.
TxSound ==
  /\ clock <= now
  /\ lock = NoOne => swept = {}
  /\ \A q \in swept : status[q] = "dispatching" /\ Deadline(q) <= clock
  /\ \A c \in Callers : pc[c] \in {"charged", "held"} =>
       /\ status[req[c]] = "absent" /\ Sendable(req[c]) /\ session # "revoked"
       /\ KindOf(req[c]) = "answer" =>
            \A q \in Answers : status[q] = "dispatching" => Deadline(q) <= clock

\* A committed row has one caller at most, which alone closes it; before its
\* deadline it is seen as under way.
CallsSound ==
  /\ \A c \in Callers : Owns(c) =>
       /\ charged[req[c]] = Null /\ status[req[c]] \in {"dispatching", "unknown"}
       /\ pc[c] = "dispatch" => sent[req[c]] = 0
       /\ pc[c] # "dispatch" => sent[req[c]] = 1
       /\ pc[c] = "settle" => bill[req[c]] <= Reserved(req[c])
       /\ now < Deadline(req[c]) => status[req[c]] = "dispatching"
  /\ \A c, d \in Callers : Owns(c) /\ Owns(d) /\ req[c] = req[d] => c = d

\* The books.
RowsSound ==
  \A q \in Requests :
    /\ sent[q] <= 1 /\ (sent[q] = 0 => bill[q] = 0)
    /\ status[q] = "absent" => sent[q] = 0
    /\ status[q] = "not_sent" => sent[q] = 0
    /\ charged[q] # Null <=> status[q] \in Closed
    /\ charged[q] # Null => charged[q] = bill[q] /\ charged[q] <= Reserved(q)

IndInv == TypeOK /\ TxSound /\ CallsSound /\ RowsSound

\* Reservations are natural numbers.
LEMMA ReservedType == ASSUME NEW q \in Requests PROVE Reserved(q) \in Nat
BY CallsAssumption DEF Reserved, KindOf, Kinds

\* A caller that returns leaves the others where they are.
LEMMA Returned ==
  ASSUME TypeOK, NEW c \in Callers, Return(c)
  PROVE  /\ pc' \in [Callers -> Labels] /\ req' \in [Callers -> Requests \cup {NoRequest}]
         /\ aborted' \in [Callers -> BOOLEAN]
         /\ pc'[c] = "idle" /\ req'[c] = NoRequest
         /\ \A d \in Callers : d # c => pc'[d] = pc[d] /\ req'[d] = req[d]
         /\ \A d \in Callers : req'[d] = NoRequest <=> pc'[d] = "idle"
<1>1. pc' \in [Callers -> Labels] /\ pc'[c] = "idle" /\ \A d \in Callers : d # c => pc'[d] = pc[d]
  BY DEF TypeOK, Return, Goto, Labels
<1>2. /\ req' \in [Callers -> Requests \cup {NoRequest}]
      /\ req'[c] = NoRequest /\ \A d \in Callers : d # c => req'[d] = req[d]
  BY DEF TypeOK, Return
<1>3. aborted' \in [Callers -> BOOLEAN]
  BY DEF TypeOK, Return
<1> QED
  BY <1>1, <1>2, <1>3 DEF TypeOK

LEMMA InitHolds == Init => IndInv
<1> SUFFICES ASSUME Init PROVE IndInv
  OBVIOUS
<1>1. TypeOK
  BY CallsAssumption, AllowancesAssumption DEF Init, TypeOK, Statuses, Labels, NoBudget
<1>2. TxSound
  BY DEF Init, TxSound
<1>3. CallsSound
  BY DEF Init, CallsSound, Owns
<1>4. RowsSound
  BY CallsAssumption DEF Init, RowsSound, Closed
<1> QED
  BY <1>1, <1>2, <1>3, <1>4 DEF IndInv

LEMMA BeginHolds == ASSUME NEW c \in Callers, NEW q \in Requests, IndInv, Begin(c, q) PROVE IndInv'
<1> USE CallsAssumption DEF Begin, Goto, adminVars, rowVars, providerVars, txVars, IndInv,
        TypeOK
<1>1. TypeOK'
  BY DEF Labels
<1>2. TxSound'
  BY DEF TxSound, Answers, Rows, Deadline, Sendable
<1>3. CallsSound'
  BY DEF CallsSound, Owns, Deadline
<1>4. RowsSound'
  BY DEF RowsSound
<1> QED
  BY <1>1, <1>2, <1>3, <1>4

LEMMA PreflightHolds == ASSUME NEW c \in Callers, IndInv, Preflight(c) PROVE IndInv'
<1> USE Returned DEF Preflight, Goto, adminVars, rowVars, providerVars, txVars, IndInv, TypeOK
<1>1. TypeOK'
  BY DEF Labels
<1>2. TxSound'
  BY DEF TxSound, Answers, Rows, Deadline, Sendable
<1>3. CallsSound'
  BY DEF CallsSound, Owns, Deadline
<1>4. RowsSound'
  BY DEF RowsSound
<1> QED
  BY <1>1, <1>2, <1>3, <1>4

LEMMA ReadMasterKeyHolds == ASSUME NEW c \in Callers, IndInv, ReadMasterKey(c) PROVE IndInv'
<1> USE Returned DEF ReadMasterKey, Goto, Spend, adminVars, rowVars, providerVars, txVars,
        IndInv, TypeOK
<1>1. TypeOK'
  BY DEF Labels
<1>2. TxSound'
  BY DEF TxSound, Answers, Rows, Deadline, Sendable
<1>3. CallsSound'
  BY DEF CallsSound, Owns, Deadline
<1>4. RowsSound'
  BY DEF RowsSound
<1> QED
  BY <1>1, <1>2, <1>3, <1>4

LEMMA AdmitHolds == ASSUME NEW c \in Callers, IndInv, Admit(c) PROVE IndInv'
<1> USE CallsAssumption, Returned DEF Admit, Goto, Sweep, MayLock, MayAdmit, Overdue, Busy,
        Rows, adminVars, providerVars, txVars, IndInv, TypeOK
<1>1. TypeOK'
  BY DEF Statuses, Labels
<1>2. TxSound'
  BY DEF TxSound, Answers, Deadline, Sendable
<1>3. CallsSound'
  BY DEF CallsSound, Owns, Deadline
<1>4. RowsSound'
  BY DEF RowsSound, Closed
<1> QED
  BY <1>1, <1>2, <1>3, <1>4

LEMMA ReadChargedHolds == ASSUME NEW c \in Callers, IndInv, ReadCharged(c) PROVE IndInv'
<1> USE DEF ReadCharged, Goto, adminVars, rowVars, providerVars, IndInv, TypeOK
<1>1. TypeOK'
  BY DEF Labels
<1>2. TxSound'
  BY DEF TxSound, Answers, Rows, Deadline, Sendable
<1>3. CallsSound'
  BY DEF CallsSound, Owns, Deadline
<1>4. RowsSound'
  BY DEF RowsSound
<1> QED
  BY <1>1, <1>2, <1>3, <1>4

LEMMA ReserveHolds == ASSUME NEW c \in Callers, IndInv, Reserve(c) PROVE IndInv'
<1> USE CallsAssumption, Returned DEF Reserve, Goto, Release, adminVars, rowVars, providerVars,
        IndInv, TypeOK
<1>1. TypeOK'
  BY DEF Statuses, Labels
<1>2. TxSound'
  BY DEF TxSound
<1> DEFINE Granted == seen + Held + Reserved(req[c]) <= limit /\ session = "valid"
<1>3. CallsSound'
  <2>1. CASE ~Granted
    <3>1. Return(c) /\ UNCHANGED rowVars /\ UNCHANGED providerVars /\ UNCHANGED now
      BY <2>1
    <3>2. ASSUME NEW d \in Callers, Owns(d)'
          PROVE  d # c /\ Owns(d) /\ pc'[d] = pc[d] /\ req'[d] = req[d] /\ req[d] \in Requests
      BY <3>1, <3>2 DEF Owns
    <3> HIDE DEF Granted, Reserve, TypeOK
    <3> QED
      BY <3>1, <3>2 DEF CallsSound, Deadline
  <2>2. CASE Granted
    <3>0. status' = [p \in Requests |->
                      CASE p = req[c] -> "dispatching" [] p \in swept -> "unknown" [] OTHER -> status[p]]
      BY <2>2
    <3>1. /\ req[c] \in Requests \ swept /\ status[req[c]] = "absent" /\ req' = req
          /\ pc' = [pc EXCEPT ![c] = "dispatch"] /\ charged' = charged
          /\ sent[req[c]] = 0 /\ charged[req[c]] = Null
      BY <2>2 DEF TxSound, RowsSound, Closed
    <3>2. ASSUME NEW d \in Callers, Owns(d)', d # c
          PROVE  /\ Owns(d) /\ pc'[d] = pc[d] /\ req[d] \in Requests /\ req[d] # req[c]
                 /\ status'[req[d]] = IF req[d] \in swept THEN "unknown" ELSE status[req[d]]
      <4>1. Owns(d) /\ pc'[d] = pc[d] /\ req[d] \in Requests
        BY <3>1, <3>2 DEF Owns
      <4>2. req[d] # req[c]
        BY <3>1, <4>1 DEF CallsSound
      <4> QED
        BY <3>0, <4>1, <4>2
    <3>3. status'[req[c]] = "dispatching"
      BY <3>0, <3>1
    <3>4. ASSUME NEW d \in Callers, Owns(d)'
          PROVE  /\ charged'[req'[d]] = Null /\ status'[req'[d]] \in {"dispatching", "unknown"}
                 /\ (pc'[d] = "dispatch" => sent'[req'[d]] = 0) /\ (pc'[d] # "dispatch" => sent'[req'[d]] = 1)
                 /\ pc'[d] = "settle" => bill'[req'[d]] <= Reserved(req'[d])
                 /\ now' < Deadline(req[d])' => status'[req'[d]] = "dispatching"
      BY <2>2, <3>1, <3>2, <3>3, <3>4 DEF CallsSound, TxSound, Deadline
    <3> QED
      BY <3>1, <3>2, <3>4 DEF CallsSound
  <2> QED
    BY <2>1, <2>2
<1>4. RowsSound'
  BY DEF RowsSound, TxSound, Closed
<1> QED
  BY <1>1, <1>2, <1>3, <1>4

LEMMA AdmissionFailsHolds == ASSUME NEW c \in Callers, IndInv, AdmissionFails(c) PROVE IndInv'
<1> USE CallsAssumption, Returned DEF AdmissionFails, Release, Spend, adminVars, rowVars,
        providerVars, IndInv, TypeOK
<1>1. TypeOK'
  BY DEF Events
<1>2. TxSound'
  BY DEF TxSound
<1>3. CallsSound'
  BY DEF CallsSound, Owns, Deadline
<1>4. RowsSound'
  BY DEF RowsSound
<1> QED
  BY <1>1, <1>2, <1>3, <1>4

LEMMA NotSentHolds == ASSUME NEW c \in Callers, IndInv, NotSent(c) PROVE IndInv'
<1> USE CallsAssumption, ReservedType DEF NotSent, adminVars, providerVars, txVars
<1>0. /\ Return(c) /\ Owns(c) /\ req[c] \in Requests /\ req[c] \notin swept
      /\ TypeOK /\ TxSound /\ CallsSound /\ RowsSound
  BY DEF Owns, IndInv, TypeOK
<1>r. /\ status' = [status EXCEPT ![req[c]] = "not_sent"]
      /\ \A p \in Requests : p # req[c] => status'[p] = status[p]
  BY <1>0
<1>1. TypeOK'
  BY <1>0, Returned DEF TypeOK, Statuses
<1>2. TxSound'
  <2>1. clock' <= now' /\ (lock' = NoOne => swept' = {})
    BY <1>0 DEF TxSound
  <2>2. \A q \in swept' : status'[q] = "dispatching" /\ Deadline(q)' <= clock'
    BY <1>0, <1>r DEF TxSound, Deadline
  <2>3. ASSUME NEW d \in Callers, pc'[d] \in {"charged", "held"}
        PROVE  d # c /\ pc[d] \in {"charged", "held"} /\ req'[d] = req[d] /\ req[d] \in Requests
    BY <1>0, <2>3, Returned
  <2>4. ASSUME NEW d \in Callers, pc'[d] \in {"charged", "held"}
        PROVE  status'[req'[d]] = "absent" /\ Sendable(req[d])' /\ session' # "revoked"
    <3>1. status[req[d]] = "absent" /\ Sendable(req[d]) /\ session # "revoked"
      BY <1>0, <2>3, <2>4 DEF TxSound
    <3>2. req[d] # req[c]
      BY <1>0, <3>1 DEF CallsSound
    <3> QED
      BY <1>0, <1>r, <2>3, <2>4, <3>1, <3>2 DEF Sendable
  <2>5. ASSUME NEW d \in Callers, pc'[d] \in {"charged", "held"}, KindOf(req'[d]) = "answer",
               NEW q \in Answers', status'[q] = "dispatching"
        PROVE  Deadline(q)' <= clock'
    <3>1. q \in Answers /\ status[q] = "dispatching"
      BY <1>r, <1>0, <2>5 DEF Answers, Rows
    <3> QED
      BY <1>0, <2>3, <2>5, <3>1 DEF TxSound, Deadline
  <2>6. ASSUME NEW d \in Callers, pc'[d] \in {"charged", "held"}
        PROVE  KindOf(req'[d]) = "answer" => \A q \in Answers' : status'[q] = "dispatching" => Deadline(q)' <= clock'
    BY <2>5, <2>6
  <2> HIDE DEF NotSent, adminVars, rowVars, providerVars, callerVars, txVars
  <2> QED
    BY <2>1, <2>2, <2>4, <2>6 DEF TxSound
<1>3. CallsSound'
  <2>1. ASSUME NEW d \in Callers, Owns(d)'
        PROVE  /\ d # c /\ Owns(d) /\ pc'[d] = pc[d] /\ req'[d] = req[d]
               /\ req[d] \in Requests /\ req[d] # req[c]
    BY <1>0, <2>1, Returned DEF CallsSound, Owns
  <2>2. ASSUME NEW d \in Callers, Owns(d)'
        PROVE  /\ charged'[req'[d]] = Null /\ status'[req'[d]] \in {"dispatching", "unknown"}
               /\ (pc'[d] = "dispatch" => sent'[req'[d]] = 0) /\ (pc'[d] # "dispatch" => sent'[req'[d]] = 1)
               /\ pc'[d] = "settle" => bill'[req'[d]] <= Reserved(req'[d])
               /\ now' < Deadline(req[d])' => status'[req'[d]] = "dispatching"
    BY <1>0, <1>r, <2>1, <2>2 DEF CallsSound, Deadline
  <2> QED
    BY <1>0, <2>1, <2>2 DEF CallsSound
<1>4. RowsSound'
  BY <1>0, <1>r DEF RowsSound, CallsSound, Closed, TypeOK
<1> QED
  BY <1>1, <1>2, <1>3, <1>4 DEF IndInv

LEMMA TransmitHolds == ASSUME NEW c \in Callers, IndInv, Transmit(c) PROVE IndInv'
<1> USE CallsAssumption DEF Transmit, Goto, adminVars, rowVars, txVars, IndInv, TypeOK
<1>1. TypeOK'
  BY DEF Labels
<1>2. TxSound'
  BY DEF TxSound, Answers, Rows, Deadline, Sendable
<1>3. CallsSound'
  BY DEF CallsSound, Owns, Deadline
<1>4. RowsSound'
  BY DEF RowsSound, CallsSound, Owns
<1> QED
  BY <1>1, <1>2, <1>3, <1>4

LEMMA AnswerHolds == ASSUME NEW c \in Callers, IndInv, Answer(c) PROVE IndInv'
<1> USE DEF Answer, Admitted, Goto, adminVars, rowVars, providerVars, txVars, IndInv, TypeOK
<1>1. TypeOK'
  BY DEF Labels
<1>2. TxSound'
  BY DEF TxSound, Answers, Rows, Deadline, Sendable
<1>3. CallsSound'
  BY DEF CallsSound, Owns, Deadline
<1>4. RowsSound'
  BY DEF RowsSound
<1> QED
  BY <1>1, <1>2, <1>3, <1>4

LEMMA NoAnswerHolds == ASSUME NEW c \in Callers, IndInv, NoAnswer(c) PROVE IndInv'
<1> USE DEF NoAnswer, Goto, adminVars, rowVars, providerVars, txVars, IndInv, TypeOK
<1>1. TypeOK'
  BY DEF Labels
<1>2. TxSound'
  BY DEF TxSound, Answers, Rows, Deadline, Sendable
<1>3. CallsSound'
  BY DEF CallsSound, Owns, Deadline
<1>4. RowsSound'
  BY DEF RowsSound
<1> QED
  BY <1>1, <1>2, <1>3, <1>4

LEMMA MarkUnknownHolds == ASSUME NEW c \in Callers, IndInv, MarkUnknown(c) PROVE IndInv'
<1> USE Returned DEF MarkUnknown, Spend, adminVars, providerVars, txVars, IndInv, TypeOK
<1>1. TypeOK'
  BY DEF Statuses
<1>2. TxSound'
  BY DEF TxSound, Answers, Rows, Deadline, Sendable
<1>3. CallsSound'
  BY DEF CallsSound, Owns, Deadline
<1>4. RowsSound'
  BY DEF RowsSound, Closed
<1> QED
  BY <1>1, <1>2, <1>3, <1>4

LEMMA SettleHolds == ASSUME NEW c \in Callers, IndInv, Settle(c) PROVE IndInv'
<1> USE CallsAssumption, Returned DEF Settle, MaySettle, Spend, adminVars, providerVars,
        txVars, IndInv, TypeOK
<1>1. TypeOK'
  BY DEF Statuses, Events
<1>2. TxSound'
  BY DEF TxSound
<1>3. CallsSound'
  <2>1. ASSUME NEW d \in Callers, Owns(d)'
        PROVE  /\ d # c /\ Owns(d) /\ pc'[d] = pc[d] /\ req'[d] = req[d]
               /\ req[d] \in Requests /\ req[d] # req[c]
    BY <2>1 DEF CallsSound, Owns
  <2>2. ASSUME NEW d \in Callers, Owns(d)'
        PROVE  /\ charged'[req'[d]] = Null /\ status'[req'[d]] \in {"dispatching", "unknown"}
               /\ (pc'[d] = "dispatch" => sent'[req'[d]] = 0) /\ (pc'[d] # "dispatch" => sent'[req'[d]] = 1)
               /\ pc'[d] = "settle" => bill'[req'[d]] <= Reserved(req'[d])
               /\ now' < Deadline(req[d])' => status'[req'[d]] = "dispatching"
    BY <2>1, <2>2 DEF CallsSound, Deadline
  <2> QED
    BY <2>1, <2>2 DEF CallsSound
<1>4. RowsSound'
  BY DEF RowsSound, CallsSound, Owns, Closed
<1> QED
  BY <1>1, <1>2, <1>3, <1>4

LEMMA CrashHolds == ASSUME NEW c \in Callers, IndInv, Crash(c) PROVE IndInv'
<1> USE CallsAssumption, Returned DEF Crash, Release, Spend, adminVars, rowVars, providerVars,
        txVars, IndInv, TypeOK
<1>1. TypeOK'
  BY DEF Events
<1>2. TxSound'
  BY DEF TxSound, Answers, Rows, Deadline, Sendable
<1>3. CallsSound'
  <2>1. ASSUME NEW d \in Callers, Owns(d)'
        PROVE  /\ d # c /\ Owns(d) /\ pc'[d] = pc[d] /\ req'[d] = req[d]
               /\ req[d] \in Requests
    BY <2>1 DEF Owns
  <2>2. ASSUME NEW d \in Callers, Owns(d)'
        PROVE  /\ charged'[req'[d]] = Null /\ status'[req'[d]] \in {"dispatching", "unknown"}
               /\ (pc'[d] = "dispatch" => sent'[req'[d]] = 0) /\ (pc'[d] # "dispatch" => sent'[req'[d]] = 1)
               /\ pc'[d] = "settle" => bill'[req'[d]] <= Reserved(req'[d])
               /\ now' < Deadline(req[d])' => status'[req'[d]] = "dispatching"
    BY <2>1, <2>2 DEF CallsSound, Deadline
  <2> QED
    BY <2>1, <2>2 DEF CallsSound
<1>4. RowsSound'
  BY DEF RowsSound
<1> QED
  BY <1>1, <1>2, <1>3, <1>4

LEMMA CancelHolds == ASSUME NEW c \in Callers, IndInv, Cancel(c) PROVE IndInv'
<1> USE DEF Cancel, Spend, adminVars, rowVars, providerVars, txVars, IndInv, TypeOK
<1>1. TypeOK'
  BY DEF Events
<1>2. TxSound'
  BY DEF TxSound, Answers, Rows, Deadline, Sendable
<1>3. CallsSound'
  BY DEF CallsSound, Owns, Deadline
<1>4. RowsSound'
  BY DEF RowsSound
<1> QED
  BY <1>1, <1>2, <1>3, <1>4

\* The administrator's steps wait for an open admission, except that a session
\* may expire and time goes on.
LEMMA ConfigureHolds == ASSUME NEW l \in Limits \cup {NoBudget}, IndInv, Configure(l) PROVE IndInv'
<1> USE CallsAssumption DEF Configure, Exclusive, Spend, rowVars, providerVars, callerVars, txVars, IndInv
<1>1. TypeOK'
  BY DEF TypeOK, Events
<1>2. TxSound'
  BY DEF TypeOK, TxSound, Answers, Rows, Deadline
<1>3. CallsSound' /\ RowsSound'
  BY DEF CallsSound, RowsSound, Owns, Deadline
<1> QED
  BY <1>1, <1>2, <1>3

LEMMA SetCredentialHolds ==
  ASSUME NEW k \in Kinds, NEW on \in BOOLEAN, IndInv, SetCredential(k, on) PROVE IndInv'
<1> USE CallsAssumption DEF SetCredential, Exclusive, Spend, rowVars, providerVars, callerVars, txVars, IndInv
<1>1. TypeOK'
  BY DEF TypeOK, Events
<1>2. TxSound'
  BY DEF TypeOK, TxSound, Answers, Rows, Deadline
<1>3. CallsSound' /\ RowsSound'
  BY DEF CallsSound, RowsSound, Owns, Deadline
<1> QED
  BY <1>1, <1>2, <1>3

LEMMA SetTransfersHolds ==
  ASSUME NEW flags \in [Flags -> BOOLEAN], IndInv, SetTransfers(flags) PROVE IndInv'
<1> USE CallsAssumption DEF SetTransfers, Exclusive, Spend, rowVars, providerVars, callerVars, txVars, IndInv
<1>1. TypeOK'
  BY DEF TypeOK, Events
<1>2. TxSound'
  BY DEF TypeOK, TxSound, Answers, Rows, Deadline
<1>3. CallsSound' /\ RowsSound'
  BY DEF CallsSound, RowsSound, Owns, Deadline
<1> QED
  BY <1>1, <1>2, <1>3

LEMMA LogoutHolds == ASSUME IndInv, Logout PROVE IndInv'
<1> USE CallsAssumption DEF Logout, Exclusive, Spend, rowVars, providerVars, callerVars, txVars, IndInv
<1>1. TypeOK'
  BY DEF TypeOK, Events
<1>2. TxSound'
  BY DEF TypeOK, TxSound, Answers, Rows, Deadline
<1>3. CallsSound' /\ RowsSound'
  BY DEF CallsSound, RowsSound, Owns, Deadline
<1> QED
  BY <1>1, <1>2, <1>3

LEMMA ExpireHolds == ASSUME IndInv, Expire PROVE IndInv'
<1> USE DEF Expire, Spend, rowVars, providerVars, callerVars, txVars, IndInv
<1>1. TypeOK'
  BY DEF TypeOK, Events
<1>2. TxSound'
  BY DEF TxSound, Answers, Rows, Deadline, Sendable
<1>3. CallsSound' /\ RowsSound'
  BY DEF CallsSound, RowsSound, Owns, Deadline
<1> QED
  BY <1>1, <1>2, <1>3

LEMMA TickHolds == ASSUME IndInv, Tick PROVE IndInv'
<1> USE CallsAssumption DEF Tick, adminVars, rowVars, providerVars, callerVars, txVars, IndInv
<1>1. TypeOK'
  BY DEF TypeOK
<1>2. TxSound'
  BY DEF TypeOK, TxSound, Answers, Rows, Deadline, Sendable
<1>3. CallsSound'
  <2>1. ASSUME NEW c \in Callers, Owns(c), now' < Deadline(req[c])' PROVE now < Deadline(req[c])
    BY <2>1, CallsAssumption DEF TypeOK, Deadline, Owns, Labels
  <2> QED
    BY <2>1 DEF CallsSound, Owns, Deadline
<1>4. RowsSound'
  BY DEF RowsSound
<1> QED
  BY <1>1, <1>2, <1>3, <1>4

LEMMA StutterHolds == ASSUME IndInv, UNCHANGED vars PROVE IndInv'
<1> USE DEF vars, adminVars, rowVars, providerVars, callerVars, txVars, IndInv
<1>1. TypeOK'
  BY DEF TypeOK
<1>2. TxSound'
  BY DEF TxSound, Answers, Rows, Deadline, Sendable
<1>3. CallsSound' /\ RowsSound'
  BY DEF CallsSound, RowsSound, Owns, Deadline
<1> QED
  BY <1>1, <1>2, <1>3

LEMMA NextHolds == IndInv /\ [Next]_vars => IndInv'
<1> SUFFICES ASSUME IndInv, [Next]_vars PROVE IndInv'
  OBVIOUS
<1>1. ASSUME NEW c \in Callers, NEW q \in Requests, Begin(c, q) PROVE IndInv'
  BY <1>1, BeginHolds
<1>2. ASSUME NEW c \in Callers, CallerStep(c) PROVE IndInv'
  BY <1>2, PreflightHolds, ReadMasterKeyHolds, AdmitHolds, ReadChargedHolds, ReserveHolds,
     AdmissionFailsHolds, NotSentHolds, TransmitHolds, AnswerHolds, NoAnswerHolds,
     MarkUnknownHolds, SettleHolds DEF CallerStep
<1>3. ASSUME NEW c \in Callers, Crash(c) \/ Cancel(c) PROVE IndInv'
  BY <1>3, CrashHolds, CancelHolds
<1>4. ASSUME NEW l \in Limits \cup {NoBudget}, Configure(l) PROVE IndInv'
  BY <1>4, ConfigureHolds
<1>5. ASSUME NEW k \in Kinds, NEW on \in BOOLEAN, SetCredential(k, on) PROVE IndInv'
  BY <1>5, SetCredentialHolds
<1>6. ASSUME NEW flags \in [Flags -> BOOLEAN], SetTransfers(flags) PROVE IndInv'
  BY <1>6, SetTransfersHolds
<1>7. CASE Logout \/ Expire \/ Tick \/ UNCHANGED vars
  BY <1>7, LogoutHolds, ExpireHolds, TickHolds, StutterHolds
<1> QED
  BY <1>1, <1>2, <1>3, <1>4, <1>5, <1>6, <1>7 DEF Next

LEMMA Invariant == Spec => []IndInv
BY InitHolds, NextHolds, PTL DEF Spec

\* The types hold, and an admission is open exactly while its caller holds the
\* Installation row: no failure of run() leaves the row locked.
THEOREM CallsTypeCorrect == Spec => []TypeOK
<1>1. IndInv => TypeOK
  BY DEF IndInv
<1> QED
  BY <1>1, Invariant, PTL

\* A request leaves for the provider at most once, whatever is repeated,
\* cancelled, crashed or swept, and its row never denies it.
THEOREM CallsSentOnce == Spec => []SentOnce
<1>1. IndInv => SentOnce
  BY DEF IndInv, SentOnce, RowsSound
<1> QED
  BY <1>1, Invariant, PTL

\* A row with a charge has the provider's price of its call, within what was
\* reserved for it, for any prices and reservations.
THEOREM ChargesAreHonest == Spec => []HonestCharges
<1>1. IndInv => HonestCharges
  BY DEF IndInv, HonestCharges, RowsSound, Rows, Unsettled
<1> QED
  BY <1>1, Invariant, PTL

\* What a step can do to a row: an admission creates it, the sweep and its
\* caller change it while it has no charge, and nothing else touches it.
Untouched(q) ==
  status'[q] = status[q] /\ created'[q] = created[q] /\ charged'[q] = charged[q] /\ sent'[q] = sent[q]
Committed(q) ==
  /\ status[q] = "absent" /\ charged[q] = Null /\ session = "valid" /\ Sendable(q)
  /\ \E c \in Callers : req[c] = q /\ Reserve(c)
Moved(q) ==
  /\ charged[q] = Null /\ status[q] \in {"dispatching", "unknown"}
  /\ status'[q] # "absent" /\ created'[q] = created[q]

LEMMA RowSteps ==
  ASSUME IndInv, [Next]_vars, NEW q \in Requests
  PROVE  Untouched(q) \/ Committed(q) \/ Moved(q)
<1> USE DEF adminVars, rowVars, providerVars, callerVars, txVars, Untouched, Moved
<1>0. TypeOK /\ TxSound /\ CallsSound /\ RowsSound
  BY DEF IndInv
<1>1. ASSUME NEW c \in Callers, NEW p \in Requests, Begin(c, p) PROVE Untouched(q)
  BY <1>1 DEF Begin
<1>2. ASSUME NEW c \in Callers,
             \/ Preflight(c) \/ ReadMasterKey(c) \/ ReadCharged(c) \/ AdmissionFails(c)
             \/ Answer(c) \/ NoAnswer(c) \/ Crash(c) \/ Cancel(c)
      PROVE  Untouched(q)
  BY <1>2 DEF Preflight, ReadMasterKey, ReadCharged, AdmissionFails, Answer, NoAnswer, Crash, Cancel
<1>3. ASSUME NEW c \in Callers, Admit(c) PROVE Untouched(q) \/ Moved(q)
  <2>1. status'[q] = status[q] \/ (status[q] = "dispatching" /\ status'[q] = "unknown")
    BY <1>0, <1>3 DEF Admit, Sweep, Overdue, TypeOK
  <2>2. UNCHANGED <<created, charged, sent>>
    BY <1>3 DEF Admit
  <2> QED
    BY <1>0, <2>1, <2>2 DEF RowsSound, Closed
<1>4. ASSUME NEW c \in Callers, Reserve(c) PROVE Untouched(q) \/ Committed(q) \/ Moved(q)
  <2>1. req[c] \in Requests /\ status[req[c]] = "absent" /\ Sendable(req[c]) /\ pc[c] = "held"
    BY <1>0, <1>4 DEF Reserve, TypeOK, TxSound
  <2>2. charged' = charged /\ sent' = sent
    BY <1>4 DEF Reserve
  <2>3. CASE UNCHANGED rowVars
    BY <2>2, <2>3
  <2>4. CASE ~UNCHANGED rowVars
    <3>1. /\ session = "valid" /\ created' = [created EXCEPT ![req[c]] = clock]
          /\ status' = [p \in Requests |->
               CASE p = req[c] -> "dispatching" [] p \in swept -> "unknown" [] OTHER -> status[p]]
      BY <1>4, <2>4 DEF Reserve
    <3>2. CASE q = req[c]
      BY <1>0, <1>4, <2>1, <3>1, <3>2 DEF Committed, RowsSound, Closed
    <3>3. CASE q # req[c] /\ q \in swept
      BY <1>0, <3>1, <3>3 DEF TxSound, TypeOK, RowsSound, Closed
    <3>4. CASE q # req[c] /\ q \notin swept
      BY <1>0, <2>2, <3>1, <3>4 DEF TypeOK
    <3> QED
      BY <3>2, <3>3, <3>4
  <2> QED
    BY <2>3, <2>4
<1>5. ASSUME NEW c \in Callers, NotSent(c) \/ Transmit(c) \/ MarkUnknown(c) \/ Settle(c)
      PROVE  Untouched(q) \/ Moved(q)
  <2>1. Owns(c) /\ charged[req[c]] = Null /\ status[req[c]] \in {"dispatching", "unknown"}
    BY <1>0, <1>5 DEF NotSent, Transmit, MarkUnknown, Settle, Owns, CallsSound
  <2>2. created' = created
    BY <1>5 DEF NotSent, Transmit, MarkUnknown, Settle
  <2>3. CASE q # req[c]
    BY <1>0, <1>5, <2>3 DEF NotSent, Transmit, MarkUnknown, Settle, TypeOK
  <2>4. CASE q = req[c]
    BY <1>0, <1>5, <2>1, <2>2, <2>4 DEF NotSent, Transmit, MarkUnknown, Settle, TypeOK
  <2> QED
    BY <2>3, <2>4
<1>6. CASE \/ \E l \in Limits \cup {NoBudget} : Configure(l)
           \/ \E k \in Kinds, on \in BOOLEAN : SetCredential(k, on)
           \/ \E flags \in [Flags -> BOOLEAN] : SetTransfers(flags)
           \/ Logout \/ Expire \/ Tick \/ UNCHANGED vars
  BY <1>6 DEF Configure, SetCredential, SetTransfers, Logout, Expire, Tick, vars
<1> QED
  BY <1>1, <1>2, <1>3, <1>4, <1>5, <1>6 DEF Next, CallerStep

\* Whoever has an answer under way had it before, or was just admitted.
LEMMA OnItsWayBefore ==
  ASSUME IndInv, [Next]_vars, NEW d \in Callers, OnItsWay(d)'
  PROVE  OnItsWay(d) \/ Reserve(d)
<1> SUFFICES ASSUME ~Reserve(d) PROVE OnItsWay(d)
  OBVIOUS
<1> USE DEF adminVars, rowVars, providerVars, callerVars, txVars
<1>0. TypeOK /\ TxSound /\ CallsSound /\ RowsSound
  BY DEF IndInv
<1>1. pc[d] \in {"dispatch", "waiting", "settle"} /\ req'[d] = req[d]
  <2>0. pc'[d] \in {"dispatch", "waiting", "settle"}
    BY DEF OnItsWay
  <2>1. ASSUME NEW c \in Callers, c # d, \/ \E q \in Requests : Begin(c, q)
                                         \/ CallerStep(c) \/ Crash(c) \/ Cancel(c)
        PROVE  pc'[d] = pc[d] /\ req'[d] = req[d]
    BY <1>0, <2>1 DEF Begin, CallerStep, Preflight, ReadMasterKey, Admit, ReadCharged, Reserve,
       AdmissionFails, NotSent, Transmit, Answer, NoAnswer, MarkUnknown, Settle, Crash, Cancel,
       Return, Goto, TypeOK
  <2>2. CASE \/ \E q \in Requests : Begin(d, q)
             \/ CallerStep(d) \/ Crash(d) \/ Cancel(d)
    BY <1>0, <2>0, <2>2 DEF Begin, CallerStep, Preflight, ReadMasterKey, Admit, ReadCharged,
       AdmissionFails, NotSent, Transmit, Answer, NoAnswer, MarkUnknown, Settle, Crash, Cancel,
       Return, Goto, TypeOK
  <2>3. CASE \/ \E l \in Limits \cup {NoBudget} : Configure(l)
             \/ \E k \in Kinds, on \in BOOLEAN : SetCredential(k, on)
             \/ \E flags \in [Flags -> BOOLEAN] : SetTransfers(flags)
             \/ Logout \/ Expire \/ Tick \/ UNCHANGED vars
    BY <2>0, <2>3 DEF Configure, SetCredential, SetTransfers, Logout, Expire, Tick, vars
  <2> QED
    BY <2>0, <2>1, <2>2, <2>3 DEF Next
<1>2. req[d] \in Requests /\ status[req[d]] # "absent"
  BY <1>0, <1>1 DEF TypeOK, CallsSound, Owns
<1>3. created'[req[d]] = created[req[d]]
  BY <1>2, RowSteps DEF Untouched, Committed, Moved
<1>4. now <= now'
  <2>1. CASE Tick
    BY <1>0, <2>1 DEF Tick, TypeOK
  <2>2. CASE ~Tick
    <3>1. now' = now
      BY <2>2 DEF Next, vars, Begin, CallerStep, Preflight, ReadMasterKey, Admit, ReadCharged, Reserve,
       AdmissionFails, NotSent, Transmit, Answer, NoAnswer, MarkUnknown, Settle, Crash, Cancel,
       Configure, SetCredential, SetTransfers, Logout, Expire
    <3> QED
      BY <1>0, <3>1 DEF TypeOK
  <2> QED
    BY <2>1, <2>2
<1>5. now' \in Nat /\ now \in Nat /\ created[req[d]] \in Nat
  BY <1>0, <1>2, NextHolds DEF IndInv, TypeOK
<1>6. KindOf(req[d]) = "answer" /\ now' < created[req[d]] + Timeout
  BY <1>1, <1>3 DEF OnItsWay, Deadline
<1> QED
  BY <1>1, <1>4, <1>5, <1>6, CallsAssumption DEF OnItsWay, Deadline

\* Until its deadline passes no second answer is under way: the sweep and the
\* count of answers of an admission still hold when its row is committed.
THEOREM OneAnswerAtATime == Spec => []OneAnswer
<1>1. Init => OneAnswer
  BY DEF Init, OneAnswer, OnItsWay
<1>2. ASSUME IndInv, NEW c \in Callers, NEW d \in Callers, c # d,
             Reserve(d), OnItsWay(d)', OnItsWay(c)
      PROVE  FALSE
  <2>1. TypeOK /\ TxSound /\ CallsSound /\ pc[d] = "held"
    BY <1>2 DEF IndInv, Reserve
  <2>2. KindOf(req[d]) = "answer"
    BY <1>2, <2>1 DEF OnItsWay, Reserve, Return, Goto, TypeOK
  <2>3. req[c] \in Answers /\ status[req[c]] = "dispatching"
    BY <1>2, <2>1 DEF OnItsWay, CallsSound, Owns, TypeOK, Answers, Rows
  <2>4. Deadline(req[c]) <= clock /\ clock <= now
    BY <2>1, <2>2, <2>3 DEF TxSound
  <2> QED
    BY <1>2, <2>1, <2>3, <2>4, CallsAssumption DEF OnItsWay, Deadline, TypeOK, Answers, Rows
<1>3. IndInv /\ OneAnswer /\ [Next]_vars => OneAnswer'
  <2> SUFFICES ASSUME IndInv, OneAnswer, [Next]_vars,
                      NEW c \in Callers, NEW d \in Callers, OnItsWay(c)', OnItsWay(d)', c # d
               PROVE  FALSE
    BY DEF OneAnswer
  <2>1. ~(Reserve(c) /\ Reserve(d))
    BY DEF IndInv, TypeOK, Reserve
  <2> QED
    BY <1>2, <2>1, OnItsWayBefore DEF OneAnswer
<1> QED
  BY <1>1, <1>3, Invariant, PTL DEF Spec

\* A row is only ever committed while the session, the transfer, the credential
\* and the budget allow it, whatever the administrator did since the preflight.
THEOREM CommittedUnderPolicy == Spec => AdmittedUnderPolicy
<1>1. IndInv /\ [Next]_vars =>
        \A q \in Requests :
          status[q] = "absent" /\ status'[q] # "absent" => session = "valid" /\ Sendable(q)
  BY RowSteps DEF Untouched, Committed, Moved
<1> QED
  BY <1>1, Invariant, PTL DEF Spec, AdmittedUnderPolicy

\* A row with a charge keeps its status and charge and is not sent again.
THEOREM SettledIsFinal == Spec => SettledFinal
<1>1. IndInv /\ [Next]_vars =>
        \A q \in Rows \ Unsettled :
          status'[q] = status[q] /\ charged'[q] = charged[q] /\ sent'[q] = sent[q]
  BY RowSteps DEF Untouched, Committed, Moved, Rows, Unsettled
<1> QED
  BY <1>1, Invariant, PTL DEF Spec, SettledFinal

-----------------------------------------------------------------------------
(* Totals over finite sets                                                  *)

\* A finite set has a smallest subset of any kind, from which inductions follow.
LEMMA SmallestSubset ==
  ASSUME NEW S, IsFiniteSet(S), NEW B \in SUBSET (SUBSET S), B # {}
  PROVE  \E T \in B : \A U \in B : U \subseteq T => U = T
<1>. DEFINE R == StrictSubsetOrdering(S)
<1>1. IsWellFoundedOn(R, FiniteSubsetsOf(S))
  BY FS_StrictSubsetOrderingWellFounded
<1>2. FiniteSubsetsOf(S) = SUBSET S
  BY FS_FiniteSubsetsOfFinite
<1>3. PICK T \in B : \A U \in B : <<U, T>> \notin R
  <2>. HIDE DEF R
  <2>. QED BY <1>1, <1>2, WFMin
<1>. QED BY <1>3 DEF StrictSubsetOrdering

Chosen(s) == CHOOSE x \in s : TRUE

\* g sums up w on the subsets of S, in the order of CHOOSE.
Sums(g, w, S) ==
  \A s \in SUBSET S : g[s] = IF s = {} THEN 0 ELSE w[Chosen(s)] + g[s \ {Chosen(s)}]

LEMMA SumsAgree ==
  ASSUME NEW S, IsFiniteSet(S), NEW w, NEW f, NEW g, Sums(f, w, S), Sums(g, w, S)
  PROVE  f[S] = g[S]
<1>. DEFINE B == {s \in SUBSET S : f[s] # g[s]}
<1>. SUFFICES ASSUME B # {} PROVE FALSE
  OBVIOUS
<1>1. PICK s \in B : \A u \in B : u \subseteq s => u = s
  <2>1. B \in SUBSET (SUBSET S)
    OBVIOUS
  <2>. HIDE DEF B
  <2>. QED BY <2>1, SmallestSubset
<1>2. s \in SUBSET S /\ s # {} /\ Chosen(s) \in s
  BY <1>1 DEF Sums, Chosen
<1>3. s \ {Chosen(s)} \in SUBSET S /\ s \ {Chosen(s)} \notin B
  BY <1>1, <1>2
<1>. QED BY <1>1, <1>2, <1>3 DEF Sums

\* The sum of w over S.
Total(w, S) == (CHOOSE g \in [SUBSET S -> Nat] : Sums(g, w, S))[S]

Summable(w, S) == \E g \in [SUBSET S -> Nat] : Sums(g, w, S)

LEMMA SummableTotal ==
  ASSUME NEW S, IsFiniteSet(S), NEW w, Summable(w, S), NEW g, Sums(g, w, S)
  PROVE  g[S] = Total(w, S) /\ Total(w, S) \in Nat
<1>. DEFINE h == CHOOSE f \in [SUBSET S -> Nat] : Sums(f, w, S)
<1>1. h \in [SUBSET S -> Nat] /\ Sums(h, w, S)
  BY DEF Summable
<1>2. Total(w, S) = h[S]
  BY DEF Total
<1>. HIDE DEF h
<1>. QED BY <1>1, <1>2, SumsAgree

LEMMA AllSummable ==
  ASSUME NEW S, IsFiniteSet(S), NEW w, \A x \in S : w[x] \in Nat
  PROVE  \A s \in SUBSET S : Summable(w, s)
<1>. DEFINE B == {s \in SUBSET S : ~Summable(w, s)}
<1>. SUFFICES ASSUME B # {} PROVE FALSE
  OBVIOUS
<1>1. PICK t \in B : \A u \in B : u \subseteq t => u = t
  <2>1. B \in SUBSET (SUBSET S)
    OBVIOUS
  <2>. HIDE DEF B
  <2>. QED BY <2>1, SmallestSubset
<1>2. t \in SUBSET S /\ ~Summable(w, t) /\ \A u \in SUBSET t : u # t => Summable(w, u)
  BY <1>1
<1>3. \A u \in SUBSET t : IsFiniteSet(u)
  BY <1>2, FS_Subset
<1>. HIDE DEF B
<1>. DEFINE c == Chosen(t)
            h == [s \in SUBSET t |->
                    IF s = {} THEN 0 ELSE IF s = t THEN w[c] + Total(w, t \ {c}) ELSE Total(w, s)]
<1>4. ASSUME t # {} PROVE c \in t /\ w[c] \in Nat /\ t \ {c} \in SUBSET t /\ t \ {c} # t
  BY <1>2, <1>4 DEF Chosen
<1>5. ASSUME NEW s \in SUBSET t, s # t
      PROVE  /\ Total(w, s) \in Nat
             /\ Total(w, s) = IF s = {} THEN 0 ELSE w[Chosen(s)] + Total(w, s \ {Chosen(s)})
  <2>1. PICK g \in [SUBSET s -> Nat] : Sums(g, w, s)
    BY <1>2, <1>5 DEF Summable
  <2>2. g[s] = Total(w, s) /\ Total(w, s) \in Nat
    BY <1>2, <1>3, <1>5, <2>1, SummableTotal
  <2>3. CASE s = {}
    BY <2>1, <2>2, <2>3 DEF Sums
  <2>4. CASE s # {}
    <3>. DEFINE d == Chosen(s)
    <3>1. d \in s /\ s \ {d} \in SUBSET s /\ s \ {d} \in SUBSET t /\ s \ {d} # t
      BY <1>5, <2>4 DEF Chosen
    <3>2. Sums(g, w, s \ {d})
      BY <2>1, <3>1 DEF Sums
    <3>3. g[s \ {d}] = Total(w, s \ {d})
      <4>. HIDE DEF d
      <4>. QED BY <1>2, <1>3, <3>1, <3>2, SummableTotal
    <3>4. g[s] = w[d] + g[s \ {d}]
      BY <2>1, <2>4 DEF Sums
    <3>. QED BY <2>2, <2>4, <3>3, <3>4
  <2>. QED BY <2>3, <2>4
<1>. HIDE DEF c
<1>6. ASSUME NEW s \in SUBSET t
      PROVE  h[s] \in Nat /\ h[s] = IF s = {} THEN 0 ELSE w[Chosen(s)] + h[s \ {Chosen(s)}]
  <2>1. CASE s = {}
    BY <2>1
  <2>2. CASE s # {} /\ s = t
    <3>1. h[t] = w[c] + Total(w, t \ {c}) /\ Total(w, t \ {c}) \in Nat
      BY <2>2, <1>4, <1>5
    <3>2. h[t \ {c}] = Total(w, t \ {c})
      BY <2>2, <1>4, <1>5
    <3>. HIDE DEF h
    <3>. QED BY <1>4, <2>2, <3>1, <3>2 DEF c
  <2>3. CASE s # {} /\ s # t
    <3>. DEFINE d == Chosen(s)
    <3>1. d \in s /\ s \ {d} \in SUBSET t /\ s \ {d} # t
      BY <2>3 DEF Chosen
    <3>. HIDE DEF d
    <3>2. h[s] = Total(w, s) /\ h[s \ {d}] = Total(w, s \ {d})
      BY <2>3, <3>1, <1>5
    <3>. HIDE DEF h
    <3>. QED BY <1>5, <2>3, <3>2 DEF d
  <2>. QED BY <2>1, <2>2, <2>3
<1>7. Sums(h, w, t)
  <2>. HIDE DEF h
  <2>. QED BY <1>6 DEF Sums
<1>8. h \in [SUBSET t -> Nat]
  <2>1. h = [s \in SUBSET t |-> h[s]]
    OBVIOUS
  <2>. HIDE DEF h
  <2>. QED BY <1>6, <2>1
<1>. HIDE DEF h
<1>. QED BY <1>2, <1>7, <1>8 DEF Summable

\* A sum, in the order of CHOOSE ...
LEMMA TotalChosen ==
  ASSUME NEW S, IsFiniteSet(S), NEW w, \A x \in S : w[x] \in Nat
  PROVE  /\ Total(w, S) \in Nat
         /\ Total(w, {}) = 0
         /\ S # {} => Total(w, S) = w[Chosen(S)] + Total(w, S \ {Chosen(S)})
<1>1. PICK g \in [SUBSET S -> Nat] : Sums(g, w, S)
  BY AllSummable DEF Summable
<1>2. g[S] = Total(w, S) /\ Total(w, S) \in Nat
  BY <1>1, AllSummable, SummableTotal
<1>3. Total(w, {}) = 0
  <2>1. Sums(g, w, {}) /\ g[{}] = 0
    BY <1>1 DEF Sums
  <2>2. Summable(w, {}) /\ IsFiniteSet({})
    BY AllSummable, FS_EmptySet
  <2>. QED BY <2>1, <2>2, SummableTotal
<1>4. ASSUME S # {} PROVE Total(w, S) = w[Chosen(S)] + Total(w, S \ {Chosen(S)})
  <2>. DEFINE d == Chosen(S)
  <2>1. d \in S /\ S \ {d} \in SUBSET S /\ IsFiniteSet(S \ {d})
    BY <1>4, FS_Subset DEF Chosen
  <2>2. Sums(g, w, S \ {d}) /\ Summable(w, S \ {d})
    BY <1>1, <2>1, AllSummable DEF Sums
  <2>3. g[S \ {d}] = Total(w, S \ {d})
    <3>. HIDE DEF d
    <3>. QED BY <2>1, <2>2, SummableTotal
  <2>4. g[S] = w[d] + g[S \ {d}]
    BY <1>1, <1>4 DEF Sums
  <2>. QED BY <1>2, <2>3, <2>4
<1>. QED BY <1>2, <1>3, <1>4

\* ... and in any other.
LEMMA TotalAny ==
  ASSUME NEW S, IsFiniteSet(S), NEW w, \A x \in S : w[x] \in Nat, NEW x \in S
  PROVE  Total(w, S) = w[x] + Total(w, S \ {x}) /\ Total(w, S \ {x}) \in Nat
<1>. DEFINE B == {s \in SUBSET S : \E y \in s : Total(w, s) # w[y] + Total(w, s \ {y})}
<1>0. \A s \in SUBSET S : IsFiniteSet(s) /\ Total(w, s) \in Nat
  BY FS_Subset, TotalChosen
<1>1. ASSUME B # {} PROVE FALSE
  <2>1. PICK s \in B : \A u \in B : u \subseteq s => u = s
    <3>1. B \in SUBSET (SUBSET S)
      OBVIOUS
    <3>. HIDE DEF B
    <3>. QED BY <1>1, <3>1, SmallestSubset
  <2>2. PICK y \in s : Total(w, s) # w[y] + Total(w, s \ {y})
    BY <2>1
  <2>3. s \in SUBSET S /\ \A u \in SUBSET s : \A z \in u : u # s => Total(w, u) = w[z] + Total(w, u \ {z})
    BY <2>1
  <2>. HIDE DEF B
  <2>. DEFINE c == Chosen(s)
  <2>4. c \in s /\ Total(w, s) = w[c] + Total(w, s \ {c})
    BY <1>0, <2>2, <2>3, TotalChosen DEF Chosen
  <2>. HIDE DEF c
  <2>5. CASE y = c
    BY <2>2, <2>4, <2>5
  <2>6. CASE y # c
    <3>1. Total(w, s \ {c}) = w[y] + Total(w, (s \ {c}) \ {y})
      BY <2>2, <2>3, <2>4, <2>6
    <3>2. Total(w, s \ {y}) = w[c] + Total(w, (s \ {y}) \ {c})
      BY <2>2, <2>3, <2>4, <2>6
    <3>3. (s \ {c}) \ {y} = (s \ {y}) \ {c}
      OBVIOUS
    <3>4. w[c] \in Nat /\ w[y] \in Nat /\ Total(w, (s \ {y}) \ {c}) \in Nat
      BY <1>0, <2>2, <2>3, <2>4
    <3>. QED BY <2>2, <2>4, <3>1, <3>2, <3>3, <3>4
  <2>. QED BY <2>5, <2>6
<1>2. S \notin B
  BY <1>1
<1>. QED BY <1>0, <1>2

\* Fewer and smaller terms.
LEMMA TotalLess ==
  ASSUME NEW S, IsFiniteSet(S), NEW w, NEW v, \A x \in S : w[x] \in Nat /\ v[x] \in Nat,
         NEW U \in SUBSET S, \A x \in U : v[x] <= w[x]
  PROVE  Total(v, U) <= Total(w, S)
<1>. DEFINE B == {s \in SUBSET S : \E u \in SUBSET s : u \subseteq U /\ ~(Total(v, u) <= Total(w, s))}
<1>0. \A s \in SUBSET S : IsFiniteSet(s) /\ Total(w, s) \in Nat /\ Total(v, s) \in Nat
  BY FS_Subset, TotalChosen
<1>1. ASSUME B # {} PROVE FALSE
  <2>1. PICK s \in B : \A r \in B : r \subseteq s => r = s
    <3>1. B \in SUBSET (SUBSET S)
      OBVIOUS
    <3>. HIDE DEF B
    <3>. QED BY <1>1, <3>1, SmallestSubset
  <2>2. PICK u \in SUBSET s : u \subseteq U /\ ~(Total(v, u) <= Total(w, s))
    BY <2>1
  <2>3. /\ s \in SUBSET S
        /\ \A r \in SUBSET s : r # s => \A t \in SUBSET r : t \subseteq U => Total(v, t) <= Total(w, r)
    BY <2>1
  <2>. HIDE DEF B
  <2>4. CASE s = {}
    <3>1. u = {} /\ Total(v, {}) = 0 /\ Total(w, {}) = 0
      BY <2>4, TotalChosen
    <3>. QED BY <2>2, <2>4, <3>1
  <2>5. CASE s # {}
    <3>1. PICK x \in s : TRUE
      BY <2>5
    <3>2. Total(w, s) = w[x] + Total(w, s \ {x}) /\ w[x] \in Nat /\ v[x] \in Nat
      BY <1>0, <2>3, <3>1, TotalAny
    <3>3. Total(v, u \ {x}) <= Total(w, s \ {x})
      BY <2>2, <2>3, <3>1
    <3>4. x \in u => Total(v, u) = v[x] + Total(v, u \ {x}) /\ v[x] <= w[x]
      <4>. SUFFICES ASSUME x \in u PROVE Total(v, u) = v[x] + Total(v, u \ {x}) /\ v[x] <= w[x]
        OBVIOUS
      <4>. QED BY <1>0, <2>2, <2>3, TotalAny
    <3>5. x \notin u => u = u \ {x}
      OBVIOUS
    <3>6. /\ Total(w, s \ {x}) \in Nat /\ Total(v, u \ {x}) \in Nat /\ Total(v, u) \in Nat
          /\ Total(w, s) \in Nat
      BY <1>0, <2>2, <2>3
    <3>7. CASE x \in u
      <4>1. Total(v, u) <= w[x] + Total(w, s \ {x})
        BY <3>2, <3>3, <3>4, <3>6, <3>7
      <4>. QED BY <2>2, <3>2, <4>1
    <3>8. CASE x \notin u
      <4>1. Total(v, u) = Total(v, u \ {x})
        BY <3>5, <3>8
      <4>. QED BY <2>2, <3>2, <3>3, <3>6, <4>1
    <3>. QED BY <3>7, <3>8
  <2>. QED BY <2>4, <2>5
<1>2. S \notin B
  BY <1>1
<1>. QED BY <1>2

\* Terms of two sets.
LEMMA TotalOfBoth ==
  ASSUME NEW S, NEW T, IsFiniteSet(S), IsFiniteSet(T), NEW w,
         \A x \in S \cup T : w[x] \in Nat, S \cap T = {}
  PROVE  Total(w, S \cup T) = Total(w, S) + Total(w, T)
<1>. DEFINE B == {s \in SUBSET S : Total(w, s \cup T) # Total(w, s) + Total(w, T)}
<1>1. ASSUME B # {} PROVE FALSE
  <2>1. PICK s \in B : \A r \in B : r \subseteq s => r = s
    <3>1. B \in SUBSET (SUBSET S)
      OBVIOUS
    <3>. HIDE DEF B
    <3>. QED BY <1>1, <3>1, SmallestSubset
  <2>2. s \in SUBSET S /\ Total(w, s \cup T) # Total(w, s) + Total(w, T)
    BY <2>1
  <2>3. \A r \in SUBSET s : r # s => Total(w, r \cup T) = Total(w, r) + Total(w, T)
    BY <2>1
  <2>. HIDE DEF B
  <2>4. IsFiniteSet(s) /\ IsFiniteSet(s \cup T) /\ Total(w, T) \in Nat /\ Total(w, {}) = 0
    BY <2>2, FS_Subset, FS_Union, TotalChosen
  <2>5. CASE s = {}
    <3>1. s \cup T = T
      BY <2>5
    <3>. QED BY <2>2, <2>4, <2>5, <3>1
  <2>6. CASE s # {}
    <3>1. PICK x \in s : TRUE
      BY <2>6
    <3>2. Total(w, s) = w[x] + Total(w, s \ {x}) /\ Total(w, s \ {x}) \in Nat /\ w[x] \in Nat
      BY <2>2, <2>4, <3>1, TotalAny
    <3>3. Total(w, s \cup T) = w[x] + Total(w, (s \cup T) \ {x})
      BY <2>2, <2>4, <3>1, TotalAny
    <3>4. (s \cup T) \ {x} = (s \ {x}) \cup T
      BY <2>2, <3>1
    <3>5. Total(w, (s \ {x}) \cup T) = Total(w, s \ {x}) + Total(w, T)
      BY <2>3, <3>1
    <3>6. Total(w, s \cup T) = w[x] + (Total(w, s \ {x}) + Total(w, T))
      BY <3>3, <3>4, <3>5
    <3>7. Total(w, s) + Total(w, T) = w[x] + (Total(w, s \ {x}) + Total(w, T))
      BY <2>4, <3>2
    <3>. QED BY <2>2, <3>6, <3>7
  <2>. QED BY <2>5, <2>6
<1>2. S \notin B
  BY <1>1
<1>. QED BY <1>2

\* A fold of the community modules is such a total.
LEMMA FoldTotal ==
  ASSUME NEW S, IsFiniteSet(S), NEW w, \A x \in S : w[x] \in Nat
  PROVE  (CHOOSE f : f = [s \in SUBSET S |->
                            IF s = {} THEN 0 ELSE w[Chosen(s)] + f[s \ {Chosen(s)}]])[S] = Total(w, S)
<1>. DEFINE IsFold(f) ==
       f = [s \in SUBSET S |-> IF s = {} THEN 0 ELSE w[Chosen(s)] + f[s \ {Chosen(s)}]]
            fold == CHOOSE f : IsFold(f)
<1>1. Summable(w, S)
  BY AllSummable
<1>2. PICK g \in [SUBSET S -> Nat] : Sums(g, w, S)
  BY <1>1 DEF Summable
<1>3. IsFold(g)
  <2>1. g = [s \in SUBSET S |-> g[s]]
    BY <1>2
  <2>2. \A s \in SUBSET S : g[s] = IF s = {} THEN 0 ELSE w[Chosen(s)] + g[s \ {Chosen(s)}]
    BY <1>2 DEF Sums
  <2>. QED BY <2>1, <2>2, Zenon
<1>4. IsFold(fold)
  <2>. HIDE DEF IsFold
  <2>. QED BY <1>3, Zenon
<1>5. Sums(fold, w, S)
  <2>. HIDE DEF fold
  <2>1. \A s \in SUBSET S :
          fold[s] = IF s = {} THEN 0 ELSE w[Chosen(s)] + fold[s \ {Chosen(s)}]
    BY <1>4, Zenon
  <2>. QED BY <2>1 DEF Sums
<1>6. fold[S] = Total(w, S)
  <2>. HIDE DEF fold
  <2>. QED BY <1>1, <1>5, SummableTotal
<1>. QED BY <1>6, Zenon

\* Totals of what agrees on the set.
LEMMA TotalSame ==
  ASSUME NEW S, IsFiniteSet(S), NEW w, NEW v, \A x \in S : w[x] \in Nat /\ v[x] = w[x]
  PROVE  Total(v, S) = Total(w, S)
<1>1. Total(v, S) <= Total(w, S) /\ Total(w, S) <= Total(v, S)
  BY TotalLess
<1>2. Total(v, S) \in Nat /\ Total(w, S) \in Nat
  BY TotalChosen
<1>. QED BY <1>1, <1>2

-----------------------------------------------------------------------------
(* The budget                                                               *)

\* The most a row may still cost.
Potential(q) == IF charged[q] = Null THEN Reserved(q) ELSE charged[q]
Potentials == [q \in Requests |-> Potential(q)]

SettledSince(start) == {q \in Rows \ Unsettled : created[q] >= start}

LEMMA PotentialType ==
  ASSUME TypeOK, NEW q \in Requests PROVE Potentials[q] = Potential(q) /\ Potential(q) \in Nat
  BY ReservedType DEF TypeOK, Potential, Potentials

\* What open calls hold, as a fold of Reserved.
LEMMA OpenTotal ==
  ASSUME TypeOK, NEW S \in SUBSET Requests, IsFiniteSet(S), \A q \in S : charged[q] = Null
  PROVE  (CHOOSE f : f = [s \in SUBSET S |->
                            IF s = {} THEN 0 ELSE Reserved(Chosen(s)) + f[s \ {Chosen(s)}]])[S]
           = Total(Potentials, S)
<1>. DEFINE R(f) == f = [s \in SUBSET S |->
                           IF s = {} THEN 0 ELSE Reserved(Chosen(s)) + f[s \ {Chosen(s)}]]
            W(f) == f = [s \in SUBSET S |->
                           IF s = {} THEN 0 ELSE Potentials[Chosen(s)] + f[s \ {Chosen(s)}]]
<1>1. \A q \in S : Potentials[q] = Reserved(q) /\ Potentials[q] \in Nat
  BY PotentialType DEF Potential
<1>2. \A s \in SUBSET S : s # {} => Potentials[Chosen(s)] = Reserved(Chosen(s))
  BY <1>1 DEF Chosen
<1>3. ASSUME NEW f PROVE R(f) <=> W(f)
  <2>1. \A s \in SUBSET S :
           (IF s = {} THEN 0 ELSE Reserved(Chosen(s)) + f[s \ {Chosen(s)}])
             = (IF s = {} THEN 0 ELSE Potentials[Chosen(s)] + f[s \ {Chosen(s)}])
    BY <1>2
  <2>. QED BY <2>1, Zenon
<1>4. (CHOOSE f : R(f)) = (CHOOSE f : W(f))
  <2>. HIDE DEF R, W
  <2>. QED BY <1>3, Zenon
<1>5. (CHOOSE f : W(f))[S] = Total(Potentials, S)
  BY <1>1, FoldTotal, Zenon
<1>. QED BY <1>4, <1>5, Zenon

LEMMA HeldTotal ==
  ASSUME TypeOK, IsFiniteSet(Unsettled) PROVE Held = Total(Potentials, Unsettled)
<1>1. Unsettled \in SUBSET Requests /\ \A q \in Unsettled : charged[q] = Null
  BY DEF Unsettled, Rows
<1>2. Held = (CHOOSE f : f = [s \in SUBSET Unsettled |->
                IF s = {} THEN 0 ELSE Reserved(Chosen(s)) + f[s \ {Chosen(s)}]])[Unsettled]
  BY Zenon DEF Held, MapThenSumSet, MapThenFoldSet, Chosen
<1>. QED BY <1>1, <1>2, OpenTotal, Zenon

\* The first sum of exposure().
LEMMA ChargedTotal ==
  ASSUME TypeOK, NEW start, IsFiniteSet(SettledSince(start))
  PROVE  ChargedSince(start) = Total(Potentials, SettledSince(start))
<1>. DEFINE S == SettledSince(start)
<1>1. \A q \in S : Potentials[q] = charged[q] /\ Potentials[q] \in Nat /\ charged[q] \in Nat
  BY PotentialType DEF SettledSince, Unsettled, Rows, Potential, TypeOK
<1>2. ChargedSince(start) =
        (CHOOSE f : f = [s \in SUBSET S |->
                           IF s = {} THEN 0 ELSE charged[Chosen(s)] + f[s \ {Chosen(s)}]])[S]
  BY Zenon DEF ChargedSince, SettledSince, MapThenSumSet, MapThenFoldSet, Chosen
<1>. HIDE DEF S
<1>3. IsFiniteSet(S)
  BY DEF S
<1>4. ChargedSince(start) = Total(charged, S)
  BY <1>1, <1>2, <1>3, FoldTotal, Zenon
<1>5. Total(charged, S) = Total(Potentials, S)
  BY <1>1, <1>3, TotalSame
<1>. QED BY <1>4, <1>5 DEF S

\* What calls really cost, as BudgetKept adds it up.
LEMMA CostTotal ==
  ASSUME TypeOK, RowsSound, NEW S \in SUBSET Rows, IsFiniteSet(S)
  PROVE  /\ MapThenSumSet(LAMBDA q : Min({bill[q], Reserved(q)}), S) <= Total(Potentials, S)
         /\ MapThenSumSet(LAMBDA q : Min({bill[q], Reserved(q)}), S) \in Nat
<1>. DEFINE cost(q) == Min({bill[q], Reserved(q)})
            costs == [q \in Requests |-> cost(q)]
            C(f) == f = [s \in SUBSET S |->
                           IF s = {} THEN 0 ELSE cost(Chosen(s)) + f[s \ {Chosen(s)}]]
            W(f) == f = [s \in SUBSET S |->
                           IF s = {} THEN 0 ELSE costs[Chosen(s)] + f[s \ {Chosen(s)}]]
<1>1. ASSUME NEW q \in S PROVE cost(q) \in Nat /\ cost(q) <= Potential(q)
  <2>1. bill[q] \in Nat /\ Reserved(q) \in Nat
    BY ReservedType DEF TypeOK, Rows
  <2>2. cost(q) \in {bill[q], Reserved(q)} /\ cost(q) <= bill[q] /\ cost(q) <= Reserved(q)
    <3>1. \E x \in {bill[q], Reserved(q)} : \A y \in {bill[q], Reserved(q)} : x <= y
      BY <2>1
    <3>. QED BY <2>1, <3>1 DEF Min
  <2>. HIDE DEF cost
  <2>. QED BY <2>1, <2>2 DEF RowsSound, Potential, Rows
<1>2. MapThenSumSet(LAMBDA q : Min({bill[q], Reserved(q)}), S) = (CHOOSE f : C(f))[S]
  BY Zenon DEF MapThenSumSet, MapThenFoldSet, Chosen
<1>. HIDE DEF cost
<1>3. \A q \in S : costs[q] = cost(q) /\ costs[q] \in Nat
  BY <1>1 DEF Rows
<1>. HIDE DEF costs
<1>4. \A s \in SUBSET S : s # {} => costs[Chosen(s)] = cost(Chosen(s))
  BY <1>3 DEF Chosen
<1>5. ASSUME NEW f PROVE C(f) <=> W(f)
  <2>1. \A s \in SUBSET S :
          (IF s = {} THEN 0 ELSE cost(Chosen(s)) + f[s \ {Chosen(s)}])
            = (IF s = {} THEN 0 ELSE costs[Chosen(s)] + f[s \ {Chosen(s)}])
    BY <1>4
  <2>. QED BY <2>1, Zenon
<1>6. (CHOOSE f : C(f)) = (CHOOSE f : W(f))
  <2>. HIDE DEF C, W
  <2>. QED BY <1>5, Zenon
<1>7. (CHOOSE f : W(f))[S] = Total(costs, S)
  BY <1>3, FoldTotal, Zenon
<1>8. \A q \in S : Potentials[q] \in Nat /\ costs[q] \in Nat /\ costs[q] <= Potentials[q]
  BY <1>1, <1>3, PotentialType DEF Rows
<1>9. Total(costs, S) <= Total(Potentials, S) /\ Total(costs, S) \in Nat
  BY <1>8, TotalLess, TotalChosen
<1>10. MapThenSumSet(LAMBDA q : Min({bill[q], Reserved(q)}), S) = Total(costs, S)
  BY <1>2, <1>6, <1>7, Zenon
<1>. QED BY <1>9, <1>10, Zenon

InMonth(m) == {q \in Rows : MonthStart(created[q]) = m}

\* The rows of a month fit the budget that its last one was admitted under.
Budgeted(m) ==
  \E last \in InMonth(m) :
    /\ \A q \in InMonth(m) : created[q] <= created[last]
    /\ Total(Potentials, InMonth(m)) <= budget[last]

\* The books of every month, whose rows are in the order of the clock; and what an
\* open admission has read is still at least what settled rows of its month cost.
Booked ==
  /\ IsFiniteSet(Rows)
  /\ \A q \in Rows : created[q] <= now /\ (lock # NoOne => created[q] <= clock)
  /\ \A q \in Rows : Budgeted(MonthStart(created[q]))
  /\ \A c \in Callers :
       pc[c] = "held" => /\ seen \in Nat
                         /\ Total(Potentials, SettledSince(MonthStart(clock))) <= seen

LEMMA InitBooked == Init => Booked
<1>. SUFFICES ASSUME Init PROVE Booked
  OBVIOUS
<1>1. Rows = {}
  BY DEF Init, Rows
<1>. QED BY <1>1, FS_EmptySet DEF Init, Booked

LEMMA StartOfMonth == ASSUME NEW t \in Nat PROVE MonthStart(t) \in Int /\ MonthStart(t) <= t
<1>1. MonthLength \in Nat \ {0}
  BY CallsAssumption
<1>2. /\ t \div MonthLength \in Int /\ t % MonthLength \in 0 .. MonthLength - 1
      /\ t = MonthLength * (t \div MonthLength) + (t % MonthLength)
  BY <1>1
<1>3. MonthLength * (t \div MonthLength) = (t \div MonthLength) * MonthLength
  BY <1>1, <1>2
<1>. QED BY <1>1, <1>2, <1>3 DEF MonthStart

\* A step that admits nothing leaves the rows, and none of them gets dearer; what
\* is settled during an admission has not been sent.
Quiet ==
  /\ Rows' = Rows
  /\ \A q \in Rows :
       created'[q] = created[q] /\ budget'[q] = budget[q] /\ Potential(q)' <= Potential(q)
  /\ now <= now' /\ now' \in Nat
  /\ lock' # NoOne => (lock = lock' /\ clock' = clock) \/ clock' = now
  /\ \A c \in Callers : pc'[c] = "held" =>
       /\ pc[c] = "held" /\ seen' = seen /\ clock' = clock
       /\ \/ Unsettled' = Unsettled
          \/ \E q \in Unsettled : Unsettled' = Unsettled \ {q} /\ charged'[q] = 0

LEMMA SameTotal ==
  ASSUME TypeOK, TypeOK', IsFiniteSet(Rows), Quiet, NEW S \in SUBSET Rows
  PROVE  Total(Potentials', S) <= Total(Potentials, S)
<1>1. IsFiniteSet(S)
  BY FS_Subset
<1>2. ASSUME NEW q \in S
      PROVE  Potentials[q] \in Nat /\ Potentials'[q] \in Nat /\ Potentials'[q] <= Potentials[q]
  <2>1. q \in Requests /\ Potential(q)' <= Potential(q)
    BY DEF Quiet, Rows
  <2>2. Potentials[q] = Potential(q) /\ Potential(q) \in Nat
    BY <2>1, PotentialType
  <2>3. Potentials'[q] = Potential(q)' /\ Potential(q)' \in Nat
    BY <2>1, ReservedType DEF TypeOK, Potential, Potentials
  <2>. QED BY <2>1, <2>2, <2>3
<1>. QED BY <1>1, <1>2, TotalLess

LEMMA QuietBooked == ASSUME IndInv, IndInv', Booked, Quiet PROVE Booked'
<1>0. TypeOK /\ TypeOK' /\ IsFiniteSet(Rows)
  BY DEF IndInv, Booked
<1>1. IsFiniteSet(Rows')
  BY <1>0 DEF Quiet
<1>2. ASSUME NEW q \in Rows'
      PROVE  created'[q] <= now' /\ (lock' # NoOne => created'[q] <= clock')
  <2>1. q \in Rows /\ created'[q] = created[q] /\ created[q] \in Nat /\ now \in Nat /\ clock \in Nat
    BY <1>0, <1>2 DEF Quiet, Rows, TypeOK
  <2>. QED BY <1>0, <2>1 DEF Quiet, Booked
<1>3. ASSUME NEW q \in Rows' PROVE Budgeted(MonthStart(created[q]))'
  <2>1. q \in Rows /\ created'[q] = created[q]
    BY <1>3 DEF Quiet
  <2>. DEFINE m == MonthStart(created[q])
  <2>2. {p \in Rows' : MonthStart(created'[p]) = MonthStart(created'[q])} = InMonth(m)
    <3>1. \A p \in Rows : MonthStart(created'[p]) = MonthStart(created[p])
      BY DEF Quiet
    <3>. QED BY <2>1, <3>1 DEF Quiet, InMonth
  <2>3. PICK last \in InMonth(m) :
          /\ \A p \in InMonth(m) : created[p] <= created[last]
          /\ Total(Potentials, InMonth(m)) <= budget[last]
    BY <2>1 DEF Booked, Budgeted
  <2>4. InMonth(m) \in SUBSET Rows /\ IsFiniteSet(InMonth(m))
    BY <1>0, FS_Subset DEF InMonth
  <2>5. Total(Potentials', InMonth(m)) <= Total(Potentials, InMonth(m))
    BY <1>0, <2>4, SameTotal
  <2>6. /\ \A p \in InMonth(m) : created'[p] = created[p] /\ budget'[p] = budget[p]
        /\ budget[last] \in Int
    <3>. HIDE DEF m
    <3>1. \A p \in InMonth(m) : created'[p] = created[p] /\ budget'[p] = budget[p]
      BY <2>4 DEF Quiet
    <3>2. last \in Requests
      BY <2>3, <2>4 DEF Rows
    <3>3. budget[last] \in Limits \cup {NoBudget}
      BY <1>0, <3>2 DEF TypeOK
    <3>4. Limits \cup {NoBudget} \subseteq Int
      BY CallsAssumption DEF NoBudget
    <3>. QED BY <3>1, <3>3, <3>4, Zenon
  <2>7. Total(Potentials, InMonth(m)) \in Nat /\ Total(Potentials', InMonth(m)) \in Nat
    <3>1. \A p \in InMonth(m) : Potentials[p] \in Nat
      BY <1>0, <2>4, PotentialType DEF Rows
    <3>2. \A p \in InMonth(m) : Potentials'[p] \in Nat
      BY <1>0, <2>4, ReservedType DEF Rows, TypeOK, Potential, Potentials
    <3>. QED BY <2>4, <3>1, <3>2, TotalChosen
  <2>8. /\ \A p \in InMonth(m) : created'[p] <= created'[last]
        /\ Total(Potentials', InMonth(m)) <= budget'[last]
    <3>. HIDE DEF m
    <3>. QED BY <2>3, <2>5, <2>6, <2>7
  <2>. HIDE DEF m
  <2>. QED BY <2>2, <2>3, <2>8 DEF Budgeted, InMonth
<1>4. ASSUME NEW c \in Callers, pc'[c] = "held"
      PROVE  seen' \in Nat /\ Total(Potentials, SettledSince(MonthStart(clock)))' <= seen'
  <2>. DEFINE S == SettledSince(MonthStart(clock))
              T == {q \in Rows' \ Unsettled' : created'[q] >= MonthStart(clock')}
  <2>1. seen \in Nat /\ seen' = seen /\ clock' = clock /\ Total(Potentials, S) <= seen
    BY <1>4 DEF Quiet, Booked
  <2>2. S \in SUBSET Rows /\ IsFiniteSet(S) /\ IsFiniteSet(T) /\ T \in SUBSET Rows
    BY <1>0, FS_Subset DEF SettledSince, Quiet
  <2>3. /\ \A q \in Rows : Potentials[q] \in Nat
        /\ \A q \in Rows : Potentials'[q] = Potential(q)' /\ Potentials'[q] \in Nat
    BY <1>0, PotentialType, ReservedType DEF Rows, TypeOK, Potential, Potentials
  <2>4. Total(Potentials', S) <= Total(Potentials, S) /\ Total(Potentials, S) \in Nat
        /\ Total(Potentials', S) \in Nat
    BY <1>0, <2>2, <2>3, SameTotal, TotalChosen
  <2>5. Total(Potentials', T) <= Total(Potentials', S)
    <3>1. CASE T = S
      BY <2>4, <3>1
    <3>2. ASSUME NEW q \in Unsettled, Unsettled' = Unsettled \ {q}, charged'[q] = 0, T = S \cup {q}
          PROVE  Total(Potentials', T) <= Total(Potentials', S)
      <4>1. q \in T /\ T \ {q} = S
        BY <3>2 DEF SettledSince
      <4>2. Potential(q)' = 0
        BY <3>2, CallsAssumption DEF Potential
      <4>3. Potentials'[q] = 0
        BY <2>3, <4>2 DEF Unsettled
      <4>4. Total(Potentials', T) = Potentials'[q] + Total(Potentials', T \ {q})
        <5>. HIDE DEF T
        <5>. QED BY <2>2, <2>3, <4>1, TotalAny
      <4>. QED BY <2>4, <4>1, <4>3, <4>4
    <3>3. CASE Unsettled' = Unsettled
      BY <2>1, <3>1, <3>3 DEF Quiet, SettledSince
    <3>4. ASSUME NEW q \in Unsettled, Unsettled' = Unsettled \ {q}, charged'[q] = 0
          PROVE  T = S \/ T = S \cup {q}
      BY <2>1, <3>4 DEF Quiet, SettledSince, Unsettled
    <3>. QED BY <1>4, <3>1, <3>2, <3>3, <3>4 DEF Quiet
  <2>6. Total(Potentials, SettledSince(MonthStart(clock)))' = Total(Potentials', T)
    BY DEF SettledSince
  <2>7. Total(Potentials', T) \in Nat
    BY <2>2, <2>3, TotalChosen
  <2>. HIDE DEF S, T
  <2>. QED BY <2>1, <2>4, <2>5, <2>6, <2>7
<1>. QED BY <1>1, <1>2, <1>3, <1>4 DEF Booked

LEMMA ReadChargedBooked ==
  ASSUME IndInv, IndInv', Booked, NEW c \in Callers, ReadCharged(c) PROVE Booked'
<1>. DEFINE S == SettledSince(MonthStart(clock))
<1>1. UNCHANGED <<now, rowVars, lock, clock>> /\ seen' = ChargedSince(MonthStart(clock))
  BY DEF ReadCharged
<1>2. S \in SUBSET Rows /\ IsFiniteSet(S) /\ TypeOK
  BY FS_Subset DEF IndInv, Booked, SettledSince
<1>3. \A q \in S : Potentials[q] \in Nat
  BY <1>2, PotentialType DEF Rows
<1>4. seen' = Total(Potentials, S) /\ Total(Potentials, S) \in Nat
  BY <1>1, <1>2, <1>3, ChargedTotal, TotalChosen
<1>5. /\ Rows' = Rows /\ Potentials' = Potentials
      /\ SettledSince(MonthStart(clock))' = S
  BY <1>1 DEF rowVars, Rows, Potentials, Potential, SettledSince, Unsettled
<1>6. Total(Potentials, SettledSince(MonthStart(clock)))' <= seen'
  <2>1. Total(Potentials, SettledSince(MonthStart(clock)))' = Total(Potentials, S)
    BY <1>5
  <2>. QED BY <1>4, <2>1
<1>7. (\A q \in Rows : Budgeted(MonthStart(created[q])))'
  BY <1>1, <1>5 DEF rowVars, Booked, Budgeted, InMonth
<1>8. (\A q \in Rows : created[q] <= now /\ (lock # NoOne => created[q] <= clock))'
  BY <1>1, <1>5 DEF rowVars, Booked
<1>9. IsFiniteSet(Rows)'
  BY <1>5 DEF Booked
<1>. QED BY <1>4, <1>6, <1>7, <1>8, <1>9 DEF Booked

\* Steps that leave the rows as they are.
LEMMA SameRows ==
  UNCHANGED rowVars =>
    /\ Rows' = Rows /\ Unsettled' = Unsettled
    /\ \A q \in Rows : created'[q] = created[q] /\ budget'[q] = budget[q] /\ Potential(q)' = Potential(q)
BY DEF rowVars, Rows, Unsettled, Potential

\* Steps outside of the admission transaction.
LEMMA OutsideQuiet ==
  ASSUME IndInv, IndInv', UNCHANGED rowVars, UNCHANGED txVars, now <= now',
         \A c \in Callers : pc'[c] = "held" => pc[c] = "held"
  PROVE  Quiet
<1>1. now' \in Nat
  BY DEF IndInv, TypeOK
<1>2. \A q \in Rows : Potential(q) \in Nat
  BY PotentialType DEF IndInv, Rows
<1>. QED BY <1>1, <1>2, SameRows DEF Quiet, txVars

\* The end of a transaction that changes no row.
LEMMA ReleaseQuiet ==
  ASSUME IndInv, IndInv', UNCHANGED rowVars, UNCHANGED now, NEW c \in Callers, Return(c), lock = c, Release
  PROVE  Quiet
<1>1. now' \in Nat /\ now = now'
  BY DEF IndInv, TypeOK
<1>2. \A q \in Rows : Potential(q) \in Nat
  BY PotentialType DEF IndInv, Rows
<1>3. \A d \in Callers : pc'[d] # "held"
  BY Returned DEF IndInv, TypeOK
<1>4. lock' = NoOne
  BY DEF Release
<1>. QED BY <1>1, <1>2, <1>3, <1>4, SameRows DEF Quiet

LEMMA CallerQuiet ==
  ASSUME IndInv, IndInv', NEW c \in Callers,
         \/ \E q \in Requests : Begin(c, q)
         \/ Preflight(c) \/ ReadMasterKey(c) \/ Transmit(c) \/ Answer(c) \/ NoAnswer(c) \/ Cancel(c)
  PROVE  Quiet
<1>1. UNCHANGED <<now, rowVars, txVars>>
  BY DEF Begin, Preflight, ReadMasterKey, Transmit, Answer, NoAnswer, Cancel
<1>2. now <= now'
  BY <1>1 DEF IndInv, TypeOK
<1>3. \A d \in Callers : pc'[d] = "held" => pc[d] = "held"
  BY DEF IndInv, TypeOK, Begin, Preflight, ReadMasterKey, Transmit, Answer, NoAnswer, Cancel, Return, Goto
<1>. QED BY <1>1, <1>2, <1>3, OutsideQuiet

LEMMA OtherQuiet ==
  ASSUME IndInv, IndInv',
         \/ \E l \in Limits \cup {NoBudget} : Configure(l)
         \/ \E k \in Kinds, on \in BOOLEAN : SetCredential(k, on)
         \/ \E flags \in [Flags -> BOOLEAN] : SetTransfers(flags)
         \/ Logout \/ Expire \/ Tick \/ UNCHANGED vars
  PROVE  Quiet
<1>1. UNCHANGED <<rowVars, callerVars, txVars>> /\ (now' = now \/ now' = now + 1)
  BY DEF Configure, SetCredential, SetTransfers, Logout, Expire, Tick, vars
<1>2. now <= now'
  BY <1>1 DEF IndInv, TypeOK
<1>3. \A d \in Callers : pc'[d] = "held" => pc[d] = "held"
  BY <1>1 DEF callerVars
<1>. QED BY <1>1, <1>2, <1>3, OutsideQuiet

LEMMA FailureQuiet ==
  ASSUME IndInv, IndInv', NEW c \in Callers, AdmissionFails(c) \/ Crash(c) PROVE Quiet
<1>1. UNCHANGED <<now, rowVars>> /\ Return(c)
  BY DEF AdmissionFails, Crash
<1>2. CASE lock = c /\ Release
  BY <1>1, <1>2, ReleaseQuiet
<1>3. CASE UNCHANGED txVars
  <2>1. \A d \in Callers : pc'[d] = "held" => pc[d] = "held"
    BY <1>1, Returned DEF IndInv
  <2>2. now <= now'
    BY <1>1 DEF IndInv, TypeOK
  <2>. QED BY <1>1, <1>3, <2>1, <2>2, OutsideQuiet
<1>. QED BY <1>2, <1>3 DEF AdmissionFails, Crash, IndInv, TypeOK

LEMMA AdmitQuiet == ASSUME IndInv, IndInv', NEW c \in Callers, Admit(c) PROVE Quiet
<1>0. TypeOK /\ UNCHANGED <<now, created, charged, budget>> /\ lock = NoOne
  BY DEF IndInv, Admit, MayLock
<1>1. \A q \in Requests : status'[q] = "absent" <=> status[q] = "absent"
  BY <1>0 DEF Admit, Sweep, Overdue, TypeOK
<1>2. Rows' = Rows /\ \A q \in Rows : Potential(q)' = Potential(q) /\ Potential(q) \in Nat
  BY <1>0, <1>1, PotentialType DEF Rows, Potential
<1>3. lock' # NoOne => clock' = now
  BY <1>0 DEF Admit, txVars
<1>4. \A d \in Callers : pc'[d] # "held"
  <2>1. \A d \in Callers : pc[d] # "held"
    BY <1>0, CallsAssumption DEF TypeOK
  <2>. QED BY <1>0, <2>1 DEF Admit, Return, Goto, TypeOK
<1>5. now' \in Nat
  BY <1>0 DEF TypeOK
<1>. QED BY <1>0, <1>2, <1>3, <1>4, <1>5 DEF Quiet, TypeOK

LEMMA MarkUnknownQuiet == ASSUME IndInv, IndInv', NEW c \in Callers, MarkUnknown(c) PROVE Quiet
<1>0. /\ TypeOK /\ UNCHANGED <<now, created, charged, budget>> /\ UNCHANGED <<lock, clock, seen>>
      /\ Return(c)
  BY DEF IndInv, MarkUnknown, txVars
<1>1. \A q \in Requests : status'[q] = "absent" <=> status[q] = "absent"
  BY <1>0 DEF MarkUnknown, TypeOK
<1>2. /\ Rows' = Rows /\ Unsettled' = Unsettled
      /\ \A q \in Rows : Potential(q)' = Potential(q) /\ Potential(q) \in Nat
  BY <1>0, <1>1, PotentialType DEF Rows, Unsettled, Potential
<1>4. \A d \in Callers : pc'[d] = "held" => pc[d] = "held"
  BY <1>0, Returned
<1>5. now' \in Nat
  BY <1>0 DEF TypeOK
<1>. QED BY <1>0, <1>2, <1>4, <1>5 DEF Quiet, TypeOK

LEMMA NotSentQuiet == ASSUME IndInv, IndInv', NEW c \in Callers, NotSent(c) PROVE Quiet
<1>q. PICK q \in Requests : q = req[c]
  BY DEF IndInv, TypeOK, NotSent, Settle
<1>0. /\ TypeOK /\ UNCHANGED <<now, created, budget>> /\ UNCHANGED <<lock, clock, seen>>
      /\ Return(c) /\ q \in Rows /\ charged[q] = Null /\ q \in Requests
  BY <1>q DEF IndInv, NotSent, txVars, TypeOK, CallsSound, Owns, Rows
<1>1. /\ charged' = [charged EXCEPT ![q] = 0] /\ charged'[q] = 0
      /\ \A p \in Requests : p # q => charged'[p] = charged[p]
      /\ \A p \in Requests : status'[p] = "absent" <=> status[p] = "absent"
  <2>1. charged' = [charged EXCEPT ![q] = 0] /\ status' = [status EXCEPT ![q] = "not_sent"]
    BY <1>q DEF NotSent
  <2>. QED BY <1>0, <2>1 DEF TypeOK, Rows
<1>2. /\ Rows' = Rows /\ Unsettled' = Unsettled \ {q} /\ q \in Unsettled
      /\ \A p \in Rows : Potential(p)' <= Potential(p)
  <2>1. Rows' = Rows /\ Unsettled' = Unsettled \ {q} /\ q \in Unsettled
    BY <1>0, <1>1, CallsAssumption DEF Rows, Unsettled
  <2>2. \A p \in Rows : Potential(p) \in Nat
    BY <1>0, PotentialType DEF Rows
  <2>3. Potential(q)' = 0
    BY <1>1, CallsAssumption DEF Potential
  <2>4. \A p \in Rows : p # q => Potential(p)' = Potential(p)
    BY <1>1 DEF Potential, Rows
  <2>. QED BY <1>0, <2>1, <2>2, <2>3, <2>4
<1>4. \A d \in Callers : pc'[d] = "held" => pc[d] = "held"
  BY <1>0, Returned
<1>5. now' \in Nat
  BY <1>0 DEF TypeOK
<1>. QED BY <1>0, <1>1, <1>2, <1>4, <1>5 DEF Quiet, TypeOK

LEMMA SettleQuiet == ASSUME IndInv, IndInv', NEW c \in Callers, Settle(c) PROVE Quiet
<1>q. PICK q \in Requests : q = req[c]
  BY DEF IndInv, TypeOK, NotSent, Settle
<1>0. /\ TypeOK /\ UNCHANGED <<now, created, budget>> /\ UNCHANGED <<lock, clock, seen>>
      /\ Return(c) /\ q \in Rows /\ charged[q] = Null /\ q \in Requests /\ lock = NoOne
      /\ bill[q] <= Reserved(q) /\ bill[q] \in Nat /\ Reserved(q) \in Nat
  <2>1. TypeOK /\ CallsSound /\ pc[c] = "settle"
    BY DEF IndInv, Settle
  <2>2. UNCHANGED <<now, created, budget>> /\ UNCHANGED <<lock, clock, seen>> /\ Return(c) /\ lock = NoOne
    BY DEF Settle, MaySettle, txVars
  <2>3. q \in Rows /\ charged[q] = Null /\ bill[q] <= Reserved(q)
    BY <1>q, <2>1 DEF CallsSound, Owns, Rows
  <2>4. bill[q] \in Nat
    BY <1>q, <2>1 DEF TypeOK
  <2>. QED BY <1>q, <2>1, <2>2, <2>3, <2>4, ReservedType
<1>1. /\ \A p \in Requests : p # q => charged'[p] = charged[p]
      /\ charged'[q] \in {charged[q], bill[q]}
      /\ \A p \in Requests : status'[p] = "absent" <=> status[p] = "absent"
  BY <1>q, <1>0 DEF Settle, TypeOK, Rows
<1>2. /\ Rows' = Rows
      /\ \A p \in Rows : Potential(p)' <= Potential(p)
  <2>1. Rows' = Rows
    BY <1>1 DEF Rows
  <2>2. \A p \in Rows : Potential(p) \in Nat
    BY <1>0, PotentialType DEF Rows
  <2>3. Potential(q) = Reserved(q) /\ Potential(q)' \in {Reserved(q), bill[q]}
    BY <1>0, <1>1, CallsAssumption DEF Potential
  <2>4. \A p \in Rows : p # q => Potential(p)' = Potential(p)
    BY <1>1 DEF Potential, Rows
  <2>5. Potential(q)' <= Potential(q)
    BY <1>0, <2>2, <2>3
  <2>. QED BY <1>0, <2>1, <2>2, <2>4, <2>5
<1>4. \A d \in Callers : pc'[d] # "held"
  BY <1>0, Returned, CallsAssumption DEF TypeOK
<1>5. now' \in Nat
  BY <1>0 DEF TypeOK
<1>. QED BY <1>0, <1>2, <1>4, <1>5 DEF Quiet, TypeOK

\* What the rows of a month may cost is within the two sums of exposure().
LEMMA MonthExposure ==
  ASSUME IndInv, Booked, NEW c \in Callers, pc[c] = "held"
  PROVE  /\ Total(Potentials, InMonth(MonthStart(clock))) <= seen + Held
         /\ seen + Held \in Nat
<1>. DEFINE S == InMonth(MonthStart(clock))
            T == SettledSince(MonthStart(clock))
<1>1. TypeOK /\ IsFiniteSet(Rows) /\ seen \in Nat /\ Total(Potentials, T) <= seen
  BY DEF IndInv, Booked
<1>2. /\ S \in SUBSET Rows /\ T \in SUBSET Rows /\ Unsettled \in SUBSET Rows
      /\ S \ Unsettled \in SUBSET T
  <2>1. S \in SUBSET Rows /\ T \in SUBSET Rows /\ Unsettled \in SUBSET Rows
    BY DEF InMonth, SettledSince, Unsettled
  <2>2. ASSUME NEW p \in S \ Unsettled PROVE p \in T
    <3>1. p \in Rows /\ created[p] \in Nat /\ MonthStart(created[p]) = MonthStart(clock)
      BY <1>1, <2>2 DEF InMonth, TypeOK, Rows
    <3>2. MonthStart(created[p]) \in Int /\ MonthStart(created[p]) <= created[p]
      BY <3>1, StartOfMonth
    <3>3. created[p] >= MonthStart(clock)
      <4>1. MonthStart(clock) <= created[p] /\ MonthStart(clock) \in Int
        BY <3>1, <3>2
      <4>. HIDE DEF T, S
      <4>. QED BY <3>1, <4>1
    <3>. QED BY <2>2, <3>1, <3>3 DEF SettledSince
  <2>. QED BY <2>1, <2>2
<1>. HIDE DEF S, T
<1>3. \A p \in Rows : Potentials[p] \in Nat
  BY <1>1, PotentialType DEF Rows
<1>4. /\ IsFiniteSet(S) /\ IsFiniteSet(T) /\ IsFiniteSet(Unsettled)
      /\ IsFiniteSet(S \cap Unsettled) /\ IsFiniteSet(S \ Unsettled)
  BY <1>1, <1>2, FS_Subset
<1>5. Total(Potentials, S) = Total(Potentials, S \cap Unsettled) + Total(Potentials, S \ Unsettled)
  <2>1. S = (S \cap Unsettled) \cup (S \ Unsettled) /\ (S \cap Unsettled) \cap (S \ Unsettled) = {}
    OBVIOUS
  <2>. QED BY <1>2, <1>3, <1>4, <2>1, TotalOfBoth
<1>6. Total(Potentials, S \cap Unsettled) <= Total(Potentials, Unsettled)
  BY <1>2, <1>3, <1>4, TotalLess
<1>7. Total(Potentials, S \ Unsettled) <= Total(Potentials, T)
  BY <1>2, <1>3, <1>4, TotalLess
<1>8. /\ Total(Potentials, S \cap Unsettled) \in Nat /\ Total(Potentials, S \ Unsettled) \in Nat
      /\ Total(Potentials, Unsettled) \in Nat /\ Total(Potentials, T) \in Nat
  BY <1>2, <1>3, <1>4, TotalChosen
<1>9. Held = Total(Potentials, Unsettled)
  BY <1>1, <1>4, HeldTotal
<1>. QED BY <1>1, <1>5, <1>6, <1>7, <1>8, <1>9 DEF S

LEMMA GrantedBooked ==
  ASSUME IndInv, IndInv', Booked, NEW c \in Callers, Reserve(c),
         seen + Held + Reserved(req[c]) <= limit, session = "valid"
  PROVE  Booked'
<1>q. PICK q \in Requests : q = req[c]
  BY DEF IndInv, TypeOK, Reserve
<1>m. PICK m : m = MonthStart(clock)
  OBVIOUS
<1>S. PICK S : S = InMonth(m)
  OBVIOUS
<1>0. TypeOK /\ TypeOK' /\ TxSound /\ RowsSound /\ pc[c] = "held" /\ lock = c
  BY DEF IndInv, Reserve, TypeOK
<1>1. /\ status' = [p \in Requests |->
                     CASE p = q -> "dispatching" [] p \in swept -> "unknown" [] OTHER -> status[p]]
      /\ created' = [created EXCEPT ![q] = clock]
      /\ budget' = [budget EXCEPT ![q] = limit]
      /\ charged' = charged /\ now' = now /\ lock' = NoOne
      /\ Goto(c, "dispatch")
  BY <1>q DEF Reserve, Release
<1>2. q \notin Rows /\ charged[q] = Null /\ Rows' = Rows \cup {q}
  <2>1. status[q] = "absent"
    BY <1>0, <1>q DEF TxSound
  <2>2. charged[q] = Null
    BY <1>0, <2>1 DEF RowsSound, Closed
  <2>3. ASSUME NEW p \in Requests PROVE p \in Rows' <=> p \in Rows \/ p = q
    BY <1>0, <1>1 DEF Rows, TxSound
  <2>. QED BY <2>1, <2>2, <2>3 DEF Rows
<1>3. Potentials' = Potentials
  BY <1>1 DEF Potentials, Potential
<1>4. /\ \A p \in Rows : created'[p] = created[p] /\ budget'[p] = budget[p] /\ created[p] \in Nat
      /\ created'[q] = clock /\ budget'[q] = limit /\ clock \in Nat /\ limit \in Nat
  <2>1. /\ \A p \in Rows : created'[p] = created[p] /\ budget'[p] = budget[p] /\ created[p] \in Nat
        /\ created'[q] = clock /\ budget'[q] = limit /\ clock \in Nat
    BY <1>0, <1>1, <1>2 DEF TypeOK, Rows
  <2>2. limit \in Nat
    BY <1>0, CallsAssumption DEF TypeOK, NoBudget
  <2>. QED BY <2>1, <2>2
<1>5. IsFiniteSet(Rows')
  BY <1>2, FS_AddElement DEF Booked
<1>6. \A p \in Rows' : created'[p] <= now'
  <2>1. clock <= now /\ \A p \in Rows : created[p] <= now
    BY <1>0 DEF Booked, TxSound
  <2>. QED BY <1>1, <1>2, <1>4, <2>1
<1>7. S \in SUBSET Rows /\ {p \in Rows' : MonthStart(created'[p]) = m} = S \cup {q}
  BY <1>m, <1>S, <1>2, <1>4 DEF InMonth
<1>8. Total(Potentials, S \cup {q}) <= limit
  <2>1. IsFiniteSet(S \cup {q}) /\ IsFiniteSet(S)
    BY <1>7, FS_Subset, FS_AddElement DEF Booked
  <2>2. \A p \in S \cup {q} : Potentials[p] \in Nat
    BY <1>0, <1>7, PotentialType DEF Rows
  <2>3. (S \cup {q}) \ {q} = S
    BY <1>2, <1>7
  <2>4. Total(Potentials, S \cup {q}) = Potentials[q] + Total(Potentials, S) /\ Total(Potentials, S) \in Nat
    BY <2>1, <2>2, <2>3, TotalAny
  <2>5. Potentials[q] = Reserved(q) /\ Reserved(q) \in Nat
    BY <1>0, <1>2, PotentialType, ReservedType DEF Potential
  <2>6. Total(Potentials, S) <= seen + Held /\ seen + Held \in Nat
    BY <1>0, <1>m, <1>S, MonthExposure
  <2>7. seen + Held + Reserved(q) <= limit
    BY <1>q
  <2>. QED BY <1>4, <2>4, <2>5, <2>6, <2>7
<1>9. ASSUME NEW k, k = m PROVE Budgeted(k)'
  <2>1. \A p \in S \cup {q} : created'[p] <= created'[q]
    BY <1>0, <1>4, <1>7, CallsAssumption DEF Booked
  <2>2. Total(Potentials', S \cup {q}) <= budget'[q]
    BY <1>3, <1>4, <1>8
  <2>. QED BY <1>7, <1>9, <2>1, <2>2 DEF Budgeted, InMonth
<1>10. ASSUME NEW p \in Rows, MonthStart(created[p]) # m PROVE Budgeted(MonthStart(created[p]))'
  <2>1. PICK k : k = MonthStart(created[p])
    OBVIOUS
  <2>2. {r \in Rows' : MonthStart(created'[r]) = k} = InMonth(k)
    BY <1>2, <1>4, <1>m, <1>10, <2>1 DEF InMonth
  <2>3. PICK last \in InMonth(k) :
          /\ \A r \in InMonth(k) : created[r] <= created[last]
          /\ Total(Potentials, InMonth(k)) <= budget[last]
    BY <2>1 DEF Booked, Budgeted
  <2>4. InMonth(k) \in SUBSET Rows
    BY DEF InMonth
  <2>5. /\ \A r \in InMonth(k) : created'[r] <= created'[last]
        /\ Total(Potentials', InMonth(k)) <= budget'[last]
    BY <1>3, <1>4, <2>3, <2>4
  <2>6. MonthStart(created'[p]) = k
    BY <1>4, <2>1
  <2>. QED BY <2>2, <2>3, <2>5, <2>6 DEF Budgeted, InMonth
<1>11. ASSUME NEW p \in Rows' PROVE Budgeted(MonthStart(created[p]))'
  <2>1. CASE p = q \/ MonthStart(created[p]) = m
    <3>1. MonthStart(created'[p]) = m
      BY <1>2, <1>4, <1>m, <1>11, <2>1
    <3>. QED BY <1>9, <3>1
  <2>2. CASE p # q /\ MonthStart(created[p]) # m
    BY <1>2, <1>10, <1>11, <2>2
  <2>. QED BY <2>1, <2>2
<1>12. \A d \in Callers : pc'[d] # "held"
  BY <1>0, <1>1 DEF Goto, TypeOK
<1>. QED BY <1>1, <1>5, <1>6, <1>11, <1>12 DEF Booked

LEMMA ReserveBooked ==
  ASSUME IndInv, IndInv', Booked, NEW c \in Callers, Reserve(c) PROVE Booked'
<1>1. CASE seen + Held + Reserved(req[c]) <= limit /\ session = "valid"
  BY <1>1, GrantedBooked
<1>2. CASE ~(seen + Held + Reserved(req[c]) <= limit /\ session = "valid")
  <2>1. Return(c) /\ UNCHANGED rowVars /\ UNCHANGED now /\ Release
    BY <1>2 DEF Reserve
  <2>2. lock = c
    BY DEF IndInv, Reserve, TypeOK
  <2>. QED BY <2>1, <2>2, ReleaseQuiet, QuietBooked
<1>. QED BY <1>1, <1>2

LEMMA NextBooked == IndInv /\ Booked /\ [Next]_vars => Booked'
<1>. SUFFICES ASSUME IndInv, Booked, [Next]_vars PROVE Booked'
  OBVIOUS
<1>0. IndInv'
  BY NextHolds
<1>1. ASSUME NEW c \in Callers,
             \/ \E q \in Requests : Begin(c, q)
             \/ Preflight(c) \/ ReadMasterKey(c) \/ Transmit(c) \/ Answer(c) \/ NoAnswer(c) \/ Cancel(c)
      PROVE  Booked'
  BY <1>0, <1>1, CallerQuiet, QuietBooked
<1>2. ASSUME NEW c \in Callers, \/ Admit(c) \/ AdmissionFails(c) \/ Crash(c)
                                \/ NotSent(c) \/ MarkUnknown(c) \/ Settle(c)
      PROVE  Booked'
  BY <1>0, <1>2, AdmitQuiet, FailureQuiet, NotSentQuiet, MarkUnknownQuiet, SettleQuiet, QuietBooked
<1>3. ASSUME NEW c \in Callers, ReadCharged(c) \/ Reserve(c) PROVE Booked'
  BY <1>0, <1>3, ReadChargedBooked, ReserveBooked
<1>4. CASE \/ \E l \in Limits \cup {NoBudget} : Configure(l)
           \/ \E k \in Kinds, on \in BOOLEAN : SetCredential(k, on)
           \/ \E flags \in [Flags -> BOOLEAN] : SetTransfers(flags)
           \/ Logout \/ Expire \/ Tick \/ UNCHANGED vars
  BY <1>0, <1>4, OtherQuiet, QuietBooked
<1>. QED BY <1>1, <1>2, <1>3, <1>4 DEF Next, CallerStep

LEMMA BooksInvariant == Spec => [](IndInv /\ Booked)
<1>1. Init => IndInv /\ Booked
  BY InitHolds, InitBooked
<1>2. IndInv /\ Booked /\ [Next]_vars => (IndInv /\ Booked)'
  BY NextHolds, NextBooked
<1>. QED BY <1>1, <1>2, PTL DEF Spec

\* However many callers admit, settle and fail at once, the calls of a month cost
\* no more than the budget that its last call was admitted under.
THEOREM MonthsStayWithinBudget == Spec => []BudgetKept
<1>1. ASSUME IndInv, Booked PROVE BudgetKept
  <2>. SUFFICES ASSUME NEW q \in Rows, NEW m, m = MonthStart(created[q])
                PROVE  \E last \in InMonth(m) :
                         /\ \A p \in InMonth(m) : created[p] <= created[last]
                         /\ MapThenSumSet(LAMBDA p : Min({bill[p], Reserved(p)}), InMonth(m)) <= budget[last]
    BY Zenon DEF BudgetKept, InMonth
  <2>1. PICK last \in InMonth(m) :
          /\ \A p \in InMonth(m) : created[p] <= created[last]
          /\ Total(Potentials, InMonth(m)) <= budget[last]
    BY <1>1 DEF Booked, Budgeted
  <2>2. TypeOK /\ RowsSound /\ IsFiniteSet(Rows) /\ InMonth(m) \in SUBSET Rows
    BY <1>1 DEF IndInv, Booked, InMonth
  <2>3. IsFiniteSet(InMonth(m))
    BY <2>2, FS_Subset
  <2>4. /\ MapThenSumSet(LAMBDA p : Min({bill[p], Reserved(p)}), InMonth(m)) <= Total(Potentials, InMonth(m))
        /\ MapThenSumSet(LAMBDA p : Min({bill[p], Reserved(p)}), InMonth(m)) \in Nat
    BY <2>2, <2>3, CostTotal
  <2>5. Total(Potentials, InMonth(m)) \in Nat
    <3>1. \A p \in InMonth(m) : Potentials[p] \in Nat
      BY <2>2, PotentialType DEF Rows
    <3>. QED BY <2>3, <3>1, TotalChosen
  <2>6. last \in Requests /\ budget[last] \in Nat
    <3>1. last \in Requests
      BY <2>2 DEF Rows
    <3>2. Limits \cup {NoBudget} \subseteq Nat
      BY CallsAssumption DEF NoBudget
    <3>. QED BY <2>2, <3>1, <3>2 DEF TypeOK
  <2>. QED
    <3>1. \A x, y, z \in Nat : x <= y /\ y <= z => x <= z
      OBVIOUS
    <3>. QED BY <2>1, <2>4, <2>5, <2>6, <3>1, Zenon
<1>. QED BY <1>1, BooksInvariant, PTL

-----------------------------------------------------------------------------
(* The abstract ledger                                                      *)

LedgerState ==
  [q \in Requests |->
     CASE status[q] = "absent" -> "free" [] q \in Unsettled -> "open" [] OTHER -> "closed"]
LedgerPaid == [q \in Requests |-> IF charged[q] = Null THEN 0 ELSE charged[q]]

LEMMA StateOfLedger ==
  ASSUME TypeOK, RowsSound, NEW q \in Requests
  PROVE  /\ LedgerState[q] = "free" <=> q \notin Rows
         /\ LedgerState[q] = "open" <=> q \in Unsettled
         /\ LedgerState[q] = "closed" <=> q \in Rows \ Unsettled
         /\ LedgerState[q] = IF q \notin Rows THEN "free" ELSE IF charged[q] = Null THEN "open" ELSE "closed"
BY DEF LedgerState, Rows, Unsettled

\* What the ledger counts is within what an admission has read.
LEMMA ExposureRead ==
  ASSUME IndInv, Booked, NEW c \in Callers, pc[c] = "held"
  PROVE  Ledger!Exposure(clock) <= seen + Held /\ Ledger!Exposure(clock) \in Nat /\ seen + Held \in Nat
<1>. DEFINE S == {q \in {p \in Requests : LedgerState[p] = "closed"} : created[q] >= MonthStart(clock)}
            T == {q \in Requests : LedgerState[q] = "open"}
<1>0. TypeOK /\ RowsSound /\ IsFiniteSet(Rows)
  BY DEF IndInv, Booked
<1>1. Ledger!Exposure(clock) =
        (CHOOSE f : f = [s \in SUBSET S |->
           IF s = {} THEN 0 ELSE LedgerPaid[Chosen(s)] + f[s \ {Chosen(s)}]])[S]
        + (CHOOSE f : f = [s \in SUBSET T |->
             IF s = {} THEN 0 ELSE Reserved(Chosen(s)) + f[s \ {Chosen(s)}]])[T]
  BY Zenon DEF Ledger!Exposure, Ledger!In, Ledger!MapThenSumSet, Ledger!MapThenFoldSet, Chosen,
     LedgerState, LedgerPaid
<1>2. S = SettledSince(MonthStart(clock)) /\ T = Unsettled
  BY <1>0, StateOfLedger DEF SettledSince, Rows, Unsettled
<1>. HIDE DEF S, T
<1>3. IsFiniteSet(S) /\ IsFiniteSet(T) /\ S \in SUBSET Rows /\ T \in SUBSET Rows
  BY <1>0, <1>2, FS_Subset DEF SettledSince, Unsettled
<1>4. /\ \A q \in S : Potentials[q] = LedgerPaid[q] /\ LedgerPaid[q] \in Nat /\ Potentials[q] \in Nat
      /\ \A q \in T : charged[q] = Null /\ q \in Requests /\ Potentials[q] \in Nat
  <2>1. /\ \A q \in S : q \in Requests /\ charged[q] # Null
        /\ \A q \in T : charged[q] = Null /\ q \in Requests
    BY <1>2 DEF SettledSince, Unsettled, Rows
  <2>2. \A q \in S : charged[q] \in Nat
    BY <1>0, <2>1 DEF TypeOK
  <2>. QED BY <1>0, <2>1, <2>2, PotentialType DEF LedgerPaid, Potential
<1>5. Ledger!Exposure(clock) = Total(LedgerPaid, S) + Total(Potentials, T)
  <2>1. (CHOOSE f : f = [s \in SUBSET S |->
           IF s = {} THEN 0 ELSE LedgerPaid[Chosen(s)] + f[s \ {Chosen(s)}]])[S] = Total(LedgerPaid, S)
    BY <1>3, <1>4, FoldTotal, Zenon
  <2>2. T \in SUBSET Requests
    BY <1>4
  <2>3. (CHOOSE f : f = [s \in SUBSET T |->
             IF s = {} THEN 0 ELSE Reserved(Chosen(s)) + f[s \ {Chosen(s)}]])[T] = Total(Potentials, T)
    BY <1>0, <1>3, <1>4, <2>2, OpenTotal, Zenon
  <2>. QED BY <1>1, <2>1, <2>3, Zenon
<1>6. Total(LedgerPaid, S) = Total(Potentials, S)
  BY <1>3, <1>4, TotalSame
<1>7. Held = Total(Potentials, T)
  BY <1>0, <1>2, <1>3, HeldTotal
<1>8. Total(Potentials, S) \in Nat /\ Total(Potentials, T) \in Nat
  BY <1>3, <1>4, TotalChosen
<1>9. Total(Potentials, S) <= seen /\ seen \in Nat
  BY <1>2 DEF Booked
<1>. QED BY <1>5, <1>6, <1>7, <1>8, <1>9

\* The state of a row in the ledger, now and after a step.
StateOf(st, ch) == IF st = "absent" THEN "free" ELSE IF ch = Null THEN "open" ELSE "closed"

LEMMA LedgerStates ==
  /\ LedgerState = [q \in Requests |-> StateOf(status[q], charged[q])]
  /\ LedgerState' = [q \in Requests |-> StateOf(status'[q], charged'[q])]
BY DEF LedgerState, StateOf, Rows, Unsettled

\* A step that neither admits nor charges is at most one of the clock or the limit.
LEMMA RowsUnseen ==
  ASSUME UNCHANGED <<created, charged>>,
         \A q \in Requests : status'[q] = "absent" <=> status[q] = "absent"
  PROVE  UNCHANGED <<LedgerState, created, LedgerPaid>>
<1>1. \A q \in Requests : StateOf(status'[q], charged'[q]) = StateOf(status[q], charged[q])
  BY DEF StateOf
<1>2. LedgerState' = LedgerState
  BY <1>1, LedgerStates, Zenon
<1>. QED BY <1>2 DEF LedgerPaid

LEMMA LedgerStutters ==
  UNCHANGED <<LedgerState, created, LedgerPaid, now, limit>> => UNCHANGED Ledger!vars
BY DEF Ledger!vars, LedgerState, LedgerPaid

LEMMA LedgerInit == Init => Ledger!Init
<1>. SUFFICES ASSUME Init PROVE Ledger!Init
  OBVIOUS
<1>1. LedgerState = [q \in Requests |-> "free"]
  BY LedgerStates DEF Init, StateOf
<1>2. LedgerPaid = [q \in Requests |-> 0]
  BY DEF Init, LedgerPaid
<1>. QED BY <1>1, <1>2 DEF Init, Ledger!Init, LedgerState, LedgerPaid

LEMMA LedgerOpens ==
  ASSUME IndInv, Booked, NEW c \in Callers, Reserve(c),
         seen + Held + Reserved(req[c]) <= limit, session = "valid"
  PROVE  Ledger!Next
<1>q. PICK q \in Requests : q = req[c]
  BY DEF IndInv, TypeOK, Reserve
<1>t. PICK t : t = clock
  OBVIOUS
<1>0. TypeOK /\ TxSound /\ RowsSound /\ pc[c] = "held"
  BY DEF IndInv, Reserve
<1>1. /\ status' = [p \in Requests |->
                     CASE p = q -> "dispatching" [] p \in swept -> "unknown" [] OTHER -> status[p]]
      /\ created' = [created EXCEPT ![q] = t]
      /\ UNCHANGED <<charged, now, limit>>
  BY <1>q, <1>t DEF Reserve, adminVars
<1>2. status[q] = "absent" /\ charged[q] = Null /\ t \in 0 .. now /\ t <= now
  BY <1>0, <1>q, <1>t DEF TxSound, RowsSound, Closed, TypeOK
<1>3. /\ \A p \in Requests \ {q} : StateOf(status'[p], charged'[p]) = StateOf(status[p], charged[p])
      /\ StateOf(status'[q], charged'[q]) = "open" /\ StateOf(status[q], charged[q]) = "free"
  BY <1>0, <1>1, <1>2 DEF StateOf, TxSound
<1>4. LedgerState' = [LedgerState EXCEPT ![q] = "open"] /\ LedgerState[q] = "free"
  <2>1. \A p \in Requests : LedgerState'[p] = IF p = q THEN "open" ELSE LedgerState[p]
    BY <1>3, LedgerStates
  <2>. QED BY <1>3, <2>1, LedgerStates
<1>5. Ledger!Exposure(t) + Reserved(q) <= limit
  <2>1. /\ Ledger!Exposure(t) <= seen + Held /\ Ledger!Exposure(t) \in Nat /\ seen + Held \in Nat
        /\ seen + Held + Reserved(q) <= limit /\ Reserved(q) \in Nat
    BY <1>0, <1>q, <1>t, ExposureRead, ReservedType
  <2>2. limit \in Nat
    BY <1>0, CallsAssumption DEF TypeOK, NoBudget
  <2>. QED BY <2>1, <2>2
<1>6. LedgerPaid' = LedgerPaid
  BY <1>1 DEF LedgerPaid
<1>7. Ledger!Open(q, t)
  BY <1>1, <1>2, <1>4, <1>5, <1>6 DEF Ledger!Open, LedgerState, LedgerPaid
<1>. QED BY <1>2, <1>7 DEF Ledger!Next

LEMMA LedgerCloses ==
  ASSUME IndInv, NEW q \in Requests, NEW amount \in 0 .. Reserved(q),
         charged[q] = Null, status[q] # "absent",
         charged' = [charged EXCEPT ![q] = amount], status'[q] # "absent",
         \A p \in Requests : p # q => status'[p] = status[p],
         UNCHANGED <<created, now, limit>>
  PROVE  Ledger!Next
<1>0. TypeOK /\ amount # Null /\ amount \in Nat /\ amount <= Reserved(q)
  BY CallsAssumption, ReservedType DEF IndInv
<1>1. charged'[q] = amount /\ \A p \in Requests \ {q} : charged'[p] = charged[p]
  BY <1>0 DEF TypeOK
<1>2. /\ \A p \in Requests \ {q} : StateOf(status'[p], charged'[p]) = StateOf(status[p], charged[p])
      /\ StateOf(status'[q], charged'[q]) = "closed" /\ StateOf(status[q], charged[q]) = "open"
  BY <1>0, <1>1 DEF StateOf
<1>3. LedgerState' = [LedgerState EXCEPT ![q] = "closed"] /\ LedgerState[q] = "open"
  <2>1. \A p \in Requests : LedgerState'[p] = IF p = q THEN "closed" ELSE LedgerState[p]
    BY <1>2, LedgerStates
  <2>. QED BY <1>2, <2>1, LedgerStates
<1>4. LedgerPaid' = [LedgerPaid EXCEPT ![q] = amount]
  BY <1>0, <1>1 DEF LedgerPaid
<1>5. Ledger!Close(q, amount)
  BY <1>0, <1>3, <1>4 DEF Ledger!Close, LedgerState, LedgerPaid
<1>. QED BY <1>5 DEF Ledger!Next

LEMMA LedgerSteps == IndInv /\ Booked /\ [Next]_vars => [Ledger!Next]_(Ledger!vars)
<1>. SUFFICES ASSUME IndInv, Booked, [Next]_vars PROVE [Ledger!Next]_(Ledger!vars)
  OBVIOUS
<1>0. TypeOK /\ CallsSound /\ TxSound
  BY DEF IndInv
<1>1. ASSUME NEW c \in Callers,
             \/ \E q \in Requests : Begin(c, q)
             \/ Preflight(c) \/ ReadMasterKey(c) \/ ReadCharged(c) \/ AdmissionFails(c)
             \/ Transmit(c) \/ Answer(c) \/ NoAnswer(c) \/ Crash(c) \/ Cancel(c)
      PROVE  UNCHANGED Ledger!vars
  <2>1. UNCHANGED <<rowVars, now, limit>>
    BY <1>1 DEF Begin, Preflight, ReadMasterKey, ReadCharged, AdmissionFails, Transmit, Answer,
       NoAnswer, Crash, Cancel, adminVars
  <2>2. UNCHANGED <<LedgerState, created, LedgerPaid>>
    BY <2>1, RowsUnseen DEF rowVars
  <2>. QED BY <2>1, <2>2, LedgerStutters
<1>2. ASSUME NEW c \in Callers, Admit(c) \/ MarkUnknown(c) PROVE UNCHANGED Ledger!vars
  <2>1. UNCHANGED <<created, charged, now, limit>>
    BY <1>2 DEF Admit, MarkUnknown, adminVars
  <2>2. \A q \in Requests : status'[q] = "absent" <=> status[q] = "absent"
    BY <1>0, <1>2 DEF Admit, MarkUnknown, Sweep, Overdue, TypeOK
  <2>. QED BY <2>1, <2>2, RowsUnseen, LedgerStutters
<1>3. ASSUME NEW c \in Callers, Reserve(c) PROVE [Ledger!Next]_(Ledger!vars)
  <2>1. CASE seen + Held + Reserved(req[c]) <= limit /\ session = "valid"
    BY <1>3, <2>1, LedgerOpens
  <2>2. CASE ~(seen + Held + Reserved(req[c]) <= limit /\ session = "valid")
    <3>1. UNCHANGED <<rowVars, now, limit>>
      BY <1>3, <2>2 DEF Reserve, adminVars
    <3>. QED BY <3>1, RowsUnseen, LedgerStutters DEF rowVars
  <2>. QED BY <2>1, <2>2
<1>4. ASSUME NEW c \in Callers, NotSent(c) PROVE Ledger!Next
  <2>1. PICK q \in Requests : q = req[c]
    BY <1>0, <1>4 DEF NotSent, TypeOK
  <2>2. charged[q] = Null /\ status[q] # "absent"
    BY <1>0, <1>4, <2>1 DEF NotSent, CallsSound, Owns
  <2>3. /\ charged' = [charged EXCEPT ![q] = 0] /\ status' = [status EXCEPT ![q] = "not_sent"]
        /\ UNCHANGED <<created, now, limit>>
    BY <1>4, <2>1 DEF NotSent, adminVars
  <2>4. status'[q] # "absent" /\ \A p \in Requests : p # q => status'[p] = status[p]
    BY <1>0, <2>3 DEF TypeOK
  <2>5. 0 \in 0 .. Reserved(q)
    BY ReservedType
  <2>. QED BY <2>2, <2>3, <2>4, <2>5, LedgerCloses
<1>5. ASSUME NEW c \in Callers, Settle(c) PROVE [Ledger!Next]_(Ledger!vars)
  <2>1. PICK q \in Requests : q = req[c]
    BY <1>0, <1>5 DEF Settle, TypeOK
  <2>2. charged[q] = Null /\ status[q] # "absent" /\ bill[q] <= Reserved(q)
    BY <1>0, <1>5, <2>1 DEF Settle, CallsSound, Owns
  <2>3. PICK amount : amount = bill[q]
    OBVIOUS
  <2>4. UNCHANGED <<created, now, limit>>
    BY <1>5 DEF Settle, adminVars
  <2>5. CASE UNCHANGED <<status, charged>>
    BY <2>4, <2>5, RowsUnseen, LedgerStutters
  <2>6. CASE ~UNCHANGED <<status, charged>>
    <3>1. PICK outcome \in {"succeeded", "incomplete"} : status' = [status EXCEPT ![q] = outcome]
      BY <1>5, <2>1, <2>6 DEF Settle
    <3>2. charged' = [charged EXCEPT ![q] = amount]
      BY <1>5, <2>1, <2>3, <2>6 DEF Settle
    <3>3. status'[q] # "absent" /\ \A p \in Requests : p # q => status'[p] = status[p]
      BY <1>0, <3>1 DEF TypeOK
    <3>4. amount \in 0 .. Reserved(q)
      BY <1>0, <2>2, <2>3, ReservedType DEF TypeOK
    <3>. QED BY <2>2, <2>4, <3>2, <3>3, <3>4, LedgerCloses
  <2>. QED BY <2>5, <2>6
<1>6. ASSUME NEW l \in Limits \cup {NoBudget}, Configure(l) PROVE Ledger!Next
  <2>1. UNCHANGED <<rowVars, now>> /\ limit' = l
    BY <1>6 DEF Configure
  <2>2. UNCHANGED <<LedgerState, created, LedgerPaid>>
    BY <2>1, RowsUnseen DEF rowVars
  <2>. QED BY <2>1, <2>2 DEF Ledger!Next, LedgerState, LedgerPaid
<1>7. CASE Tick
  <2>1. UNCHANGED <<rowVars, limit>> /\ now' = now + 1
    BY <1>7 DEF Tick, adminVars
  <2>2. UNCHANGED <<LedgerState, created, LedgerPaid>>
    BY <2>1, RowsUnseen DEF rowVars
  <2>. QED BY <2>1, <2>2 DEF Ledger!Next, LedgerState, LedgerPaid
<1>8. CASE \/ \E k \in Kinds, on \in BOOLEAN : SetCredential(k, on)
           \/ \E flags \in [Flags -> BOOLEAN] : SetTransfers(flags)
           \/ Logout \/ Expire \/ UNCHANGED vars
  <2>1. UNCHANGED <<rowVars, now, limit>>
    BY <1>8 DEF SetCredential, SetTransfers, Logout, Expire, vars, adminVars
  <2>. QED BY <2>1, RowsUnseen, LedgerStutters DEF rowVars
<1>. QED BY <1>1, <1>2, <1>3, <1>4, <1>5, <1>6, <1>7, <1>8 DEF Next, CallerStep

\* run(), with its transactions, sweeps, late steps and failures, spends money as a
\* ledger does that admits and closes each call in one step.
THEOREM RunImplementsLedger == Spec => ImplementsLedger
<1>1. Init => Ledger!Init
  BY LedgerInit
<1>2. IndInv /\ Booked /\ [Next]_vars => [Ledger!Next]_(Ledger!vars)
  BY LedgerSteps
<1>. QED BY <1>1, <1>2, BooksInvariant, PTL DEF Spec, ImplementsLedger, Ledger!Spec

=============================================================================
