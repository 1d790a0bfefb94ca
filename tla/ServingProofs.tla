---------------------------- MODULE ServingProofs ----------------------------
(***************************************************************************)
(* Proofs about what stands between a request and the work it asks for:    *)
(* execution budgets, resumable uploads, API keys, authorization, the      *)
(* audit trail, the clients of the model services and the metrics.  An     *)
(* invariant is a conjunction about one row, call or request at a time,    *)
(* stated with an operator of the row, so that a step of one of them       *)
(* leaves the others' alone.                                               *)
(***************************************************************************)
EXTENDS ApiKeys, Uploads, Authorization, AuditTrail, ExecutionBudget, ModelReadiness, MetricsRegistry,
        NumberLemmas, FiniteSetTheorems, TLAPS

-----------------------------------------------------------------------------
(***************************************************************************)
(* Execution budgets                                                       *)
(***************************************************************************)

RequestRow ==
    [state : {"new", "running", "done"}, op : Operation \cup {"none"}, slot : BOOLEAN,
     late : BOOLEAN, status : Nat]

Holders(req, o) == {r \in Request : req[r].slot /\ req[r].op = o}

\* A slot belongs to a request at work in a class with a limit; that is why
\* `Return` can skip the release of a class without one.
HoldsRightly(q) == q.slot => q.state = "running" /\ q.op \in Operation /\ ~Unlimited(q.op)

SlotsCounted(taken, req) ==
    \A o \in Operation :
      /\ IsFiniteSet(Holders(req, o))
      /\ taken[o] = Cardinality(Holders(req, o))
      /\ taken[o] <= Concurrency[o]

BudgetIInv ==
    /\ slots \in [Operation -> Nat]
    /\ request \in [Request -> RequestRow]
    /\ \A r \in Request : HoldsRightly(request[r])
    /\ SlotsCounted(slots, request)

\* A request that neither held a slot nor takes one.
LEMMA NoSlotMoves ==
    ASSUME BudgetIInv, NEW r \in Request, NEW q \in RequestRow, q.slot = request[r].slot,
           q.op = request[r].op \/ ~q.slot, HoldsRightly(q),
           request' = [request EXCEPT ![r] = q], slots' = slots
    PROVE  BudgetIInv'
<1>1. \A s \in Request : request'[s] = IF s = r THEN q ELSE request[s]
  BY DEF BudgetIInv
<1>2. ASSUME NEW o \in Operation PROVE Holders(request', o) = Holders(request, o)
  BY <1>1 DEF Holders
<1>3. SlotsCounted(slots, request)'
  BY <1>2 DEF BudgetIInv, SlotsCounted
<1>4. \A s \in Request : HoldsRightly(request[s])'
  BY <1>1 DEF BudgetIInv, HoldsRightly
<1> QED BY <1>1, <1>3, <1>4 DEF BudgetIInv

LEMMA BudgetStep == BudgetIInv /\ [BudgetNext]_budgetVars => BudgetIInv'
<1> SUFFICES ASSUME BudgetIInv, [BudgetNext]_budgetVars PROVE BudgetIInv'
  OBVIOUS
<1> USE BudgetAssumption
<1>0. ASSUME NEW r \in Request
      PROVE  /\ request[r] \in RequestRow /\ HoldsRightly(request[r])
             /\ request[r].state # "running" => ~request[r].slot
  BY DEF BudgetIInv, HoldsRightly
<1>1. ASSUME NEW r \in Request, NEW op \in Operation \cup {"none"}, Admit(r, op) PROVE BudgetIInv'
  <2>1. ~request[r].slot
    BY <1>0, <1>1 DEF Admit
  <2>2. ASSUME NEW q, q = [NewRequest EXCEPT !.state = "running", !.op = op] 
                      \/ q = [NewRequest EXCEPT !.state = "done", !.op = op, !.status = 429],
               request' = [request EXCEPT ![r] = q], slots' = slots
        PROVE  BudgetIInv'
    <3>1. q \in RequestRow /\ q.slot = FALSE
      <4>1. CASE q = [NewRequest EXCEPT !.state = "running", !.op = op]
        BY <4>1 DEF NewRequest, RequestRow
      <4>2. CASE q = [NewRequest EXCEPT !.state = "done", !.op = op, !.status = 429]
        <5>1. q = [state |-> "done", op |-> op, slot |-> FALSE, late |-> FALSE, status |-> 429]
          BY <4>2 DEF NewRequest
        <5> QED BY <5>1 DEF RequestRow
      <4> QED BY <2>2, <4>1, <4>2
    <3>2. HoldsRightly(q) /\ q.slot = request[r].slot
      BY <1>0, <2>1, <3>1 DEF HoldsRightly, RequestRow
    <3> QED BY <2>2, <3>1, <3>2, NoSlotMoves
  <2>3. ASSUME ~Unlimited(op), HasSlot(op),
               request' = [request EXCEPT ![r] = [NewRequest EXCEPT !.state = "running", !.op = op, !.slot = TRUE]],
               slots' = [slots EXCEPT ![op] = @ + 1]
        PROVE  BudgetIInv'
    <3> DEFINE q == [NewRequest EXCEPT !.state = "running", !.op = op, !.slot = TRUE]
    <3>1. op \in Operation /\ op # "none" /\ q \in RequestRow /\ q.slot /\ q.op = op /\ q.state = "running"
      BY <2>3 DEF Unlimited, NewRequest, RequestRow
    <3>2. request' = [request EXCEPT ![r] = q]
      BY <2>3
    <3> HIDE DEF q
    <3>3. \A s \in Request : request'[s] = IF s = r THEN q ELSE request[s]
      BY <3>2 DEF BudgetIInv
    <3>4. Holders(request', op) = Holders(request, op) \cup {r} /\ r \notin Holders(request, op)
      BY <2>1, <3>1, <3>3 DEF Holders
    <3>5. \A o \in Operation : o # op => Holders(request', o) = Holders(request, o)
      BY <2>1, <3>1, <3>3 DEF Holders
    <3>6. /\ IsFiniteSet(Holders(request', op))
          /\ Cardinality(Holders(request', op)) = Cardinality(Holders(request, op)) + 1
      BY <3>1, <3>4, FS_AddElement DEF BudgetIInv, SlotsCounted
    <3>7. /\ slots' \in [Operation -> Nat] /\ slots'[op] = slots[op] + 1
          /\ \A o \in Operation : o # op => slots'[o] = slots[o]
      BY <2>3, <3>1 DEF BudgetIInv
    <3>8. slots'[op] <= Concurrency[op]
      BY <2>3, <3>1, <3>7 DEF HasSlot, BudgetIInv
    <3>9. SlotsCounted(slots, request)'
      BY <3>5, <3>6, <3>7, <3>8 DEF BudgetIInv, SlotsCounted
    <3>10. \A s \in Request : HoldsRightly(request[s])'
      BY <2>3, <3>1, <3>3 DEF BudgetIInv, HoldsRightly
    <3> QED BY <3>1, <3>3, <3>2, <3>7, <3>9, <3>10 DEF BudgetIInv
  <2> QED BY <1>1, <2>2, <2>3 DEF Admit
<1>2. ASSUME NEW r \in Request, DeadlinePasses(r) PROVE BudgetIInv'
  <2> DEFINE q == [request[r] EXCEPT !.late = TRUE]
  <2>1. q \in RequestRow /\ q.op = request[r].op /\ q.state = request[r].state
    BY <1>0 DEF RequestRow
  <2>2. q.slot = request[r].slot
    BY <1>0, Zenon DEF RequestRow
  <2>3. request' = [request EXCEPT ![r] = q] /\ slots' = slots
    BY <1>2 DEF DeadlinePasses
  <2> HIDE DEF q
  <2>4. HoldsRightly(q)
    BY <1>0, <2>1, <2>2 DEF HoldsRightly
  <2> QED BY <2>1, <2>2, <2>3, <2>4, NoSlotMoves
<1>3. ASSUME NEW r \in Request, Again(r) PROVE BudgetIInv'
  <2>1. ~request[r].slot /\ request' = [request EXCEPT ![r] = NewRequest] /\ slots' = slots
    BY <1>0, <1>3 DEF Again
  <2>2. NewRequest \in RequestRow /\ NewRequest.slot = FALSE
    BY DEF NewRequest, RequestRow
  <2>3. HoldsRightly(NewRequest) /\ NewRequest.slot = request[r].slot
    BY <1>0, <2>1, <2>2 DEF HoldsRightly, RequestRow
  <2> QED BY <2>1, <2>2, <2>3, NoSlotMoves
<1>4. ASSUME NEW r \in Request, NEW status \in {200, 500}, Return(r, status) PROVE BudgetIInv'
  <2> DEFINE op == request[r].op
             code == IF request[r].late THEN 504 ELSE status
             q == [request[r] EXCEPT !.state = "done", !.slot = FALSE, !.status = code]
  <2>0. code \in Nat
    OBVIOUS
  <2>2. request' = [request EXCEPT ![r] = q]
    BY <1>4 DEF Return
  <2>1. q \in RequestRow /\ q.slot = FALSE
    <3> DEFINE p == [request[r] EXCEPT !.state = "done"]
               s == [p EXCEPT !.slot = FALSE]
    <3> HIDE DEF code
    <3>1. p \in RequestRow
      BY <1>0 DEF RequestRow
    <3>2. s \in RequestRow /\ s.slot = FALSE
      BY <3>1 DEF RequestRow
    <3>3. q = [s EXCEPT !.status = code]
      BY <1>0
    <3> HIDE DEF s, q
    <3> QED BY <2>0, <3>2, <3>3 DEF RequestRow
  <2> HIDE DEF q
  <2>3. HoldsRightly(q)
    BY <2>1 DEF HoldsRightly
  <2>4. CASE ~request[r].slot
    <3>1. slots' = slots
      <4>1. ~Unlimited(op) => op \in Operation /\ slots' = [slots EXCEPT ![op] = @ - 0]
        BY <1>0, <1>4, <2>4 DEF Return, Releases, Unlimited, RequestRow
      <4>2. op \in Operation => slots[op] \in Nat /\ slots[op] - 0 = slots[op]
        BY DEF BudgetIInv
      <4> QED BY <1>4, <4>1, <4>2 DEF Return, BudgetIInv
    <3>2. q.slot = request[r].slot
      BY <1>0, <2>1, <2>4 DEF RequestRow
    <3> QED BY <2>1, <2>2, <2>3, <3>1, <3>2, NoSlotMoves
  <2>5. CASE request[r].slot
    <3>1. op \in Operation /\ ~Unlimited(op)
      BY <1>0, <2>5 DEF HoldsRightly
    <3>2. slots' = [slots EXCEPT ![op] = @ - 1]
      BY <1>4, <2>5, <3>1 DEF Return, Releases
    <3>3. \A s \in Request : request'[s] = IF s = r THEN q ELSE request[s]
      BY <2>2 DEF BudgetIInv
    <3>4. r \in Holders(request, op) /\ Holders(request', op) = Holders(request, op) \ {r}
      BY <2>1, <2>5, <3>3 DEF Holders
    <3>5. \A o \in Operation : o # op => Holders(request', o) = Holders(request, o)
      BY <2>1, <3>3 DEF Holders
    <3>6. /\ IsFiniteSet(Holders(request', op))
          /\ Cardinality(Holders(request', op)) = Cardinality(Holders(request, op)) - 1
      BY <3>1, <3>4, FS_RemoveElement DEF BudgetIInv, SlotsCounted
    <3>7. Cardinality(Holders(request', op)) \in Nat
      BY <3>6, FS_CardinalityType
    <3>8. /\ slots' \in [Operation -> Nat] /\ slots'[op] = slots[op] - 1
          /\ \A o \in Operation : o # op => slots'[o] = slots[o]
      BY <3>1, <3>2, <3>6, <3>7 DEF BudgetIInv, SlotsCounted
    <3>9. slots'[op] <= Concurrency[op]
      BY <3>1, <3>8 DEF BudgetIInv, SlotsCounted
    <3>10. SlotsCounted(slots, request)'
      BY <3>5, <3>6, <3>8, <3>9 DEF BudgetIInv, SlotsCounted
    <3>11. \A s \in Request : HoldsRightly(request[s])'
      BY <2>3, <3>3 DEF BudgetIInv, HoldsRightly
    <3> QED BY <2>1, <2>2, <3>8, <3>10, <3>11 DEF BudgetIInv
  <2> QED BY <2>4, <2>5
<1>5. CASE UNCHANGED budgetVars
  <2>1. slots' = slots /\ request' = request
    BY <1>5 DEF budgetVars
  <2> QED BY <2>1 DEF BudgetIInv
<1> QED BY <1>1, <1>2, <1>3, <1>4, <1>5 DEF BudgetNext

\* However a handler leaves (an answer, an error, a panic, a missed deadline),
\* Controller.Start's release gives its slot back: the slots taken are those of
\* the requests at work, and no class exceeds its concurrency.
THEOREM BudgetsHold == BudgetSpec => []SlotsAreHeld
<1>1. BudgetInit => BudgetIInv
  <2> SUFFICES ASSUME BudgetInit PROVE BudgetIInv
    OBVIOUS
  <2>1. NewRequest \in RequestRow /\ NewRequest.slot = FALSE
    BY DEF NewRequest, RequestRow
  <2>2. \A o \in Operation : Holders(request, o) = {}
    BY <2>1 DEF BudgetInit, Holders
  <2>3. SlotsCounted(slots, request)
    BY <2>2, FS_EmptySet, BudgetAssumption DEF BudgetInit, SlotsCounted
  <2> QED BY <2>1, <2>3 DEF BudgetInit, BudgetIInv, HoldsRightly
<1>2. BudgetIInv => SlotsAreHeld
  BY DEF BudgetIInv, SlotsCounted, Holders, SlotsAreHeld
<1> QED BY <1>1, <1>2, BudgetStep, PTL DEF BudgetSpec

-----------------------------------------------------------------------------
(***************************************************************************)
(* Resumable uploads                                                       *)
(***************************************************************************)

SessionRow ==
    [status : {"none", "uploading", "completed", "canceled"}, total : Nat, received : Nat]

CompletingCall ==
    {IdleUpload} \cup [step : {"file"}, received : Nat]
                \cup [step : {"ingest"}, body : Seq(Nat)]
                \cup {[step |-> "complete"]}

\* The part file has at least the bytes acknowledged, and when it has no more
\* it is what the client sent: a partial write leaves it too long for ever.
FileIsSound(s, file) ==
    s.status # "canceled" => /\ Len(file) >= s.received
                             /\ Len(file) = s.received => file = Prefix(s.received)

\* With a declared size, a call that got past ReadUpload has seen all of it,
\* and nothing can be appended any more.
CallIsSound(call, s, docs) ==
    /\ call # IdleUpload => s.status # "none"
    /\ call # IdleUpload /\ s.total > 0 => s.received = s.total
    /\ call.step = "file" => call.received <= s.received
    /\ call.step = "file" /\ s.total > 0 => call.received = s.total
    /\ call.step = "ingest" => call.body = Prefix(Len(call.body))
    /\ call.step = "ingest" /\ s.total > 0 => Len(call.body) = s.total
    /\ call.step = "complete" /\ s.total > 0 => \E body \in docs : Len(body) = s.total

CompletedIsSound(s, docs) ==
    s.status = "completed" /\ s.total > 0 =>
      s.received = s.total /\ \E body \in docs : Len(body) = s.total

UploadIInv ==
    /\ session \in SessionRow
    /\ partFile \in Seq(Nat)
    /\ completing \in [UploadCall -> CompletingCall]
    /\ ingestedDocs \subseteq Seq(Nat)
    /\ session.status = "none" => session = NoSession /\ partFile = << >>
    /\ FileIsSound(session, partFile)
    /\ \A c \in UploadCall : CallIsSound(completing[c], session, ingestedDocs)
    /\ CompletedIsSound(session, ingestedDocs)
    /\ IngestedIsSent

\* The steps of one call of completeUploadSession that leave the session and
\* the file alone.
LEMMA CallMoves ==
    ASSUME UploadIInv, NEW c \in UploadCall, NEW call \in CompletingCall,
           completing' = [completing EXCEPT ![c] = call], session' = session, partFile' = partFile,
           ingestedDocs' = ingestedDocs, CallIsSound(call, session, ingestedDocs)
    PROVE  UploadIInv'
<1>1. \A d \in UploadCall : completing'[d] = IF d = c THEN call ELSE completing[d]
  BY DEF UploadIInv
<1>2. \A d \in UploadCall : CallIsSound(completing[d], session, ingestedDocs)'
  BY <1>1 DEF UploadIInv
<1> QED BY <1>2 DEF UploadIInv, IngestedIsSent

LEMMA IdleIsSound ==
    ASSUME NEW s, NEW docs PROVE CallIsSound(IdleUpload, s, docs) /\ IdleUpload \in CompletingCall
BY DEF CallIsSound, IdleUpload, CompletingCall

\* A chunk written at the end of a prefix of the document gives a longer one.
LEMMA PrefixGrows ==
    ASSUME NEW r \in Nat, NEW w \in Nat
    PROVE  Prefix(r) \o [i \in 1..w |-> r + i] = Prefix(r + w)
<1> DEFINE p == Prefix(r)
           chunk == [i \in 1..w |-> r + i]
<1>1. p \in Seq(Nat) /\ Len(p) = r /\ \A i \in 1..r : p[i] = i
  BY DEF Prefix
<1>2. chunk \in Seq(Nat) /\ Len(chunk) = w /\ \A i \in 1..w : chunk[i] = r + i
  OBVIOUS
<1> HIDE DEF p, chunk
<1>3. p \o chunk \in Seq(Nat) /\ Len(p \o chunk) = r + w
  BY <1>1, <1>2
<1>4. ASSUME NEW i \in 1..(r + w) PROVE (p \o chunk)[i] = i
  <2>1. CASE i <= r
    <3>1. i \in 1..r /\ (p \o chunk)[i] = p[i]
      BY <1>1, <1>2, <2>1
    <3> QED BY <1>1, <3>1
  <2>2. CASE i > r
    <3>1. i - r \in 1..w /\ (p \o chunk)[i] = chunk[i - r]
      BY <1>1, <1>2, <2>2
    <3>2. chunk[i - r] = r + (i - r)
      BY <1>2, <3>1
    <3> QED BY <3>1, <3>2
  <2>3. i <= r \/ i > r
    OBVIOUS
  <2> QED BY <2>1, <2>2, <2>3
<1> QED BY <1>3, <1>4 DEF Prefix, p, chunk

LEMMA UploadStep == UploadIInv /\ [UploadNext]_uploadVars => UploadIInv'
<1> SUFFICES ASSUME UploadIInv, [UploadNext]_uploadVars PROVE UploadIInv'
  OBVIOUS
<1> USE UploadAssumption
<1>0. /\ session \in SessionRow /\ session.received \in Nat /\ session.total \in Nat
      /\ partFile \in Seq(Nat) /\ Len(partFile) \in Nat
      /\ \A c \in UploadCall :
           completing[c] \in CompletingCall /\ CallIsSound(completing[c], session, ingestedDocs)
  BY DEF UploadIInv, SessionRow
<1>1. ASSUME NEW total \in DeclaredTotals, CreateUpload(total) PROVE UploadIInv'
  <2>1. /\ session = NoSession /\ partFile = << >> /\ partFile' = << >>
        /\ completing' = completing /\ ingestedDocs' = ingestedDocs
        /\ session' = [NoSession EXCEPT !.status = "uploading", !.total = total]
    BY <1>1 DEF CreateUpload, UploadIInv, NoSession
  <2>2. /\ session' \in SessionRow /\ session'.received = 0
        /\ session'.status = "uploading"
    BY <2>1 DEF NoSession, SessionRow
  <2>3. FileIsSound(session, partFile)'
    BY <2>1, <2>2 DEF FileIsSound, Prefix
  <2>4. \A c \in UploadCall : completing[c] = IdleUpload
    BY <1>0, <2>1 DEF CallIsSound, NoSession
  <2>5. \A c \in UploadCall : CallIsSound(completing[c], session, ingestedDocs)'
    BY <2>1, <2>4, IdleIsSound
  <2>6. CompletedIsSound(session, ingestedDocs)'
    BY <2>2 DEF CompletedIsSound
  <2> QED BY <2>1, <2>2, <2>3, <2>5, <2>6 DEF UploadIInv, IngestedIsSent
<1>2. ASSUME NEW offset \in 0..StreamBytes, NEW n \in 0..(StreamBytes - offset), NEW written \in 0..n,
             NEW closes \in BOOLEAN, AppendUpload(offset, n, written, closes)
      PROVE  UploadIInv'
  <2> DEFINE chunk == [i \in 1..written |-> offset + i]
             R == session.received
             W == Len(partFile)
  <2>1. /\ session.status = "uploading" /\ offset = R /\ n \in Nat /\ written \in Nat /\ written <= n
        /\ partFile' = partFile \o chunk
        /\ completing' = completing /\ ingestedDocs' = ingestedDocs
        /\ session.total > 0 => R + n <= session.total
    BY <1>0, <1>2 DEF AppendUpload, Accepts, TooLarge
  <2>2. /\ session' \in SessionRow /\ session'.status = "uploading" /\ session'.total = session.total
        /\ session'.received = IF written = n /\ closes THEN R + n ELSE R
    <3>1. CASE written = n /\ closes
      <4>1. session' = [session EXCEPT !.received = R + n]
        BY <1>2, <3>1 DEF AppendUpload
      <4>2. R + n \in Nat
        BY <1>0, <2>1
      <4> QED BY <1>0, <2>1, <3>1, <4>1, <4>2 DEF SessionRow
    <3>2. CASE ~(written = n /\ closes)
      BY <1>0, <1>2, <2>1, <3>2 DEF AppendUpload
    <3> QED BY <3>1, <3>2
  <2>3. chunk \in Seq(Nat) /\ Len(chunk) = written
    BY <2>1, <1>0
  <2>4. partFile' \in Seq(Nat) /\ Len(partFile') = W + written
    BY <1>0, <2>1, <2>3
  <2>5. FileIsSound(session, partFile)'
    <3>1. W >= R /\ (W = R => partFile = Prefix(R))
      BY <2>1 DEF UploadIInv, FileIsSound
    <3>2. Len(partFile') >= session'.received
      BY <1>0, <2>1, <2>2, <2>4, <3>1
    <3>3. ASSUME Len(partFile') = session'.received PROVE partFile' = Prefix(session'.received)
      <4>1. W = R /\ session'.received = R + written
        BY <1>0, <2>1, <2>2, <2>4, <3>1, <3>3
      <4>2. partFile = Prefix(R)
        BY <3>1, <4>1
      <4>3. Prefix(R) \o chunk = Prefix(R + written)
        BY <1>0, <2>1, PrefixGrows
      <4> QED BY <2>1, <4>1, <4>2, <4>3
    <3> QED BY <2>2, <3>2, <3>3 DEF FileIsSound
  <2>6. \A c \in UploadCall : CallIsSound(completing[c], session, ingestedDocs)'
    <3> SUFFICES ASSUME NEW c \in UploadCall PROVE CallIsSound(completing[c], session', ingestedDocs)
      BY <2>1
    <3>1. completing[c] # IdleUpload /\ session.total > 0 => session'.received = R /\ R = session.total
      BY <1>0, <2>1, <2>2 DEF CallIsSound
    <3>2. session'.received >= R
      BY <1>0, <2>1, <2>2
    <3>3. completing[c].step = "file" => completing[c] # IdleUpload /\ completing[c].received \in Nat
      BY <1>0 DEF CompletingCall, IdleUpload
    <3>4. CallIsSound(completing[c], session, ingestedDocs) /\ session'.status # "none"
      BY <1>0, <2>2
    <3>5. completing[c].step = "file" => completing[c].received <= session'.received
      BY <1>0, <2>2, <3>2, <3>3, <3>4 DEF CallIsSound
    <3> QED BY <2>2, <3>1, <3>4, <3>5 DEF CallIsSound
  <2>7. CompletedIsSound(session, ingestedDocs)'
    BY <2>2 DEF CompletedIsSound
  <2> QED BY <1>0, <2>1, <2>2, <2>4, <2>5, <2>6, <2>7 DEF UploadIInv, IngestedIsSent
<1>3. ASSUME NEW c \in UploadCall, ReadSession(c) PROVE UploadIInv'
  <2> DEFINE call == [step |-> "file", received |-> session.received]
  <2>1. call \in CompletingCall /\ call.step = "file" /\ call.received = session.received
    BY <1>0 DEF CompletingCall
  <2>2. /\ completing' = [completing EXCEPT ![c] = call] /\ session' = session /\ partFile' = partFile
        /\ ingestedDocs' = ingestedDocs /\ session.status = "uploading"
        /\ session.total > 0 => session.received = session.total
    BY <1>3 DEF ReadSession
  <2> HIDE DEF call
  <2>3. CallIsSound(call, session, ingestedDocs)
    BY <1>0, <2>1, <2>2 DEF CallIsSound
  <2> QED BY <2>1, <2>2, <2>3, CallMoves
<1>4. ASSUME NEW c \in UploadCall, ReadPartFile(c) PROVE UploadIInv'
  <2>1. /\ session' = session /\ partFile' = partFile /\ ingestedDocs' = ingestedDocs
        /\ completing[c].step = "file"
    BY <1>4 DEF ReadPartFile
  <2>2. CASE session.status # "canceled" /\ SizeMatches(completing[c].received)
    <3> DEFINE call == [step |-> "ingest", body |-> partFile]
    <3>1. call \in CompletingCall /\ call.step = "ingest" /\ call.body = partFile
      BY <1>0 DEF CompletingCall
    <3>2. completing' = [completing EXCEPT ![c] = call]
      BY <1>4, <2>2 DEF ReadPartFile
    <3>3. /\ completing[c] # IdleUpload /\ completing[c].received \in Nat
          /\ Len(partFile) = completing[c].received
      BY <1>0, <2>1, <2>2 DEF CompletingCall, IdleUpload, SizeMatches
    <3>4. partFile = Prefix(Len(partFile)) /\ Len(partFile) = session.received
      <4>1. completing[c].received <= session.received /\ Len(partFile) >= session.received
        BY <1>0, <2>1, <2>2 DEF CallIsSound, UploadIInv, FileIsSound
      <4>2. Len(partFile) = session.received
        BY <1>0, <3>3, <4>1
      <4> QED BY <2>2, <4>2 DEF UploadIInv, FileIsSound
    <3> HIDE DEF call
    <3>5. CallIsSound(call, session, ingestedDocs)
      BY <1>0, <2>1, <3>1, <3>3, <3>4 DEF CallIsSound
    <3> QED BY <2>1, <3>1, <3>2, <3>5, CallMoves
  <2>3. CASE ~(session.status # "canceled" /\ SizeMatches(completing[c].received))
    <3>1. completing' = [completing EXCEPT ![c] = IdleUpload]
      BY <1>4, <2>3 DEF ReadPartFile
    <3> QED BY <2>1, <3>1, IdleIsSound, CallMoves
  <2> QED BY <2>2, <2>3
<1>5. ASSUME NEW c \in UploadCall, NEW fails \in BOOLEAN, IngestUpload(c, fails) PROVE UploadIInv'
  <2>1. /\ session' = session /\ partFile' = partFile /\ completing[c].step = "ingest"
    BY <1>5 DEF IngestUpload
  <2>2. CASE fails
    <3>1. completing' = [completing EXCEPT ![c] = IdleUpload] /\ ingestedDocs' = ingestedDocs
      BY <1>5, <2>2 DEF IngestUpload
    <3> QED BY <2>1, <3>1, IdleIsSound, CallMoves
  <2>3. CASE ~fails
    <3> DEFINE body == completing[c].body
               done == [step |-> "complete"]
    <3>1. completing' = [completing EXCEPT ![c] = done] /\ ingestedDocs' = ingestedDocs \cup {body}
      BY <1>5, <2>3 DEF IngestUpload
    <3>2. completing[c] # IdleUpload /\ body \in Seq(Nat) /\ done \in CompletingCall /\ done.step = "complete"
      BY <1>0, <2>1 DEF CompletingCall, IdleUpload
    <3> HIDE DEF body, done
    <3>3. body = Prefix(Len(body)) /\ (session.total > 0 => Len(body) = session.total)
      BY <1>0, <2>1 DEF CallIsSound, body
    <3>4. CallIsSound(done, session, ingestedDocs')
      BY <1>0, <3>1, <3>2, <3>3 DEF CallIsSound
    <3>5. \A d \in UploadCall : completing'[d] = IF d = c THEN done ELSE completing[d]
      BY <3>1 DEF UploadIInv
    <3>6. \A d \in UploadCall : CallIsSound(completing[d], session, ingestedDocs')
      BY <1>0, <3>1 DEF CallIsSound
    <3>7. \A d \in UploadCall : CallIsSound(completing[d], session, ingestedDocs)'
      BY <2>1, <3>4, <3>5, <3>6
    <3>8. IngestedIsSent'
      BY <3>1, <3>3 DEF UploadIInv, IngestedIsSent
    <3>9. CompletedIsSound(session, ingestedDocs)'
      BY <2>1, <3>1 DEF UploadIInv, CompletedIsSound
    <3> QED BY <2>1, <3>1, <3>2, <3>7, <3>8, <3>9 DEF UploadIInv
  <2> QED BY <2>2, <2>3
<1>6. ASSUME NEW c \in UploadCall, CompleteUpload(c) PROVE UploadIInv'
  <2>1. /\ partFile' = partFile /\ ingestedDocs' = ingestedDocs /\ completing[c].step = "complete"
        /\ completing' = [completing EXCEPT ![c] = IdleUpload] /\ completing[c] # IdleUpload
        /\ session' = IF session.status = "canceled" THEN session
                      ELSE [session EXCEPT !.status = "completed"]
    BY <1>6 DEF CompleteUpload, IdleUpload
  <2>2. CASE session.status = "canceled"
    BY <2>1, <2>2, IdleIsSound, CallMoves
  <2>3. CASE session.status # "canceled"
    <3>1. /\ session' \in SessionRow /\ session'.status = "completed" /\ session'.total = session.total
          /\ session'.received = session.received
      BY <1>0, <2>1, <2>3 DEF SessionRow
    <3>2. FileIsSound(session, partFile)'
      BY <2>1, <2>3, <3>1 DEF UploadIInv, FileIsSound
    <3>3. \A d \in UploadCall : completing'[d] = IF d = c THEN IdleUpload ELSE completing[d]
      BY <2>1 DEF UploadIInv
    <3>4. \A d \in UploadCall : CallIsSound(completing[d], session', ingestedDocs)
      BY <1>0, <3>1 DEF CallIsSound
    <3>5. \A d \in UploadCall : CallIsSound(completing[d], session, ingestedDocs)'
      BY <2>1, <3>3, <3>4, IdleIsSound
    <3>6. CompletedIsSound(session, ingestedDocs)'
      BY <1>0, <2>1, <3>1 DEF CallIsSound, CompletedIsSound
    <3> QED BY <2>1, <3>1, <3>2, <3>5, <3>6, IdleIsSound DEF UploadIInv, IngestedIsSent
  <2> QED BY <2>2, <2>3
<1>7. ASSUME CancelUpload PROVE UploadIInv'
  <2>1. /\ session.status # "none" /\ partFile' = << >> /\ completing' = completing
        /\ ingestedDocs' = ingestedDocs /\ session' = [session EXCEPT !.status = "canceled"]
    BY <1>7 DEF CancelUpload
  <2>2. /\ session' \in SessionRow /\ session'.status = "canceled" /\ session'.total = session.total
        /\ session'.received = session.received
    BY <1>0, <2>1 DEF SessionRow
  <2>3. \A d \in UploadCall : CallIsSound(completing[d], session', ingestedDocs)
    BY <1>0, <2>2 DEF CallIsSound
  <2>4. FileIsSound(session, partFile)' /\ CompletedIsSound(session, ingestedDocs)'
    BY <2>2 DEF FileIsSound, CompletedIsSound
  <2>5. \A d \in UploadCall : CallIsSound(completing[d], session, ingestedDocs)'
    BY <2>1, <2>3
  <2>6. partFile' \in Seq(Nat) /\ session'.status # "none"
    BY <2>1, <2>2
  <2> QED BY <2>1, <2>2, <2>4, <2>5, <2>6 DEF UploadIInv, IngestedIsSent
<1>8. CASE UNCHANGED uploadVars
  <2>1. session' = session /\ partFile' = partFile /\ completing' = completing /\ ingestedDocs' = ingestedDocs
    BY <1>8 DEF uploadVars
  <2> QED BY <2>1 DEF UploadIInv, IngestedIsSent
<1> QED BY <1>1, <1>2, <1>3, <1>4, <1>5, <1>6, <1>7, <1>8 DEF UploadNext

\* A document that AppendUpload and ReadUpload let through to the ingestion is
\* the client's bytes from the first on, and an upload of a declared size is
\* completed only when all of them were ingested.
THEOREM UploadsAreWhole == UploadSpec => []UploadIsWhole
<1>1. UploadInit => UploadIInv
  <2> SUFFICES ASSUME UploadInit PROVE UploadIInv
    OBVIOUS
  <2>1. /\ session = NoSession /\ partFile = << >> /\ ingestedDocs = {}
        /\ completing \in [UploadCall -> CompletingCall]
        /\ \A c \in UploadCall : CallIsSound(completing[c], session, ingestedDocs)
    BY IdleIsSound DEF UploadInit
  <2>2. NoSession \in SessionRow /\ NoSession.received = 0 /\ NoSession.status = "none"
    BY DEF NoSession, SessionRow
  <2>3. FileIsSound(session, partFile) /\ CompletedIsSound(session, ingestedDocs)
    BY <2>1, <2>2 DEF FileIsSound, CompletedIsSound, Prefix
  <2> QED BY <2>1, <2>2, <2>3 DEF UploadIInv, IngestedIsSent
<1>2. UploadIInv => UploadIsWhole
  <2> SUFFICES ASSUME UploadIInv PROVE CompletedIsIngested
    BY DEF UploadIInv, UploadIsWhole
  <2> QED BY DEF UploadIInv, CompletedIsSound, CompletedIsIngested
<1> QED BY <1>1, <1>2, UploadStep, PTL DEF UploadSpec

-----------------------------------------------------------------------------
(***************************************************************************)
(* API keys                                                                *)
(***************************************************************************)

KeyRow ==
    [created : BOOLEAN, expires : Nat, revoked : BOOLEAN, lastUsed : Nat \cup {Never},
     from : Key \cup {NoKey}]

KeyCallRow ==
    {IdleCall}
        \cup [step : {"rotate"}, source : Key, new : Key, now : Nat, row : KeyRow]
        \cup [step : {"throttle", "touch"}, replica : KeyReplica, key : Key, now : Nat]

\* A prepared rotation holds a fresh id and a row that has never been used and
\* names its source; an authentication has met its key.
CallIsFresh(call, table) ==
    /\ call.step = "rotate" =>
         /\ ~table[call.new].created
         /\ call.row.created /\ call.row.from = call.source /\ call.row.lastUsed = Never
    /\ call.step \in {"throttle", "touch"} => table[call.key].created

KeyIsWhole(k, table) ==
    /\ ~table[k].created => table[k] = NoRow
    /\ table[k].from # NoKey => table[table[k].from].revoked

KeysIInv ==
    /\ apiKeys \in [Key -> KeyRow]
    /\ keyClock \in Nat
    /\ keyCall \in [KeyCall -> KeyCallRow]
    /\ \A k \in Key : KeyIsWhole(k, apiKeys)
    /\ \A k, l \in Key : k # l /\ apiKeys[k].from # NoKey => apiKeys[l].from # apiKeys[k].from
    /\ \A c \in KeyCall : CallIsFresh(keyCall[c], apiKeys)
    /\ \A c, d \in KeyCall :
         c # d /\ keyCall[c].step = "rotate" /\ keyCall[d].step = "rotate" => keyCall[c].new # keyCall[d].new

\* What a step may do to the row of a key.
KeyStepOk(table, next) ==
    /\ \A k, s \in Key : table[k].from # s /\ next[k].from = s => ~table[s].revoked
    /\ \A k \in Key : (table[k].lastUsed # Never /\ next[k].lastUsed # table[k].lastUsed)
                         => next[k].lastUsed >= table[k].lastUsed + LastUsedInterval

LEMMA NoRowType == NoRow \in KeyRow /\ NoRow.lastUsed = Never /\ NoRow.from = NoKey /\ NoRow.revoked = FALSE /\ NoRow.created = FALSE
BY DEF NoRow, NewKey, KeyRow

LEMMA NewKeyType ==
    ASSUME NEW e \in Nat
    PROVE  /\ NewKey(e) \in KeyRow /\ NewKey(e).created = TRUE /\ NewKey(e).lastUsed = Never
           /\ NewKey(e).from = NoKey /\ NewKey(e).revoked = FALSE
BY DEF NewKey, KeyRow

\* A step of one call that leaves the table alone and holds no fresh id
\* afterwards that it did not hold before.
LEMMA KeyCallMoves ==
    ASSUME KeysIInv, NEW c \in KeyCall, NEW call \in KeyCallRow, call.step # "rotate",
           CallIsFresh(call, apiKeys),
           keyCall' = [keyCall EXCEPT ![c] = call], apiKeys' = apiKeys, keyClock' = keyClock
    PROVE  KeysIInv' /\ KeyStepOk(apiKeys, apiKeys')
<1>1. \A d \in KeyCall : keyCall'[d] = IF d = c THEN call ELSE keyCall[d]
  BY DEF KeysIInv
<1>2. \A d \in KeyCall : CallIsFresh(keyCall[d], apiKeys)'
  BY <1>1 DEF KeysIInv
<1>3. \A d, f \in KeyCall :
         d # f /\ keyCall'[d].step = "rotate" /\ keyCall'[f].step = "rotate" => keyCall'[d].new # keyCall'[f].new
  BY <1>1 DEF KeysIInv
<1>4. keyCall' \in [KeyCall -> KeyCallRow]
  BY DEF KeysIInv
<1> QED BY <1>2, <1>3, <1>4 DEF KeysIInv, KeyStepOk

\* A step that rewrites one row without its identity, its source or its revocation.
LEMMA KeyRowMoves ==
    ASSUME KeysIInv, NEW k \in Key, NEW row \in KeyRow, apiKeys' = [apiKeys EXCEPT ![k] = row],
           keyClock' = keyClock, keyCall' \in [KeyCall -> KeyCallRow],
           \A c \in KeyCall : keyCall'[c] \in {keyCall[c], IdleCall},
           row.created, row.from = apiKeys[k].from, apiKeys[k].revoked => row.revoked,
           \A c \in KeyCall : keyCall[c].step = "rotate" => keyCall[c].new # k,
           apiKeys[k].lastUsed # Never /\ row.lastUsed # apiKeys[k].lastUsed
             => row.lastUsed >= apiKeys[k].lastUsed + LastUsedInterval
    PROVE  KeysIInv' /\ KeyStepOk(apiKeys, apiKeys')
<1>1. apiKeys' \in [Key -> KeyRow] /\ \A l \in Key : apiKeys'[l] = IF l = k THEN row ELSE apiKeys[l]
  BY DEF KeysIInv
<1>2. \A l \in Key : apiKeys'[l].from = apiKeys[l].from /\ (apiKeys[l].revoked => apiKeys'[l].revoked)
  BY <1>1
<1>3. \A l \in Key : apiKeys[l].from \in Key \cup {NoKey}
  BY DEF KeysIInv, KeyRow
<1>4. \A l \in Key : KeyIsWhole(l, apiKeys)'
  BY <1>1, <1>2, <1>3 DEF KeysIInv, KeyIsWhole
<1>5. \A l, m \in Key : l # m /\ apiKeys'[l].from # NoKey => apiKeys'[m].from # apiKeys'[l].from
  BY <1>2 DEF KeysIInv
<1>6. ASSUME NEW c \in KeyCall PROVE CallIsFresh(keyCall[c], apiKeys)'
  <2>1. CASE keyCall'[c] = IdleCall
    BY <2>1 DEF CallIsFresh, IdleCall
  <2>2. CASE keyCall'[c] = keyCall[c]
    <3>1. CallIsFresh(keyCall[c], apiKeys) /\ keyCall[c] \in KeyCallRow
      BY DEF KeysIInv
    <3>2. keyCall[c].step = "rotate" => keyCall[c].new \in Key /\ keyCall[c].new # k
      BY <3>1 DEF KeyCallRow, IdleCall
    <3>3. keyCall[c].step \in {"throttle", "touch"} => keyCall[c].key \in Key
      BY <3>1 DEF KeyCallRow, IdleCall
    <3>4. CallIsFresh(keyCall[c], apiKeys')
      BY <1>1, <3>1, <3>2, <3>3 DEF CallIsFresh
    <3> QED BY <2>2, <3>4
  <2> QED BY <2>1, <2>2
<1>7. \A c, d \in KeyCall :
         c # d /\ keyCall'[c].step = "rotate" /\ keyCall'[d].step = "rotate" => keyCall'[c].new # keyCall'[d].new
  <2>1. IdleCall.step # "rotate"
    BY DEF IdleCall
  <2> QED BY <2>1 DEF KeysIInv
<1>8. KeyStepOk(apiKeys, apiKeys')
  BY <1>1, <1>2 DEF KeyStepOk
<1> QED BY <1>1, <1>4, <1>5, <1>6, <1>7, <1>8 DEF KeysIInv

LEMMA KeysStep == KeysIInv /\ [KeysNext]_keyVars => KeysIInv' /\ KeyStepOk(apiKeys, apiKeys')
<1> SUFFICES ASSUME KeysIInv, [KeysNext]_keyVars PROVE KeysIInv' /\ KeyStepOk(apiKeys, apiKeys')
  OBVIOUS
<1> USE KeyAssumption
<1>0. /\ apiKeys \in [Key -> KeyRow] /\ keyClock \in Nat
      /\ keyCall \in [KeyCall -> KeyCallRow]
      /\ \A k \in Key : apiKeys[k] \in KeyRow /\ KeyIsWhole(k, apiKeys)
      /\ \A c \in KeyCall : keyCall[c] \in KeyCallRow /\ CallIsFresh(keyCall[c], apiKeys)
      /\ IdleCall \in KeyCallRow /\ IdleCall.step = "idle" /\ CallIsFresh(IdleCall, apiKeys)
  BY DEF KeysIInv, KeyCallRow, IdleCall, CallIsFresh
<1>1. CASE KeyTimePasses
  <2>1. keyClock' \in Nat /\ apiKeys' = apiKeys /\ keyCall' = keyCall
    BY <1>0, <1>1 DEF KeyTimePasses
  <2> QED BY <2>1 DEF KeysIInv, KeyStepOk
<1>2. ASSUME NEW k \in Key, RevokeKey(k) PROVE KeysIInv' /\ KeyStepOk(apiKeys, apiKeys')
  <2> DEFINE row == [apiKeys[k] EXCEPT !.revoked = TRUE]
  <2>1. /\ row \in KeyRow /\ row.from = apiKeys[k].from /\ row.lastUsed = apiKeys[k].lastUsed
        /\ row.revoked = TRUE
    BY <1>0 DEF KeyRow
  <2>2. row.created
    BY <1>0, <1>2 DEF KeyRow, RevokeKey
  <2>3. apiKeys' = [apiKeys EXCEPT ![k] = row] /\ keyClock' = keyClock /\ keyCall' = keyCall
    BY <1>2 DEF RevokeKey
  <2> HIDE DEF row
  <2>4. \A c \in KeyCall : keyCall[c].step = "rotate" => keyCall[c].new # k
    BY <1>0, <1>2 DEF RevokeKey, CallIsFresh
  <2> QED BY <1>0, <2>1, <2>2, <2>3, <2>4, KeyRowMoves
<1>3. ASSUME NEW k \in Key, NEW e \in KeyExpiry, FreshKey(k), CreateKey(k, e)
      PROVE  KeysIInv' /\ KeyStepOk(apiKeys, apiKeys')
  <2>1. e \in Nat
    OBVIOUS
  <2>2. /\ apiKeys' = [apiKeys EXCEPT ![k] = NewKey(e)] /\ keyClock' = keyClock /\ keyCall' = keyCall
        /\ apiKeys[k] = NoRow
    BY <1>0, <1>3 DEF CreateKey, KeyIsWhole
  <2>3. \A c \in KeyCall : keyCall[c].step = "rotate" => keyCall[c].new # k
    BY <1>3 DEF FreshKey
  <2> QED BY <1>0, <2>1, <2>2, <2>3, NewKeyType, NoRowType, KeyRowMoves
<1>4. ASSUME NEW c \in KeyCall, NEW source \in Key, NEW new \in Key, BeginRotation(c, source, new)
      PROVE  KeysIInv' /\ KeyStepOk(apiKeys, apiKeys')
  <2> DEFINE row == Replacement(source)
             call == [step |-> "rotate", source |-> source, new |-> new, now |-> keyClock, row |-> row]
  <2>1. row \in KeyRow /\ row.created /\ row.from = source /\ row.lastUsed = Never
    <3>1. apiKeys[source].expires \in Nat
      BY <1>0 DEF KeyRow
    <3> HIDE DEF row
    <3>2. row = [NewKey(apiKeys[source].expires) EXCEPT !.from = source]
      BY DEF row, Replacement
    <3>3. /\ NewKey(apiKeys[source].expires) \in KeyRow /\ NewKey(apiKeys[source].expires).lastUsed = Never
          /\ NewKey(apiKeys[source].expires).created = TRUE
      BY <3>1, NewKeyType
    <3>4. row.created = TRUE
      BY <3>2, <3>3 DEF KeyRow
    <3> QED BY <3>2, <3>3, <3>4 DEF KeyRow
  <2>2. /\ keyCall' = [keyCall EXCEPT ![c] = call] /\ apiKeys' = apiKeys /\ keyClock' = keyClock
        /\ ~apiKeys[new].created
        /\ \A d \in KeyCall : keyCall[d].step = "rotate" => keyCall[d].new # new
    BY <1>4 DEF BeginRotation
  <2> HIDE DEF row
  <2>3. /\ call \in KeyCallRow /\ call.new = new /\ call.source = source /\ call.row = row
        /\ call.step = "rotate"
    BY <1>0, <2>1 DEF KeyCallRow
  <2> HIDE DEF call
  <2>4. \A d \in KeyCall : keyCall'[d] = IF d = c THEN call ELSE keyCall[d]
    BY <1>0, <2>2
  <2>5. CallIsFresh(call, apiKeys)
    BY <2>1, <2>2, <2>3 DEF CallIsFresh
  <2>6. \A d \in KeyCall : CallIsFresh(keyCall[d], apiKeys)'
    BY <1>0, <2>2, <2>4, <2>5
  <2>7. \A d, f \in KeyCall :
          d # f /\ keyCall'[d].step = "rotate" /\ keyCall'[f].step = "rotate" => keyCall'[d].new # keyCall'[f].new
    BY <2>2, <2>3, <2>4 DEF KeysIInv
  <2>8. keyCall' \in [KeyCall -> KeyCallRow]
    BY <1>0, <2>2, <2>3
  <2> QED BY <2>2, <2>6, <2>7, <2>8 DEF KeysIInv, KeyStepOk
<1>5. ASSUME NEW c \in KeyCall, NEW fails \in BOOLEAN, RotateAPIKey(c, fails)
      PROVE  KeysIInv' /\ KeyStepOk(apiKeys, apiKeys')
  <2> DEFINE call == keyCall[c]
  <2>1. /\ call.step = "rotate" /\ keyCall' = [keyCall EXCEPT ![c] = IdleCall] /\ keyClock' = keyClock
    BY <1>5 DEF RotateAPIKey
  <2>2. /\ call.source \in Key /\ call.new \in Key /\ call.row \in KeyRow /\ ~apiKeys[call.new].created
        /\ call.row.created /\ call.row.from = call.source /\ call.row.lastUsed = Never
    BY <1>0, <2>1 DEF KeyCallRow, IdleCall, CallIsFresh
  <2>3. CASE fails \/ ~Rotates(apiKeys[call.source], call.now)
    <3>1. apiKeys' = apiKeys
      BY <1>5, <2>3 DEF RotateAPIKey
    <3> QED BY <1>0, <2>1, <3>1, KeyCallMoves
  <2>4. CASE ~fails /\ Rotates(apiKeys[call.source], call.now)
    <3>1. PICK s \in Key, n \in Key, row \in KeyRow : s = call.source /\ n = call.new /\ row = call.row
      BY <2>2
    <3>2. /\ apiKeys[s].created /\ ~apiKeys[s].revoked /\ ~apiKeys[n].created /\ s # n
          /\ apiKeys[n] = NoRow /\ row.from = s /\ row.lastUsed = Never /\ s # NoKey
      BY <1>0, <2>2, <2>4, <3>1 DEF Rotates, Usable, KeyIsWhole
    <3>3. apiKeys' = [apiKeys EXCEPT ![n] = row, ![s].revoked = TRUE]
      BY <1>5, <2>4, <3>1 DEF RotateAPIKey
    <3> DEFINE old == [apiKeys[s] EXCEPT !.revoked = TRUE]
    <3>4. old \in KeyRow /\ old.from = apiKeys[s].from /\ old.lastUsed = apiKeys[s].lastUsed /\ old.revoked = TRUE
      BY <1>0 DEF KeyRow
    <3>5. old.created
      BY <1>0, <3>2 DEF KeyRow
    <3>6. /\ apiKeys' \in [Key -> KeyRow] /\ apiKeys'[n] = row /\ apiKeys'[s] = old
          /\ \A l \in Key : l # n /\ l # s => apiKeys'[l] = apiKeys[l]
      BY <1>0, <3>2, <3>3, <3>4
    <3> HIDE DEF old
    <3>7. \A l \in Key : apiKeys[l].from # s /\ apiKeys[l].from # n
      <4> SUFFICES ASSUME NEW l \in Key PROVE apiKeys[l].from # s /\ apiKeys[l].from # n
        OBVIOUS
      <4>1. ~apiKeys[n].revoked
        BY <3>2, NoRowType
      <4> QED BY <1>0, <3>2, <4>1 DEF KeyIsWhole
    <3>8. ASSUME NEW l \in Key PROVE KeyIsWhole(l, apiKeys)'
      <4>1. CASE l = n
        <5>1. apiKeys'[l].from = s /\ apiKeys'[s].revoked
          BY <3>2, <3>4, <3>6, <4>1
        <5>2. ~apiKeys'[l].created => apiKeys'[l] = NoRow
          BY <2>2, <3>1, <3>6, <4>1
        <5> QED BY <5>1, <5>2 DEF KeyIsWhole
      <4>2. CASE l # n
        <5>1. /\ apiKeys'[l].from = apiKeys[l].from
              /\ ~apiKeys'[l].created => apiKeys'[l] = apiKeys[l]
          BY <3>4, <3>5, <3>6, <4>2
        <5>2. apiKeys[l].from # NoKey =>
                /\ apiKeys[l].from \in Key /\ apiKeys[l].from # n
                /\ apiKeys[apiKeys[l].from].revoked
          BY <1>0, <3>7 DEF KeyIsWhole, KeyRow
        <5>3. apiKeys[l].from # NoKey => apiKeys'[apiKeys[l].from].revoked
          BY <3>4, <3>6, <5>2
        <5> QED BY <1>0, <5>1, <5>3 DEF KeyIsWhole
      <4> QED BY <4>1, <4>2
    <3>9. \A l \in Key : l # n => apiKeys'[l].from = apiKeys[l].from
      BY <3>4, <3>6
    <3>10. \A l, m \in Key : l # m /\ apiKeys'[l].from # NoKey => apiKeys'[m].from # apiKeys'[l].from
      BY <3>2, <3>6, <3>7, <3>9 DEF KeysIInv
    <3>11. \A d \in KeyCall : keyCall'[d] = IF d = c THEN IdleCall ELSE keyCall[d]
      BY <1>0, <2>1
    <3>12. ASSUME NEW d \in KeyCall PROVE CallIsFresh(keyCall[d], apiKeys)'
      <4>1. CASE d = c
        BY <1>0, <3>11, <4>1 DEF CallIsFresh
      <4>2. CASE d # c /\ keyCall[d].step = "rotate"
        <5>1. keyCall[d].new \in Key /\ keyCall[d].new # n
          BY <1>0, <2>1, <3>1, <4>2 DEF KeyCallRow, IdleCall, KeysIInv
        <5>2. ~apiKeys[keyCall[d].new].created
          BY <1>0, <4>2 DEF CallIsFresh
        <5>3. keyCall[d].new # s
          BY <3>2, <5>2
        <5> QED BY <1>0, <3>6, <3>11, <4>2, <5>1, <5>2, <5>3 DEF CallIsFresh
      <4>3. CASE d # c /\ keyCall[d].step # "rotate"
        <5>1. keyCall[d].step \in {"throttle", "touch"} =>
                keyCall[d].key \in Key /\ apiKeys[keyCall[d].key].created
          BY <1>0 DEF KeyCallRow, IdleCall, CallIsFresh
        <5>2. keyCall[d].step \in {"throttle", "touch"} => apiKeys'[keyCall[d].key].created
          BY <3>2, <3>5, <3>6, <5>1
        <5> QED BY <3>11, <4>3, <5>2 DEF CallIsFresh
      <4> QED BY <4>1, <4>2, <4>3
    <3>13. /\ keyCall' \in [KeyCall -> KeyCallRow]
           /\ \A d, f \in KeyCall :
                d # f /\ keyCall'[d].step = "rotate" /\ keyCall'[f].step = "rotate" => keyCall'[d].new # keyCall'[f].new
      BY <1>0, <2>1, <3>11 DEF KeysIInv
    <3>14. KeyStepOk(apiKeys, apiKeys')
      <4>1. \A k, t \in Key : apiKeys[k].from # t /\ apiKeys'[k].from = t => ~apiKeys[t].revoked
        BY <3>2, <3>6, <3>9
      <4>2. \A k \in Key : k # n => apiKeys'[k].lastUsed = apiKeys[k].lastUsed
        BY <3>4, <3>6
      <4>3. apiKeys[n].lastUsed = Never
        BY <3>2, NoRowType
      <4> QED BY <4>1, <4>2, <4>3 DEF KeyStepOk
    <3> QED BY <1>0, <2>1, <3>6, <3>8, <3>10, <3>12, <3>13, <3>14 DEF KeysIInv
  <2> QED BY <2>3, <2>4
<1>6. ASSUME NEW c \in KeyCall, touchLastUsed(c) PROVE KeysIInv' /\ KeyStepOk(apiKeys, apiKeys')
  <2>1. keyCall[c].step = "throttle" /\ apiKeys' = apiKeys /\ keyClock' = keyClock
    BY <1>6 DEF touchLastUsed
  <2> DEFINE call == [keyCall[c] EXCEPT !.step = "touch"]
  <2>2. call \in KeyCallRow /\ call.step = "touch"
    BY <1>0, <2>1 DEF KeyCallRow, IdleCall
  <2>3. keyCall' = [keyCall EXCEPT ![c] = IdleCall] \/ keyCall' = [keyCall EXCEPT ![c] = call]
    BY <1>6 DEF touchLastUsed
  <2> HIDE DEF call
  <2>4. CallIsFresh(call, apiKeys)
    <3>1. call.key = keyCall[c].key
      BY <1>0, <2>1 DEF KeyCallRow, IdleCall, call
    <3> QED BY <1>0, <2>1, <2>2, <3>1 DEF CallIsFresh
  <2> QED BY <1>0, <2>1, <2>2, <2>3, <2>4, KeyCallMoves
<1>7. ASSUME NEW c \in KeyCall, NEW fails \in BOOLEAN, TouchAPIKeyLastUsed(c, fails)
      PROVE  KeysIInv' /\ KeyStepOk(apiKeys, apiKeys')
  <2>1. /\ keyCall[c].step = "touch" /\ keyClock' = keyClock
        /\ keyCall' = [keyCall EXCEPT ![c] = IdleCall]
    BY <1>7 DEF TouchAPIKeyLastUsed
  <2>2. PICK k \in Key, now \in Nat : k = keyCall[c].key /\ now = keyCall[c].now
    BY <1>0, <2>1 DEF KeyCallRow, IdleCall
  <2>3. CASE apiKeys' = apiKeys
    BY <1>0, <2>1, <2>3, KeyCallMoves
  <2>4. CASE apiKeys' # apiKeys
    <3> DEFINE row == [apiKeys[k] EXCEPT !.lastUsed = now]
    <3>1. apiKeys' = [apiKeys EXCEPT ![k] = row] /\ Touches(apiKeys[k].lastUsed, now)
      BY <1>7, <2>2, <2>4 DEF TouchAPIKeyLastUsed
    <3>2. row \in KeyRow /\ row.from = apiKeys[k].from /\ row.lastUsed = now
      BY <1>0 DEF KeyRow
    <3>3. row.created = apiKeys[k].created /\ row.revoked = apiKeys[k].revoked
      BY <1>0 DEF KeyRow
    <3> HIDE DEF row
    <3>4. apiKeys[k].created
      BY <1>0, <2>1, <2>2 DEF CallIsFresh
    <3>5. apiKeys[k].lastUsed # Never => now >= apiKeys[k].lastUsed + LastUsedInterval
      <4>1. apiKeys[k].lastUsed \in Int
        BY <1>0 DEF KeyRow, Never
      <4> QED BY <3>1, <4>1 DEF Touches
    <3>6. \A d \in KeyCall : keyCall[d].step = "rotate" => keyCall[d].new # k
      BY <1>0, <3>4 DEF CallIsFresh
    <3>7. /\ keyCall' \in [KeyCall -> KeyCallRow]
          /\ \A d \in KeyCall : keyCall'[d] \in {keyCall[d], IdleCall}
      BY <1>0, <2>1
    <3> QED BY <2>1, <3>1, <3>2, <3>3, <3>4, <3>5, <3>6, <3>7, KeyRowMoves
  <2> QED BY <2>3, <2>4
<1>8. ASSUME NEW c \in KeyCall, NEW k \in Key, NEW r \in KeyReplica, Authenticate(c, r, k)
      PROVE  KeysIInv' /\ KeyStepOk(apiKeys, apiKeys')
  <2> DEFINE call == [step |-> "throttle", replica |-> r, key |-> k, now |-> keyClock]
  <2>1. call \in KeyCallRow /\ call.step = "throttle"
    BY <1>0 DEF KeyCallRow
  <2>2. /\ keyCall' = [keyCall EXCEPT ![c] = call] /\ apiKeys' = apiKeys /\ keyClock' = keyClock
        /\ call.key = k /\ apiKeys[k].created
    BY <1>8 DEF Authenticate, Usable
  <2> HIDE DEF call
  <2>3. CallIsFresh(call, apiKeys)
    BY <2>1, <2>2 DEF CallIsFresh
  <2> QED BY <2>1, <2>2, <2>3, KeyCallMoves
<1>9. CASE UNCHANGED keyVars
  <2>1. apiKeys' = apiKeys /\ keyClock' = keyClock /\ keyCall' = keyCall
    BY <1>9 DEF keyVars
  <2> QED BY <2>1 DEF KeysIInv, KeyStepOk
<1> QED BY <1>1, <1>2, <1>3, <1>4, <1>5, <1>6, <1>7, <1>8, <1>9 DEF KeysNext

\* Of the rotations, revocations and uses of a key that overlap, on any number
\* of replicas, RotateAPIKey lets one rotation through and none after a
\* revocation, and TouchAPIKeyLastUsed never moves last_used_at back.
THEOREM KeysInOrder == KeysSpec => KeysKeepOrder
<1>1. KeysInit => KeysIInv
  <2> SUFFICES ASSUME KeysInit PROVE KeysIInv
    OBVIOUS
  <2>1. IdleCall \in KeyCallRow /\ IdleCall.step = "idle"
    BY DEF KeyCallRow, IdleCall
  <2> QED BY <2>1, NoRowType DEF KeysInit, KeysIInv, KeyIsWhole, CallIsFresh
<1>2. KeysIInv => OneReplacement
  BY DEF KeysIInv, KeyIsWhole, OneReplacement
<1>3. KeyStepOk(apiKeys, apiKeys') =>
        /\ \A k, s \in Key : apiKeys[k].from # s /\ apiKeys'[k].from = s => ~apiKeys[s].revoked
        /\ \A k \in Key : (apiKeys[k].lastUsed # Never /\ apiKeys'[k].lastUsed # apiKeys[k].lastUsed)
                             => apiKeys'[k].lastUsed >= apiKeys[k].lastUsed + LastUsedInterval
  BY DEF KeyStepOk
<1> QED BY <1>1, <1>2, <1>3, KeysStep, PTL DEF KeysSpec, KeysKeepOrder, RevokedHasNoHeir, LastUsedAdvances

-----------------------------------------------------------------------------
(***************************************************************************)
(* Authorization                                                           *)
(***************************************************************************)

\* What may be said of a principal, the action it asks for and the tenant and
\* project of what it reaches.
InScope(p, action, tenant, project) ==
    /\ tenant = p.tenant
    /\ p.project # NoProject => project = p.project
    /\ p.role = "project_viewer" => action \in ViewerActions

AuthIInv ==
    /\ works = [w \in WorkId |-> works[w]] /\ outcomes = [w \in WorkId |-> outcomes[w]]
    /\ ProjectsAreSeparate

\* The policy alone keeps a principal in its tenant, its project and its role.
LEMMA PolicyInScope ==
    ASSUME NEW p \in Principals, NEW action, NEW tenant, NEW project, Authorize(p, action, tenant, project)
    PROVE  InScope(p, action, tenant, project)
BY DEF InScope, Authorize, RoleAllows

LEMMA PermittedInScope ==
    ASSUME NEW p \in Principals, NEW action, NEW row, Permitted(p, action, row)
    PROVE  InScope(p, action, row.tenant, row.project)
BY PolicyInScope DEF Permitted

LEMMA ReadInScope ==
    ASSUME NEW p \in Principals, NEW tenant, NEW project, tenant = p.tenant,
           p.project # NoProject => project = p.project
    PROVE  InScope(p, "resource.read", tenant, project)
BY DEF InScope, ViewerActions

\* Who the middleware lets pass to a route that looks at the tenant only is
\* bound to no project.
LEMMA UnboundInScope ==
    ASSUME NEW p \in Principals, NEW route \in TenantRoute, Admitted(p, route), NEW action, NEW tenant, NEW project,
           tenant = p.tenant
    PROVE  InScope(p, action, tenant, project)
<1>1. p.project = NoProject
  BY DEF Admitted, projectScopedRouteSupported
<1>2. p.role # "project_viewer"
  BY <1>1 DEF Principals
<1> QED BY <1>1, <1>2 DEF InScope

\* A request that is answered within scope and leaves the works alone.
LEMMA RequestKeepsAuth ==
    ASSUME AuthIInv, NEW p \in Principals, NEW action, NEW row, NEW served \in BOOLEAN,
           served => InScope(p, action, row.tenant, row.project),
           Answered(p, action, row, served), works' = works, outcomes' = outcomes
    PROVE  AuthIInv'
<1>1. AccessInScope'
  BY DEF AccessInScope, Answered, InScope
<1>2. WorkKeepsProject'
  BY DEF AuthIInv, ProjectsAreSeparate, WorkKeepsProject, Rows
<1> QED BY <1>1, <1>2 DEF AuthIInv, ProjectsAreSeparate

\* A request that adds a work that keeps its project.
LEMMA NewWorkKeepsAuth ==
    ASSUME AuthIInv, NEW p \in Principals, NEW w \in WorkId, NEW action, NEW row,
           NewWork(p, w, action, row), RowKeepsProject(row), row.tenant = p.tenant,
           action # "none" => InScope(p, action, p.tenant, row.project)
    PROVE  AuthIInv'
<1>1. works' = [works EXCEPT ![w] = row] /\ outcomes' = outcomes /\ Accessed(p, action, row)
  BY DEF NewWork
<1>2. works' = [v \in WorkId |-> works'[v]] /\ \A v \in WorkId : works'[v] = IF v = w THEN row ELSE works[v]
  BY <1>1 DEF AuthIInv
<1>3. AccessInScope'
  BY <1>1 DEF AccessInScope, Accessed, Answered, InScope
<1>4. \A r \in Rows' : r = row \/ r \in Rows
  BY <1>1, <1>2 DEF Rows
<1>5. WorkKeepsProject'
  BY <1>4 DEF AuthIInv, ProjectsAreSeparate, WorkKeepsProject
<1> QED BY <1>1, <1>2, <1>3, <1>5 DEF AuthIInv, ProjectsAreSeparate

\* A worker that makes a row that keeps its project.
LEMMA OutcomeKeepsAuth ==
    ASSUME AuthIInv, NEW w \in WorkId, NEW row, RowKeepsProject(row),
           outcomes' = [outcomes EXCEPT ![w] = row], works' = works, access' = access
    PROVE  AuthIInv'
<1>1. outcomes' = [v \in WorkId |-> outcomes'[v]] /\ \A v \in WorkId : outcomes'[v] = IF v = w THEN row ELSE outcomes[v]
  BY DEF AuthIInv
<1>2. \A r \in Rows' : r = row \/ r \in Rows
  BY <1>1 DEF Rows
<1>3. WorkKeepsProject'
  BY <1>2 DEF AuthIInv, ProjectsAreSeparate, WorkKeepsProject
<1>4. AccessInScope'
  BY DEF AuthIInv, ProjectsAreSeparate, AccessInScope
<1> QED BY <1>1, <1>3, <1>4 DEF AuthIInv, ProjectsAreSeparate

\* A task in the works keeps its project.
LEMMA TaskKeeps ==
    ASSUME AuthIInv, NEW w \in WorkId, works[w] # Absent
    PROVE  RowKeepsProject(works[w])
BY DEF AuthIInv, ProjectsAreSeparate, WorkKeepsProject, Rows

LEMMA AuthStep == AuthIInv /\ [AuthNext]_authVars => AuthIInv'
<1> SUFFICES ASSUME AuthIInv, [AuthNext]_authVars PROVE AuthIInv'
  OBVIOUS
<1> USE AuthorizationAssumption
<1>1. CASE AnswerDelivered
  BY <1>1 DEF AnswerDelivered, AuthIInv, ProjectsAreSeparate, AccessInScope, WorkKeepsProject, Rows
<1>2. ASSUME NEW p \in Principals, NEW b \in BaseId, NEW r \in Project \cup {NoProject}, createKnowledgeBase(p, b, r)
      PROVE  AuthIInv'
  <2>1. NewRow(p, r).tenant = p.tenant /\ NewRow(p, r).project = CreationProject(p, r)
    BY DEF NewRow
  <2>2. InScope(p, "resource.write", p.tenant, CreationProject(p, r))
    BY <1>2, PolicyInScope DEF createKnowledgeBase, authorizeResourceCreation
  <2> QED BY <1>2, <2>1, <2>2, RequestKeepsAuth DEF createKnowledgeBase, Accessed
<1>3. ASSUME NEW p \in Principals, NEW b \in BaseId,
             deleteKnowledgeBase(p, b) \/ getKnowledgeBase(p, b)
      PROVE  AuthIInv'
  BY <1>3, PermittedInScope, RequestKeepsAuth
     DEF deleteKnowledgeBase, getKnowledgeBase, authorizedKnowledgeBase, Accessed
<1>4. ASSUME NEW p \in Principals, NEW b \in BaseId, listKnowledgeBases(p, b)
      PROVE  AuthIInv'
  <2>1. InScope(p, "resource.read", bases[b].tenant, bases[b].project)
    BY <1>4, ReadInScope DEF listKnowledgeBases, Found
  <2> QED BY <1>4, <2>1, RequestKeepsAuth DEF listKnowledgeBases, Accessed
<1>5. ASSUME NEW p \in Principals, NEW b \in BaseId, NEW w \in WorkId,
             query(p, w, b) \/ uploadDocument(p, w, b) \/ enqueueDocumentImport(p, w, b)
      PROVE  AuthIInv'
  <2>1. PICK kind \in {"trace", "job", "document.import"}, action \in {"resource.read", "resource.write"} :
          /\ authorizedKnowledgeBase(p, b, action)
          /\ NewWork(p, w, action, Work(kind, p.tenant, bases[b].project, bases[b], Absent, TRUE))
    BY <1>5 DEF query, uploadDocument, enqueueDocumentImport
  <2> DEFINE row == Work(kind, p.tenant, bases[b].project, bases[b], Absent, TRUE)
  <2>2. InScope(p, action, bases[b].tenant, bases[b].project)
    BY <2>1, PermittedInScope DEF authorizedKnowledgeBase
  <2>3. RowKeepsProject(row) /\ row.tenant = p.tenant /\ row.project = bases[b].project
    BY <2>2 DEF RowKeepsProject, Work, InScope
  <2>4. NewWork(p, w, action, row)
    BY <2>1
  <2> HIDE DEF row
  <2> QED BY <2>2, <2>3, <2>4, NewWorkKeepsAuth DEF InScope
<1>7. ASSUME NEW p \in Principals, NEW d \in DatasetId, NEW r \in Project \cup {NoProject}, createDataset(p, d, r)
      PROVE  AuthIInv'
  <2>1. NewRow(p, r).tenant = p.tenant /\ NewRow(p, r).project = CreationProject(p, r)
    BY DEF NewRow
  <2>2. InScope(p, "resource.write", p.tenant, CreationProject(p, r))
    BY <1>7, PolicyInScope DEF createDataset, authorizeResourceCreation
  <2> QED BY <1>7, <2>1, <2>2, RequestKeepsAuth DEF createDataset, Accessed
<1>8. ASSUME NEW p \in Principals, NEW d \in DatasetId, addDatasetItem(p, d)
      PROVE  AuthIInv'
  BY <1>8, PermittedInScope, RequestKeepsAuth DEF addDatasetItem, authorizedDataset, Accessed
<1>9. ASSUME NEW p \in Principals, NEW d \in DatasetId, NEW b \in BaseId, NEW w \in WorkId,
             runEvaluation(p, w, d, b) \/ enqueueEvaluation(p, w, d, b) \/ optimize(p, w, d, b)
      PROVE  AuthIInv'
  <2> DEFINE dp == datasets[d].project
             bp == bases[b].project
  <2>1. PICK kind \in {"evaluation", "evaluation.run", "optimization"} : Submit(p, w, kind, d, b)
    BY <1>9 DEF runEvaluation, enqueueEvaluation, optimize
  <2> DEFINE row == Work(kind, p.tenant, firstNonEmpty(dp, bp), bases[b], datasets[d], TRUE)
  <2>2. /\ InScope(p, "resource.write", datasets[d].tenant, dp) /\ InScope(p, "resource.read", bases[b].tenant, bp)
        /\ ~projectIDsConflict(dp, bp) /\ NewWork(p, w, "resource.write", row) /\ datasets[d] # Absent
    BY <2>1, PermittedInScope DEF Submit, SubmitAllowed, authorizedDataset, authorizedKnowledgeBase, Permitted, Found
  <2>3. dp \in {NoProject, firstNonEmpty(dp, bp)} /\ bp \in {NoProject, firstNonEmpty(dp, bp)}
    BY <2>2 DEF projectIDsConflict, firstNonEmpty
  <2>4. InScope(p, "resource.write", p.tenant, firstNonEmpty(dp, bp))
    BY <2>2 DEF InScope, firstNonEmpty
  <2>5. datasets[d].tenant = p.tenant /\ bases[b].tenant = p.tenant
    BY <2>2 DEF InScope
  <2>6. RowKeepsProject(row) /\ row.tenant = p.tenant /\ row.project = firstNonEmpty(dp, bp)
    BY <2>2, <2>3, <2>5 DEF RowKeepsProject, Work
  <2> HIDE DEF row
  <2> QED BY <2>2, <2>4, <2>6, NewWorkKeepsAuth
<1>10. ASSUME NEW p \in Principals, NEW d \in DatasetId, NEW b \in BaseId, NEW row \in Rows,
              resumeOptimization(p, row, d, b)
       PROVE  AuthIInv'
  BY <1>10, PermittedInScope, RequestKeepsAuth DEF resumeOptimization, UseWork, Accessed
<1>11. ASSUME NEW p \in Principals, NEW w \in WorkId, NEW r \in Project \cup {NoProject}, NEW kind \in TaskKind,
              NEW base, NEW dataset, createTask(p, w, r, kind, base, dataset)
       PROVE  AuthIInv'
  <2> DEFINE row == Work(kind, p.tenant, r, base, IF kind = "evaluation.run" THEN dataset ELSE Absent, FALSE)
  <2>1. InScope(p, "resource.write", p.tenant, r) /\ NewWork(p, w, "resource.write", row)
    BY <1>11, PolicyInScope DEF createTask
  <2>2. RowKeepsProject(row) /\ row.tenant = p.tenant /\ row.project = r
    BY DEF RowKeepsProject, Work, TaskKind
  <2> HIDE DEF row
  <2> QED BY <2>1, <2>2, NewWorkKeepsAuth
<1>21. ASSUME NEW p \in Principals, NEW d \in DatasetId, NEW w \in WorkId, enqueueWithoutBase(p, w, d)
       PROVE  AuthIInv'
  <2> DEFINE row == Work("evaluation.run", p.tenant, datasets[d].project, Absent, datasets[d], TRUE)
  <2>1. InScope(p, "resource.write", datasets[d].tenant, datasets[d].project) /\ NewWork(p, w, "resource.write", row)
    BY <1>21, PermittedInScope DEF enqueueWithoutBase, authorizedDataset
  <2>2. RowKeepsProject(row) /\ row.tenant = p.tenant /\ row.project = datasets[d].project
    BY <2>1 DEF RowKeepsProject, Work, InScope
  <2> HIDE DEF row
  <2> QED BY <2>1, <2>2, NewWorkKeepsAuth DEF InScope
<1>22. ASSUME NEW p \in Principals, NEW w \in WorkId, enqueueWithoutDataset(p, w)
       PROVE  AuthIInv'
  <2> DEFINE row == Work("evaluation.run", p.tenant, NoProject, Absent, Absent, TRUE)
  <2>1. NewWork(p, w, "none", row)
    BY <1>22 DEF enqueueWithoutDataset
  <2>2. RowKeepsProject(row) /\ row.tenant = p.tenant
    BY DEF RowKeepsProject, Work
  <2> HIDE DEF row
  <2> QED BY <2>1, <2>2, NewWorkKeepsAuth
<1>23. ASSUME NEW w \in WorkId, HandleImport(w)
       PROVE  AuthIInv'
  <2> DEFINE task == works[w]
             row == Work("job", task.tenant, task.base.project, task.base, Absent, task.vetted)
  <2>1. /\ task.base.tenant = task.tenant
        /\ outcomes' = [outcomes EXCEPT ![w] = row] /\ works' = works /\ access' = access
    BY <1>23 DEF HandleImport, StillThere
  <2>2. RowKeepsProject(row)
    BY <2>1 DEF RowKeepsProject, Work
  <2> HIDE DEF row
  <2> QED BY <2>1, <2>2, OutcomeKeepsAuth
<1>24. ASSUME NEW w \in WorkId, HandleEvaluation(w)
       PROVE  AuthIInv'
  <2> DEFINE task == works[w]
             base == IF StillThere(task.base, {bases[b] : b \in BaseId}, task.tenant) THEN task.base ELSE Absent
             project == firstNonEmpty(task.dataset.project, task.project)
             row == Work("evaluation", task.tenant, project, base, task.dataset, task.vetted)
  <2>1. /\ task # Absent /\ task.dataset # Absent /\ task.dataset.tenant = task.tenant
        /\ ~projectIDsConflict(task.project, task.dataset.project)
        /\ outcomes' = [outcomes EXCEPT ![w] = row] /\ works' = works /\ access' = access
    BY <1>24 DEF HandleEvaluation, StillThere
  <2>2. RowKeepsProject(task)
    BY <2>1, TaskKeeps
  <2>3. base # Absent => base = task.base /\ base.tenant = task.tenant
    BY DEF StillThere
  <2>4. task.dataset.project \in {NoProject, project}
    BY DEF firstNonEmpty
  <2>5. task.vetted /\ base # Absent => base.project \in {NoProject, project}
    <3>1. task.vetted /\ base # Absent => base.project \in {NoProject, task.project}
      BY <2>2, <2>3 DEF RowKeepsProject
    <3>2. task.dataset.project \in {NoProject, task.project} \/ task.project = NoProject
      BY <2>1 DEF projectIDsConflict
    <3> QED BY <3>1, <3>2 DEF firstNonEmpty
  <2> HIDE DEF base, project
  <2>6. RowKeepsProject(row)
    BY <2>1, <2>3, <2>4, <2>5 DEF RowKeepsProject, Work, TaskKind
  <2> HIDE DEF row
  <2> QED BY <2>1, <2>6, OutcomeKeepsAuth
<1>12. ASSUME NEW p \in Principals, NEW row \in Rows, NEW r \in Project \cup {NoProject}, listTasks(p, r, row)
       PROVE  AuthIInv'
  <2>1. InScope(p, "resource.read", row.tenant, row.project)
    BY <1>12, ReadInScope DEF listTasks, scopeTaskFilter
  <2> QED BY <1>12, <2>1, RequestKeepsAuth DEF listTasks, UseWork, Accessed
<1>13. ASSUME NEW p \in Principals, NEW row \in Rows, NEW action, authorizeTask(p, row, action), UseWork(p, row, action)
       PROVE  AuthIInv'
  <2>1. InScope(p, action, row.tenant, row.project)
    BY <1>13, PolicyInScope DEF authorizeTask
  <2> QED BY <1>13, <2>1, RequestKeepsAuth DEF UseWork, Accessed
<1>14. ASSUME NEW p \in Principals, TenantRequest(p) PROVE AuthIInv'
  <2>1. ASSUME NEW row \in Rows, NEW route \in TenantRoute, NEW kind, NEW action, UseTenantWork(p, route, row, kind, action)
        PROVE  AuthIInv'
    <3>1. InScope(p, action, row.tenant, row.project)
      BY <2>1, UnboundInScope DEF UseTenantWork
    <3> QED BY <2>1, <3>1, RequestKeepsAuth DEF UseTenantWork, UseWork, Accessed
  <2>2. ASSUME NEW v \in WorkId, createOfflineKnowledgeRun(p, v) PROVE AuthIInv'
    <3>1. InScope(p, "resource.write", p.tenant, NoProject)
      BY <2>2, UnboundInScope DEF createOfflineKnowledgeRun, TenantRoute
    <3> DEFINE new == Work("offline_run", p.tenant, NoProject, Absent, Absent, TRUE)
    <3>2. NewWork(p, v, "resource.write", new)
      BY <2>2 DEF createOfflineKnowledgeRun
    <3>3. RowKeepsProject(new) /\ new.tenant = p.tenant /\ new.project = NoProject
      BY DEF RowKeepsProject, Work
    <3> HIDE DEF new
    <3> QED BY <3>1, <3>2, <3>3, NewWorkKeepsAuth
  <2>3. \/ \E v \in WorkId : createOfflineKnowledgeRun(p, v)
        \/ \E row \in Rows, route \in TenantRoute, kind \in {"trace", "job", "offline_run"}, action \in ScopedActions :
             UseTenantWork(p, route, row, kind, action)
    BY <1>14 DEF TenantRequest, getTrace, listTraces, traceStats, getIngestionJob, UseOfflineRun,
                 listOfflineKnowledgeRuns, getOfflineKnowledgeRun, offlineKnowledgeRunAction,
                 listOfflineKnowledgeQuestions, listOptimizationItems, getOptimizationItem, optimizationItemAction,
                 bulkRevalidateOptimizationItems, TenantRoute, ScopedActions, EditorActions, ViewerActions
  <2> QED BY <2>1, <2>2, <2>3
<1>15. ASSUME NEW p \in Principals, NEW row \in Rows,
              getEvaluation(p, row) \/ getOptimization(p, row) \/ cancelOptimization(p, row)
       PROVE  AuthIInv'
  BY <1>15, PermittedInScope, RequestKeepsAuth
     DEF getEvaluation, getOptimization, cancelOptimization, UseWork, Accessed
<1>16. ASSUME NEW p \in Principals, NEW route, NEW action, NEW j \in Project, ProjectRequest(p, route, action, j)
       PROVE  AuthIInv'
  <2> DEFINE served == Admitted(p, route) /\ Authorize(p, action, p.tenant, j)
             row == [tenant |-> p.tenant, project |-> j]
  <2>1. Answered(p, action, row, served) /\ works' = works /\ outcomes' = outcomes
    BY <1>16 DEF ProjectRequest
  <2>2. row.tenant = p.tenant /\ row.project = j /\ served \in BOOLEAN
    BY DEF Admitted, Authorize
  <2>3. served => InScope(p, action, p.tenant, j)
    BY PolicyInScope
  <2> HIDE DEF served, row
  <2> QED BY <2>1, <2>2, <2>3, RequestKeepsAuth
<1>17. CASE UNCHANGED authVars
  BY <1>17 DEF authVars, AuthIInv, ProjectsAreSeparate, AccessInScope, WorkKeepsProject, Rows
<1>18. ASSUME NEW p \in Principals, BaseRequest(p) PROVE AuthIInv'
  BY <1>18, <1>2, <1>3, <1>4, <1>5 DEF BaseRequest
<1>19. ASSUME NEW p \in Principals, DatasetRequest(p) PROVE AuthIInv'
  BY <1>19, <1>7, <1>8, <1>9, <1>10, <1>21 DEF DatasetRequest
<1>20. ASSUME NEW p \in Principals, WorkRequest(p) PROVE AuthIInv'
  BY <1>20, <1>11, <1>12, <1>13, <1>15, <1>22 DEF WorkRequest, getTask, cancelTask
<1> QED BY <1>1, <1>14, <1>16, <1>17, <1>18, <1>19, <1>20, <1>23, <1>24 DEF AuthNext

\* Whatever tenants, projects, roles and routes there are, no handler answers
\* a request it checks with a resource outside its principal's tenant or
\* project, and what is made from looked-up datasets and knowledge bases mixes
\* no two projects.  (A task made directly at POST /v1/tasks may name another
\* project's base; its tenant's it remains.)
THEOREM ProjectsSeparate == AuthSpec => []ProjectsAreSeparate
<1>1. AuthInit => AuthIInv
  BY DEF AuthInit, AuthIInv, ProjectsAreSeparate, AccessInScope, WorkKeepsProject, Rows
<1>2. AuthIInv => ProjectsAreSeparate
  BY DEF AuthIInv
<1> QED BY <1>1, <1>2, AuthStep, PTL DEF AuthSpec

-----------------------------------------------------------------------------
(***************************************************************************)
(* The audit trail                                                         *)
(***************************************************************************)

EventRow == [id : Nat, at : Nat, action : Nat]

\* A finite set of events that no two ids of are equal: what the primary key
\* of audit_events gives, and what makes the order of the list a total one.
EventSet(M) == IsFiniteSet(M) /\ M \subseteq EventRow /\ \A e, f \in M : e.id = f.id => e = f

NewerIn(M, e) == {f \in M : Newer(f, e)}

\* The order of the list, newest first, is a strict total one.
LEMMA ListOrder ==
    ASSUME NEW M, EventSet(M), NEW e \in M, NEW f \in M, NEW g \in M
    PROVE  /\ ~Newer(e, e)
           /\ ~(Newer(e, f) /\ Newer(f, e))
           /\ e # f => Newer(e, f) \/ Newer(f, e)
           /\ Newer(e, f) /\ Newer(f, g) => Newer(e, g)
<1>1. e.at \in Int /\ e.id \in Int /\ f.at \in Int /\ f.id \in Int /\ g.at \in Int /\ g.id \in Int
  BY DEF EventSet, EventRow
<1>2. e # f => e.id # f.id
  BY DEF EventSet
<1> QED BY <1>1, <1>2 DEF Newer

LEMMA SubsetOfEvents ==
    ASSUME NEW M, EventSet(M), NEW P \in SUBSET M
    PROVE  EventSet(P)
BY FS_Subset DEF EventSet

LEMMA NewerIsFinite ==
    ASSUME NEW M, EventSet(M), NEW e
    PROVE  IsFiniteSet(NewerIn(M, e)) /\ Cardinality(NewerIn(M, e)) \in Nat
<1>1. NewerIn(M, e) \subseteq M
  BY DEF NewerIn
<1> QED BY <1>1, FS_Subset, FS_CardinalityType DEF EventSet

\* The newer of two events has fewer events before it.
LEMMA NewerHasFewer ==
    ASSUME NEW M, EventSet(M), NEW e \in M, NEW f \in M, Newer(e, f)
    PROVE  Cardinality(NewerIn(M, e)) < Cardinality(NewerIn(M, f))
<1>1. NewerIn(M, e) \subseteq NewerIn(M, f)
  <2> SUFFICES ASSUME NEW g \in M, Newer(g, e) PROVE Newer(g, f)
    BY DEF NewerIn
  <2> QED BY ListOrder
<1>2. e \in NewerIn(M, f) /\ e \notin NewerIn(M, e)
  BY ListOrder DEF NewerIn
<1>3. /\ Cardinality(NewerIn(M, e)) <= Cardinality(NewerIn(M, f))
      /\ Cardinality(NewerIn(M, e)) # Cardinality(NewerIn(M, f))
  BY <1>1, <1>2, NewerIsFinite, FS_Subset
<1> QED BY <1>3, NewerIsFinite

\* A page is the newest events: whatever is left out is older than each of it.
LEMMA RestIsOlder ==
    ASSUME NEW M, EventSet(M), NEW n \in Nat, NEW e \in M \ FirstOf(M, n), NEW f \in FirstOf(M, n)
    PROVE  Newer(f, e)
<1>1. /\ Cardinality(NewerIn(M, f)) < n /\ ~(Cardinality(NewerIn(M, e)) < n) /\ f \in M /\ e # f
  BY DEF FirstOf, NewerIn
<1>2. Newer(e, f) => Cardinality(NewerIn(M, e)) < Cardinality(NewerIn(M, f))
  BY <1>1, NewerHasFewer
<1>3. ~Newer(e, f)
  BY <1>1, <1>2, NewerIsFinite
<1> QED BY <1>1, <1>3, ListOrder

\* Among some events of the list one has the fewest before it.
LEMMA NewestOf ==
    ASSUME NEW M, EventSet(M), NEW P \in SUBSET M, P # {}
    PROVE  \E e \in P : \A f \in P : Cardinality(NewerIn(M, e)) <= Cardinality(NewerIn(M, f))
<1> DEFINE T == {Cardinality(NewerIn(M, e)) : e \in P}
<1>1. T \subseteq Nat /\ T # {}
  BY NewerIsFinite
<1> HIDE DEF T
<1>2. PICK x \in T : \A y \in T : x <= y
  BY <1>1, LeastOf
<1>3. PICK e \in P : x = Cardinality(NewerIn(M, e))
  BY <1>2 DEF T
<1>4. \A f \in P : Cardinality(NewerIn(M, f)) \in T
  BY DEF T
<1> QED BY <1>2, <1>3, <1>4

LEMMA PageNotEmpty ==
    ASSUME NEW M, EventSet(M), M # {}, NEW n \in Nat \ {0}
    PROVE  FirstOf(M, n) # {}
<1>1. PICK e \in M : \A f \in M : Cardinality(NewerIn(M, e)) <= Cardinality(NewerIn(M, f))
  BY NewestOf
<1>2. NewerIn(M, e) = {}
  <2> SUFFICES ASSUME NEW f \in NewerIn(M, e) PROVE FALSE
    OBVIOUS
  <2>1. f \in M /\ Newer(f, e)
    BY DEF NewerIn
  <2>2. Cardinality(NewerIn(M, f)) < Cardinality(NewerIn(M, e))
    BY <2>1, NewerHasFewer
  <2> QED BY <1>1, <2>1, <2>2, NewerIsFinite
<1>3. Cardinality(NewerIn(M, e)) = 0
  BY <1>2, FS_EmptySet
<1> QED BY <1>3 DEF FirstOf, NewerIn

\* A page that is not empty has a last event.
LEMMA LastExists ==
    ASSUME NEW P, EventSet(P), P # {}
    PROVE  LastOf(P) \in P /\ \A f \in P \ {LastOf(P)} : Newer(f, LastOf(P))
<1> DEFINE Older(e) == {f \in P : Newer(e, f)}
           T == {Cardinality(Older(e)) : e \in P}
<1>1. ASSUME NEW e \in P PROVE IsFiniteSet(Older(e)) /\ Cardinality(Older(e)) \in Nat
  <2>1. Older(e) \subseteq P
    OBVIOUS
  <2> QED BY <2>1, FS_Subset, FS_CardinalityType DEF EventSet
<1>2. T \subseteq Nat /\ T # {}
  BY <1>1
<1> HIDE DEF T
<1>3. PICK x \in T : \A y \in T : x <= y
  BY <1>2, LeastOf
<1>4. PICK e \in P : x = Cardinality(Older(e))
  BY <1>3 DEF T
<1>5. ASSUME NEW f \in P, f # e PROVE Newer(f, e)
  <2>1. SUFFICES ASSUME Newer(e, f) PROVE FALSE
    BY <1>5, ListOrder
  <2>2. Older(f) \subseteq Older(e) /\ f \in Older(e) /\ f \notin Older(f)
    BY <2>1, ListOrder
  <2> HIDE DEF Older
  <2>3. Cardinality(Older(f)) <= Cardinality(Older(e)) /\ Cardinality(Older(f)) # Cardinality(Older(e))
    BY <1>1, <2>2, FS_Subset
  <2>4. Cardinality(Older(e)) <= Cardinality(Older(f))
    BY <1>3, <1>4 DEF T
  <2> QED BY <1>1, <2>3, <2>4
<1>6. \E l \in P : \A f \in P \ {l} : Newer(f, l)
  BY <1>5
<1> QED BY <1>6 DEF LastOf

\* Without a further row the page holds all that matched.
LEMMA LastPageIsAll ==
    ASSUME NEW M, EventSet(M), NEW n \in Nat, ~(Cardinality(FirstOf(M, n + 1)) > n)
    PROVE  M \subseteq FirstOf(M, n)
<1> DEFINE rest == M \ FirstOf(M, n)
           more == FirstOf(M, n + 1)
<1> SUFFICES ASSUME rest # {} PROVE FALSE
  OBVIOUS
<1>1. PICK e \in rest : \A f \in rest : Cardinality(NewerIn(M, e)) <= Cardinality(NewerIn(M, f))
  BY NewestOf
<1>2. /\ FirstOf(M, n) \subseteq M /\ more \subseteq M
      /\ \A f \in M : f \in FirstOf(M, n) <=> Cardinality(NewerIn(M, f)) < n
      /\ \A f \in M : f \in more <=> Cardinality(NewerIn(M, f)) < n + 1
  BY DEF FirstOf, NewerIn
<1>3. NewerIn(M, e) = FirstOf(M, n)
  <2>1. ASSUME NEW f \in NewerIn(M, e) PROVE f \in FirstOf(M, n)
    <3>1. f \in M /\ Newer(f, e)
      BY DEF NewerIn
    <3>2. Cardinality(NewerIn(M, f)) < Cardinality(NewerIn(M, e))
      BY <3>1, NewerHasFewer
    <3> QED BY <1>1, <3>1, <3>2, NewerIsFinite
  <2>2. ASSUME NEW f \in FirstOf(M, n) PROVE f \in NewerIn(M, e)
    BY <1>2, RestIsOlder DEF NewerIn
  <2> QED BY <2>1, <2>2
<1>4. FirstOf(M, n) \subseteq more
  BY <1>2, NewerIsFinite
<1>5. IsFiniteSet(more) /\ IsFiniteSet(FirstOf(M, n))
  BY <1>2, FS_Subset DEF EventSet
<1>6. Cardinality(more) \in Nat /\ Cardinality(FirstOf(M, n)) \in Nat
      /\ Cardinality(FirstOf(M, n)) <= Cardinality(more)
  BY <1>4, <1>5, FS_Subset, FS_CardinalityType
<1>7. Cardinality(FirstOf(M, n)) = n
  BY <1>1, <1>2, <1>3, <1>6
<1>8. e \in more
  BY <1>2, <1>3, <1>7
<1>9. FirstOf(M, n) \cup {e} \subseteq more /\ e \notin FirstOf(M, n)
  BY <1>4, <1>8
<1>10. Cardinality(FirstOf(M, n) \cup {e}) = n + 1
  BY <1>5, <1>7, <1>9, FS_AddElement
<1>11. Cardinality(FirstOf(M, n) \cup {e}) <= Cardinality(more)
  BY <1>5, <1>9, FS_Subset
<1> QED BY <1>6, <1>10, <1>11

\* What a cursor leaves to be read.
MatchingIn(rows, cursor) == IF cursor.at = ZeroTime THEN rows ELSE {e \in rows : After(e, cursor)}

\* The reader has what was there at its start, or will still get it.
NothingLost(rd, rows) ==
    /\ rd.pages = "more" => rd.present \subseteq rows
                            /\ rd.present \subseteq rd.seen \cup MatchingIn(rows, rd.cursor)
    /\ rd.pages = "end" => rd.present \subseteq rd.seen

\* As long as every event has a time, the cursor is a time too, and all that
\* was seen lies before it.
NothingTwice(rd, rows) ==
    (\A e \in rows : e.at # ZeroTime) =>
      /\ ~rd.repeated
      /\ rd.seen \subseteq rows
      /\ rd.pages = "none" => rd.seen = {}
      /\ rd.pages = "more" => rd.cursor.at # ZeroTime /\ \A e \in rd.seen : ~After(e, rd.cursor)

AuditIInv ==
    /\ EventSet(trail)
    /\ audited \in Nat
    /\ auditClock \in Nat
    /\ reader.cursor \in [at : Nat, id : Nat]
    /\ reader.pages \in {"none", "more", "end"}
    /\ NothingLost(reader, trail)
    /\ NothingTwice(reader, trail)

LEMMA RecordKeepsAudit ==
    ASSUME AuditIInv, NEW event \in EventRow, Record(event)
    PROVE  AuditIInv'
<1>1. /\ audited' \in Nat /\ auditClock' = auditClock /\ reader' = reader
      /\ trail' = trail \/ (trail' = trail \cup {event} /\ \A e \in trail : e.id # event.id)
  BY DEF AuditIInv, Record
<1>2. EventSet(trail')
  <2>1. CASE trail' = trail
    BY <2>1 DEF AuditIInv
  <2>2. CASE trail' = trail \cup {event} /\ \A e \in trail : e.id # event.id
    <3>1. IsFiniteSet(trail')
      BY <2>2, FS_AddElement DEF AuditIInv, EventSet
    <3>2. trail' \subseteq EventRow
      BY <2>2 DEF AuditIInv, EventSet
    <3>3. \A e, f \in trail' : e.id = f.id => e = f
      BY <2>2 DEF AuditIInv, EventSet
    <3> QED BY <3>1, <3>2, <3>3 DEF EventSet
  <2> QED BY <1>1, <2>1, <2>2
<1>3. trail \subseteq trail'
  BY <1>1
<1>4. NothingLost(reader, trail')
  BY <1>3 DEF AuditIInv, NothingLost, MatchingIn
<1>5. NothingTwice(reader, trail')
  BY <1>3 DEF AuditIInv, NothingTwice
<1> QED BY <1>1, <1>2, <1>4, <1>5 DEF AuditIInv

LEMMA ListKeepsAudit ==
    ASSUME AuditIInv, ListPage
    PROVE  AuditIInv'
<1> DEFINE asked == IF reader.pages = "none" THEN NoCursor ELSE reader.cursor
<1>1. PICK cursor, M, page, more :
        /\ cursor = asked /\ M = Matching(cursor) /\ page = Page(cursor) /\ more = HasNext(cursor)
  OBVIOUS
<1>2. /\ reader.pages \in {"none", "more"} /\ trail' = trail /\ audited' = audited /\ auditClock' = auditClock
      /\ reader' = [pages |-> IF more THEN "more" ELSE "end",
                    cursor |-> IF more THEN [at |-> LastOf(page).at, id |-> LastOf(page).id] ELSE NoCursor,
                    present |-> IF reader.pages = "none" THEN trail ELSE reader.present,
                    seen |-> reader.seen \cup page,
                    repeated |-> reader.repeated \/ reader.seen \cap page # {}]
  BY <1>1 DEF ListPage, AuditIInv
<1>3. /\ M = MatchingIn(trail, cursor) /\ page = FirstOf(M, PageLimit)
      /\ more <=> Cardinality(FirstOf(M, PageLimit + 1)) > PageLimit
  BY <1>1 DEF Matching, MatchingIn, Page, HasNext
<1>4. cursor \in [at : Nat, id : Nat] /\ (reader.pages = "more" => cursor = reader.cursor)
      /\ (reader.pages = "none" => cursor = NoCursor)
  BY <1>1 DEF AuditIInv, NoCursor, ZeroTime, BlankId
<1>5. M \subseteq trail /\ page \subseteq M /\ EventSet(M) /\ EventSet(page)
  <2>1. M \subseteq trail /\ page \subseteq M
    BY <1>3 DEF MatchingIn, FirstOf
  <2> QED BY <2>1, SubsetOfEvents DEF AuditIInv
<1>6. PICK present : /\ present = IF reader.pages = "none" THEN trail ELSE reader.present
                     /\ present \subseteq trail /\ present \subseteq reader.seen \cup M
  <2>1. CASE reader.pages = "none"
    BY <1>3, <1>4, <2>1 DEF MatchingIn, NoCursor
  <2>2. CASE reader.pages = "more"
    BY <1>3, <1>4, <2>2 DEF AuditIInv, NothingLost
  <2> QED BY <1>2, <2>1, <2>2
<1>7. PageLimit \in Nat /\ PageLimit \in Nat \ {0}
  BY AuditAssumption
<1>8. ASSUME more
      PROVE  /\ LastOf(page) \in page /\ LastOf(page) \in EventRow
             /\ \A f \in page \ {LastOf(page)} : Newer(f, LastOf(page))
             /\ \A e \in M \ page : Newer(LastOf(page), e)
  <2>1. M # {}
    <3>1. M = {} => FirstOf(M, PageLimit + 1) = {}
      BY DEF FirstOf
    <3>2. M = {} => Cardinality(FirstOf(M, PageLimit + 1)) = 0
      BY <3>1, FS_EmptySet
    <3> QED BY <1>3, <1>7, <1>8, <3>2
  <2>2. page # {}
    BY <1>3, <1>5, <1>7, <2>1, PageNotEmpty
  <2>3. LastOf(page) \in page /\ \A f \in page \ {LastOf(page)} : Newer(f, LastOf(page))
    BY <1>5, <2>2, LastExists
  <2> QED BY <1>3, <1>5, <1>7, <2>3, RestIsOlder DEF EventSet
<1>9. ASSUME ~more PROVE M \subseteq page
  BY <1>3, <1>5, <1>7, <1>9, LastPageIsAll
<1>10. PICK next : /\ next = IF more THEN [at |-> LastOf(page).at, id |-> LastOf(page).id] ELSE NoCursor
                   /\ next \in [at : Nat, id : Nat]
                   /\ more => next.at = LastOf(page).at /\ next.id = LastOf(page).id
  <2> DEFINE n == IF more THEN [at |-> LastOf(page).at, id |-> LastOf(page).id] ELSE NoCursor
  <2>1. more => LastOf(page).at \in Nat /\ LastOf(page).id \in Nat
    BY <1>8 DEF EventRow
  <2>2. n \in [at : Nat, id : Nat]
    BY <2>1 DEF NoCursor, ZeroTime, BlankId
  <2>3. more => n.at = LastOf(page).at /\ n.id = LastOf(page).id
    OBVIOUS
  <2> QED BY <2>2, <2>3
<1>11. /\ reader'.pages = IF more THEN "more" ELSE "end"
       /\ reader'.cursor = next /\ reader'.present = present /\ reader'.seen = reader.seen \cup page
       /\ reader'.repeated = (reader.repeated \/ reader.seen \cap page # {})
  BY <1>2, <1>6, <1>10
<1>12. ASSUME more, NEW e \in M \ page PROVE e \in MatchingIn(trail, next)
  <2>1. Newer(LastOf(page), e) /\ e \in trail
    BY <1>5, <1>8, <1>12
  <2> QED BY <1>10, <1>12, <2>1 DEF MatchingIn, Newer, After
<1>13. NothingLost(reader', trail)
  <2>1. CASE more
    BY <1>6, <1>11, <1>12, <2>1 DEF NothingLost
  <2>2. CASE ~more
    BY <1>6, <1>9, <1>11, <2>2 DEF NothingLost
  <2> QED BY <2>1, <2>2
<1>14. NothingTwice(reader', trail)
  <2> SUFFICES ASSUME \A e \in trail : e.at # ZeroTime
               PROVE  /\ ~reader'.repeated /\ reader'.seen \subseteq trail
                      /\ more => next.at # ZeroTime /\ \A e \in reader'.seen : ~After(e, next)
    BY <1>11 DEF NothingTwice
  <2>1. /\ ~reader.repeated /\ reader.seen \subseteq trail /\ (reader.pages = "none" => reader.seen = {})
        /\ reader.pages = "more" => cursor.at # ZeroTime /\ \A e \in reader.seen : ~After(e, cursor)
    BY <1>4 DEF AuditIInv, NothingTwice
  <2>2. reader.pages = "more" => \A e \in M : After(e, cursor)
    BY <1>3, <2>1 DEF MatchingIn
  <2>3. reader.seen \cap page = {}
    BY <1>2, <1>5, <2>1, <2>2
  <2>4. ASSUME more PROVE next.at # ZeroTime /\ \A e \in reader.seen \cup page : ~After(e, next)
    <3> DEFINE last == LastOf(page)
    <3>1. last \in trail /\ last \in M /\ next.at = last.at /\ next.id = last.id
      BY <1>5, <1>8, <1>10, <2>4
    <3>2. next.at # ZeroTime
      BY <3>1
    <3> HIDE DEF last
    <3>3. \A e \in trail : e.at \in Nat /\ e.id \in Nat
      BY DEF AuditIInv, EventSet, EventRow
    <3>4. ASSUME NEW e \in page PROVE ~After(e, next)
      <4>1. e = last \/ Newer(e, last)
        BY <1>8, <2>4 DEF last
      <4>2. e \in trail
        BY <1>5
      <4> QED BY <3>1, <3>3, <4>1, <4>2 DEF After, Newer
    <3>5. ASSUME NEW e \in reader.seen PROVE ~After(e, next)
      <4>1. reader.pages = "more" /\ ~After(e, cursor) /\ After(last, cursor) /\ e \in trail
        BY <1>2, <2>1, <2>2, <3>1
      <4>2. cursor.at \in Nat /\ cursor.id \in Nat
        BY <1>4
      <4> QED BY <3>1, <3>3, <4>1, <4>2 DEF After
    <3> QED BY <3>2, <3>4, <3>5
  <2> QED BY <1>5, <1>11, <2>1, <2>3, <2>4
<1> QED BY <1>2, <1>10, <1>11, <1>13, <1>14 DEF AuditIInv

LEMMA AuditStep == AuditIInv /\ [AuditNext]_auditVars => AuditIInv'
<1> SUFFICES ASSUME AuditIInv, [AuditNext]_auditVars PROVE AuditIInv'
  OBVIOUS
<1> USE AuditAssumption
<1>0. audited \in Nat /\ auditClock \in Nat
  BY DEF AuditIInv
<1>1. CASE AuditTimePasses
  <2>1. auditClock' \in Nat /\ trail' = trail /\ audited' = audited /\ reader' = reader
    BY <1>0, <1>1 DEF AuditTimePasses
  <2> QED BY <2>1 DEF AuditIInv
<1>2. CASE HandlerRecords
  <2>1. Event(BlankId, ZeroTime) \in EventRow
    BY <1>0 DEF Event, EventRow, BlankId, ZeroTime
  <2> QED BY <1>2, <2>1, RecordKeepsAudit DEF HandlerRecords
<1>3. ASSUME NEW i \in AuditId, TaskRecords(i) PROVE AuditIInv'
  <2>1. Event(i, ZeroTime) \in EventRow
    BY <1>0 DEF Event, EventRow, ZeroTime
  <2> QED BY <1>3, <2>1, RecordKeepsAudit DEF TaskRecords
<1>4. ASSUME NEW i \in AuditId, ServiceRecords(i) PROVE AuditIInv'
  <2>1. Event(i, auditClock) \in EventRow
    BY <1>0 DEF Event, EventRow
  <2> QED BY <1>4, <2>1, RecordKeepsAudit DEF ServiceRecords
<1>5. CASE ListPage
  BY <1>5, ListKeepsAudit
<1>6. CASE UNCHANGED auditVars
  <2>1. trail' = trail /\ audited' = audited /\ auditClock' = auditClock /\ reader' = reader
    BY <1>6 DEF auditVars
  <2> QED BY <2>1 DEF AuditIInv
<1> QED BY <1>1, <1>2, <1>3, <1>4, <1>5, <1>6 DEF AuditNext

\* Whoever follows next_cursor to the end gets every event that was there when
\* it began, whatever page size it asks for and whatever is recorded meanwhile,
\* and none twice as long as every event carries its time.
THEOREM PagesExact == AuditSpec => []PagesAreExact
<1>1. AuditInit => AuditIInv
  <2> SUFFICES ASSUME AuditInit PROVE AuditIInv
    OBVIOUS
  <2>1. /\ reader.pages = "none" /\ reader.cursor = [at |-> 0, id |-> 0] /\ reader.seen = {}
        /\ reader.repeated = FALSE
    BY DEF AuditInit, NoReader, NoCursor, ZeroTime, BlankId
  <2>2. EventSet(trail)
    BY FS_EmptySet DEF AuditInit, EventSet
  <2> QED BY <2>1, <2>2 DEF AuditInit, AuditIInv, NothingLost, NothingTwice
<1>2. AuditIInv => PagesAreExact
  BY DEF AuditIInv, NothingLost, NothingTwice, PagesAreExact, PagesComplete, PagesRepeatNothing
<1> QED BY <1>1, <1>2, AuditStep, PTL DEF AuditSpec

-----------------------------------------------------------------------------
(***************************************************************************)
(* Model clients and readiness                                             *)
(***************************************************************************)

ModelCallRow ==
    [pc : {"idle", "post", "backoff", "answered", "stored", "searched", "reranked", "used", "failed"},
     cap : Capability, n : Nat, item : Nat, attempt : Nat, posts : Nat, ok : BOOLEAN, fake : BOOLEAN,
     count : Nat, blank : BOOLEAN, fits : BOOLEAN, used : SUBSET Nat]

\* The texts of a call, at least one request's worth.
Texts(c) == IF c.n > 0 THEN c.n ELSE 1

\* The requests of a call that goes on: a full round of attempts for every
\* text it has behind it, and the attempts of the one it is at.
CallCounts(c) ==
    /\ c.posts <= (RetryTimes + 1) * Texts(c)
    /\ c.pc \in {"post", "backoff"} => c.item + 1 <= Texts(c) /\ c.posts <= (RetryTimes + 1) * c.item + c.attempt
    /\ c.pc = "post" => c.attempt <= RetryTimes
    /\ c.pc = "backoff" => c.attempt <= RetryTimes + 1

\* An answer was asked for, made up, or needed no request.
CallAsked(c) == c.ok = TRUE => c.fake = TRUE \/ c.posts > 0 \/ c.n = 0

CallFits(c) ==
    /\ c.pc \in {"stored", "searched"} => c.ok = TRUE
    /\ c.pc = "stored" => c.count = c.n
    /\ c.pc = "searched" => c.count > 0
    /\ c.pc = "reranked" => c.used \subseteq 0..(c.n - 1)

ModelCallSound(c, config) ==
    /\ c \in ModelCallRow
    /\ CallCounts(c)
    /\ CallAsked(c)
    /\ CallFits(c)
    /\ config.env = "production" => c.fake = FALSE

LEMMA RoundsGrow ==
    ASSUME NEW r \in Nat, NEW i \in Nat, NEW m \in Nat, i + 1 <= m
    PROVE  r * i + r <= r * m
<1>1. PICK d \in Nat : m = i + 1 + d
  <2>1. m - (i + 1) \in Nat /\ m = i + 1 + (m - (i + 1))
    OBVIOUS
  <2> QED BY <2>1
<1>2. r * m = r * i + r + r * d /\ r * d \in Nat /\ r * i \in Nat
  BY <1>1
<1> QED BY <1>2

LEMMA IdleCallSound == \A config : ModelCallSound(NoModelCall, config)
<1> USE ModelAssumption
<1>1. /\ NoModelCall.pc = "idle" /\ NoModelCall.n = 0 /\ NoModelCall.posts = 0 /\ NoModelCall.fake = FALSE
      /\ NoModelCall.item = 0 /\ NoModelCall.attempt = 0
  BY DEF NoModelCall
<1>2. NoModelCall \in ModelCallRow
  BY DEF NoModelCall, ModelCallRow, Capability
<1>3. CallCounts(NoModelCall) /\ CallAsked(NoModelCall) /\ CallFits(NoModelCall)
  BY <1>1 DEF CallCounts, CallAsked, CallFits, Texts
<1> QED BY <1>1, <1>2, <1>3 DEF ModelCallSound

\* A call that goes back to its caller, or that its caller has used.
LEMMA SettledCallSound ==
    ASSUME NEW c \in ModelCallRow, NEW d \in ModelCallRow, NEW config, CallCounts(c), CallAsked(c),
           d.pc \notin {"post", "backoff"}, d.n = c.n, d.posts = c.posts, d.ok = c.ok, d.fake = c.fake,
           CallFits(d), config.env = "production" => d.fake = FALSE
    PROVE  ModelCallSound(d, config)
<1>1. CallAsked(d)
  BY DEF CallAsked
<1>2. CallCounts(d)
  BY DEF CallCounts, Texts
<1> QED BY <1>1, <1>2 DEF ModelCallSound

\* The last request of a text, if all were refused.
LEMMA PostCounts ==
    ASSUME NEW c \in ModelCallRow, CallCounts(c), c.pc = "post"
    PROVE  /\ c.posts + 1 <= (RetryTimes + 1) * c.item + c.attempt + 1
           /\ c.posts + 1 <= (RetryTimes + 1) * (c.item + 1)
           /\ c.posts + 1 <= (RetryTimes + 1) * Texts(c)
           /\ c.attempt + 1 <= RetryTimes + 1
           /\ (RetryTimes + 1) * c.item \in Nat /\ (RetryTimes + 1) * (c.item + 1) \in Nat
<1> USE ModelAssumption
<1> DEFINE R == RetryTimes + 1
<1>1. R \in Nat /\ c.item \in Nat /\ c.posts \in Nat /\ c.attempt \in Nat /\ Texts(c) \in Nat
  BY DEF ModelCallRow, Texts
<1>2. c.item + 1 <= Texts(c) /\ c.posts <= R * c.item + c.attempt /\ c.attempt + 1 <= R
  BY <1>1 DEF CallCounts
<1> HIDE DEF R
<1>3. R * c.item + R <= R * Texts(c) /\ R * c.item + R <= R * (c.item + 1) /\ c.item + 1 \in Nat
  BY <1>1, <1>2, RoundsGrow
<1>4. R * c.item \in Nat /\ R * (c.item + 1) \in Nat /\ R * Texts(c) \in Nat
  BY <1>1
<1>5. /\ c.posts + 1 <= R * c.item + c.attempt + 1 /\ c.posts + 1 <= R * (c.item + 1)
      /\ c.posts + 1 <= R * Texts(c)
  BY <1>1, <1>2, <1>3, <1>4
<1> QED BY <1>2, <1>4, <1>5 DEF R

LEMMA BackoffCounts ==
    ASSUME NEW c \in ModelCallRow, CallCounts(c), c.pc = "backoff", AttemptsLeft(c)
    PROVE  c.attempt <= RetryTimes /\ c.item + 1 <= Texts(c) /\ c.posts <= (RetryTimes + 1) * c.item + c.attempt
  BY DEF CallCounts, AttemptsLeft

LEMMA PostSound ==
    ASSUME NEW c \in ModelCallRow, NEW config, ModelCallSound(c, config), c.pc = "post", NEW a,
           NEW r \in Response(c.cap), NEW d,
           LET sent == [c EXCEPT !.posts = @ + 1]
           IN  \/ d = Refused(sent, a)
               \/ \E I \in Indices(sent, r) : d = Decoded(sent, a, r, I)
    PROVE  ModelCallSound(d, config)
<1> USE ModelAssumption
<1> DEFINE sent == [c EXCEPT !.posts = @ + 1]
<1>0. CallCounts(c) /\ (config.env = "production" => c.fake = FALSE)
  BY DEF ModelCallSound
<1>1. /\ sent \in ModelCallRow /\ sent.pc = "post" /\ sent.n = c.n /\ sent.posts = c.posts + 1 
      /\ sent.item = c.item /\ sent.attempt = c.attempt /\ sent.fake = c.fake /\ sent.cap = c.cap
  BY DEF ModelCallRow
<1> HIDE DEF sent
<1>2. Texts(sent) = Texts(c) /\ Texts(c) \in Nat /\ c.item \in Nat /\ c.n \in Nat
  BY <1>1 DEF Texts, ModelCallRow
<1>3. /\ sent.posts <= (RetryTimes + 1) * sent.item + sent.attempt + 1
      /\ sent.posts <= (RetryTimes + 1) * (sent.item + 1)
      /\ sent.posts <= (RetryTimes + 1) * Texts(sent)
      /\ sent.attempt + 1 <= RetryTimes + 1
  BY <1>0, <1>1, <1>2, PostCounts
<1>a. ASSUME d.posts = sent.posts PROVE CallAsked(d)
  BY <1>1, <1>a DEF CallAsked, ModelCallRow
<1>4. CASE d = Refused(sent, a)
  <2>1. CASE a \in Retrying
    <3>1. d = [sent EXCEPT !.pc = "backoff", !.attempt = @ + 1]
      BY <1>4, <2>1 DEF Refused
    <3>2. /\ d \in ModelCallRow /\ d.pc = "backoff" /\ d.attempt = sent.attempt + 1 /\ d.n = sent.n
          /\ d.posts = sent.posts /\ d.item = sent.item /\ d.fake = sent.fake
      <4> DEFINE waits == [sent EXCEPT !.pc = "backoff"]
                 more == sent.attempt + 1
      <4>1. /\ waits \in ModelCallRow /\ waits.pc = "backoff" /\ waits.n = sent.n /\ waits.posts = sent.posts
            /\ waits.item = sent.item /\ waits.fake = sent.fake
        BY <1>1 DEF ModelCallRow
      <4>2. d = [waits EXCEPT !.attempt = more] /\ more \in Nat
        BY <1>1, <3>1 DEF ModelCallRow
      <4> HIDE DEF waits, more
      <4>3. /\ d \in ModelCallRow /\ d.pc = waits.pc /\ d.attempt = more /\ d.n = waits.n
            /\ d.posts = waits.posts /\ d.item = waits.item /\ d.fake = waits.fake
        BY <4>1, <4>2 DEF ModelCallRow
      <4> QED BY <4>1, <4>3 DEF more
    <3>3. Texts(d) = Texts(sent)
      BY <3>2 DEF Texts
    <3>4. d.attempt <= RetryTimes + 1 /\ d.item + 1 <= Texts(d) 
      BY <1>0, <1>1, <1>2, <1>3, <3>2, <3>3 DEF CallCounts
    <3>5. d.posts <= (RetryTimes + 1) * d.item + d.attempt /\ d.posts <= (RetryTimes + 1) * Texts(d)
      <4>1. (RetryTimes + 1) * sent.item \in Nat /\ sent.attempt \in Nat
        BY <1>1 DEF ModelCallRow
      <4> QED BY <1>3, <3>2, <3>3, <4>1
    <3>6. CallCounts(d) /\ CallFits(d)
      BY <3>2, <3>4, <3>5 DEF CallCounts, CallFits
    <3> QED BY <1>0, <1>1, <1>a, <3>2, <3>6 DEF ModelCallSound
  <2>2. CASE a \notin Retrying
    <3>1. d = [sent EXCEPT !.pc = "answered"]
      BY <1>4, <2>2 DEF Refused
    <3>2. d \in ModelCallRow /\ d.pc = "answered" /\ d.n = sent.n /\ d.posts = sent.posts /\ d.fake = sent.fake
      BY <1>1, <3>1 DEF ModelCallRow
    <3>3. CallCounts(d) /\ CallFits(d)
      BY <1>3, <3>2 DEF CallCounts, CallFits, Texts
    <3> QED BY <1>0, <1>1, <1>a, <3>2, <3>3 DEF ModelCallSound
  <2> QED BY <2>1, <2>2
<1>5. ASSUME NEW I \in Indices(sent, r), d = Decoded(sent, a, r, I) PROVE ModelCallSound(d, config)
  <2> DEFINE ok == Answers(a, sent.cap, sent.n, r)
             last == ~ByText(a, sent.cap) \/ sent.item + 1 >= sent.n
  <2>1. CASE ok /\ ~last
    <3>1. d = [sent EXCEPT !.item = @ + 1, !.attempt = 0]
      BY <1>5, <2>1 DEF Decoded
    <3>2. /\ d \in ModelCallRow /\ d.pc = "post" /\ d.attempt = 0 /\ d.n = sent.n
          /\ d.posts = sent.posts /\ d.item = sent.item + 1 /\ d.fake = sent.fake
      <4> DEFINE next == sent.item + 1
                 moved == [sent EXCEPT !.item = next]
      <4>0. next \in Nat
        BY <1>1 DEF ModelCallRow
      <4>1. d = [moved EXCEPT !.attempt = 0]
        BY <1>1, <3>1 DEF ModelCallRow
      <4> HIDE DEF next
      <4>2. /\ moved \in ModelCallRow /\ moved.pc = sent.pc /\ moved.n = sent.n /\ moved.posts = sent.posts
            /\ moved.item = next /\ moved.fake = sent.fake
        BY <1>1, <4>0 DEF ModelCallRow
      <4> HIDE DEF moved
      <4>3. /\ d \in ModelCallRow /\ d.pc = moved.pc /\ d.attempt = 0 /\ d.n = moved.n
            /\ d.posts = moved.posts /\ d.item = moved.item /\ d.fake = moved.fake
        BY <4>1, <4>2 DEF ModelCallRow
      <4> QED BY <1>1, <4>2, <4>3 DEF next
    <3>3. Texts(d) = Texts(sent)
      BY <3>2 DEF Texts
    <3>4. d.item + 1 <= Texts(d)
      <4>1. ~(sent.item + 1 >= sent.n) /\ sent.item \in Nat /\ sent.n \in Nat
        BY <1>1, <2>1 DEF ModelCallRow
      <4> QED BY <3>2, <3>3, <4>1 DEF Texts
    <3>5. d.posts <= (RetryTimes + 1) * d.item + d.attempt /\ d.posts <= (RetryTimes + 1) * Texts(d)
      <4>1. (RetryTimes + 1) * d.item \in Nat
        BY <3>2 DEF ModelCallRow
      <4> QED BY <1>3, <3>2, <3>3, <4>1
    <3>6. CallCounts(d) /\ CallFits(d)
      BY <3>2, <3>4, <3>5 DEF CallCounts, CallFits
    <3> QED BY <1>0, <1>1, <1>a, <3>2, <3>6 DEF ModelCallSound
  <2>2. CASE ~(ok /\ ~last)
    <3> DEFINE found == IF ByText(a, sent.cap) THEN sent.n ELSE r.items
               okay == Answers(a, sent.cap, sent.n, r)
    <3>1. d = [sent EXCEPT !.pc = "answered", !.ok = okay, !.blank = r.blank, !.fits = r.fits, !.used = I,
                           !.count = found]
      BY <1>5, <2>2 DEF Decoded
    <3>2. r.blank \in BOOLEAN /\ r.fits \in BOOLEAN /\ r.items \in Nat
      <4>1. CASE r \in [body : {"refused", "garbled", "empty"}, items : {0}, blank : {TRUE}, alt : {FALSE}, fits : {TRUE}]
        <5>1. r.items \in Nat
          BY <4>1
        <5>2. r.blank \in BOOLEAN /\ r.fits \in BOOLEAN
          BY <4>1, Zenon
        <5> QED BY <5>1, <5>2
      <4>2. CASE r.body = "json"
        <5> DEFINE items == IF c.cap \in {"embedding", "rerank"} THEN 0..(MaxTexts + 1) ELSE {0, 1}
                   blanks == IF c.cap = "rerank" THEN {FALSE} ELSE BOOLEAN
                   alts == IF c.cap = "image2text" THEN BOOLEAN ELSE {FALSE}
                   sizes == IF c.cap = "embedding" THEN BOOLEAN ELSE {TRUE}
        <5>0. items \subseteq Nat
          OBVIOUS
        <5>1. blanks \subseteq BOOLEAN /\ sizes \subseteq BOOLEAN
          BY Zenon
        <5>2. r \in [body : {"json"}, items : items, blank : blanks, alt : alts, fits : sizes]
          BY <4>2 DEF Response
        <5> HIDE DEF items, blanks, alts, sizes
        <5> QED BY <5>0, <5>1, <5>2
      <4> QED BY <4>1, <4>2 DEF Response
    <3>3. found \in Nat /\ I \in SUBSET Nat
      BY <1>1, <1>5, <3>2 DEF Indices, ModelCallRow
    <3>4. okay \in BOOLEAN
      BY DEF Answers, AzureAnswers, VoyageAnswers, CohereAnswers, AnthropicAnswers, GeminiAnswers, VisionAnswers, ArkAnswers
    <3> HIDE DEF found, okay
    <3>5. d \in ModelCallRow /\ d.pc = "answered" /\ d.n = sent.n /\ d.posts = sent.posts /\ d.fake = sent.fake
      BY <1>1, <3>1, <3>2, <3>3, <3>4 DEF ModelCallRow
    <3>6. CallCounts(d) /\ CallFits(d)
      BY <1>3, <3>5 DEF CallCounts, CallFits, Texts
    <3> QED BY <1>0, <1>1, <1>a, <3>5, <3>6 DEF ModelCallSound
  <2> QED BY <2>1, <2>2
<1> QED BY <1>4, <1>5 DEF sent

\* What a caller makes of an answer fits its request, whatever it says.
LEMMA UseSound ==
    ASSUME NEW c \in ModelCallRow, NEW config, ModelCallSound(c, config), NEW d,
           d = CASE c.cap = "embedding" /\ c.n # 1 -> StoreVectors(c)
                 [] c.cap = "embedding" /\ c.n = 1 -> FirstVector(c)
                 [] c.cap = "rerank" -> ApplyRerank(c)
                 [] OTHER -> [c EXCEPT !.pc = IF c.ok THEN "used" ELSE "failed"]
    PROVE  ModelCallSound(d, config)
<1>0. /\ CallCounts(c) /\ CallAsked(c) /\ (config.env = "production" => c.fake = FALSE)
      /\ c.n \in Nat /\ c.used \subseteq Nat /\ c.ok \in BOOLEAN
  BY DEF ModelCallSound, ModelCallRow
<1>1. ASSUME NEW pc \in {"stored", "searched", "used", "failed"}, pc = "stored" => c.ok = TRUE /\ c.count = c.n,
             pc = "searched" => c.ok = TRUE /\ c.count > 0, d = [c EXCEPT !.pc = pc]
      PROVE  ModelCallSound(d, config)
  <2>1. /\ d \in ModelCallRow /\ d.pc = pc /\ d.n = c.n /\ d.posts = c.posts /\ d.count = c.count
        /\ d.fake = c.fake /\ d.ok = c.ok
    BY <1>1 DEF ModelCallRow
  <2>2. CallFits(d)
    BY <1>1, <2>1 DEF CallFits
  <2> QED BY <1>0, <1>1, <2>1, <2>2, SettledCallSound
<1>2. ASSUME d = ApplyRerank(c) PROVE ModelCallSound(d, config)
  <2> DEFINE kept == IF ~c.ok \/ c.count = 0 THEN 0..(c.n - 1) ELSE Reranked(c)
             ranked == [c EXCEPT !.pc = "reranked"]
  <2>1. kept \subseteq 0..(c.n - 1) /\ kept \in SUBSET Nat
    BY <1>0 DEF Reranked
  <2>2. d = [ranked EXCEPT !.used = kept]
    BY <1>2 DEF ApplyRerank
  <2> HIDE DEF kept
  <2>3. ranked \in ModelCallRow /\ ranked.pc = "reranked" /\ ranked.n = c.n /\ ranked.posts = c.posts /\ ranked.fake = c.fake
        /\ ranked.ok = c.ok
    BY DEF ModelCallRow
  <2> HIDE DEF ranked
  <2>4. /\ d \in ModelCallRow /\ d.pc = ranked.pc /\ d.n = ranked.n /\ d.posts = ranked.posts /\ d.used = kept
        /\ d.fake = ranked.fake /\ d.ok = ranked.ok
    BY <2>1, <2>2, <2>3 DEF ModelCallRow
  <2>5. CallFits(d)
    BY <2>1, <2>3, <2>4 DEF CallFits
  <2> QED BY <1>0, <2>3, <2>4, <2>5, SettledCallSound
<1>3. CASE c.cap = "embedding" /\ c.n # 1
  <2> DEFINE pc == IF c.ok /\ c.count = c.n THEN "stored" ELSE "failed"
  <2>1. d = [c EXCEPT !.pc = pc]
    BY <1>3 DEF StoreVectors
  <2>2. pc \in {"stored", "searched", "used", "failed"} /\ (pc = "stored" => c.ok = TRUE /\ c.count = c.n)
        /\ pc # "searched"
    BY <1>0
  <2> HIDE DEF pc
  <2> QED BY <1>1, <2>1, <2>2
<1>4. CASE c.cap = "embedding" /\ c.n = 1
  <2> DEFINE pc == IF c.ok /\ c.count > 0 THEN "searched" ELSE "failed"
  <2>1. d = [c EXCEPT !.pc = pc]
    BY <1>4 DEF FirstVector
  <2>2. pc \in {"stored", "searched", "used", "failed"} /\ (pc = "searched" => c.ok = TRUE /\ c.count > 0)
        /\ pc # "stored"
    BY <1>0
  <2> HIDE DEF pc
  <2> QED BY <1>1, <2>1, <2>2
<1>5. CASE c.cap = "rerank"
  BY <1>2, <1>5
<1>6. CASE c.cap \notin {"embedding", "rerank"}
  <2> DEFINE pc == IF c.ok THEN "used" ELSE "failed"
  <2>1. d = [c EXCEPT !.pc = pc]
    BY <1>6
  <2> QED BY <1>1, <2>1
<1> QED BY <1>3, <1>4, <1>5, <1>6

\* A client that was built in production has a key for each capability.
LEMMA NoFakeAdapter ==
    ASSUME NEW c, ValidProviders(c), ValidProduction(c), c.env = "production", NEW cap \in Capability
    PROVE  ~Fake(AdapterOf(c, cap))
<1>1. c[cap] # "mock"
  BY DEF ValidProduction
<1>2. Canonical(c[cap]) # "mock"
  BY <1>1 DEF Canonical
<1>3. Canonical(c[cap]) \in c.keys
  BY <1>2 DEF ValidProviders
<1>4. AdapterOf(c, cap).key = KeyOf(c, cap)
  BY DEF AdapterOf
<1> QED BY <1>3, <1>4, Zenon DEF Fake, KeyOf

LEMMA CallSound ==
    ASSUME NEW config, NEW cap \in Capability, NEW n \in Nat, NEW fake \in BOOLEAN,
           NEW none \in BOOLEAN, none = TRUE => n = 0, config.env = "production" => fake = FALSE, NEW d,
           d = LET call == [NoModelCall EXCEPT !.cap = cap, !.n = n]
               IN  IF cap = "image2text" /\ n = 0 THEN [call EXCEPT !.pc = "answered"]
                   ELSE IF fake
                   THEN [call EXCEPT !.pc = "answered", !.ok = TRUE, !.fake = TRUE, !.count = n, !.used = 1..n]
                   ELSE IF none THEN [call EXCEPT !.pc = "answered", !.ok = TRUE]
                   ELSE [call EXCEPT !.pc = "post"]
    PROVE  ModelCallSound(d, config)
<1> USE ModelAssumption
<1>1. NoModelCall \in ModelCallRow
  BY DEF NoModelCall, ModelCallRow, Capability
<1> DEFINE named == [NoModelCall EXCEPT !.cap = cap]
           call == [named EXCEPT !.n = n]
<1>2. named \in ModelCallRow /\ named.posts = 0 /\ named.item = 0 /\ named.attempt = 0 /\ named.fake = FALSE
      /\ named.ok = FALSE
  BY <1>1 DEF ModelCallRow, NoModelCall
<1>3. d = IF cap = "image2text" /\ n = 0 THEN [call EXCEPT !.pc = "answered"]
          ELSE IF fake
          THEN [call EXCEPT !.pc = "answered", !.ok = TRUE, !.fake = TRUE, !.count = n, !.used = 1..n]
          ELSE IF none THEN [call EXCEPT !.pc = "answered", !.ok = TRUE]
          ELSE [call EXCEPT !.pc = "post"]
  OBVIOUS
<1> HIDE DEF named
<1>4. /\ call \in ModelCallRow /\ call.n = n /\ call.posts = 0 /\ call.item = 0 /\ call.attempt = 0
      /\ call.fake = FALSE /\ call.ok = FALSE
  BY <1>2 DEF ModelCallRow
<1> HIDE DEF call
<1>5. Texts(call) \in Nat /\ Texts(call) >= 1 /\ (RetryTimes + 1) * Texts(call) \in Nat
  BY <1>4 DEF Texts
<1>6. (RetryTimes + 1) * 0 = 0
  OBVIOUS
<1>7. ASSUME NEW pc \in {"answered", "post"}, d = [call EXCEPT !.pc = pc] PROVE ModelCallSound(d, config)
  <2>1. /\ d \in ModelCallRow /\ d.pc = pc /\ d.n = n /\ d.posts = 0 /\ d.item = 0 /\ d.attempt = 0
        /\ d.fake = FALSE /\ d.ok = FALSE
    BY <1>4, <1>7 DEF ModelCallRow
  <2>2. Texts(d) = Texts(call)
    BY <1>4, <2>1 DEF Texts
  <2>3. CallCounts(d)
    BY <1>5, <1>6, <2>1, <2>2 DEF CallCounts
  <2>4. CallFits(d) /\ CallAsked(d)
    BY <2>1 DEF CallFits, CallAsked
  <2> QED BY <2>1, <2>3, <2>4 DEF ModelCallSound
<1>8. ASSUME fake, d = [call EXCEPT !.pc = "answered", !.ok = TRUE, !.fake = TRUE, !.count = n, !.used = 1..n]
      PROVE  ModelCallSound(d, config)
  <2> DEFINE all == 1..n
  <2>0. all \in SUBSET Nat /\ d = [call EXCEPT !.pc = "answered", !.ok = TRUE, !.fake = TRUE, !.count = n, !.used = all]
    BY <1>8
  <2> HIDE DEF all
  <2>1. d \in ModelCallRow /\ d.pc = "answered" /\ d.n = call.n /\ d.posts = call.posts /\ d.fake = TRUE
    BY <1>4, <2>0 DEF ModelCallRow
  <2>2. CallCounts(d) /\ CallFits(d) /\ CallAsked(d)
    BY <1>4, <1>5, <2>1 DEF CallCounts, CallFits, CallAsked, Texts
  <2>3. config.env # "production"
    BY <1>8
  <2> QED BY <2>1, <2>2, <2>3 DEF ModelCallSound
<1>9. ASSUME none, d = [call EXCEPT !.pc = "answered", !.ok = TRUE] PROVE ModelCallSound(d, config)
  <2>1. /\ d \in ModelCallRow /\ d.pc = "answered" /\ d.n = call.n /\ d.posts = call.posts /\ d.n = 0
        /\ d.fake = FALSE
    BY <1>4, <1>9 DEF ModelCallRow
  <2>2. CallCounts(d) /\ CallFits(d) /\ CallAsked(d)
    BY <1>4, <1>5, <2>1 DEF CallCounts, CallFits, CallAsked, Texts
  <2> QED BY <2>1, <2>2 DEF ModelCallSound
<1> QED BY <1>3, <1>7, <1>8, <1>9

Outcomes == UNION {[S -> {"pass", "fail", "skipped"}] : S \in SUBSET Probe}

CallsAnswered == UNION {[S -> ModelCallRow] : S \in SUBSET Probe}

ReadinessRow ==
    [asked : SUBSET Probe, expects : BOOLEAN, results : Outcomes, answers : CallsAnswered,
     overall : {"none", "running", "skipped", "fail", "pass"}]

\* The probes that ran are those with a result among the ones asked for, and
\* each has the result of its answer; a run that passed has all of them.
ProbesStand(q) ==
    /\ q \in ReadinessRow
    /\ DOMAIN q.answers = (DOMAIN q.results \cap q.asked) \ {"multimodal"}
    /\ "multimodal" \in q.asked => "multimodal" \in DOMAIN q.results
    /\ \A p \in DOMAIN q.answers : q.results[p] = ProbeStatus(p, q.answers[p], q.expects)
    /\ q.overall = "pass" => DOMAIN q.results = Probe /\ \A p \in Probe : q.results[p] # "fail"

\* A configuration past the validation keeps what the validation asked for.
ConfigStands ==
    client \in {"valid", "built"} => ValidProviders(modelConfig) /\ ValidProduction(modelConfig)

CallsStand ==
    /\ modelCall = [w \in ModelCaller |-> modelCall[w]]
    /\ \A w \in ModelCaller : ModelCallSound(modelCall[w], modelConfig)

ReadinessStands ==
    /\ probing \in Prober \cup {NoProber}
    /\ readiness = [u \in Prober |-> readiness[u]]
    /\ \A u \in Prober : ProbesStand(readiness[u])

ModelsIInv == AcceptedBuilds /\ ConfigStands /\ CallsStand /\ ReadinessStands

\* One caller goes on; the configuration and the probes stay.
LEMMA ModelCallMoves ==
    ASSUME ModelsIInv, NEW w \in ModelCaller, NEW d, modelCall' = [modelCall EXCEPT ![w] = d],
           ModelCallSound(d, modelConfig), UNCHANGED <<modelConfig, client>>, UNCHANGED readinessVars
    PROVE  ModelsIInv'
<1>1. \A v \in ModelCaller : modelCall'[v] = IF v = w THEN d ELSE modelCall[v]
  BY DEF ModelsIInv, CallsStand
<1>2. CallsStand'
  BY <1>1 DEF ModelsIInv, CallsStand
<1> QED BY <1>2 DEF ModelsIInv, AcceptedBuilds, ConfigStands, ReadinessStands, readinessVars

LEMMA ModelCallStep ==
    ASSUME ModelsIInv, NEW w \in ModelCaller, NEW cap \in Capability, NEW n \in Nat, CallModel(w, cap, n),
           UNCHANGED readinessVars
    PROVE  ModelsIInv'
<1>0. client = "built" /\ UNCHANGED <<modelConfig, client>>
  BY DEF CallModel
<1>1. PICK fake \in BOOLEAN : fake = Fake(Adapter(cap))
  BY DEF Fake
<1>2. modelConfig.env = "production" => fake = FALSE
  BY <1>0, <1>1, NoFakeAdapter DEF ModelsIInv, ConfigStands, Adapter
<1>b. PICK none \in BOOLEAN : none = (n = 0 /\ ByText(Adapter(cap).kind, cap))
  BY Zenon
<1>3. PICK d : d = LET call == [NoModelCall EXCEPT !.cap = cap, !.n = n]
                   IN  IF cap = "image2text" /\ n = 0 THEN [call EXCEPT !.pc = "answered"]
                       ELSE IF fake
                       THEN [call EXCEPT !.pc = "answered", !.ok = TRUE, !.fake = TRUE, !.count = n, !.used = 1..n]
                       ELSE IF none THEN [call EXCEPT !.pc = "answered", !.ok = TRUE]
                       ELSE [call EXCEPT !.pc = "post"]
  BY Zenon
<1>4. modelCall' = [modelCall EXCEPT ![w] = d]
  BY <1>1, <1>b, <1>3, Zenon DEF CallModel
<1>5. PICK config : config = modelConfig
  OBVIOUS
<1>6. ModelCallSound(d, config)
  BY <1>2, <1>b, <1>3, <1>5, CallSound
<1> QED BY <1>0, <1>4, <1>5, <1>6, ModelCallMoves

LEMMA ModelWorkStep ==
    ASSUME ModelsIInv, NEW w \in ModelCaller, Post(w) \/ Backoff(w) \/ CancelModel(w) \/ UseAnswer(w),
           UNCHANGED readinessVars
    PROVE  ModelsIInv'
<1>0. PICK c, config : c = modelCall[w] /\ config = modelConfig
  OBVIOUS
<1>1. ModelCallSound(c, config) /\ c \in ModelCallRow /\ CallCounts(c) /\ CallAsked(c)
      /\ (config.env = "production" => c.fake = FALSE)
  BY <1>0 DEF ModelsIInv, CallsStand, ModelCallSound
<1>2. ASSUME NEW d, ModelCallSound(d, config), modelCall' = [modelCall EXCEPT ![w] = d],
             UNCHANGED <<modelConfig, client>>
      PROVE  ModelsIInv'
  BY <1>0, <1>2, ModelCallMoves
<1>3. CASE Post(w)
  <2> DEFINE a == Adapter(modelCall[w].cap).kind
             sent == [modelCall[w] EXCEPT !.posts = @ + 1]
  <2>1. c.pc = "post" /\ sent.cap = c.cap /\ UNCHANGED <<modelConfig, client>>
    BY <1>0, <1>1, <1>3 DEF Post, ModelCallRow
  <2>2. PICK r \in Response(c.cap) :
             \/ r.body = "refused" /\ modelCall' = [modelCall EXCEPT ![w] = Refused(sent, a)]
             \/ /\ r.body # "refused"
                /\ \E I \in Indices(sent, r) : modelCall' = [modelCall EXCEPT ![w] = Decoded(sent, a, r, I)]
    BY <1>3, <2>1 DEF Post
  <2>3. PICK b : b = a
    OBVIOUS
  <2>4. PICK d : /\ modelCall' = [modelCall EXCEPT ![w] = d]
                 /\ \/ d = Refused([c EXCEPT !.posts = @ + 1], b)
                    \/ \E I \in Indices([c EXCEPT !.posts = @ + 1], r) : d = Decoded([c EXCEPT !.posts = @ + 1], b, r, I)
    BY <1>0, <2>2, <2>3, Zenon
  <2>5. ModelCallSound(d, config)
    BY <1>1, <2>1, <2>4, PostSound
  <2> QED BY <1>2, <2>1, <2>4, <2>5
<1>4. CASE Backoff(w)
  <2> DEFINE pc == IF AttemptsLeft(c) THEN "post" ELSE "answered"
             d == [c EXCEPT !.pc = pc]
  <2>1. c.pc = "backoff" /\ modelCall' = [modelCall EXCEPT ![w] = d] /\ UNCHANGED <<modelConfig, client>>
    BY <1>0, <1>4 DEF Backoff
  <2>2. pc \in {"post", "answered"}
    OBVIOUS
  <2>3. pc = "post" => AttemptsLeft(c)
    OBVIOUS
  <2> HIDE DEF pc
  <2>4. /\ d \in ModelCallRow /\ d.pc = pc /\ d.n = c.n /\ d.posts = c.posts /\ d.item = c.item
        /\ d.attempt = c.attempt /\ d.fake = c.fake /\ d.ok = c.ok
    BY <1>1, <2>2 DEF ModelCallRow
  <2> HIDE DEF d
  <2>5. pc = "post" => /\ c.attempt <= RetryTimes /\ c.item + 1 <= Texts(c)
                       /\ c.posts <= (RetryTimes + 1) * c.item + c.attempt
    BY <1>1, <2>1, <2>3, BackoffCounts
  <2>6. CallCounts(d) /\ CallFits(d) /\ CallAsked(d)
    BY <1>1, <2>2, <2>4, <2>5 DEF CallCounts, CallFits, CallAsked, Texts
  <2>7. ModelCallSound(d, config)
    BY <1>1, <2>4, <2>6 DEF ModelCallSound
  <2> QED BY <1>2, <2>1, <2>7
<1>5. CASE CancelModel(w)
  <2> DEFINE d == [c EXCEPT !.pc = "answered"]
  <2>1. modelCall' = [modelCall EXCEPT ![w] = d] /\ UNCHANGED <<modelConfig, client>>
    BY <1>0, <1>5 DEF CancelModel
  <2>2. /\ d \in ModelCallRow /\ d.pc = "answered" /\ d.n = c.n /\ d.posts = c.posts /\ d.fake = c.fake
        /\ d.ok = c.ok
    BY <1>1 DEF ModelCallRow
  <2> HIDE DEF d
  <2>3. CallFits(d)
    BY <2>2 DEF CallFits
  <2>4. ModelCallSound(d, config)
    BY <1>1, <2>2, <2>3, SettledCallSound
  <2> QED BY <1>2, <2>1, <2>4
<1>6. CASE UseAnswer(w)
  <2>1. PICK d : d = CASE c.cap = "embedding" /\ c.n # 1 -> StoreVectors(c)
                       [] c.cap = "embedding" /\ c.n = 1 -> FirstVector(c)
                       [] c.cap = "rerank" -> ApplyRerank(c)
                       [] OTHER -> [c EXCEPT !.pc = IF c.ok THEN "used" ELSE "failed"]
    BY Zenon
  <2>2. modelCall' = [modelCall EXCEPT ![w] = d] /\ UNCHANGED <<modelConfig, client>>
    BY <1>0, <1>6, <2>1 DEF UseAnswer
  <2>3. ModelCallSound(d, config)
    BY <1>1, <2>1, UseSound
  <2> QED BY <1>2, <2>2, <2>3
<1> QED BY <1>3, <1>4, <1>5, <1>6

LEMMA ConfigStep ==
    ASSUME ModelsIInv, ValidateConfig \/ NewClient, UNCHANGED readinessVars
    PROVE  ModelsIInv'
<1>1. modelConfig' = modelConfig /\ modelCall' = modelCall /\ probing' = probing /\ readiness' = readiness
  BY DEF ValidateConfig, NewClient, readinessVars
<1>2. CallsStand' /\ ReadinessStands'
  BY <1>1 DEF ModelsIInv, CallsStand, ReadinessStands
<1>3. CASE ValidateConfig
  <2>1. ConfigStands' /\ AcceptedBuilds'
    BY <1>1, <1>3, Zenon DEF ValidateConfig, ConfigStands, AcceptedBuilds
  <2> QED BY <1>2, <2>1 DEF ModelsIInv
<1>4. CASE NewClient
  <2>1. ValidProviders(modelConfig) /\ ValidProduction(modelConfig)
    BY <1>4 DEF NewClient, ModelsIInv, ConfigStands
  <2>2. \A cap \in Capability : Resolves(modelConfig, cap)
    BY <2>1 DEF ValidProviders, Resolves
  <2>3. client' = "built"
    BY <1>4, <2>2 DEF NewClient
  <2>4. ConfigStands' /\ AcceptedBuilds'
    BY <1>1, <2>1, <2>3 DEF ConfigStands, AcceptedBuilds
  <2> QED BY <1>2, <2>4 DEF ModelsIInv
<1> QED BY <1>3, <1>4

\* One request's probes go on; the calls are as they should be.
LEMMA ProbesMove ==
    ASSUME ModelsIInv, NEW u \in Prober, NEW q, readiness' = [readiness EXCEPT ![u] = q], ProbesStand(q),
           probing' \in Prober \cup {NoProber}, CallsStand', UNCHANGED <<modelConfig, client>>
    PROVE  ModelsIInv'
<1>1. \A v \in Prober : readiness'[v] = IF v = u THEN q ELSE readiness[v]
  BY DEF ModelsIInv, ReadinessStands
<1>2. ReadinessStands'
  BY <1>1 DEF ModelsIInv, ReadinessStands
<1> QED BY <1>2 DEF ModelsIInv, AcceptedBuilds, ConfigStands

LEMMA SomeAnswers == NoResults \in Outcomes /\ NoResults \in CallsAnswered /\ DOMAIN NoResults = {}
<1>1. \A T : NoResults \in [{} -> T]
  BY DEF NoResults
<1>2. {} \in SUBSET Probe /\ DOMAIN NoResults = {}
  BY DEF NoResults
<1> QED BY <1>1, <1>2 DEF Outcomes, CallsAnswered

LEMMA RunProbesStep ==
    ASSUME ModelsIInv, NEW u \in Prober, NEW asked \in ProbeAsked, NEW expects \in BOOLEAN,
           RunProbes(u, asked, expects)
    PROVE  ModelsIInv'
<1> DEFINE q == [asked |-> asked, expects |-> expects, results |-> Skipped(asked), answers |-> NoResults, overall |-> "running"]
<1>1. readiness' = [readiness EXCEPT ![u] = q] /\ probing' = u /\ UNCHANGED <<modelConfig, client>>
  BY DEF RunProbes
<1>2. asked \in SUBSET Probe
  BY ReadinessAssumption
<1>3. DOMAIN Skipped(asked) = (Probe \ asked) \cup {"multimodal"} /\ Skipped(asked) \in Outcomes
  <2> DEFINE S == (Probe \ asked) \cup {"multimodal"}
  <2>1. S \in SUBSET Probe
    BY DEF Probe
  <2>2. Skipped(asked) \in [S -> {"pass", "fail", "skipped"}]
    BY DEF Skipped
  <2> QED BY <2>1, <2>2 DEF Outcomes
<1>4. q \in ReadinessRow
  BY <1>2, <1>3, SomeAnswers DEF ReadinessRow
<1>5. DOMAIN q.answers = {} /\ DOMAIN q.results = (Probe \ asked) \cup {"multimodal"} /\ q.asked = asked
      /\ q.overall = "running"
  BY <1>3, SomeAnswers
<1> HIDE DEF q
<1>6. ProbesStand(q)
  BY <1>4, <1>5 DEF ProbesStand
<1>7. CallsStand'
  <2>1. modelCall' = [w \in ModelCaller |-> IF w \in Probe THEN NoModelCall ELSE modelCall[w]]
    BY DEF RunProbes
  <2>2. \A w \in ModelCaller : modelCall'[w] = NoModelCall \/ modelCall'[w] = modelCall[w]
    BY <2>1
  <2>3. \A w \in ModelCaller : ModelCallSound(modelCall'[w], modelConfig)
    BY <2>2, IdleCallSound DEF ModelsIInv, CallsStand
  <2> QED BY <1>1, <2>1, <2>3 DEF CallsStand
<1> QED BY <1>1, <1>6, <1>7, ProbesMove

LEMMA EndProbeStep ==
    ASSUME ModelsIInv, NEW p \in ModelCaller \cap Probe, EndProbe(p)
    PROVE  ModelsIInv'
<1>0. PICK u \in Prober : u = probing
  BY DEF EndProbe, ModelsIInv, ReadinessStands
<1>1. PICK q, c : q = readiness[u] /\ c = modelCall[p]
  OBVIOUS
<1>2. ProbesStand(q) /\ q \in ReadinessRow /\ c \in ModelCallRow
  BY <1>1 DEF ModelsIInv, ReadinessStands, CallsStand, ModelCallSound, ProbesStand
<1>3. p \in q.asked /\ p \notin DOMAIN q.results
  BY <1>0, <1>1 DEF EndProbe, Pending
<1> DEFINE rs == Noted(q.results, p, ProbeStatus(p, c, q.expects))
           as == Noted(q.answers, p, c)
           noted == [q EXCEPT !.results = rs]
           d == [noted EXCEPT !.answers = as]
<1>4. readiness' = [readiness EXCEPT ![u] = d] /\ UNCHANGED <<probing, modelConfig, client, modelCall>>
  <2>1. readiness' = [readiness EXCEPT ![u] = [readiness[u] EXCEPT !.results = rs, !.answers = as]]
    BY <1>0, <1>1 DEF EndProbe, ModelsIInv, ReadinessStands
  <2> QED BY <1>1, <2>1 DEF EndProbe, modelVars
<1>5. PICK S \in SUBSET Probe : q.results \in [S -> {"pass", "fail", "skipped"}]
  BY <1>2 DEF ReadinessRow, Outcomes
<1>6. PICK A \in SUBSET Probe : q.answers \in [A -> ModelCallRow]
  BY <1>2 DEF ReadinessRow, CallsAnswered
<1>7. ProbeStatus(p, c, q.expects) \in {"pass", "fail", "skipped"}
  BY DEF ProbeStatus
<1>8. PICK st \in {"pass", "fail", "skipped"} : st = ProbeStatus(p, c, q.expects)
  BY <1>7
<1>9. /\ rs \in Outcomes /\ DOMAIN rs = DOMAIN q.results \cup {p} /\ rs[p] = st
      /\ \A o \in DOMAIN q.results : o # p => rs[o] = q.results[o]
  <2> DEFINE T == {"pass", "fail", "skipped"}
  <2>1. PICK f : f = q.results
    OBVIOUS
  <2>a. f \in [S -> T] /\ p \in Probe /\ st \in T
    BY <1>5, <2>1
  <2> HIDE DEF T
  <2>2. /\ Noted(f, p, st) \in [S \cup {p} -> T] /\ S \cup {p} \in SUBSET Probe
        /\ DOMAIN Noted(f, p, st) = DOMAIN f \cup {p} /\ Noted(f, p, st)[p] = st
        /\ \A o \in DOMAIN f : o # p => Noted(f, p, st)[o] = f[o]
    BY <2>a DEF Noted
  <2> QED BY <1>8, <2>1, <2>2 DEF Outcomes, T
<1>10. /\ as \in CallsAnswered /\ DOMAIN as = DOMAIN q.answers \cup {p} /\ as[p] = c
       /\ \A o \in DOMAIN q.answers : o # p => as[o] = q.answers[o]
  <2>1. PICK f : f = q.answers
    OBVIOUS
  <2>a. f \in [A -> ModelCallRow] /\ p \in Probe /\ c \in ModelCallRow
    BY <1>2, <1>6, <2>1
  <2>2. /\ Noted(f, p, c) \in [A \cup {p} -> ModelCallRow] /\ A \cup {p} \in SUBSET Probe
        /\ DOMAIN Noted(f, p, c) = DOMAIN f \cup {p} /\ Noted(f, p, c)[p] = c
        /\ \A o \in DOMAIN f : o # p => Noted(f, p, c)[o] = f[o]
    BY <2>a DEF Noted
  <2> QED BY <2>1, <2>2 DEF CallsAnswered
<1> HIDE DEF rs, as
<1>11. noted \in ReadinessRow /\ noted.results = rs /\ noted.asked = q.asked /\ noted.overall = q.overall
       /\ noted.expects = q.expects
  BY <1>2, <1>9 DEF ReadinessRow
<1> HIDE DEF noted
<1>12. /\ d \in ReadinessRow /\ d.results = rs /\ d.answers = as /\ d.asked = q.asked
       /\ d.overall = q.overall /\ d.expects = q.expects
  BY <1>10, <1>11 DEF ReadinessRow
<1> HIDE DEF d
<1>13. p # "multimodal" /\ q.overall # "pass"
  BY <1>2, <1>3 DEF ProbesStand
<1>14. DOMAIN d.answers = (DOMAIN d.results \cap d.asked) \ {"multimodal"}
  BY <1>2, <1>3, <1>9, <1>10, <1>12, <1>13 DEF ProbesStand
<1>15. ASSUME NEW o \in DOMAIN d.answers PROVE d.results[o] = ProbeStatus(o, d.answers[o], d.expects)
  <2>1. CASE o = p
    BY <1>8, <1>9, <1>10, <1>12, <2>1
  <2>2. CASE o # p
    <3>1. o \in DOMAIN q.answers /\ o \in DOMAIN q.results
      BY <1>2, <1>10, <1>12, <1>15, <2>2 DEF ProbesStand
    <3>2. d.results[o] = q.results[o] /\ d.answers[o] = q.answers[o]
      BY <1>9, <1>10, <1>12, <2>2, <3>1
    <3> QED BY <1>2, <1>12, <3>1, <3>2 DEF ProbesStand
  <2> QED BY <2>1, <2>2
<1>16. ProbesStand(d)
  BY <1>2, <1>9, <1>12, <1>13, <1>14, <1>15 DEF ProbesStand
<1>17. CallsStand' /\ probing' \in Prober \cup {NoProber}
  BY <1>4 DEF ModelsIInv, CallsStand, ReadinessStands
<1> QED BY <1>4, <1>16, <1>17, ProbesMove

LEMMA StoreRunStep == ASSUME ModelsIInv, StoreRun PROVE ModelsIInv'
<1>0. PICK u \in Prober : u = probing
  BY DEF StoreRun, ModelsIInv, ReadinessStands
<1>1. PICK q : q = readiness[u]
  OBVIOUS
<1>2. ProbesStand(q) /\ q \in ReadinessRow /\ DOMAIN q.results = Probe
  BY <1>0, <1>1 DEF ModelsIInv, ReadinessStands, ProbesStand, StoreRun, AllJoined
<1> DEFINE overall == computeOverallStatus(q.results)
           d == [q EXCEPT !.overall = overall]
<1>3. readiness' = [readiness EXCEPT ![u] = d] /\ probing' = NoProber /\ UNCHANGED <<modelConfig, client, modelCall>>
  BY <1>0, <1>1 DEF StoreRun, modelVars
<1>4. /\ overall \in {"skipped", "fail", "pass"}
      /\ overall = "pass" => \A p \in Probe : q.results[p] # "fail"
  BY <1>2 DEF computeOverallStatus
<1> HIDE DEF overall
<1>5. /\ d \in ReadinessRow /\ d.results = q.results /\ d.answers = q.answers /\ d.asked = q.asked
      /\ d.overall = overall /\ d.expects = q.expects
  BY <1>2, <1>4 DEF ReadinessRow
<1> HIDE DEF d
<1>6. ProbesStand(d)
  BY <1>2, <1>4, <1>5 DEF ProbesStand
<1>7. CallsStand'
  BY <1>3 DEF ModelsIInv, CallsStand
<1> QED BY <1>3, <1>6, <1>7, ProbesMove

LEMMA ModelsStep == ModelsIInv /\ [ModelsNext]_modelsVars => ModelsIInv'
<1> SUFFICES ASSUME ModelsIInv, [ModelsNext]_modelsVars PROVE ModelsIInv'
  OBVIOUS
<1> USE ModelAssumption
<1>1. CASE ModelStep
  <2>1. ASSUME NEW w \in ModelCaller \ Probe, NEW cap \in Capability, NEW n \in 0..MaxTexts,
               CallModel(w, cap, n), UNCHANGED readinessVars
        PROVE  ModelsIInv'
    BY <2>1, ModelCallStep
  <2> QED BY <1>1, <2>1, ConfigStep, ModelWorkStep DEF ModelStep
<1>2. ASSUME NEW p \in ModelCaller \cap Probe, StartProbe(p) PROVE ModelsIInv'
  <2>1. p # "multimodal" /\ probing \in Prober
    BY <1>2 DEF StartProbe, Pending, ModelsIInv, ReadinessStands, ProbesStand
  <2>2. CallOf(p) \in Capability /\ ProbeSize(p) \in Nat
    BY <2>1 DEF CallOf, Capability, ProbeSize, Probe
  <2>3. PICK cap \in Capability, n \in Nat : cap = CallOf(p) /\ n = ProbeSize(p)
    BY <2>2
  <2> QED BY <1>2, <2>3, ModelCallStep DEF StartProbe
<1>3. CASE ProbeStep
  <2>1. ASSUME NEW u \in Prober, NEW asked \in ProbeAsked, NEW expects \in Stated(asked), RunProbes(u, asked, expects)
        PROVE  ModelsIInv'
    <3>1. expects \in BOOLEAN
      BY Zenon DEF Stated
    <3> QED BY <2>1, <3>1, RunProbesStep
  <2> QED BY <1>2, <1>3, <2>1, EndProbeStep, StoreRunStep DEF ProbeStep
<1>4. CASE UNCHANGED modelsVars
  <2>1. /\ modelConfig' = modelConfig /\ client' = client /\ modelCall' = modelCall
        /\ probing' = probing /\ readiness' = readiness
    BY <1>4 DEF modelsVars, modelVars, readinessVars
  <2> QED BY <2>1 DEF ModelsIInv, AcceptedBuilds, ConfigStands, CallsStand, ReadinessStands
<1> QED BY <1>1, <1>3, <1>4 DEF ModelsNext

\* A probe that passed had an answer the pipeline could use.
LEMMA PassIsUsable ==
    ASSUME NEW c \in ModelCallRow, NEW p \in Probe \ {"multimodal"}, NEW expects \in BOOLEAN,
           ProbeStatus(p, c, expects) # "fail"
    PROVE  /\ c.ok
           /\ p = "embedding" => FirstVector(c).pc = "searched" /\ ~c.blank /\ (expects => c.fits)
           /\ p = "rerank" => c.count > 0
           /\ p = "chat" => ~c.blank
<1>1. CASE p = "chat"
  BY <1>1 DEF ProbeStatus, ChatPasses
<1>2. CASE p = "embedding"
  <2>1. c.ok /\ c.count > 0 /\ ~c.blank /\ (expects => c.fits)
    BY <1>2 DEF ProbeStatus, EmbeddingPasses
  <2>2. FirstVector(c) = [c EXCEPT !.pc = "searched"]
    BY <2>1 DEF FirstVector
  <2> QED BY <1>2, <2>1, <2>2 DEF ModelCallRow
<1>3. CASE p = "rerank"
  BY <1>3 DEF ProbeStatus, RerankPasses
<1>4. CASE p = "provider_auth"
  BY <1>4 DEF ProbeStatus, AuthPasses
<1> QED BY <1>1, <1>2, <1>3, <1>4 DEF Probe

\* A configuration that the validation accepts builds its client, with a key
\* for every capability in production; calls post at most one request and
\* RetryTimes repetitions per text; and a readiness run that passed has an
\* answer behind each of the probes it was asked for but multimodal, of the
\* dimensions its request stated if it did, whatever the services answered
\* and in whatever order the goroutines of RunProbes ended.
THEOREM ModelsSound == ModelsSpec => []ModelsAreSound
<1>1. ModelsInit => ModelsIInv
  <2> SUFFICES ASSUME ModelsInit PROVE ModelsIInv
    OBVIOUS
  <2>1. AcceptedBuilds /\ ConfigStands
    BY DEF ModelsInit, ModelInit, AcceptedBuilds, ConfigStands
  <2>2. CallsStand
    BY IdleCallSound DEF ModelsInit, ModelInit, CallsStand
  <2> DEFINE q == [asked |-> {}, expects |-> FALSE, results |-> NoResults, answers |-> NoResults, overall |-> "none"]
  <2>3. q \in ReadinessRow /\ DOMAIN q.results = {} /\ DOMAIN q.answers = {} /\ q.asked = {} /\ q.overall = "none"
    BY SomeAnswers DEF ReadinessRow
  <2>4. readiness = [u \in Prober |-> q] /\ probing = NoProber
    BY DEF ModelsInit, ReadinessInit
  <2> HIDE DEF q
  <2>5. ProbesStand(q)
    BY <2>3 DEF ProbesStand
  <2>6. ReadinessStands
    BY <2>4, <2>5 DEF ReadinessStands
  <2> QED BY <2>1, <2>2, <2>6 DEF ModelsIInv
<1>2. ModelsIInv => ModelsAreSound
  <2> SUFFICES ASSUME ModelsIInv PROVE ModelsAreSound
    OBVIOUS
  <2>1. ASSUME NEW w \in ModelCaller
        PROVE  /\ modelConfig.env = "production" => ~modelCall[w].fake
               /\ modelCall[w].posts <= (RetryTimes + 1) * (IF modelCall[w].n > 0 THEN modelCall[w].n ELSE 1)
               /\ modelCall[w].pc = "stored" => modelCall[w].count = modelCall[w].n
               /\ modelCall[w].pc = "searched" => modelCall[w].count > 0
               /\ modelCall[w].pc \in {"stored", "searched"} /\ modelCall[w].n > 0
                    => modelCall[w].fake \/ modelCall[w].posts > 0
               /\ modelCall[w].pc = "reranked" => modelCall[w].used \subseteq 0..(modelCall[w].n - 1)
    <3>1. ModelCallSound(modelCall[w], modelConfig)
      BY DEF ModelsIInv, CallsStand
    <3>2. PICK c : c = modelCall[w]
      OBVIOUS
    <3>3. c \in ModelCallRow /\ CallFits(c) /\ CallAsked(c) /\ CallCounts(c)
      BY <3>1, <3>2 DEF ModelCallSound
    <3>4. c.pc \in {"stored", "searched"} /\ c.n > 0 => c.fake \/ c.posts > 0
      BY <3>3 DEF CallFits, CallAsked, ModelCallRow
    <3>5. c.pc = "searched" => c.count > 0
      BY <3>3 DEF CallFits
    <3> QED BY <3>1, <3>2, <3>4, <3>5 DEF ModelCallSound, CallCounts, CallFits, Texts
  <2>2. ASSUME NEW u \in Prober, readiness[u].overall = "pass"
        PROVE  /\ DOMAIN readiness[u].answers = readiness[u].asked \ {"multimodal"}
               /\ \A p \in DOMAIN readiness[u].answers :
                    /\ readiness[u].answers[p].ok
                    /\ p = "embedding" => /\ FirstVector(readiness[u].answers[p]).pc = "searched"
                                          /\ ~readiness[u].answers[p].blank
                                          /\ readiness[u].expects => readiness[u].answers[p].fits
                    /\ p = "rerank" => readiness[u].answers[p].count > 0
                    /\ p = "chat" => ~readiness[u].answers[p].blank
    <3>1. PICK q : q = readiness[u]
      OBVIOUS
    <3>2. ProbesStand(q) /\ q.overall = "pass"
      BY <2>2, <3>1 DEF ModelsIInv, ReadinessStands
    <3>3. /\ q.asked \subseteq Probe /\ DOMAIN q.results = Probe /\ q.expects \in BOOLEAN
          /\ DOMAIN q.answers = q.asked \ {"multimodal"}
      BY <3>2 DEF ProbesStand, ReadinessRow
    <3>4. PICK A \in SUBSET Probe : q.answers \in [A -> ModelCallRow]
      BY <3>2 DEF ProbesStand, ReadinessRow, CallsAnswered
    <3>5. ASSUME NEW p \in DOMAIN q.answers
          PROVE  /\ q.answers[p].ok
                 /\ p = "embedding" => /\ FirstVector(q.answers[p]).pc = "searched"
                                       /\ ~q.answers[p].blank
                                       /\ q.expects => q.answers[p].fits
                 /\ p = "rerank" => q.answers[p].count > 0
                 /\ p = "chat" => ~q.answers[p].blank
      <4>1. PICK c \in ModelCallRow : c = q.answers[p]
        BY <3>4
      <4>2. PICK expects \in BOOLEAN : expects = q.expects
        BY <3>3
      <4>3. p \in Probe \ {"multimodal"} /\ ProbeStatus(p, c, expects) # "fail"
        BY <3>2, <3>3, <4>1, <4>2 DEF ProbesStand
      <4> QED BY <4>1, <4>2, <4>3, PassIsUsable
    <3> QED BY <3>1, <3>3, <3>5, Zenon
  <2>3. AcceptedBuilds
    BY DEF ModelsIInv
  <2>4. NoFakeInProduction /\ RequestsBounded /\ AnswersFit
    BY <2>1 DEF NoFakeInProduction, RequestsBounded, AnswersFit
  <2>5. ReadyIsEarned
    BY <2>2, Zenon DEF ReadyIsEarned
  <2> QED BY <2>3, <2>4, <2>5 DEF ModelsAreSound
<1> QED BY <1>1, <1>2, ModelsStep, PTL DEF ModelsSpec

-----------------------------------------------------------------------------
(***************************************************************************)
(* Metrics.  A page is read back against the counters of now: what was     *)
(* printed of the requests is never above them (Earlier), and the requests *)
(* are printed before their latencies (LeftFits), so a histogram copied    *)
(* later covers them.  For the exporter, what a label was mirrored, plus   *)
(* what handlers owe it (Debt), is what it was counted.                    *)
(***************************************************************************)

IsCounter(c) == \A l \in DOMAIN c : c[l] \in Nat

\* A histogram with the bounds B that can be read as one.
IsHistogram(h, B) ==
    /\ h \in [count : Nat, sum : Nat, buckets : [B -> Nat]]
    /\ \A b, c \in B : b <= c => h.buckets[b] <= h.buckets[c]
    /\ \A b \in B : h.buckets[b] <= h.count /\ h.sum >= (h.count - h.buckets[b]) * (b + 1)

\* The histograms of a family go with its counter.
Together(counter, hists, B) ==
    /\ IsCounter(counter) /\ DOMAIN hists = DOMAIN counter
    /\ \A l \in DOMAIN hists : IsHistogram(hists[l], B) /\ counter[l] = hists[l].count

\* One counter is not above a later one.
Earlier(c, d) == IsCounter(c) /\ IsCounter(d) /\ \A l \in DOMAIN c : l \in DOMAIN d /\ c[l] <= d[l]

SectionSet == {"requests", "http", "http_latency", "queries", "rag", "dependency", "trace_store", "offline",
               "hits", "misses", "latency"}

TotalSet == {"requests", "queries", "hits", "misses", "latency"}

\* The label of a request: its class is that of its status, 0 if it has none.
IsRequestLabel(l) ==
    /\ l = [method |-> l.method, route |-> l.route, status |-> l.status, class |-> l.class]
    /\ l.status \in 100..599 \cup {0} /\ l.class = statusClass(l.status)

FamilyOf(s) == IF s = "offline" THEN "shadow" ELSE s

\* What stands on the page, given the request counter of now.
Printed(page, s, http) ==
    CASE s \in TotalSet -> DOMAIN page[s] = {"total"}
      [] s = "http" ->
           /\ DOMAIN page[s] = {"counts", "errors"} /\ Earlier(page[s].counts, http)
           /\ Within(page[s].errors, page[s].counts)
      [] s = "http_latency" ->
           /\ "http" \in DOMAIN page
           /\ page[s].series = [l \in DOMAIN page[s].latencies |-> SeriesOf(l)]
           /\ \A l \in DOMAIN page[s].latencies :
                /\ IsRequestLabel(l)
                /\ IsHistogram(page[s].latencies[l], Bounds["http"])
                /\ l \in DOMAIN page["http"].counts => page[s].latencies[l].count >= page["http"].counts[l]
      [] OTHER -> Together(page[s].counts, page[s].latencies, Bounds[FamilyOf(s)])

\* The requests are printed before their latencies, and not again after them.
LeftFits(left, page) ==
    /\ left \in Seq(SectionSet)
    /\ \A i \in 1..Len(left) : left[i] = "http_latency" =>
         /\ "http" \in DOMAIN page \/ \E j \in 1..(i - 1) : left[j] = "http"
         /\ \A j \in (i + 1)..Len(left) : left[j] # "http"
    /\ "http_latency" \in DOMAIN page => \A i \in 1..Len(left) : left[i] # "http"

PageFits(sc, http) ==
    /\ sc = [left |-> sc.left, page |-> sc.page, number |-> sc.number]
    /\ LeftFits(sc.left, sc.page)
    /\ DOMAIN sc.page \subseteq SectionSet
    /\ \A s \in DOMAIN sc.page : Printed(sc.page, s, http)

CountsFit(cs, hs) ==
    /\ DOMAIN cs = Family \cup {"http_errors", "rag_errors"} /\ DOMAIN hs = Family
    /\ \A f \in Family : Together(cs[f], hs[f], Bounds[f])
    /\ IsCounter(cs["http_errors"]) /\ IsCounter(cs["rag_errors"])
    /\ Within(cs["http_errors"], cs["http"])
    /\ \A l \in DOMAIN hs["http"] : IsRequestLabel(l)

HandlersFit(hs) ==
    DOMAIN hs = Handler /\ \A h \in Handler : hs[h] # Resting =>
        \E q : \E o \in {"none", "report", "error"} : \E r \in Report : hs[h] = [calls |-> q, owed |-> o, report |-> r]

\* The handlers after a step of h, which leaves it at x.
Turns(hs, gs, h, x) == gs[h] = Rests(x) /\ \A k \in Handler : k # h => gs[k] = hs[k]

ReadableIInv ==
    /\ DOMAIN totals = TotalSet
    /\ CountsFit(counters, histograms)
    /\ HandlersFit(handlers)
    /\ PageFits(scrape, counters["http"])

-----------------------------------------------------------------------------

\* One more report is one more of its label.
LEMMA CountedCopies ==
    ASSUME NEW c, IsCounter(c), NEW l, NEW d, d = Counted(c, l, 1)
    PROVE  IsCounter(d) /\ DOMAIN d = DOMAIN c \cup {l} /\ Earlier(c, d)
<1>1. \A k : Copies(c, k) \in Nat
  BY DEF IsCounter, Copies
<1>2. d = [k \in DOMAIN c \cup {l} |-> Copies(c, k) + IF k = l THEN 1 ELSE 0]
  BY DEF Counted
<1>3. DOMAIN d = DOMAIN c \cup {l} /\ \A k \in DOMAIN d : d[k] = Copies(c, k) + IF k = l THEN 1 ELSE 0
  BY <1>2
<1>4. IsCounter(d)
  BY <1>1, <1>3 DEF IsCounter
<1>6. Earlier(c, d)
  <2>1. \A k \in DOMAIN c : k \in DOMAIN d /\ c[k] = Copies(c, k)
    BY <1>3 DEF Copies
  <2>2. \A k \in DOMAIN c : c[k] <= d[k]
    BY <1>1, <1>3, <2>1
  <2> QED BY <1>4, <2>1, <2>2 DEF Earlier
<1> QED BY <1>3, <1>4, <1>6

LEMMA CopiesStep ==
    ASSUME NEW c, IsCounter(c), NEW l, NEW d, d = Counted(c, l, 1), NEW k
    PROVE  /\ Copies(c, k) \in Nat
           /\ k = l => Copies(d, k) = Copies(c, k) + 1
           /\ k # l => Copies(d, k) = Copies(c, k)
<1>1. Copies(c, k) \in Nat
  BY DEF IsCounter, Copies
<1>2. d = [m \in DOMAIN c \cup {l} |-> Copies(c, m) + IF m = l THEN 1 ELSE 0]
  BY DEF Counted
<1>3. CASE k = l
  BY <1>1, <1>2, <1>3 DEF Copies
<1>4. CASE k # l
  BY <1>1, <1>2, <1>4 DEF Copies
<1> QED BY <1>1, <1>3, <1>4

LEMMA EarlierTwice ==
    ASSUME NEW a, NEW b, NEW c, Earlier(a, b), Earlier(b, c)
    PROVE  Earlier(a, c)
<1>1. \A l \in DOMAIN a : l \in DOMAIN b /\ l \in DOMAIN c /\ a[l] \in Nat /\ b[l] \in Nat /\ c[l] \in Nat /\ a[l] <= b[l] /\ b[l] <= c[l]
  BY DEF Earlier, IsCounter
<1> QED
  <2> SUFFICES ASSUME NEW l \in DOMAIN a PROVE a[l] <= c[l]
    BY <1>1 DEF Earlier
  <2> QED BY <1>1
LEMMA BoundsType == ASSUME NEW f \in Family PROVE Bounds[f] \subseteq Nat
  BY MetricsAssumption DEF Family, Mirrored

\* A latency goes into every bucket that is not below it.
LEMMA ObservedReads ==
    ASSUME NEW B, B \subseteq Nat, NEW h, IsHistogram(h, B), NEW t \in Nat, NEW g, g = Observed(h, t)
    PROVE  IsHistogram(g, B) /\ g.count = h.count + 1
<1>1. h.count \in Nat /\ h.sum \in Nat /\ h.buckets \in [B -> Nat]
  BY DEF IsHistogram
<1>2. g = [count |-> h.count + 1, sum |-> h.sum + t,
           buckets |-> [b \in B |-> h.buckets[b] + IF t <= b THEN 1 ELSE 0]]
  BY <1>1 DEF Observed
<1>3. PICK k : k = [b \in B |-> h.buckets[b] + IF t <= b THEN 1 ELSE 0]
  OBVIOUS
<1>4. k \in [B -> Nat] /\ \A b \in B : k[b] = h.buckets[b] + IF t <= b THEN 1 ELSE 0
  BY <1>1, <1>3
<1>5. g.count = h.count + 1 /\ g.sum = h.sum + t /\ g.buckets = k
  BY ONLY <1>2, <1>3
<1>6. g \in [count : Nat, sum : Nat, buckets : [B -> Nat]]
  BY <1>1, <1>2, <1>3, <1>4
<1>7. ASSUME NEW b \in B, NEW c \in B, b <= c PROVE k[b] <= k[c]
  <2>1. h.buckets[b] <= h.buckets[c] /\ h.buckets[b] \in Nat /\ h.buckets[c] \in Nat
    BY <1>1, <1>7 DEF IsHistogram
  <2>2. b \in Nat /\ c \in Nat /\ (t <= b => t <= c)
    BY <1>7
  <2> QED BY <1>4, <2>1, <2>2
<1>8. ASSUME NEW b \in B PROVE k[b] <= g.count /\ g.sum >= (g.count - k[b]) * (b + 1)
  <2>1. PICK n, s, m \in Nat : n = h.count /\ s = h.sum /\ m = h.buckets[b]
    BY <1>1
  <2>2. m <= n /\ s >= (n - m) * (b + 1) /\ b \in Nat
    BY <2>1 DEF IsHistogram
  <2>3. CASE t <= b
    <3>1. k[b] = m + 1
      BY <1>4, <2>1, <2>3
    <3>2. g.count - k[b] = n - m
      BY <1>5, <2>1, <3>1
    <3>3. PICK x \in Int : x = (n - m) * (b + 1)
      BY <2>2
    <3>4. s + t >= x
      BY <2>2, <3>3
    <3> QED BY <1>5, <2>1, <2>2, <3>1, <3>2, <3>3, <3>4
  <2>4. CASE ~(t <= b)
    <3>1. k[b] = m
      <4>1. k[b] = h.buckets[b] + 0
        BY <1>4, <2>4
      <4> QED BY <2>1, <4>1
    <3>2. g.count - k[b] = (n - m) + 1
      BY <1>5, <2>1, <3>1
    <3>3. PICK d \in Nat : d = n - m
      BY <2>2
    <3>4. PICK x \in Nat : x = d * (b + 1)
      BY <2>2
    <3>5. (d + 1) * (b + 1) = x + b + 1
      BY <2>2, <3>4
    <3>6. s >= x /\ t >= b + 1
      BY <2>2, <2>4, <3>3, <3>4
    <3>7. g.sum >= (d + 1) * (b + 1)
      BY <1>5, <2>1, <2>2, <3>5, <3>6
    <3>8. g.count - k[b] = d + 1 /\ k[b] <= g.count
      BY <1>5, <2>1, <2>2, <3>1, <3>2, <3>3
    <3> QED BY <3>7, <3>8
  <2> QED BY <2>3, <2>4
<1> QED BY <1>5, <1>6, <1>7, <1>8 DEF IsHistogram

\* A new histogram is an empty one.
LEMMA NoneReads ==
    ASSUME NEW f \in Family, NEW h, h = NoHistogram(f)
    PROVE  IsHistogram(h, Bounds[f]) /\ h.count = 0
<1>1. PICK B : B = Bounds[f] /\ B \subseteq Nat
  BY BoundsType
<1>2. h = [count |-> 0, sum |-> 0, buckets |-> [b \in B |-> 0]]
  BY <1>1 DEF NoHistogram
<1>3. h \in [count : Nat, sum : Nat, buckets : [B -> Nat]]
  BY <1>2
<1>4. h.count = 0 /\ h.sum = 0 /\ \A b \in B : h.buckets[b] = 0
  BY <1>2
<1>5. \A b \in B : (h.count - h.buckets[b]) * (b + 1) = 0
  BY <1>1, <1>4
<1> QED BY <1>1, <1>3, <1>4, <1>5 DEF IsHistogram

\* Counter and histogram of a family are added to together.
LEMMA TogetherStep ==
    ASSUME NEW f \in Family, NEW c, Together(c, histograms[f], Bounds[f]), NEW l, NEW t \in Nat,
           NEW d, d = Counted(c, l, 1), NEW g, g = observeHistogram(f, l, t)
    PROVE  Together(d, g, Bounds[f])
<1>1. PICK hs, B : hs = histograms[f] /\ B = Bounds[f] /\ B \subseteq Nat
  BY BoundsType
<1>2. /\ IsCounter(c) /\ DOMAIN hs = DOMAIN c
      /\ \A k \in DOMAIN hs : IsHistogram(hs[k], B) /\ c[k] = hs[k].count
  BY <1>1 DEF Together
<1>3. PICK old : old = HistogramOf(f, l)
  OBVIOUS
<1>4. IsHistogram(old, B) /\ old.count = Copies(c, l)
  <2>1. CASE l \in DOMAIN hs
    BY <1>1, <1>2, <1>3, <2>1 DEF HistogramOf, Copies
  <2>2. CASE l \notin DOMAIN hs
    <3>1. old = NoHistogram(f) /\ Copies(c, l) = 0
      BY <1>1, <1>2, <1>3, <2>2 DEF HistogramOf, Copies
    <3> QED BY <1>1, <3>1, NoneReads
  <2> QED BY <2>1, <2>2
<1>5. PICK new : new = Observed(old, t)
  OBVIOUS
<1>6. IsHistogram(new, B) /\ new.count = old.count + 1
  BY <1>1, <1>4, <1>5, ObservedReads
<1>7. g = [k \in DOMAIN hs \cup {l} |-> IF k = l THEN new ELSE hs[k]]
  BY <1>1, <1>3, <1>5 DEF observeHistogram
<1>8. IsCounter(d) /\ DOMAIN d = DOMAIN c \cup {l}
  BY <1>2, CountedCopies
<1>9. ASSUME NEW k \in DOMAIN g PROVE IsHistogram(g[k], B) /\ d[k] = g[k].count
  <2>1. k \in DOMAIN d /\ d[k] = Copies(d, k)
    BY <1>2, <1>7, <1>8, <1>9 DEF Copies
  <2>2. CASE k = l
    <3>1. g[k] = new /\ d[k] = Copies(c, l) + 1
      BY <1>2, <1>7, <1>9, <2>1, <2>2, CopiesStep
    <3> QED BY <1>4, <1>6, <3>1
  <2>3. CASE k # l
    <3>1. k \in DOMAIN c /\ g[k] = hs[k] /\ d[k] = Copies(c, k)
      BY <1>2, <1>7, <1>9, <2>1, <2>3, CopiesStep
    <3>2. d[k] = c[k]
      BY <1>2, <3>1 DEF Copies, IsCounter
    <3> QED BY <1>2, <3>1, <3>2
  <2> QED BY <2>2, <2>3
<1>10. DOMAIN g = DOMAIN d
  BY <1>2, <1>7, <1>8
<1> QED BY <1>1, <1>8, <1>9, <1>10 DEF Together
-----------------------------------------------------------------------------

LEMMA WithinStep ==
    ASSUME NEW c, NEW d, IsCounter(c), IsCounter(d), Within(c, d), NEW l, NEW more, more = Counted(d, l, 1),
           NEW also, also = Counted(c, l, 1)
    PROVE  Within(c, more) /\ Within(also, more)
<1>1. ASSUME NEW k PROVE Copies(c, k) \in Nat /\ Copies(d, k) \in Nat /\ Copies(c, k) <= Copies(d, k)
  BY DEF IsCounter, Within, Copies
<1>2. ASSUME NEW k \in DOMAIN c PROVE c[k] <= Copies(more, k)
  <2>1. c[k] = Copies(c, k)
    BY <1>2 DEF Copies
  <2>2. Copies(d, k) <= Copies(more, k) /\ Copies(more, k) \in Nat
    BY <1>1, CopiesStep
  <2> QED BY <1>1, <2>1, <2>2
<1>3. ASSUME NEW k \in DOMAIN also PROVE also[k] <= Copies(more, k)
  <2>1. also[k] = Copies(also, k)
    BY <1>3 DEF Copies
  <2>2. CASE k = l
    <3>1. Copies(also, k) = Copies(c, k) + 1 /\ Copies(more, k) = Copies(d, k) + 1
      BY <2>2, CopiesStep
    <3> QED BY <1>1, <2>1, <3>1
  <2>3. CASE k # l
    <3>1. Copies(also, k) = Copies(c, k) /\ Copies(more, k) = Copies(d, k)
      BY <2>3, CopiesStep
    <3> QED BY <1>1, <2>1, <3>1
  <2> QED BY <2>2, <2>3
<1> QED BY <1>2, <1>3 DEF Within

\* What is printed stays readable while requests are counted.
LEMMA PageKept ==
    ASSUME NEW sc, NEW a, NEW b, PageFits(sc, a), Earlier(a, b)
    PROVE  PageFits(sc, b)
<1> SUFFICES ASSUME NEW s \in DOMAIN sc.page PROVE Printed(sc.page, s, b)
  BY DEF PageFits
<1>1. Printed(sc.page, s, a)
  BY DEF PageFits
<1>2. CASE s = "http"
  <2>1. /\ DOMAIN sc.page[s] = {"counts", "errors"} /\ Earlier(sc.page[s].counts, a)
        /\ Within(sc.page[s].errors, sc.page[s].counts)
    BY <1>1, <1>2 DEF Printed, TotalSet
  <2>2. PICK e : e = sc.page[s].counts
    OBVIOUS
  <2>3. Earlier(e, b)
    BY <2>1, <2>2, EarlierTwice
  <2> QED BY <1>2, <2>1, <2>2, <2>3 DEF Printed, TotalSet
<1>3. CASE s # "http"
  BY <1>1, <1>3 DEF Printed
<1> QED BY <1>2, <1>3

\* The next call of a handler, and the end of its last one.
LEMMA HandlersStep ==
    ASSUME HandlersFit(handlers), NEW h \in Handler, NEW x,
           handlers' = [handlers EXCEPT ![h] = Rests(x)],
           x = Resting \/ \E q : \E o \in {"none", "report", "error"} : \E r \in Report : x = [calls |-> q, owed |-> o, report |-> r]
    PROVE  HandlersFit(handlers')
<1>1. DOMAIN handlers = Handler
  BY DEF HandlersFit
<1>2. DOMAIN handlers' = Handler /\ handlers'[h] = Rests(x) /\ \A k \in Handler : k # h => handlers'[k] = handlers[k]
  BY <1>1
<1>3. PICK y, hs : y = Rests(x) /\ hs = handlers'
  OBVIOUS
<1>4. y = Resting \/ y = x
  BY <1>3 DEF Rests
<1>5. ASSUME NEW k \in Handler, hs[k] # Resting
      PROVE  \E q : \E o \in {"none", "report", "error"} : \E r \in Report : hs[k] = [calls |-> q, owed |-> o, report |-> r]
  <2>1. CASE k = h
    <3>1. hs[k] = x /\ x # Resting
      BY <1>2, <1>3, <1>4, <1>5, <2>1
    <3> QED BY <3>1
  <2>2. CASE k # h
    <3>1. hs[k] = handlers[k]
      BY <1>2, <1>3, <2>2
    <3> QED BY <1>5, <3>1 DEF HandlersFit
  <2> QED BY <2>1, <2>2
<1>6. HandlersFit(hs)
  BY <1>2, <1>3, <1>5 DEF HandlersFit
<1> QED BY <1>3, <1>6

LEMMA AtWorkReports ==
    ASSUME HandlersFit(handlers), NEW h \in Handler, handlers[h] # Resting
    PROVE  /\ handlers[h].report \in Report /\ handlers[h].owed \in {"none", "report", "error"}
           /\ handlers[h] = [calls |-> handlers[h].calls, owed |-> handlers[h].owed, report |-> handlers[h].report]
<1>1. PICK q : \E o \in {"none", "report", "error"} : \E r \in Report : handlers[h] = [calls |-> q, owed |-> o, report |-> r]
  BY DEF HandlersFit
<1>2. PICK o \in {"none", "report", "error"} : \E r \in Report : handlers[h] = [calls |-> q, owed |-> o, report |-> r]
  BY <1>1
<1>3. PICK r \in Report : handlers[h] = [calls |-> q, owed |-> o, report |-> r]
  BY <1>2
<1> QED BY <1>3

LEMMA CallsStep ==
    ASSUME HandlersFit(handlers), NEW h \in Handler, NEW do, NEW o \in {"none", "report", "error"}, Calls(h, do, o)
    PROVE  /\ HandlersFit(handlers') /\ handlers[h] # Resting /\ handlers[h].report \in Report
           /\ handlers[h].owed = "none"
           /\ \A x : x = [calls |-> Tail(handlers[h].calls), owed |-> o, report |-> handlers[h].report] => Turns(handlers, handlers', h, x)
<1>1. handlers[h] # Resting /\ handlers[h].owed = "none"
  BY DEF Calls, Resting
<1>2. PICK q, r, p : q = handlers[h].calls /\ r = handlers[h].report /\ p = Tail(q)
  OBVIOUS
<1>3. handlers[h] = [calls |-> q, owed |-> "none", report |-> r] /\ r \in Report
  BY <1>1, <1>2, AtWorkReports
<1>4. PICK x : x = [calls |-> p, owed |-> o, report |-> r]
  OBVIOUS
<1>5. [handlers[h] EXCEPT !.calls = Tail(@), !.owed = o] = x
  <2>1. PICK old : old = handlers[h]
    OBVIOUS
  <2>2. old = [calls |-> q, owed |-> "none", report |-> r] /\ p = Tail(old.calls)
    BY <1>2, <1>3, <2>1
  <2>3. PICK e : e = [[old EXCEPT !.calls = p] EXCEPT !.owed = o]
    OBVIOUS
  <2>4. [old EXCEPT !.calls = p] = [calls |-> p, owed |-> "none", report |-> r]
    <3>1. old = [calls |-> q, owed |-> "none", report |-> r]
      BY <2>2
    <3> QED BY ONLY <3>1
  <2>5. e = [calls |-> p, owed |-> o, report |-> r]
    BY ONLY <2>3, <2>4
  <2>6. [old EXCEPT !.calls = Tail(@), !.owed = o] = e
    BY <2>2, <2>3
  <2> QED BY <1>4, <2>1, <2>5, <2>6
<1>6. handlers' = [handlers EXCEPT ![h] = Rests(x)]
  BY <1>2, <1>5 DEF Calls
<1>7. HandlersFit(handlers')
  BY <1>3, <1>4, <1>6, HandlersStep
<1>8. Turns(handlers, handlers', h, x)
  BY <1>6 DEF Turns, HandlersFit
<1> QED BY <1>1, <1>2, <1>3, <1>4, <1>7, <1>8

LEMMA LatencyIsNat ==
    ASSUME NEW r \in Report, r.family \in Family
    PROVE  Latency(r) \in Nat
<1>1. r.latency \in Int /\ (r.family = "rag" => r.latency \in Nat)
  BY MetricsAssumption DEF Family, Mirrored
<1> QED BY <1>1 DEF Latency

LEMMA RequestLabels ==
    ASSUME NEW r \in Report, r.family = "http"
    PROVE  IsRequestLabel(Labels(r))
<1>1. PICK m, p, s : m = normalizeMethod(r.method) /\ p = normalizeRoute(r.route) /\ s = normalizeStatus(r.status)
  OBVIOUS
<1>2. Labels(r) = [method |-> m, route |-> p, status |-> s, class |-> statusClass(r.status)]
  BY <1>1 DEF Labels
<1>3. s \in 100..599 \cup {0} /\ statusClass(s) = statusClass(r.status)
  BY <1>1 DEF normalizeStatus, statusClass
<1> QED BY <1>2, <1>3 DEF IsRequestLabel

\* A report is counted, and its latency observed, under one lock.
LEMMA ObserveFits ==
    ASSUME CountsFit(counters, histograms), NEW r \in Report, NEW l, r.family = "http" => IsRequestLabel(l),
           counters' = [f \in DOMAIN counters |->
                  IF f \in CountedIn(r) THEN Counted(counters[f], l, 1) ELSE counters[f]],
           histograms' = [histograms EXCEPT ![r.family] = observeHistogram(r.family, l, Latency(r))]
    PROVE  CountsFit(counters', histograms') /\ Earlier(counters["http"], counters'["http"])
<1>1. PICK cs, hs : cs = counters' /\ hs = histograms'
  OBVIOUS
<1>2. /\ DOMAIN counters = Family \cup {"http_errors", "rag_errors"} /\ DOMAIN histograms = Family
      /\ \A f \in Family : Together(counters[f], histograms[f], Bounds[f])
      /\ IsCounter(counters["http_errors"]) /\ IsCounter(counters["rag_errors"])
      /\ Within(counters["http_errors"], counters["http"])
      /\ \A k \in DOMAIN histograms["http"] : IsRequestLabel(k)
  BY DEF CountsFit
<1>3. /\ DOMAIN cs = DOMAIN counters /\ DOMAIN hs = DOMAIN histograms
      /\ \A f \in DOMAIN counters : f \in CountedIn(r) => cs[f] = Counted(counters[f], l, 1)
      /\ \A f \in DOMAIN counters : f \notin CountedIn(r) => cs[f] = counters[f]
  BY <1>1
<1>4. ASSUME NEW f \in Family PROVE Together(cs[f], hs[f], Bounds[f])
  <2>1. f \in DOMAIN counters /\ f \in DOMAIN histograms /\ Together(counters[f], histograms[f], Bounds[f])
    BY <1>2, <1>4
  <2>2. f \in CountedIn(r) <=> f = r.family
    BY <1>4 DEF CountedIn, Family, Mirrored
  <2>3. CASE f = r.family
    <3>1. PICK c, t : c = counters[f] /\ t = Latency(r)
      OBVIOUS
    <3>2. t \in Nat
      BY <1>4, <2>3, <3>1, LatencyIsNat
    <3>3. cs[f] = Counted(c, l, 1) /\ hs[f] = observeHistogram(f, l, t)
      BY <1>1, <1>3, <2>1, <2>2, <2>3, <3>1
    <3> QED BY <1>4, <2>1, <3>1, <3>2, <3>3, TogetherStep
  <2>4. CASE f # r.family
    <3>1. cs[f] = counters[f] /\ hs[f] = histograms[f]
      BY <1>1, <1>3, <2>1, <2>2, <2>4
    <3> QED BY <2>1, <3>1
  <2> QED BY <2>3, <2>4
<1>5. "http" \in Family /\ IsCounter(counters["http"])
  BY <1>2 DEF Together, Family, Mirrored
<1>6. PICK e, c, d : e = counters["http_errors"] /\ c = counters["http"] /\ d = counters["rag_errors"]
  OBVIOUS
<1>7. "rag_errors" \notin CountedIn(r) /\ ("http_errors" \in CountedIn(r) => "http" \in CountedIn(r))
  BY MetricsAssumption DEF CountedIn
<1>8. cs["rag_errors"] = d
  BY <1>2, <1>3, <1>6, <1>7
<1>9. /\ cs["http"] = c \/ cs["http"] = Counted(c, l, 1)
      /\ cs["http_errors"] = e \/ (cs["http_errors"] = Counted(e, l, 1) /\ cs["http"] = Counted(c, l, 1))
  BY <1>2, <1>3, <1>5, <1>6, <1>7
<1>10. IsCounter(cs["http_errors"]) /\ Within(cs["http_errors"], cs["http"]) /\ Earlier(c, cs["http"])
  <2>0. IsCounter(c) /\ IsCounter(e) /\ Within(e, c)
    BY <1>2, <1>5, <1>6
  <2>1. PICK more, also : more = Counted(c, l, 1) /\ also = Counted(e, l, 1)
    OBVIOUS
  <2>2. Within(e, more) /\ Within(also, more)
    BY <2>0, <2>1, WithinStep
  <2>3. IsCounter(also)
    BY <2>0, <2>1, CountedCopies
  <2>4. Earlier(c, more)
    BY <2>0, <2>1, CountedCopies
  <2>5. Earlier(c, c)
    <3>1. \A k \in DOMAIN c : c[k] \in Nat
      BY <2>0 DEF IsCounter
    <3> QED BY <2>0, <3>1 DEF Earlier
  <2> QED BY <1>9, <2>0, <2>1, <2>2, <2>3, <2>4, <2>5
<1>a. \A k \in DOMAIN hs["http"] : IsRequestLabel(k)
  <2>1. CASE r.family = "http"
    <3>1. hs["http"] = observeHistogram("http", l, Latency(r))
      BY <1>1, <1>2, <1>5, <2>1
    <3>2. DOMAIN hs["http"] = DOMAIN histograms["http"] \cup {l}
      BY <3>1 DEF observeHistogram
    <3> QED BY <1>2, <2>1, <3>2
  <2>2. CASE r.family # "http"
    <3>1. hs["http"] = histograms["http"]
      BY <1>1, <1>2, <1>5, <2>2
    <3> QED BY <1>2, <3>1
  <2> QED BY <2>1, <2>2
<1>11. CountsFit(cs, hs)
  BY <1>2, <1>3, <1>4, <1>6, <1>8, <1>10, <1>a DEF CountsFit
<1> QED BY <1>1, <1>6, <1>10, <1>11

\* Only the counter of query errors.
LEMMA ErrorFits ==
    ASSUME CountsFit(counters, histograms), NEW l,
           counters' = [counters EXCEPT !["rag_errors"] = Counted(@, l, 1)], histograms' = histograms
    PROVE  CountsFit(counters', histograms') /\ counters'["http"] = counters["http"]
<1>1. PICK cs, c : cs = counters' /\ c = counters["rag_errors"]
  OBVIOUS
<1>2. /\ DOMAIN counters = Family \cup {"http_errors", "rag_errors"} /\ DOMAIN histograms = Family
      /\ \A f \in Family : Together(counters[f], histograms[f], Bounds[f])
      /\ IsCounter(counters["http_errors"]) /\ IsCounter(c)
      /\ Within(counters["http_errors"], counters["http"])
      /\ \A k \in DOMAIN histograms["http"] : IsRequestLabel(k)
  BY <1>1 DEF CountsFit
<1>3. /\ DOMAIN cs = DOMAIN counters /\ cs["rag_errors"] = Counted(c, l, 1)
      /\ \A f \in DOMAIN counters : f # "rag_errors" => cs[f] = counters[f]
  BY <1>1, <1>2
<1>4. PICK d : d = Counted(c, l, 1)
  OBVIOUS
<1>5. IsCounter(d)
  BY <1>2, <1>4, CountedCopies
<1>6. "rag_errors" \notin Family /\ "http" \in Family
  BY DEF Family, Mirrored
<1>7. cs["http"] = counters["http"] /\ cs["http_errors"] = counters["http_errors"] /\ \A f \in Family : cs[f] = counters[f]
  BY <1>2, <1>3, <1>6
<1>8. CountsFit(cs, histograms)
  BY <1>2, <1>3, <1>4, <1>5, <1>7 DEF CountsFit
<1> QED BY <1>1, <1>7, <1>8

\* Render prints the requests before their latencies.
LEMMA SectionsFit ==
    ASSUME NEW page, page = << >>
    PROVE  LeftFits(Sections, page) /\ DOMAIN page = {}
<1>1. PICK left : left = Sections
  OBVIOUS
<1>2. left \in Seq(SectionSet) /\ Len(left) = 11
  BY <1>1 DEF Sections, SectionSet
<1>3. left[2] = "http" /\ left[3] = "http_latency"
  BY <1>1 DEF Sections
<1>4. \A i \in 1..11 : (left[i] = "http" => i = 2) /\ (left[i] = "http_latency" => i = 3)
  BY <1>1 DEF Sections
<1>5. DOMAIN page = {}
  OBVIOUS
<1>6. \A i \in 1..Len(left) : left[i] = "http_latency" =>
         /\ \E j \in 1..(i - 1) : left[j] = "http"
         /\ \A j \in (i + 1)..Len(left) : left[j] # "http"
  <2> SUFFICES ASSUME NEW i \in 1..11, left[i] = "http_latency"
               PROVE  /\ \E j \in 1..(i - 1) : left[j] = "http"
                      /\ \A j \in (i + 1)..11 : left[j] # "http"
    BY <1>2
  <2>1. i = 3
    BY <1>4
  <2>2. \A j \in (i + 1)..11 : j \in 1..11 /\ j # 2
    BY <2>1
  <2>3. \A j \in (i + 1)..11 : left[j] # "http"
    BY <1>4, <2>2
  <2>4. 2 \in 1..(i - 1)
    BY <2>1
  <2> QED BY <1>3, <2>3, <2>4
<1>7. LeftFits(left, page)
  BY <1>2, <1>5, <1>6 DEF LeftFits
<1> QED BY <1>1, <1>5, <1>7

\* A section that is printed takes its place on the page.
LEMMA LeftStep ==
    ASSUME NEW left, NEW page, left # << >>, LeftFits(left, page), NEW s, s = Head(left),
           NEW rest, rest = Tail(left), NEW more, DOMAIN more = DOMAIN page \cup {s}
    PROVE  /\ LeftFits(rest, more) /\ s \in SectionSet
           /\ s = "http_latency" => "http" \in DOMAIN page
           /\ s = "http" => "http_latency" \notin DOMAIN page
<1>1. left \in Seq(SectionSet) /\ Len(left) \in Nat \ {0} /\ s = left[1] /\ s \in SectionSet
  BY DEF LeftFits
<1>2. rest \in Seq(SectionSet) /\ Len(rest) = Len(left) - 1 /\ \A i \in 1..Len(rest) : rest[i] = left[i + 1]
  BY <1>1
<1>3. \A i \in 1..Len(rest) : i + 1 \in 1..Len(left)
  BY <1>1, <1>2
<1>4. 1 \in 1..Len(left)
  BY <1>1
<1>5. s = "http_latency" => "http" \in DOMAIN page
  BY <1>1, <1>4 DEF LeftFits
<1>6. s = "http" => "http_latency" \notin DOMAIN page
  BY <1>1, <1>4 DEF LeftFits
<1>7. ASSUME NEW i \in 1..Len(rest), rest[i] = "http_latency"
      PROVE  /\ "http" \in DOMAIN more \/ \E j \in 1..(i - 1) : rest[j] = "http"
             /\ \A j \in (i + 1)..Len(rest) : rest[j] # "http"
  <2>1. i + 1 \in 1..Len(left) /\ left[i + 1] = "http_latency"
    BY <1>2, <1>3, <1>7
  <2>2. /\ "http" \in DOMAIN page \/ \E j \in 1..((i + 1) - 1) : left[j] = "http"
        /\ \A j \in ((i + 1) + 1)..Len(left) : left[j] # "http"
    BY <2>1 DEF LeftFits
  <2>3. ASSUME NEW j \in (i + 1)..Len(rest) PROVE rest[j] # "http"
    <3>1. j \in 1..Len(rest) /\ j + 1 \in ((i + 1) + 1)..Len(left)
      BY <1>1, <1>2, <1>7, <2>3
    <3> QED BY <1>2, <2>2, <3>1
  <2>4. CASE "http" \in DOMAIN page
    BY <2>3, <2>4
  <2>5. ASSUME NEW j \in 1..((i + 1) - 1), left[j] = "http"
        PROVE  "http" \in DOMAIN more \/ \E k \in 1..(i - 1) : rest[k] = "http"
    <3>1. CASE j = 1
      BY <1>1, <2>5, <3>1
    <3>2. CASE j # 1
      <4>1. PICK k : k = j - 1
        OBVIOUS
      <4>2. k \in 1..(i - 1) /\ k \in 1..Len(rest) /\ k + 1 = j
        BY <1>7, <2>5, <3>2, <4>1
      <4>3. rest[k] = "http"
        BY <1>2, <2>5, <4>2
      <4> QED BY <4>2, <4>3
    <3> QED BY <3>1, <3>2
  <2> QED BY <2>2, <2>3, <2>4, <2>5
<1>8. ASSUME "http_latency" \in DOMAIN more, NEW i \in 1..Len(rest) PROVE rest[i] # "http"
  <2>1. i + 1 \in 1..Len(left) /\ rest[i] = left[i + 1]
    BY <1>2, <1>3
  <2>2. CASE "http_latency" \in DOMAIN page
    BY <2>1, <2>2 DEF LeftFits
  <2>3. CASE s = "http_latency"
    <3>1. \A j \in (1 + 1)..Len(left) : left[j] # "http"
      BY <1>1, <1>4, <2>3 DEF LeftFits
    <3>2. i + 1 \in (1 + 1)..Len(left)
      BY <1>1, <1>2
    <3> QED BY <2>1, <3>1, <3>2
  <2> QED BY <1>8, <2>2, <2>3
<1> QED BY <1>1, <1>2, <1>5, <1>6, <1>7, <1>8 DEF LeftFits

\* What a section copies can be read.
LEMMA CopiedPrints ==
    ASSUME ReadableIInv, NEW s \in SectionSet, NEW page, page[s] = Copied(s),
           s = "http_latency" => /\ "http" \in DOMAIN page
                                 /\ Earlier(page["http"].counts, counters["http"])
    PROVE  Printed(page, s, counters["http"])
<1>1. DOMAIN totals = TotalSet
  BY DEF ReadableIInv
<1>2. /\ \A f \in Family : Together(counters[f], histograms[f], Bounds[f])
      /\ Within(counters["http_errors"], counters["http"])
      /\ \A l \in DOMAIN histograms["http"] : IsRequestLabel(l)
  BY DEF ReadableIInv, CountsFit
<1>3. CASE s \in TotalSet
  <2>1. page[s] = [total |-> totals[s]]
    BY <1>1, <1>3 DEF Copied, TotalSet
  <2>2. DOMAIN page[s] = {"total"}
    BY <2>1
  <2> QED BY <1>3, <2>2 DEF Printed, TotalSet
<1>4. CASE s = "http"
  <2>1. page[s] = [counts |-> counters["http"], errors |-> counters["http_errors"]]
    BY <1>1, <1>4 DEF Copied, TotalSet
  <2>2. DOMAIN page[s] = {"counts", "errors"} /\ page[s].counts = counters["http"] /\ page[s].errors = counters["http_errors"]
    BY <2>1
  <2>3. \A l \in DOMAIN counters["http"] : counters["http"][l] \in Nat
    BY <1>2 DEF Together, IsCounter, Family, Mirrored
  <2>4. Earlier(counters["http"], counters["http"])
    BY <2>3 DEF Earlier, IsCounter
  <2> QED BY <1>2, <1>4, <2>2, <2>4 DEF Printed, TotalSet
<1>5. CASE s = "http_latency"
  <2>1. page[s] = [latencies |-> histograms["http"],
                   series |-> [l \in DOMAIN histograms["http"] |-> SeriesOf(l)]]
    BY <1>1, <1>5 DEF Copied, TotalSet
  <2>2. /\ page[s].latencies = histograms["http"]
        /\ page[s].series = [l \in DOMAIN page[s].latencies |-> SeriesOf(l)]
    BY <2>1
  <2>3. Together(counters["http"], histograms["http"], Bounds["http"])
    BY <1>2 DEF Family, Mirrored
  <2>4. PICK hs, c, d : hs = histograms["http"] /\ c = counters["http"] /\ d = page["http"].counts
    OBVIOUS
  <2>5. ASSUME NEW l \in DOMAIN hs
        PROVE  IsRequestLabel(l) /\ IsHistogram(hs[l], Bounds["http"]) /\ (l \in DOMAIN d => hs[l].count >= d[l])
    <3>1. IsHistogram(hs[l], Bounds["http"]) /\ c[l] = hs[l].count
      BY <2>3, <2>4, <2>5 DEF Together
    <3>2. l \in DOMAIN d => d[l] \in Nat /\ c[l] \in Nat /\ d[l] <= c[l]
      BY <1>5, <2>4 DEF Earlier, IsCounter
    <3> QED BY <1>2, <2>4, <2>5, <3>1, <3>2
  <2> QED BY <1>5, <2>2, <2>4, <2>5 DEF Printed, TotalSet
<1>6. CASE s \in {"rag", "dependency", "trace_store", "offline"}
  <2>1. PICK f : f = FamilyOf(s)
    OBVIOUS
  <2>2. f \in Family
    BY <1>6, <2>1 DEF FamilyOf, Family, Mirrored
  <2>3. page[s].counts = counters[f] /\ page[s].latencies = histograms[f]
    <3>1. CASE s = "rag"
      BY <1>1, <2>1, <3>1 DEF Copied, TotalSet, FamilyOf
    <3>2. CASE s = "offline"
      BY <1>1, <2>1, <3>2 DEF Copied, TotalSet, FamilyOf
    <3>3. CASE s \in {"dependency", "trace_store"}
      BY <1>1, <2>1, <3>3 DEF Copied, TotalSet, FamilyOf
    <3> QED BY <1>6, <3>1, <3>2, <3>3
  <2>4. Together(page[s].counts, page[s].latencies, Bounds[f])
    BY <1>2, <2>2, <2>3
  <2> QED BY <1>6, <2>1, <2>4 DEF Printed, TotalSet
<1> QED BY <1>3, <1>4, <1>5, <1>6 DEF SectionSet, TotalSet

LEMMA RenderFits ==
    ASSUME ReadableIInv, RenderSection
    PROVE  PageFits(scrape', counters["http"])
<1>1. PICK left, page, n : left = scrape.left /\ page = scrape.page /\ n = scrape.number
  OBVIOUS
<1>2. /\ scrape = [left |-> left, page |-> page, number |-> n] /\ LeftFits(left, page) /\ DOMAIN page \subseteq SectionSet
      /\ \A k \in DOMAIN page : Printed(page, k, counters["http"])
  BY <1>1 DEF ReadableIInv, PageFits
<1>3. PICK s, rest : s = Head(left) /\ rest = Tail(left)
  OBVIOUS
<1>4. PICK more : more = [k \in DOMAIN page \cup {s} |-> IF k = s THEN Copied(s) ELSE page[k]]
  OBVIOUS
<1>5. scrape' = [left |-> rest, page |-> more, number |-> n]
  <2>1. scrape' = [scrape EXCEPT !.left = Tail(scrape.left), !.page = [k \in DOMAIN scrape.page \cup {s} |-> IF k = s THEN Copied(s) ELSE scrape.page[k]]]
    BY <1>1, <1>3 DEF RenderSection
  <2>2. scrape' = [scrape EXCEPT !.left = rest, !.page = more]
    BY <1>1, <1>3, <1>4, <2>1
  <2>3. PICK old : old = scrape
    OBVIOUS
  <2>4. PICK new : new = scrape'
    OBVIOUS
  <2>5. old = [left |-> left, page |-> page, number |-> n]
    BY <1>2, <2>3
  <2>6. new = [old EXCEPT !.left = rest, !.page = more]
    BY <2>2, <2>3, <2>4
  <2>7. new = [left |-> rest, page |-> more, number |-> n]
    BY ONLY <2>5, <2>6
  <2> QED BY <2>4, <2>7
<1>6. DOMAIN more = DOMAIN page \cup {s} /\ more[s] = Copied(s) /\ \A k \in DOMAIN page : k # s => more[k] = page[k]
  BY <1>4
<1>7. /\ LeftFits(rest, more) /\ s \in SectionSet
      /\ s = "http_latency" => "http" \in DOMAIN page
      /\ s = "http" => "http_latency" \notin DOMAIN page
  <2>1. left # << >>
    BY <1>1 DEF RenderSection
  <2> QED BY <1>2, <1>3, <1>6, <2>1, LeftStep
<1>8. ASSUME NEW k \in DOMAIN more PROVE Printed(more, k, counters["http"])
  <2>1. CASE k = s
    <3>1. s = "http_latency" => "http" \in DOMAIN more /\ Earlier(more["http"].counts, counters["http"])
      <4> HAVE s = "http_latency"
      <4>1. "http" \in DOMAIN page /\ more["http"] = page["http"]
        BY <1>6, <1>7
      <4>2. Printed(page, "http", counters["http"])
        BY <1>2, <4>1
      <4>3. Earlier(page["http"].counts, counters["http"])
        BY <4>2 DEF Printed, TotalSet
      <4> QED BY <1>6, <4>1, <4>3
    <3> QED BY <1>6, <1>7, <2>1, <3>1, CopiedPrints
  <2>2. CASE k # s
    <3>1. k \in DOMAIN page /\ more[k] = page[k] /\ Printed(page, k, counters["http"])
      BY <1>2, <1>6, <1>8, <2>2
    <3>2. CASE k = "http_latency"
      <4>1. /\ "http" \in DOMAIN page
            /\ page[k].series = [l \in DOMAIN page[k].latencies |-> SeriesOf(l)]
            /\ \A l \in DOMAIN page[k].latencies :
                 /\ IsRequestLabel(l)
                 /\ IsHistogram(page[k].latencies[l], Bounds["http"])
                 /\ l \in DOMAIN page["http"].counts => page[k].latencies[l].count >= page["http"].counts[l]
        BY <3>1, <3>2 DEF Printed, TotalSet
      <4>2. "http" \in DOMAIN more /\ more["http"] = page["http"]
        BY <1>6, <1>7, <3>1, <3>2, <4>1
      <4> QED BY <3>1, <3>2, <4>1, <4>2 DEF Printed, TotalSet
    <3>3. CASE k # "http_latency"
      BY <3>1, <3>3 DEF Printed
    <3> QED BY <3>2, <3>3
  <2> QED BY <2>1, <2>2
<1>9. PageFits([left |-> rest, page |-> more, number |-> n], counters["http"])
  BY <1>2, <1>6, <1>7, <1>8 DEF PageFits
<1> QED BY <1>5, <1>9

LEMMA BeginScrapeFits ==
    ASSUME ReadableIInv, BeginScrape
    PROVE  PageFits(scrape', counters["http"])
<1>1. PICK left, page, n : left = Sections /\ page = << >> /\ n = scrape.number + 1
  OBVIOUS
<1>2. LeftFits(left, page) /\ DOMAIN page = {}
  BY <1>1, SectionsFit
<1>3. scrape' = [left |-> left, page |-> page, number |-> n]
  BY <1>1 DEF BeginScrape
<1>4. PageFits([left |-> left, page |-> page, number |-> n], counters["http"])
  BY <1>2 DEF PageFits
<1> QED BY <1>3, <1>4

LEMMA ReadableInit == MetricsInit => ReadableIInv
<1> SUFFICES ASSUME MetricsInit PROVE ReadableIInv
  OBVIOUS
<1>1. DOMAIN totals = TotalSet
  BY DEF MetricsInit, TotalSet
<1>2. /\ DOMAIN counters = Family \cup {"http_errors", "rag_errors"} /\ DOMAIN histograms = Family
      /\ \A f \in DOMAIN counters : DOMAIN counters[f] = {}
      /\ \A f \in Family : DOMAIN histograms[f] = {}
  BY DEF MetricsInit
<1>3. CountsFit(counters, histograms)
  <2>1. "http" \in Family
    BY DEF Family, Mirrored
  <2> QED BY <1>2, <2>1 DEF CountsFit, Together, IsCounter, Within
<1>4. HandlersFit(handlers)
  BY DEF MetricsInit, HandlersFit
<1>5. PageFits(scrape, counters["http"])
  <2>1. PICK left, page, n : left = << >> /\ page = << >> /\ n = 0
    OBVIOUS
  <2>2. scrape = [left |-> left, page |-> page, number |-> n]
    BY <2>1 DEF MetricsInit
  <2>3. left \in Seq(SectionSet) /\ Len(left) = 0 /\ DOMAIN page = {}
    BY <2>1
  <2>4. LeftFits(left, page)
    BY <2>3 DEF LeftFits
  <2>5. PageFits([left |-> left, page |-> page, number |-> n], counters["http"])
    BY <2>3, <2>4 DEF PageFits
  <2> QED BY <2>2, <2>5
<1> QED BY <1>1, <1>3, <1>4, <1>5 DEF ReadableIInv

\* What owes nothing but the exporter goes on.
LEMMA MirrorStep ==
    ASSUME HandlersFit(handlers), NEW h \in Handler, handlers[h].owed # "none",
           handlers' = [handlers EXCEPT ![h] = Rests([handlers[h] EXCEPT !.owed = "none"])]
    PROVE  /\ HandlersFit(handlers') /\ handlers[h].report \in Report /\ handlers[h].owed \in {"report", "error"}
           /\ \A x : x = [calls |-> handlers[h].calls, owed |-> "none", report |-> handlers[h].report] => Turns(handlers, handlers', h, x)
<1>1. handlers[h] # Resting
  BY DEF Resting
<1>2. PICK q, o, r : q = handlers[h].calls /\ o = handlers[h].owed /\ r = handlers[h].report
  OBVIOUS
<1>3. handlers[h] = [calls |-> q, owed |-> o, report |-> r] /\ r \in Report /\ o \in {"report", "error"}
  BY <1>1, <1>2, AtWorkReports
<1>4. PICK x : x = [calls |-> q, owed |-> "none", report |-> r]
  OBVIOUS
<1>5. [handlers[h] EXCEPT !.owed = "none"] = x
  BY ONLY <1>3, <1>4
<1>6. handlers' = [handlers EXCEPT ![h] = Rests(x)]
  BY <1>5
<1>7. HandlersFit(handlers')
  BY <1>3, <1>4, <1>6, HandlersStep
<1>8. Turns(handlers, handlers', h, x)
  BY <1>6 DEF Turns, HandlersFit
<1> QED BY <1>2, <1>3, <1>4, <1>7, <1>8

LEMMA BeginReportStep ==
    ASSUME HandlersFit(handlers), NEW h \in Handler, BeginReport(h)
    PROVE  HandlersFit(handlers')
<1>1. PICK r \in Report : handlers' = [handlers EXCEPT ![h] = Rests([calls |-> CallsOf(r), owed |-> "none", report |-> r])]
  BY DEF BeginReport
<1>2. PICK q : q = CallsOf(r)
  OBVIOUS
<1>3. PICK x : x = [calls |-> q, owed |-> "none", report |-> r]
  OBVIOUS
<1>4. handlers' = [handlers EXCEPT ![h] = Rests(x)]
  BY <1>1, <1>2, <1>3
<1> QED BY <1>3, <1>4, HandlersStep

LEMMA ReadableStep == ReadableIInv /\ [MetricsNext]_metricVars => ReadableIInv'
<1> SUFFICES ASSUME ReadableIInv, [MetricsNext]_metricVars PROVE ReadableIInv'
  OBVIOUS
<1>0. /\ DOMAIN totals = TotalSet /\ CountsFit(counters, histograms) /\ HandlersFit(handlers)
      /\ PageFits(scrape, counters["http"])
  BY DEF ReadableIInv
<1>1. ASSUME NEW h \in Handler, BeginReport(h) PROVE ReadableIInv'
  <2>1. HandlersFit(handlers')
    BY <1>0, <1>1, BeginReportStep
  <2>2. totals' = totals /\ counters' = counters /\ histograms' = histograms /\ scrape' = scrape
    BY <1>1 DEF BeginReport, measures
  <2> QED BY <1>0, <2>1, <2>2 DEF ReadableIInv
<1>2. ASSUME NEW h \in Handler, AddTotal(h) PROVE ReadableIInv'
  <2>1. HandlersFit(handlers')
    <3>1. Calls(h, "total", "none")
      BY <1>2 DEF AddTotal
    <3> QED BY <1>0, <3>1, CallsStep
  <2>2. DOMAIN totals' = DOMAIN totals /\ counters' = counters /\ histograms' = histograms /\ scrape' = scrape
    BY <1>2 DEF AddTotal, Calls
  <2> QED BY <1>0, <2>1, <2>2 DEF ReadableIInv
<1>3. ASSUME NEW h \in Handler, Observe(h) PROVE ReadableIInv'
  <2>1. PICK o : o = IF handlers[h].report.family \in Mirrored THEN Owed("report") ELSE "none"
    OBVIOUS
  <2>2. o \in {"none", "report", "error"}
    BY <2>1 DEF Owed
  <2>3. Calls(h, "locked", o)
    BY <1>3, <2>1 DEF Observe
  <2>4. HandlersFit(handlers') /\ handlers[h].report \in Report
    BY <1>0, <2>2, <2>3, CallsStep
  <2>5. PICK r, l : r = handlers[h].report /\ l = Labels(r)
    OBVIOUS
  <2>6. /\ counters' = [f \in DOMAIN counters |-> IF f \in CountedIn(r) THEN Counted(counters[f], l, 1) ELSE counters[f]]
        /\ histograms' = [histograms EXCEPT ![r.family] = observeHistogram(r.family, l, Latency(r))]
    BY <1>3, <2>5 DEF Observe
  <2>a. r.family = "http" => IsRequestLabel(l)
    BY <2>4, <2>5, RequestLabels
  <2>7. CountsFit(counters', histograms') /\ Earlier(counters["http"], counters'["http"])
    BY <1>0, <2>4, <2>5, <2>6, <2>a, ObserveFits
  <2>8. PageFits(scrape, counters'["http"])
    <3>1. PICK a, b : a = counters["http"] /\ b = counters'["http"]
      OBVIOUS
    <3>2. PageFits(scrape, b)
      BY <1>0, <2>7, <3>1, PageKept
    <3> QED BY <3>1, <3>2
  <2>9. totals' = totals /\ scrape' = scrape
    BY <1>3 DEF Observe, Calls
  <2> QED BY <1>0, <2>4, <2>7, <2>8, <2>9 DEF ReadableIInv
<1>4. ASSUME NEW h \in Handler, IncRAGError(h) PROVE ReadableIInv'
  <2>1. PICK o : o = Owed("error")
    OBVIOUS
  <2>2. o \in {"none", "report", "error"} /\ Calls(h, "error", o)
    BY <1>4, <2>1 DEF Owed, IncRAGError
  <2>3. HandlersFit(handlers')
    BY <1>0, <2>2, CallsStep
  <2>4. PICK l : l = ErrorLabels(handlers[h].report)
    OBVIOUS
  <2>5. counters' = [counters EXCEPT !["rag_errors"] = Counted(@, l, 1)] /\ histograms' = histograms
    BY <1>4, <2>4 DEF IncRAGError
  <2>6. CountsFit(counters', histograms') /\ counters'["http"] = counters["http"]
    BY <1>0, <2>5, ErrorFits
  <2>7. totals' = totals /\ scrape' = scrape
    BY <1>4 DEF IncRAGError, Calls
  <2> QED BY <1>0, <2>3, <2>6, <2>7 DEF ReadableIInv
<1>5. ASSUME NEW h \in Handler, Mirror(h) PROVE ReadableIInv'
  <2>1. HandlersFit(handlers')
    BY <1>0, <1>5, MirrorStep DEF Mirror
  <2>2. totals' = totals /\ counters' = counters /\ histograms' = histograms /\ scrape' = scrape
    BY <1>5 DEF Mirror, measures
  <2> QED BY <1>0, <2>1, <2>2 DEF ReadableIInv
<1>6. ASSUME NEW h \in Handler, addCounter(h) \/ CountAnalysis(h) \/ AddMeasure(h) \/ SetMeasure(h) PROVE ReadableIInv'
  <2>1. PICK do : Calls(h, do, "none")
    BY <1>6 DEF addCounter, CountAnalysis, AddMeasure, SetMeasure
  <2>2. HandlersFit(handlers')
    BY <1>0, <2>1, CallsStep
  <2>3. totals' = totals /\ counters' = counters /\ histograms' = histograms
    BY <1>6 DEF addCounter, CountAnalysis, AddMeasure, SetMeasure
  <2>4. scrape' = scrape
    BY <2>1 DEF Calls
  <2> QED BY <1>0, <2>2, <2>3, <2>4 DEF ReadableIInv
<1>7. CASE CloseSink \/ UNCHANGED metricVars
  <2>1. totals' = totals /\ counters' = counters /\ histograms' = histograms /\ scrape' = scrape /\ handlers' = handlers
    BY <1>7 DEF CloseSink, metricVars, measures
  <2> QED BY <1>0, <2>1 DEF ReadableIInv
<1>8. CASE BeginScrape \/ RenderSection
  <2>1. PageFits(scrape', counters["http"])
    BY <1>8, BeginScrapeFits, RenderFits
  <2>2. totals' = totals /\ counters' = counters /\ histograms' = histograms /\ handlers' = handlers
    BY <1>8 DEF BeginScrape, RenderSection, measures
  <2> QED BY <1>0, <2>1, <2>2 DEF ReadableIInv
<1> QED BY <1>1, <1>2, <1>3, <1>4, <1>5, <1>6, <1>7, <1>8 DEF MetricsNext

LEMMA ReadableIsAgreement == ReadableIInv => HistogramsAgree /\ SeriesAreClasses /\ RequestErrorsFit
<1> SUFFICES ASSUME ReadableIInv PROVE HistogramsAgree /\ SeriesAreClasses /\ RequestErrorsFit
  OBVIOUS
<1>1. PICK page : page = scrape.page
  OBVIOUS
<1>2. DOMAIN page \subseteq SectionSet /\ \A s \in DOMAIN page : Printed(page, s, counters["http"])
  BY <1>1 DEF ReadableIInv, PageFits
<1>3. RequestErrorsFit
  BY <1>1, <1>2 DEF RequestErrorsFit, Rendered, Printed, TotalSet
<1>4. ASSUME NEW s \in DOMAIN page, "latencies" \in DOMAIN page[s], NEW l \in DOMAIN page[s].latencies,
             NEW h, h = page[s].latencies[l]
      PROVE  /\ \A b, c \in DOMAIN h.buckets : b <= c => h.buckets[b] <= h.buckets[c]
             /\ \A b \in DOMAIN h.buckets : h.buckets[b] <= h.count /\ h.sum >= (h.count - h.buckets[b]) * (b + 1)
             /\ IF s = "http_latency"
                THEN l \in DOMAIN page["http"].counts => h.count >= page["http"].counts[l]
                ELSE h.count = page[s].counts[l]
  <2>1. s \in SectionSet /\ Printed(page, s, counters["http"])
    BY <1>2, <1>4
  <2>2. s \notin TotalSet
    <3> SUFFICES ASSUME s \in TotalSet PROVE FALSE
      OBVIOUS
    <3>1. DOMAIN page[s] = {"total"}
      BY <2>1 DEF Printed, TotalSet
    <3> QED BY <1>4, <3>1
  <2>3. s # "http"
    <3> SUFFICES ASSUME s = "http" PROVE FALSE
      OBVIOUS
    <3>1. DOMAIN page[s] = {"counts", "errors"}
      BY <2>1 DEF Printed, TotalSet
    <3> QED BY <1>4, <3>1
  <2>4. \E B : IsHistogram(h, B)
    <3>1. CASE s = "http_latency"
      BY <1>4, <2>1, <3>1 DEF Printed, TotalSet
    <3>2. CASE s # "http_latency"
      BY <1>4, <2>1, <2>2, <2>3, <3>2 DEF Printed, Together
    <3> QED BY <3>1, <3>2
  <2>5. PICK B : IsHistogram(h, B)
    BY <2>4
  <2>6. DOMAIN h.buckets = B
    BY <2>5 DEF IsHistogram
  <2>7. s = "http_latency" => (l \in DOMAIN page["http"].counts => h.count >= page["http"].counts[l])
    BY <1>4, <2>1 DEF Printed, TotalSet
  <2>8. s # "http_latency" => h.count = page[s].counts[l]
    BY <1>4, <2>1, <2>2, <2>3 DEF Printed, Together
  <2> QED BY <2>5, <2>6, <2>7, <2>8 DEF IsHistogram
<1>5. HistogramsAgree
  BY <1>1, <1>4 DEF HistogramsAgree
<1>6. SeriesAreClasses
  <2> SUFFICES ASSUME "http_latency" \in DOMAIN page, NEW l \in DOMAIN page["http_latency"].latencies
               PROVE  /\ page["http_latency"].series[l].class = statusClass(l.status)
                      /\ \A k \in DOMAIN page["http_latency"].latencies :
                           l # k /\ page["http_latency"].series[l] = page["http_latency"].series[k]
                               => l.status # k.status /\ {l.status, k.status} \subseteq 100..599
    BY <1>1 DEF SeriesAreClasses, Rendered
  <2>1. PICK latencies, series : latencies = page["http_latency"].latencies /\ series = page["http_latency"].series
    OBVIOUS
  <2>2. series = [k \in DOMAIN latencies |-> SeriesOf(k)] /\ \A k \in DOMAIN latencies : IsRequestLabel(k)
    <3>1. Printed(page, "http_latency", counters["http"])
      BY <1>2
    <3> QED BY <2>1, <3>1 DEF Printed, TotalSet
  <2>3. \A k \in DOMAIN latencies : series[k] = SeriesOf(k)
    BY <2>2
  <2>4. series[l].class = statusClass(l.status)
    BY <2>1, <2>2, <2>3 DEF SeriesOf, IsRequestLabel
  <2>5. ASSUME NEW k \in DOMAIN latencies, l # k, series[l] = series[k]
        PROVE  l.status # k.status /\ {l.status, k.status} \subseteq 100..599
    <3>1. SeriesOf(l) = SeriesOf(k) /\ IsRequestLabel(l) /\ IsRequestLabel(k)
      BY <2>1, <2>2, <2>3, <2>5
    <3>2. l.method = k.method /\ l.route = k.route /\ l.class = k.class
      BY <3>1 DEF SeriesOf
    <3>3. l.status # k.status
      <4>1. SUFFICES ASSUME l.status = k.status PROVE l = k
        BY <2>5
      <4>2. PICK m, p, s, c : m = l.method /\ p = l.route /\ s = l.status /\ c = l.class
        OBVIOUS
      <4>3. l = [method |-> m, route |-> p, status |-> s, class |-> c]
        BY <3>1, <4>2 DEF IsRequestLabel
      <4>4. k = [method |-> m, route |-> p, status |-> s, class |-> c]
        BY <3>1, <3>2, <4>1, <4>2 DEF IsRequestLabel
      <4> QED BY <4>3, <4>4
    <3>4. l.class = statusClass(l.status) /\ k.class = statusClass(k.status)
          /\ l.status \in 100..599 \cup {0} /\ k.status \in 100..599 \cup {0}
      BY <3>1 DEF IsRequestLabel
    <3>5. ASSUME NEW s \in 100..599 PROVE statusClass(s) # statusClass(0)
      BY <3>5 DEF statusClass
    <3>6. l.status # 0 /\ k.status # 0
      <4>1. PICK s, t : s = l.status /\ t = k.status
        OBVIOUS
      <4>2. s # t /\ statusClass(s) = statusClass(t) /\ s \in 100..599 \cup {0} /\ t \in 100..599 \cup {0}
        BY <3>2, <3>3, <3>4, <4>1
      <4>3. s = 0 => FALSE
        BY <3>5, <4>2
      <4>4. t = 0 => FALSE
        BY <3>5, <4>2
      <4> QED BY <4>1, <4>3, <4>4
    <3> QED BY <3>3, <3>4, <3>6
  <2> QED BY <2>1, <2>4, <2>5
<1> QED BY <1>3, <1>5, <1>6

\* Whatever is counted between two sections of a scrape, every printed block
\* of a histogram can be read and agrees with the counter beside it, blocks of
\* one series are of different statuses of its class, and no request error is
\* printed without its request (Render, renderHTTPLatency, observeHistogram,
\* ObserveHTTP).
THEOREM ScrapesReadable == MetricsSpec => [](HistogramsAgree /\ SeriesAreClasses /\ RequestErrorsFit)
<1>1. MetricsInit => ReadableIInv
  BY ReadableInit
<1>2. ReadableIInv /\ [MetricsNext]_metricVars => ReadableIInv'
  BY ReadableStep
<1>3. ReadableIInv => HistogramsAgree /\ SeriesAreClasses /\ RequestErrorsFit
  BY ReadableIsAgreement
<1> QED BY <1>1, <1>2, <1>3, PTL DEF MetricsSpec
-----------------------------------------------------------------------------
\* The exporter: what is counted and not yet mirrored is owed by a handler.
IsTally(c) == c \in [DOMAIN c -> Nat \ {0}]

MirrorFamily == Mirrored \cup {"http_errors", "rag_errors"}

\* What the handler x owes the exporter.
Tells(x, f, l) ==
    \/ x.owed = "report" /\ f \in MirroredIn(x.report) /\ l = Labels(x.report)
    \/ x.owed = "error" /\ f = "rag_errors" /\ l = ErrorLabels(x.report)

Debt(hs, f, l) == {h \in Handler : Tells(hs[h], f, l)}

\* Mirrored copies, owed ones and counted ones.
Follows(m, n, c, on) == m + n <= c /\ (on => m + n = c)

MirrorIInv ==
    /\ DOMAIN mirror = MirrorFamily
    /\ \A f \in MirrorFamily :
         /\ IsTally(mirror[f]) /\ IsTally(counters[f])
         /\ \A l : Follows(Copies(mirror[f], l), Cardinality(Debt(handlers, f, l)), Copies(counters[f], l), sink = "on")

LEMMA TallyStep ==
    ASSUME NEW c, IsTally(c), NEW l, NEW d, d = Counted(c, l, 1)
    PROVE  IsTally(d)
<1>1. \A k : Copies(c, k) \in Nat /\ (k # l /\ k \in DOMAIN c \cup {l} => Copies(c, k) \in Nat \ {0})
  BY DEF IsTally, Copies
<1>2. d = [k \in DOMAIN c \cup {l} |-> Copies(c, k) + IF k = l THEN 1 ELSE 0]
  BY DEF Counted
<1>3. ASSUME NEW k \in DOMAIN c \cup {l} PROVE Copies(c, k) + (IF k = l THEN 1 ELSE 0) \in Nat \ {0}
  BY <1>1, <1>3
<1>4. DOMAIN d = DOMAIN c \cup {l} /\ d \in [DOMAIN c \cup {l} -> Nat \ {0}]
  BY <1>2, <1>3
<1> QED BY <1>4 DEF IsTally

LEMMA TallyCounts ==
    ASSUME NEW c, IsTally(c)
    PROVE  IsCounter(c) /\ \A l : Copies(c, l) \in Nat /\ (l \in DOMAIN c <=> Copies(c, l) # 0)
  BY DEF IsTally, IsCounter, Copies

LEMMA RestingTells ==
    ASSUME NEW x, NEW f, NEW l
    PROVE  Tells(Rests(x), f, l) <=> Tells(x, f, l)
<1>1. Resting.owed = "none"
  BY DEF Resting
<1>2. CASE Rests(x) = x
  BY <1>2
<1>3. CASE Rests(x) # x
  <2>1. Rests(x) = Resting /\ x.owed = "none"
    BY <1>3 DEF Rests
  <2> QED BY <1>1, <2>1 DEF Tells
<1> QED BY <1>2, <1>3

\* A step of h changes what h owes, and only that.
LEMMA DebtSets ==
    ASSUME NEW hs, NEW gs, NEW h \in Handler, NEW x, Turns(hs, gs, h, x),
           NEW f, NEW l, NEW D, D = Debt(hs, f, l), NEW E, E = Debt(gs, f, l)
    PROVE  /\ IsFiniteSet(D) /\ IsFiniteSet(E) /\ Cardinality(D) \in Nat /\ Cardinality(E) \in Nat
           /\ h \in D <=> Tells(hs[h], f, l)
           /\ h \in E <=> Tells(x, f, l)
           /\ \A k : k # h => (k \in D <=> k \in E)
<1>2. D \subseteq Handler /\ E \subseteq Handler /\ IsFiniteSet(Handler)
  BY MetricsAssumption DEF Debt
<1>3. IsFiniteSet(D) /\ IsFiniteSet(E)
  BY <1>2, FS_Subset
<1>4. Cardinality(D) \in Nat /\ Cardinality(E) \in Nat
  BY <1>3, FS_CardinalityType
<1>5. gs[h] = Rests(x) /\ \A k \in Handler : k # h => gs[k] = hs[k]
  BY DEF Turns
<1>6. /\ h \in D <=> Tells(hs[h], f, l)
      /\ h \in E <=> Tells(x, f, l)
      /\ \A k : k # h => (k \in D <=> k \in E)
  BY <1>5, RestingTells DEF Debt
<1> QED BY <1>3, <1>4, <1>6

LEMMA OneMore ==
    ASSUME NEW D, NEW E, IsFiniteSet(D), NEW h, h \in E, h \notin D, \A k : k # h => (k \in D <=> k \in E)
    PROVE  Cardinality(E) = Cardinality(D) + 1
<1>1. E = D \cup {h}
  OBVIOUS
<1> QED BY <1>1, FS_AddElement

LEMMA DebtStep ==
    ASSUME NEW hs, NEW gs, NEW h \in Handler, NEW x, Turns(hs, gs, h, x),
           NEW f, NEW l, NEW n, n = Cardinality(Debt(hs, f, l)), NEW m, m = Cardinality(Debt(gs, f, l))
    PROVE  /\ n \in Nat /\ m \in Nat
           /\ Tells(x, f, l) /\ ~Tells(hs[h], f, l) => m = n + 1
           /\ ~Tells(x, f, l) /\ Tells(hs[h], f, l) => n = m + 1
           /\ ~Tells(x, f, l) /\ ~Tells(hs[h], f, l) => m = n
<1>1. PICK D, E : D = Debt(hs, f, l) /\ E = Debt(gs, f, l)
  OBVIOUS
<1>2. /\ IsFiniteSet(D) /\ IsFiniteSet(E) /\ Cardinality(D) \in Nat /\ Cardinality(E) \in Nat
      /\ h \in D <=> Tells(hs[h], f, l)
      /\ h \in E <=> Tells(x, f, l)
      /\ \A k : k # h => (k \in D <=> k \in E)
  BY <1>1, DebtSets
<1>3. h \in E /\ h \notin D => Cardinality(E) = Cardinality(D) + 1
  BY <1>2, OneMore
<1>4. h \in D /\ h \notin E => Cardinality(D) = Cardinality(E) + 1
  BY <1>2, OneMore
<1>5. h \notin D /\ h \notin E => D = E
  BY <1>2
<1> QED BY <1>1, <1>2, <1>3, <1>4, <1>5

\* The exporter and the registry agree on what an error is.
LEMMA MirroredAsCounted ==
    ASSUME NEW r \in Report, NEW f \in MirrorFamily
    PROVE  f \in MirroredIn(r) <=> f \in CountedIn(r)
<1>1. CASE r.family = "http"
  <2>1. PICK n : n = r.status
    OBVIOUS
  <2>2. n \in 0..599
    BY <1>1, <2>1, MetricsAssumption
  <2>3. statusClass(n) \in {4, 5} <=> n >= 400
    <3>1. CASE n < 100
      BY <2>2, <3>1 DEF statusClass
    <3>2. CASE n >= 100
      <4>1. statusClass(n) = n \div 100
        BY <2>2, <3>2 DEF statusClass
      <4> QED BY <2>2, <3>2, <4>1
    <3> QED BY <2>2, <3>1, <3>2
  <2> QED BY <2>1, <2>3 DEF MirroredIn, CountedIn
<1>2. CASE r.family # "http"
  BY <1>2 DEF MirroredIn, CountedIn
<1> QED BY <1>1, <1>2

LEMMA MirrorInit == MetricsInit => MirrorIInv
<1> SUFFICES ASSUME MetricsInit PROVE MirrorIInv
  OBVIOUS
<1>1. DOMAIN mirror = MirrorFamily
  BY DEF MetricsInit, MirrorFamily
<1>2. ASSUME NEW f \in MirrorFamily PROVE mirror[f] = << >> /\ counters[f] = << >>
  BY DEF MetricsInit, MirrorFamily, Family
<1>3. ASSUME NEW c, c = << >> PROVE IsTally(c) /\ \A l : Copies(c, l) = 0
  BY <1>3 DEF IsTally, Copies
<1>4. ASSUME NEW f, NEW l PROVE Cardinality(Debt(handlers, f, l)) = 0
  <2>1. \A h \in Handler : handlers[h].owed = "none"
    BY DEF MetricsInit, Resting
  <2>2. Debt(handlers, f, l) = {}
    BY <2>1 DEF Debt, Tells
  <2> QED BY <2>2, FS_EmptySet
<1>5. ASSUME NEW f \in MirrorFamily
      PROVE  /\ IsTally(mirror[f]) /\ IsTally(counters[f])
             /\ \A l : Follows(Copies(mirror[f], l), Cardinality(Debt(handlers, f, l)), Copies(counters[f], l), sink = "on")
  <2>1. PICK m, c : m = mirror[f] /\ c = counters[f]
    OBVIOUS
  <2>2. IsTally(m) /\ IsTally(c) /\ \A l : Copies(m, l) = 0 /\ Copies(c, l) = 0
    BY <1>2, <1>3, <2>1
  <2>3. Follows(0, 0, 0, sink = "on")
    BY DEF Follows
  <2> QED BY <1>4, <2>1, <2>2, <2>3
<1> QED BY <1>1, <1>5 DEF MirrorIInv

\* A step that counts and exports nothing, and leaves no debt behind.
LEMMA FollowsKept ==
    ASSUME MirrorIInv, NEW h \in Handler, NEW x, Turns(handlers, handlers', h, x),
           x.owed = "none", handlers[h].owed = "none", mirror' = mirror, counters' = counters, sink' = sink
    PROVE  MirrorIInv'
<1>1. ASSUME NEW f, NEW l PROVE Cardinality(Debt(handlers', f, l)) = Cardinality(Debt(handlers, f, l))
  <2>1. ~Tells(x, f, l) /\ ~Tells(handlers[h], f, l)
    BY DEF Tells
  <2>2. PICK hs, gs : hs = handlers /\ gs = handlers'
    OBVIOUS
  <2>3. PICK n, m : n = Cardinality(Debt(hs, f, l)) /\ m = Cardinality(Debt(gs, f, l))
    OBVIOUS
  <2>4. Turns(hs, gs, h, x) /\ ~Tells(hs[h], f, l)
    BY <2>1, <2>2
  <2>5. m = n
    BY <2>1, <2>3, <2>4, DebtStep
  <2> QED BY <2>2, <2>3, <2>5
<1>2. ASSUME NEW f \in MirrorFamily
      PROVE  /\ IsTally(mirror'[f]) /\ IsTally(counters'[f])
             /\ \A l : Follows(Copies(mirror'[f], l), Cardinality(Debt(handlers', f, l)), Copies(counters'[f], l), sink' = "on")
  BY <1>1, <1>2 DEF MirrorIInv
<1>3. DOMAIN mirror' = MirrorFamily
  BY DEF MirrorIInv
<1> QED BY <1>2, <1>3 DEF MirrorIInv

\* The families F are counted once, for the label k, and owed if the exporter is on.
LEMMA FollowsCount ==
    ASSUME MirrorIInv, NEW h \in Handler, NEW x, Turns(handlers, handlers', h, x),
           handlers[h].owed = "none", mirror' = mirror, sink' = sink, NEW F, NEW k,
           \A f \in MirrorFamily : f \in F => counters'[f] = Counted(counters[f], k, 1),
           \A f \in MirrorFamily : f \notin F => counters'[f] = counters[f],
           \A f \in MirrorFamily : \A l : Tells(x, f, l) <=> (sink = "on" /\ f \in F /\ l = k)
    PROVE  MirrorIInv'
<1>1. DOMAIN mirror' = MirrorFamily
  BY DEF MirrorIInv
<1>2. ASSUME NEW f \in MirrorFamily
      PROVE  /\ IsTally(mirror'[f]) /\ IsTally(counters'[f])
             /\ \A l : Follows(Copies(mirror'[f], l), Cardinality(Debt(handlers', f, l)), Copies(counters'[f], l), sink' = "on")
  <2>1. PICK m, c, d : m = mirror[f] /\ c = counters[f] /\ d = counters'[f]
    OBVIOUS
  <2>2. IsTally(m) /\ IsTally(c)
    BY <1>2, <2>1 DEF MirrorIInv
  <2>3. (f \in F /\ d = Counted(c, k, 1)) \/ (f \notin F /\ d = c)
    BY <1>2, <2>1
  <2>4. IsTally(d)
    BY <2>2, <2>3, TallyStep
  <2>5. ASSUME NEW l PROVE Follows(Copies(m, l), Cardinality(Debt(handlers', f, l)), Copies(d, l), sink = "on")
    <3>1. PICK p, q : p = Cardinality(Debt(handlers, f, l)) /\ q = Cardinality(Debt(handlers', f, l))
      OBVIOUS
    <3>2. PICK a, b, e : a = Copies(m, l) /\ b = Copies(c, l) /\ e = Copies(d, l)
      OBVIOUS
    <3>3. a \in Nat /\ b \in Nat /\ e \in Nat
      BY <2>2, <2>4, <3>2, TallyCounts
    <3>4. a + p <= b /\ (sink = "on" => a + p = b)
      BY <1>2, <2>1, <3>1, <3>2 DEF MirrorIInv, Follows
    <3>5. ~Tells(handlers[h], f, l)
      BY DEF Tells
    <3>6. p \in Nat /\ q \in Nat /\ (Tells(x, f, l) => q = p + 1) /\ (~Tells(x, f, l) => q = p)
      <4>1. PICK hs, gs : hs = handlers /\ gs = handlers'
        OBVIOUS
      <4>2. Turns(hs, gs, h, x) /\ ~Tells(hs[h], f, l)
        BY <3>5, <4>1
      <4>3. p = Cardinality(Debt(hs, f, l)) /\ q = Cardinality(Debt(gs, f, l))
        BY <3>1, <4>1
      <4>4. p \in Nat /\ q \in Nat /\ (Tells(x, f, l) => q = p + 1) /\ (~Tells(x, f, l) => q = p)
        BY <4>2, <4>3, DebtStep
      <4> QED BY <4>1, <4>4
    <3>7. (f \in F /\ l = k => e = b + 1) /\ (~(f \in F /\ l = k) => e = b)
      <4>1. IsCounter(c)
        BY <2>2, TallyCounts
      <4> QED BY <2>3, <3>2, <4>1, CopiesStep
    <3>8. Tells(x, f, l) <=> (sink = "on" /\ f \in F /\ l = k)
      BY <1>2
    <3>9. a + q <= e /\ (sink = "on" => a + q = e)
      BY <3>3, <3>4, <3>6, <3>7, <3>8
    <3> QED BY <3>1, <3>2, <3>9 DEF Follows
  <2> QED BY <2>1, <2>2, <2>4, <2>5
<1> QED BY <1>1, <1>2 DEF MirrorIInv

\* What h owes is mirrored, unless the exporter is shut down.
LEMMA FollowsMirror ==
    ASSUME MirrorIInv, NEW h \in Handler, NEW x, Turns(handlers, handlers', h, x),
           x.owed = "none", counters' = counters, sink' = sink, DOMAIN mirror' = DOMAIN mirror, NEW F, NEW k,
           \A f \in MirrorFamily : f \in F /\ sink # "shut" => mirror'[f] = Counted(mirror[f], k, 1),
           \A f \in MirrorFamily : ~(f \in F /\ sink # "shut") => mirror'[f] = mirror[f],
           \A f \in MirrorFamily : \A l : Tells(handlers[h], f, l) <=> (f \in F /\ l = k)
    PROVE  MirrorIInv'
<1>1. DOMAIN mirror' = MirrorFamily
  BY DEF MirrorIInv
<1>2. ASSUME NEW f \in MirrorFamily
      PROVE  /\ IsTally(mirror'[f]) /\ IsTally(counters'[f])
             /\ \A l : Follows(Copies(mirror'[f], l), Cardinality(Debt(handlers', f, l)), Copies(counters'[f], l), sink' = "on")
  <2>1. PICK m, c, d : m = mirror[f] /\ c = counters[f] /\ d = mirror'[f]
    OBVIOUS
  <2>2. IsTally(m) /\ IsTally(c)
    BY <1>2, <2>1 DEF MirrorIInv
  <2>3. (f \in F /\ sink # "shut" /\ d = Counted(m, k, 1)) \/ (~(f \in F /\ sink # "shut") /\ d = m)
    BY <1>2, <2>1
  <2>4. IsTally(d)
    BY <2>2, <2>3, TallyStep
  <2>5. ASSUME NEW l PROVE Follows(Copies(d, l), Cardinality(Debt(handlers', f, l)), Copies(c, l), sink = "on")
    <3>1. PICK p, q : p = Cardinality(Debt(handlers, f, l)) /\ q = Cardinality(Debt(handlers', f, l))
      OBVIOUS
    <3>2. PICK a, b, e : a = Copies(m, l) /\ b = Copies(c, l) /\ e = Copies(d, l)
      OBVIOUS
    <3>3. a \in Nat /\ b \in Nat /\ e \in Nat
      BY <2>2, <2>4, <3>2, TallyCounts
    <3>4. a + p <= b /\ (sink = "on" => a + p = b)
      BY <1>2, <2>1, <3>1, <3>2 DEF MirrorIInv, Follows
    <3>5. ~Tells(x, f, l)
      BY DEF Tells
    <3>6. p \in Nat /\ q \in Nat /\ (Tells(handlers[h], f, l) => p = q + 1) /\ (~Tells(handlers[h], f, l) => q = p)
      <4>1. PICK hs, gs : hs = handlers /\ gs = handlers'
        OBVIOUS
      <4>2. Turns(hs, gs, h, x) /\ ~Tells(x, f, l)
        BY <3>5, <4>1
      <4>3. p = Cardinality(Debt(hs, f, l)) /\ q = Cardinality(Debt(gs, f, l))
        BY <3>1, <4>1
      <4>4. p \in Nat /\ q \in Nat /\ (Tells(hs[h], f, l) => p = q + 1) /\ (~Tells(hs[h], f, l) => q = p)
        BY <4>2, <4>3, DebtStep
      <4> QED BY <4>1, <4>4
    <3>7. (f \in F /\ l = k /\ sink # "shut" => e = a + 1) /\ (~(f \in F /\ l = k /\ sink # "shut") => e = a)
      <4>1. IsCounter(m)
        BY <2>2, TallyCounts
      <4> QED BY <2>3, <3>2, <4>1, CopiesStep
    <3>8. Tells(handlers[h], f, l) <=> (f \in F /\ l = k)
      BY <1>2
    <3>9. e + q <= b /\ (sink = "on" => e + q = b)
      BY <3>3, <3>4, <3>6, <3>7, <3>8
    <3> QED BY <3>1, <3>2, <3>9 DEF Follows
  <2> QED BY <2>1, <2>2, <2>4, <2>5
<1> QED BY <1>1, <1>2 DEF MirrorIInv

LEMMA MirrorNextStep == ReadableIInv /\ MirrorIInv /\ [MetricsNext]_metricVars => MirrorIInv'
<1> SUFFICES ASSUME ReadableIInv, MirrorIInv, [MetricsNext]_metricVars PROVE MirrorIInv'
  OBVIOUS
<1>0. HandlersFit(handlers) /\ DOMAIN handlers = Handler /\ DOMAIN counters = Family \cup {"http_errors", "rag_errors"}
  BY DEF ReadableIInv, HandlersFit, CountsFit
<1>00. MirrorFamily \subseteq DOMAIN counters /\ DOMAIN mirror = MirrorFamily
  BY <1>0 DEF MirrorFamily, Family, MirrorIInv
<1>1. ASSUME NEW h \in Handler, BeginReport(h) PROVE MirrorIInv'
  <2>1. PICK r \in Report : handlers' = [handlers EXCEPT ![h] = Rests([calls |-> CallsOf(r), owed |-> "none", report |-> r])]
    BY <1>1 DEF BeginReport
  <2>2. PICK q : q = CallsOf(r)
    OBVIOUS
  <2>3. PICK x : x = [calls |-> q, owed |-> "none", report |-> r]
    OBVIOUS
  <2>4. Turns(handlers, handlers', h, x) /\ x.owed = "none"
    BY <1>0, <2>1, <2>2, <2>3 DEF Turns
  <2>5. handlers[h].owed = "none" /\ mirror' = mirror /\ counters' = counters /\ sink' = sink
    BY <1>1 DEF BeginReport, Resting, measures
  <2> QED BY <1>0, <2>4, <2>5, FollowsKept
<1>2. ASSUME NEW h \in Handler, AddTotal(h) \/ addCounter(h) \/ CountAnalysis(h) \/ AddMeasure(h) \/ SetMeasure(h) PROVE MirrorIInv'
  <2>1. PICK do : Calls(h, do, "none")
    BY <1>2 DEF AddTotal, addCounter, CountAnalysis, AddMeasure, SetMeasure
  <2>2. counters' = counters /\ mirror' = mirror
    BY <1>2 DEF AddTotal, addCounter, CountAnalysis, AddMeasure, SetMeasure
  <2>3. sink' = sink
    BY <2>1 DEF Calls
  <2>4. PICK q, r : q = Tail(handlers[h].calls) /\ r = handlers[h].report
    OBVIOUS
  <2>5. PICK x : x = [calls |-> q, owed |-> "none", report |-> r]
    OBVIOUS
  <2>6. handlers[h].owed = "none" /\ Turns(handlers, handlers', h, x)
    BY <1>0, <2>1, <2>4, <2>5, CallsStep
  <2>7. x.owed = "none"
    BY <2>5
  <2> QED BY <1>0, <2>2, <2>3, <2>6, <2>7, FollowsKept
<1>3. ASSUME NEW h \in Handler, Observe(h) PROVE MirrorIInv'
  <2>1. PICK o : o = IF handlers[h].report.family \in Mirrored THEN Owed("report") ELSE "none"
    OBVIOUS
  <2>2. o \in {"none", "report", "error"}
    BY <2>1 DEF Owed
  <2>3. Calls(h, "locked", o)
    BY <1>3, <2>1 DEF Observe
  <2>4. PICK q, r, k : q = Tail(handlers[h].calls) /\ r = handlers[h].report /\ k = Labels(r)
    OBVIOUS
  <2>5. PICK x : x = [calls |-> q, owed |-> o, report |-> r]
    OBVIOUS
  <2>6. handlers[h].owed = "none" /\ Turns(handlers, handlers', h, x) /\ r \in Report
    BY <1>0, <2>2, <2>3, <2>4, <2>5, CallsStep
  <2>7. counters' = [f \in DOMAIN counters |-> IF f \in CountedIn(r) THEN Counted(counters[f], k, 1) ELSE counters[f]]
    BY <1>3, <2>4 DEF Observe
  <2>8. mirror' = mirror /\ sink' = sink
    BY <1>3, <2>3 DEF Observe, Calls
  <2>9. PICK F : F = CountedIn(r)
    OBVIOUS
  <2>10. /\ \A f \in MirrorFamily : f \in F => counters'[f] = Counted(counters[f], k, 1)
         /\ \A f \in MirrorFamily : f \notin F => counters'[f] = counters[f]
    BY <1>00, <2>7, <2>9
  <2>11. ASSUME NEW f \in MirrorFamily, NEW l PROVE Tells(x, f, l) <=> (sink = "on" /\ f \in F /\ l = k)
    <3>1. f \in F => r.family \in Mirrored
      <4>1. r.family # "rag_errors" /\ r.family # "http_errors"
        BY <2>6, MetricsAssumption
      <4> QED BY <2>9, <2>11, <4>1 DEF CountedIn, MirrorFamily, Mirrored
    <3>2. o = "report" <=> (r.family \in Mirrored /\ sink = "on")
      BY <2>1, <2>4 DEF Owed
    <3>3. o # "error"
      BY <2>1 DEF Owed
    <3>4. x.owed = o /\ x.report = r
      BY <2>5
    <3>5. f \in MirroredIn(r) <=> f \in F
      BY <2>6, <2>9, <2>11, MirroredAsCounted
    <3> QED BY <2>4, <3>1, <3>2, <3>3, <3>4, <3>5 DEF Tells
  <2> QED BY <1>0, <2>6, <2>8, <2>10, <2>11, FollowsCount
<1>4. ASSUME NEW h \in Handler, IncRAGError(h) PROVE MirrorIInv'
  <2>1. PICK o : o = Owed("error")
    OBVIOUS
  <2>2. o \in {"none", "report", "error"} /\ Calls(h, "error", o)
    BY <1>4, <2>1 DEF Owed, IncRAGError
  <2>4. PICK q, r, k : q = Tail(handlers[h].calls) /\ r = handlers[h].report /\ k = ErrorLabels(r)
    OBVIOUS
  <2>5. PICK x : x = [calls |-> q, owed |-> o, report |-> r]
    OBVIOUS
  <2>6. handlers[h].owed = "none" /\ Turns(handlers, handlers', h, x)
    BY <1>0, <2>2, <2>4, <2>5, CallsStep
  <2>7. counters' = [counters EXCEPT !["rag_errors"] = Counted(counters["rag_errors"], k, 1)]
    BY <1>4, <2>4 DEF IncRAGError
  <2>8. mirror' = mirror /\ sink' = sink
    BY <1>4, <2>2 DEF IncRAGError, Calls
  <2>9. PICK F : F = {"rag_errors"}
    OBVIOUS
  <2>10. /\ \A f \in MirrorFamily : f \in F => counters'[f] = Counted(counters[f], k, 1)
         /\ \A f \in MirrorFamily : f \notin F => counters'[f] = counters[f]
    BY <1>00, <2>7, <2>9
  <2>11. ASSUME NEW f \in MirrorFamily, NEW l PROVE Tells(x, f, l) <=> (sink = "on" /\ f \in F /\ l = k)
    <3>1. (o = "error" <=> sink = "on") /\ o # "report"
      BY <2>1 DEF Owed
    <3>2. x.owed = o /\ x.report = r
      BY <2>5
    <3> QED BY <2>4, <2>9, <3>1, <3>2 DEF Tells
  <2> QED BY <1>0, <2>6, <2>8, <2>10, <2>11, FollowsCount
<1>5. ASSUME NEW h \in Handler, Mirror(h) PROVE MirrorIInv'
  <2>1. /\ handlers[h].report \in Report /\ handlers[h].owed \in {"report", "error"}
        /\ \A x : x = [calls |-> handlers[h].calls, owed |-> "none", report |-> handlers[h].report] => Turns(handlers, handlers', h, x)
    BY <1>0, <1>5, MirrorStep DEF Mirror
  <2>2. PICK q, r, o : q = handlers[h].calls /\ r = handlers[h].report /\ o = handlers[h].owed
    OBVIOUS
  <2>3. PICK x : x = [calls |-> q, owed |-> "none", report |-> r]
    OBVIOUS
  <2>4. Turns(handlers, handlers', h, x) /\ x.owed = "none"
    BY <2>1, <2>2, <2>3
  <2>5. counters' = counters /\ sink' = sink
    BY <1>5 DEF Mirror, measures
  <2>6. PICK F, k : F = (IF o = "report" THEN MirroredIn(r) ELSE {"rag_errors"}) /\ k = (IF o = "report" THEN Labels(r) ELSE ErrorLabels(r))
    OBVIOUS
  <2>7. mirror' = IF sink = "shut" THEN mirror
                  ELSE [f \in DOMAIN mirror |-> IF f \in F THEN Counted(mirror[f], k, 1) ELSE mirror[f]]
    BY <1>5, <2>2, <2>6 DEF Mirror
  <2>8. /\ DOMAIN mirror' = DOMAIN mirror
        /\ \A f \in MirrorFamily : f \in F /\ sink # "shut" => mirror'[f] = Counted(mirror[f], k, 1)
        /\ \A f \in MirrorFamily : ~(f \in F /\ sink # "shut") => mirror'[f] = mirror[f]
    BY <1>00, <2>7
  <2>9. ASSUME NEW f \in MirrorFamily, NEW l PROVE Tells(handlers[h], f, l) <=> (f \in F /\ l = k)
    BY <2>1, <2>2, <2>6 DEF Tells
  <2> QED BY <1>0, <2>4, <2>5, <2>8, <2>9, FollowsMirror
<1>6. CASE CloseSink
  <2>1. sink' # "on" /\ mirror' = mirror /\ counters' = counters /\ handlers' = handlers
    BY <1>6 DEF CloseSink, measures
  <2> QED BY <2>1 DEF MirrorIInv, Follows
<1>7. CASE BeginScrape \/ RenderSection \/ UNCHANGED metricVars
  <2>1. sink' = sink /\ mirror' = mirror /\ counters' = counters /\ handlers' = handlers
    BY <1>7 DEF BeginScrape, RenderSection, metricVars, measures
  <2> QED BY <2>1 DEF MirrorIInv
<1> QED BY <1>1, <1>2, <1>3, <1>4, <1>5, <1>6, <1>7 DEF MetricsNext

LEMMA MirrorInvFollows == MirrorIInv => MirrorFollows
<1> SUFFICES ASSUME MirrorIInv PROVE MirrorFollows
  OBVIOUS
<1>1. ASSUME NEW f \in MirrorFamily
      PROVE  /\ Within(mirror[f], counters[f])
             /\ sink = "on" /\ (\A h \in Handler : handlers[h] = Resting) => mirror[f] = counters[f]
  <2>1. PICK m, c : m = mirror[f] /\ c = counters[f]
    OBVIOUS
  <2>2. IsTally(m) /\ IsTally(c)
    BY <1>1, <2>1 DEF MirrorIInv
  <2>3. ASSUME NEW l
        PROVE  /\ Copies(m, l) \in Nat /\ Copies(c, l) \in Nat /\ Copies(m, l) <= Copies(c, l)
               /\ sink = "on" /\ (\A h \in Handler : handlers[h] = Resting) => Copies(m, l) = Copies(c, l)
    <3>1. PICK D : D = Debt(handlers, f, l)
      OBVIOUS
    <3>2. D \subseteq Handler /\ IsFiniteSet(Handler)
      BY <3>1, MetricsAssumption DEF Debt
    <3>3. Cardinality(D) \in Nat
      BY <3>2, FS_Subset, FS_CardinalityType
    <3>4. (\A h \in Handler : handlers[h] = Resting) => Cardinality(D) = 0
      <4> HAVE \A h \in Handler : handlers[h] = Resting
      <4>1. Resting.owed = "none"
        BY DEF Resting
      <4>2. D = {}
        BY <3>1, <4>1 DEF Debt, Tells
      <4> QED BY <4>2, FS_EmptySet
    <3>5. Copies(m, l) + Cardinality(D) <= Copies(c, l) /\ (sink = "on" => Copies(m, l) + Cardinality(D) = Copies(c, l))
      BY <1>1, <2>1, <3>1 DEF MirrorIInv, Follows
    <3>6. Copies(m, l) \in Nat /\ Copies(c, l) \in Nat
      BY <2>2, TallyCounts
    <3> QED BY <3>3, <3>4, <3>5, <3>6
  <2>4. Within(m, c)
    <3> SUFFICES ASSUME NEW l \in DOMAIN m PROVE m[l] <= Copies(c, l)
      BY DEF Within
    <3>1. m[l] = Copies(m, l)
      BY DEF Copies
    <3> QED BY <2>3, <3>1
  <2>5. sink = "on" /\ (\A h \in Handler : handlers[h] = Resting) => m = c
    <3> HAVE sink = "on" /\ (\A h \in Handler : handlers[h] = Resting)
    <3>1. \A l : Copies(m, l) = Copies(c, l)
      BY <2>3
    <3>2. \A l : (l \in DOMAIN m <=> Copies(m, l) # 0) /\ (l \in DOMAIN c <=> Copies(c, l) # 0)
      BY <2>2, TallyCounts
    <3>3. DOMAIN m = DOMAIN c
      BY <3>1, <3>2
    <3>4. \A l \in DOMAIN m : m[l] = c[l]
      BY <3>1, <3>3 DEF Copies
    <3>5. m = [l \in DOMAIN m |-> m[l]] /\ c = [l \in DOMAIN c |-> c[l]]
      BY <2>2 DEF IsTally
    <3> QED BY <3>3, <3>4, <3>5
  <2> QED BY <2>1, <2>4, <2>5
<1>2. DOMAIN mirror = MirrorFamily
  BY DEF MirrorIInv
<1> QED BY <1>1, <1>2 DEF MirrorFollows

\* The exporter is never told of what was not counted, and while it is
\* installed it is behind only by what a handler is about to tell it, although
\* it is called after the mutex is released (ObserveHTTP, otlpMetricsSink).
THEOREM MirrorIsTold == MetricsSpec => []MirrorFollows
<1>1. MetricsInit => ReadableIInv /\ MirrorIInv
  BY ReadableInit, MirrorInit
<1>2. ReadableIInv /\ MirrorIInv /\ [MetricsNext]_metricVars => ReadableIInv' /\ MirrorIInv'
  BY ReadableStep, MirrorNextStep
<1>3. MirrorIInv => MirrorFollows
  BY MirrorInvFollows
<1> QED BY <1>1, <1>2, <1>3, PTL DEF MetricsSpec
==============================================================================
