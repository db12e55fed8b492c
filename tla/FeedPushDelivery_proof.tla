----------------------- MODULE FeedPushDelivery_proof -----------------------
(***************************************************************************)
(* Proofs about FeedPushDelivery, for any number of rows, processes,       *)
(* identifiers, attempts and any batch and group size.                     *)
(***************************************************************************)
EXTENDS FeedPushDelivery, FiniteSetTheorems, TLAPS

(* The retry budget with what makes it inductive: the copy a worker counts *)
(* from was taken while the row had an attempt left.  A worker past        *)
(* GetPushCID has an identifier to push with.                              *)
Budget ==
  /\ \A d \in Deliveries :
       /\ event[d] = "none" => status[d] = "absent"
       /\ status[d] \in {"absent", "pending", "sending"} => attempts[d] < MaxAttempts
       /\ status[d] = "failed" => attempts[d] = MaxAttempts
  /\ \A p \in Procs, d \in Deliveries :
       /\ worker[p][d].pc # "none" => worker[p][d].attempts < MaxAttempts
       /\ worker[p][d].pc \in {"savecid", "gate", "push"} => worker[p][d].cid # NoCID

TypeBudget == TypeOK /\ Budget

LEMMA TypeBudgetInit == Init => TypeBudget
BY ConstantsAssumption
   DEF Init, TypeBudget, TypeOK, Budget, Status, Final, Phase, PC, Holding, Worker, NoWorker, Config

(* The step a copy is at. *)
LEMMA CopyStage == NoWorker.pc = "none" /\ \A d \in Deliveries : RowCopy(d).pc = "listed"
BY DEF RowCopy, NoWorker

(* Steps around the outbox. *)
LEMMA TypeBudgetStore ==
  ASSUME TypeBudget, NEW D \in SUBSET Deliveries, StoreFeedEvents(D)
  PROVE  TypeBudget'
BY ConstantsAssumption DEF StoreFeedEvents, TypeBudget, TypeOK, Budget, Status, Final, procVars, vendorVars

LEMMA TypeBudgetStudent ==
  ASSUME TypeBudget, NEW s \in Students, Student(s)
  PROVE  TypeBudget'
<1> USE ConstantsAssumption DEF TypeBudget, TypeOK, Budget, Status, Final
<1>1. ASSUME FindOrCreateUserFeedConfig(s) PROVE TypeBudget'
  BY <1>1 DEF FindOrCreateUserFeedConfig, Config, rowVars, procVars, vendorVars
<1>2. ASSUME NEW D \in SUBSET Deliveries, RemoveFeedEvent(s, D) PROVE TypeBudget'
  BY <1>2 DEF RemoveFeedEvent, rowVars, procVars, vendorVars
<1>3. ASSUME NEW on \in SUBSET (Types \ {Library}), NEW library \in {"keep", "on", "off"},
             ChangeConfigBits(s, on, library)
      PROVE  TypeBudget'
  <2>1. config' \in [Students -> Config]
    BY <1>3 DEF ChangeConfigBits, Config, BaseConfig
  <2>2. QED BY <1>3, <2>1 DEF ChangeConfigBits, ClosesRow, procVars, vendorVars
<1>4. QED BY <1>1, <1>2, <1>3 DEF Student

LEMMA TypeBudgetClock ==
  ASSUME TypeBudget, NEW d \in Deliveries, Clock(d)
  PROVE  TypeBudget'
<1>1. ASSUME BackoffElapses(d) PROVE TypeBudget'
  <2>1. UNCHANGED <<status, attempts, event, worker>>
    BY <1>1 DEF BackoffElapses, feedVars
  <2>2. UNCHANGED <<cid, stale, expired, config, phase, full, failing, issued, accepted>>
    BY <1>1 DEF BackoffElapses, feedVars, procVars, vendorVars
  <2>3. due' \in [Deliveries -> BOOLEAN]
    BY <1>1 DEF BackoffElapses, TypeBudget, TypeOK
  <2>4. Budget'
    BY <2>1 DEF TypeBudget, Budget
  <2>5. QED BY <2>1, <2>2, <2>3, <2>4 DEF TypeBudget, TypeOK
<1>2. ASSUME ClaimAges(d) PROVE TypeBudget'
  <2>1. UNCHANGED <<status, attempts, event, worker>>
    BY <1>2 DEF ClaimAges, feedVars
  <2>2. UNCHANGED <<cid, due, expired, config, phase, full, failing, issued, accepted>>
    BY <1>2 DEF ClaimAges, feedVars, procVars, vendorVars
  <2>3. stale' \in [Deliveries -> BOOLEAN]
    BY <1>2 DEF ClaimAges, TypeBudget, TypeOK
  <2>4. Budget'
    BY <2>1 DEF TypeBudget, Budget
  <2>5. QED BY <2>1, <2>2, <2>3, <2>4 DEF TypeBudget, TypeOK
<1>3. ASSUME Expires(d) PROVE TypeBudget'
  <2>1. UNCHANGED <<status, attempts, event, worker>>
    BY <1>3 DEF Expires, rowVars
  <2>2. UNCHANGED <<cid, due, stale, config, phase, full, failing, issued, accepted>>
    BY <1>3 DEF Expires, rowVars, procVars, vendorVars
  <2>3. expired' \in [Deliveries -> BOOLEAN]
    BY <1>3 DEF Expires, TypeBudget, TypeOK
  <2>4. Budget'
    BY <2>1 DEF TypeBudget, Budget
  <2>5. QED BY <2>1, <2>2, <2>3, <2>4 DEF TypeBudget, TypeOK
<1>4. QED BY <1>1, <1>2, <1>3 DEF Clock

(* Steps of the controller. *)
LEMMA TypeBudgetControl ==
  ASSUME TypeBudget, NEW p \in Procs, Control(p) \/ Crash(p)
  PROVE  TypeBudget'
<1> USE ConstantsAssumption DEF TypeBudget, TypeOK, Budget, Status, Final, Phase
<1>n. NoWorker \in Worker /\ NoWorker.pc = "none"
  BY DEF NoWorker, Worker, PC
<1>1. ASSUME StartCronTask(p) \/ DispatchDue(p) PROVE TypeBudget'
  <2>1. /\ status' \in [Deliveries -> Status]
        /\ \A d \in Deliveries : \/ status'[d] = status[d]
                                 \/ status[d] = "sending" /\ status'[d] = "pending"
    BY <1>1 DEF StartCronTask, DispatchDue, RecoverStale
  <2>2. stale' \in [Deliveries -> BOOLEAN]
    BY <1>1 DEF StartCronTask, DispatchDue, RecoverStale
  <2>3. phase' \in [Procs -> Phase]
    BY <1>1 DEF StartCronTask, DispatchDue
  <2>4. UNCHANGED <<cid, attempts, due, event, expired, config, full, failing, worker, issued, accepted>>
    BY <1>1 DEF StartCronTask, DispatchDue, feedVars, vendorVars
  <2>5. QED BY <2>1, <2>2, <2>3, <2>4
<1>2. ASSUME ListDue(p) PROVE TypeBudget'
  <2>1. PICK rows \in SUBSET DueRows :
          worker' = [worker EXCEPT ![p] = [d \in Deliveries |-> IF d \in rows THEN RowCopy(d) ELSE NoWorker]]
    BY <1>2 DEF ListDue
  <2>2. \A d \in rows : RowCopy(d) \in Worker /\ RowCopy(d).pc = "listed" /\ RowCopy(d).attempts = attempts[d] /\ attempts[d] < MaxAttempts
    BY DEF RowCopy, NoWorker, Worker, PC, DueRows
  <2>3. worker' \in [Procs -> [Deliveries -> Worker]]
    BY <1>n, <2>1, <2>2
  <2>4. \A d \in Deliveries :
          \/ worker'[p][d].pc = "none"
          \/ worker'[p][d].pc = "listed" /\ worker'[p][d].attempts < MaxAttempts
    BY <1>n, <2>1, <2>2
  <2>5. \A q \in Procs \ {p} : worker'[q] = worker[q]
    BY <2>1
  <2>6. phase' \in [Procs -> Phase] /\ full' \in [Procs -> BOOLEAN]
    BY <1>2 DEF ListDue
  <2>7. UNCHANGED <<status, cid, attempts, due, stale, event, expired, config, failing, issued, accepted>>
    BY <1>2 DEF ListDue, rowVars, feedVars, vendorVars
  <2>8. \A q \in Procs, d \in Deliveries :
          /\ worker'[q][d].pc # "none" => worker'[q][d].attempts < MaxAttempts
          /\ worker'[q][d].pc \in {"savecid", "gate", "push"} => worker'[q][d].cid # NoCID
    <3>1. ASSUME NEW q \in Procs, NEW d \in Deliveries
          PROVE  /\ worker'[q][d].pc # "none" => worker'[q][d].attempts < MaxAttempts
                 /\ worker'[q][d].pc \in {"savecid", "gate", "push"} => worker'[q][d].cid # NoCID
      <4>1. CASE q = p
        BY <2>4, <4>1
      <4>2. CASE q # p
        BY <2>5, <4>2
      <4>3. QED BY <4>1, <4>2
    <3>2. QED BY <3>1
  <2>9. QED BY <2>3, <2>6, <2>7, <2>8
<1>3. ASSUME LoadPushTargets(p) PROVE TypeBudget'
  <2>1. PICK group \in SUBSET Listed(p), withToken \in SUBSET Students :
          worker' = [worker EXCEPT ![p] = [d \in Deliveries |->
                       IF d \in group
                       THEN [worker[p][d] EXCEPT !.pc = "queued",
                                                 !.target = Allows(d) /\ Owner[d] \in withToken]
                       ELSE worker[p][d]]]
    BY <1>3 DEF LoadPushTargets
  <2>2. ASSUME NEW d \in group
        PROVE  LET w == [worker[p][d] EXCEPT !.pc = "queued",
                                             !.target = Allows(d) /\ Owner[d] \in withToken]
               IN  w \in Worker /\ w.attempts < MaxAttempts /\ w.pc = "queued"
    <3>1. d \in Deliveries /\ worker[p][d] \in Worker /\ worker[p][d].pc = "listed"
      BY DEF Listed
    <3>2. worker[p][d].attempts < MaxAttempts
      BY <3>1
    <3>3. (Allows(d) /\ Owner[d] \in withToken) \in BOOLEAN
      BY DEF Allows
    <3>4. QED BY <3>1, <3>2, <3>3 DEF Worker, PC
  <2>3. worker' \in [Procs -> [Deliveries -> Worker]]
    BY <2>1, <2>2
  <2>4. \A q \in Procs, d \in Deliveries :
          /\ worker'[q][d].pc # "none" => worker'[q][d].attempts < MaxAttempts
          /\ worker'[q][d].pc \in {"savecid", "gate", "push"} => worker'[q][d].cid # NoCID
    <3>1. ASSUME NEW q \in Procs, NEW d \in Deliveries
          PROVE  /\ worker'[q][d].pc # "none" => worker'[q][d].attempts < MaxAttempts
                 /\ worker'[q][d].pc \in {"savecid", "gate", "push"} => worker'[q][d].cid # NoCID
      <4>1. CASE q = p /\ d \in group
        <5>1. worker'[q][d].attempts < MaxAttempts /\ worker'[q][d].pc = "queued"
          BY <2>1, <2>2, <4>1
        <5>2. QED BY <5>1
      <4>2. CASE ~(q = p /\ d \in group)
        <5>1. worker'[q][d] = worker[q][d]
          BY <2>1, <4>2
        <5>2. QED BY <5>1
      <4>3. QED BY <4>1, <4>2
    <3>2. QED BY <3>1
  <2>5. QED BY <1>3, <2>3, <2>4 DEF LoadPushTargets, rowVars, feedVars, vendorVars
<1>4. ASSUME NEW ph \in Phase, Leave(p, ph), UNCHANGED <<rowVars, feedVars, vendorVars>>
      PROVE  TypeBudget'
  BY <1>4, <1>n DEF Leave, rowVars, feedVars, vendorVars
<1>5. ASSUME AbortBatch(p) \/ Crash(p) PROVE TypeBudget'
  BY <1>4, <1>5 DEF AbortBatch, Crash
<1>6. ASSUME BatchTimeout(p) PROVE TypeBudget'
  BY <1>6, <1>n DEF BatchTimeout, rowVars, feedVars, vendorVars
<1>7. ASSUME GroupDone(p) PROVE TypeBudget'
  BY <1>4, <1>7 DEF GroupDone, rowVars, feedVars, vendorVars
<1>8. QED BY <1>1, <1>2, <1>3, <1>5, <1>6, <1>7 DEF Control


(* The next attempt is within the budget and exhausts it at the limit only. *)
LEMMA AttemptFacts ==
  ASSUME NEW n \in 0..MaxAttempts, n < MaxAttempts
  PROVE  /\ n + 1 \in 0..MaxAttempts
         /\ Exhausted(n + 1) => n + 1 = MaxAttempts
         /\ ~Exhausted(n + 1) => n + 1 < MaxAttempts
BY ConstantsAssumption DEF Exhausted

(* A worker that goes on changes nothing but its own step. *)
LEMMA GotoFacts ==
  ASSUME TypeOK, NEW p \in Procs, NEW d \in Deliveries, NEW step \in PC, Goto(p, d, step)
  PROVE  /\ worker' \in [Procs -> [Deliveries -> Worker]]
         /\ worker'[p][d].pc = step
         /\ worker'[p][d].cid = worker[p][d].cid
         /\ worker'[p][d].attempts = worker[p][d].attempts
         /\ \A q \in Procs, e \in Deliveries :
              <<q, e>> # <<p, d>> => worker'[q][e] = worker[q][e]
<1>1. worker[p][d] \in Worker
  BY DEF TypeOK
<1>2. DEFINE w == [worker[p][d] EXCEPT !.pc = step]
<1>3. w \in Worker /\ w.pc = step /\ w.cid = worker[p][d].cid /\ w.attempts = worker[p][d].attempts
  BY <1>1 DEF Worker
<1>4. worker' = [worker EXCEPT ![p] = [worker[p] EXCEPT ![d] = w]]
  BY DEF Goto
<1>5. QED BY <1>3, <1>4 DEF TypeOK

(* Steps of one worker. *)
LEMMA TypeBudgetWork ==
  ASSUME TypeBudget, NEW p \in Procs, NEW d \in Deliveries, Work(p, d)
  PROVE  TypeBudget'
<1> USE ConstantsAssumption DEF TypeBudget, TypeOK, Budget, Status, Final
<1>n. NoWorker \in Worker /\ NoWorker.pc = "none"
  BY DEF NoWorker, Worker, PC
<1> DEFINE WorkersOK ==
        /\ worker' \in [Procs -> [Deliveries -> Worker]]
        /\ \A q \in Procs, e \in Deliveries :
             /\ worker'[q][e].pc # "none" => worker'[q][e].attempts < MaxAttempts
             /\ worker'[q][e].pc \in {"savecid", "gate", "push"} => worker'[q][e].cid # NoCID
<1>d. ASSUME Done(p, d) PROVE WorkersOK
  BY <1>d, <1>n DEF Done
<1>g. ASSUME NEW step \in Holding, Goto(p, d, step), worker[p][d].pc # "none",
             step \in {"savecid", "gate", "push"} => worker[p][d].cid # NoCID
      PROVE  WorkersOK
  <2>1. step \in PC
    BY DEF PC
  <2>2. /\ worker' \in [Procs -> [Deliveries -> Worker]]
        /\ worker'[p][d].pc = step
        /\ worker'[p][d].cid = worker[p][d].cid
        /\ worker'[p][d].attempts = worker[p][d].attempts
        /\ \A q \in Procs, e \in Deliveries :
             <<q, e>> # <<p, d>> => worker'[q][e] = worker[q][e]
    BY <1>g, <2>1, GotoFacts
  <2>3. worker'[p][d].attempts < MaxAttempts
    BY <1>g, <2>2
  <2>4. ASSUME NEW q \in Procs, NEW e \in Deliveries
        PROVE  /\ worker'[q][e].pc # "none" => worker'[q][e].attempts < MaxAttempts
               /\ worker'[q][e].pc \in {"savecid", "gate", "push"} => worker'[q][e].cid # NoCID
    <3>1. CASE q = p /\ e = d
      BY <1>g, <2>2, <2>3, <3>1
    <3>2. CASE ~(q = p /\ e = d)
      BY <2>2, <3>2
    <3>3. QED BY <3>1, <3>2
  <2>5. QED BY <2>2, <2>4
<1>f. ASSUME Fails(p) PROVE failing' \in [Procs -> BOOLEAN]
  BY <1>f DEF Fails
<1>h. {"event", "getcid", "savecid", "gate", "push", "sent", "suppress", "retry"} = Holding
  BY DEF Holding
<1>1. ASSUME Claim(p, d) PROVE TypeBudget'
  BY <1>1, <1>d, <1>g, <1>f, <1>h DEF Claim, feedVars, vendorVars
<1>2. ASSUME GetFeedEvent(p, d) PROVE TypeBudget'
  BY <1>2, <1>g, <1>h DEF GetFeedEvent, rowVars, feedVars, procVars, vendorVars
<1>3. ASSUME GetPushCID(p, d) PROVE TypeBudget'
  <2>1. CASE Goto(p, d, "retry") /\ UNCHANGED issued
    BY <1>3, <1>g, <1>h, <2>1 DEF GetPushCID, rowVars, feedVars, procVars, vendorVars
  <2>2. ASSUME NEW c \in CIDs, issued' = issued \cup {c},
               worker' = [worker EXCEPT ![p][d].pc = "savecid", ![p][d].cid = c]
        PROVE TypeBudget'
    <3>1. worker[p][d] \in Worker /\ worker[p][d].attempts < MaxAttempts
      BY <1>3 DEF GetPushCID
    <3>2. DEFINE w == [worker[p][d] EXCEPT !.pc = "savecid", !.cid = c]
    <3>3. w \in Worker /\ w.attempts < MaxAttempts /\ w.cid # NoCID
      BY <3>1, <1>h DEF Worker, PC
    <3>4. worker' = [worker EXCEPT ![p] = [worker[p] EXCEPT ![d] = w]]
      BY <2>2
    <3>5. WorkersOK
      BY <3>3, <3>4
    <3>6. QED BY <1>3, <2>2, <3>5 DEF GetPushCID, rowVars, feedVars, procVars, vendorVars
  <2>3. QED BY <1>3, <2>1, <2>2 DEF GetPushCID
<1>4. ASSUME SaveCID(p, d) PROVE TypeBudget'
  <2>1. worker[p][d].cid \in CIDs \cup {NoCID}
    BY DEF Worker
  <2>2. QED BY <1>4, <1>g, <1>h, <2>1 DEF SaveCID, feedVars, procVars, vendorVars
<1>5. ASSUME GetPushConfig(p, d) PROVE TypeBudget'
  BY <1>5, <1>g, <1>h DEF GetPushConfig, rowVars, feedVars, procVars, vendorVars
<1>6. ASSUME PushPreparedMSGWithCID(p, d) PROVE TypeBudget'
  <2>1. accepted' \in SUBSET (Deliveries \X CIDs)
    <3>1. worker[p][d].cid \in CIDs
      BY <1>6 DEF PushPreparedMSGWithCID, Worker
    <3>2. QED BY <1>6, <3>1 DEF PushPreparedMSGWithCID
  <2>2. QED BY <1>6, <1>g, <1>h, <2>1 DEF PushPreparedMSGWithCID, rowVars, feedVars, procVars
<1>7. ASSUME MarkSent(p, d) \/ MarkSuppressed(p, d) PROVE TypeBudget'
  <2>1. PICK final \in {"sent", "suppressed"} : MarkFinal(p, d, final) /\ worker[p][d].pc # "none"
    BY <1>7 DEF MarkSent, MarkSuppressed
  <2>2. WorkersOK
    BY <2>1, <1>d, <1>g, <1>h DEF MarkFinal
  <2>3. QED BY <2>1, <2>2 DEF MarkFinal, IsClaimed, feedVars, procVars, vendorVars
<1>8. ASSUME MarkRetry(p, d) PROVE TypeBudget'
  <2>1. worker[p][d] \in Worker /\ worker[p][d].attempts < MaxAttempts
    BY <1>8 DEF MarkRetry
  <2>2. /\ NextAttempt(p, d) \in 0..MaxAttempts
        /\ Exhausted(NextAttempt(p, d)) => NextAttempt(p, d) = MaxAttempts
        /\ ~Exhausted(NextAttempt(p, d)) => NextAttempt(p, d) < MaxAttempts
    BY <2>1, AttemptFacts DEF NextAttempt, Worker
  <2>3. /\ failing' \in [Procs -> BOOLEAN]
        /\ UNCHANGED <<cid, stale, event, expired, config, phase, full, issued, accepted>>
    BY <1>8, <1>f DEF MarkRetry, feedVars, vendorVars
  <2>4. WorkersOK
    BY <1>8, <1>d DEF MarkRetry
  <2>5. CASE UNCHANGED <<status, attempts, due>>
    BY <2>3, <2>4, <2>5
  <2>6. CASE /\ IsClaimed(d)
             /\ status' = [status EXCEPT ![d] = IF Exhausted(NextAttempt(p, d)) THEN "failed" ELSE "pending"]
             /\ attempts' = [attempts EXCEPT ![d] = NextAttempt(p, d)]
             /\ due' = [due EXCEPT ![d] = FALSE]
    <3>1. status' \in [Deliveries -> Status] /\ attempts' \in [Deliveries -> 0..MaxAttempts]
          /\ due' \in [Deliveries -> BOOLEAN]
      BY <2>2, <2>6
    <3>2. status[d] = "sending" /\ attempts'[d] = NextAttempt(p, d)
          /\ status'[d] = IF Exhausted(NextAttempt(p, d)) THEN "failed" ELSE "pending"
      BY <2>6 DEF IsClaimed
    <3>3. \A e \in Deliveries \ {d} : status'[e] = status[e] /\ attempts'[e] = attempts[e]
      BY <2>6
    <3>4. \A e \in Deliveries :
            /\ event[e] = "none" => status'[e] = "absent"
            /\ status'[e] \in {"absent", "pending", "sending"} => attempts'[e] < MaxAttempts
            /\ status'[e] = "failed" => attempts'[e] = MaxAttempts
      BY <2>2, <3>2, <3>3
    <3>5. QED BY <2>3, <2>4, <3>1, <3>4
  <2>7. QED BY <1>8, <2>5, <2>6 DEF MarkRetry
<1>9. QED BY <1>1, <1>2, <1>3, <1>4, <1>5, <1>6, <1>7, <1>8 DEF Work

LEMMA TypeBudgetInvariant == Spec => []TypeBudget
<1>1. TypeBudget /\ [Next]_vars => TypeBudget'
  <2>1. SUFFICES ASSUME TypeBudget, [Next]_vars PROVE TypeBudget'
    OBVIOUS
  <2>2. CASE UNCHANGED vars
    BY <2>1, <2>2 DEF TypeBudget, TypeOK, Budget, vars, rowVars, feedVars, procVars, vendorVars
  <2>3. CASE Next
    <3>1. ASSUME NEW p \in Procs, NEW d \in Deliveries, Work(p, d) PROVE TypeBudget'
      BY <2>1, <3>1, TypeBudgetWork
    <3>2. ASSUME NEW p \in Procs, Control(p) \/ Crash(p) PROVE TypeBudget'
      BY <2>1, <3>2, TypeBudgetControl
    <3>3. ASSUME NEW d \in Deliveries, Clock(d) PROVE TypeBudget'
      BY <2>1, <3>3, TypeBudgetClock
    <3>4. ASSUME NEW s \in Students, Student(s) PROVE TypeBudget'
      BY <2>1, <3>4, TypeBudgetStudent
    <3>5. ASSUME NEW D \in SUBSET Deliveries, StoreFeedEvents(D) PROVE TypeBudget'
      BY <2>1, <3>5, TypeBudgetStore
    <3>6. QED BY <2>3, <3>1, <3>2, <3>3, <3>4, <3>5 DEF Next
  <2>4. QED BY <2>1, <2>2, <2>3
<1>2. QED BY TypeBudgetInit, <1>1, PTL DEF Spec

(* Types are respected, a row fails exactly when its counted attempts are  *)
(* used up, and no copy, however old, has none left to count from.         *)
THEOREM TypeAndBudget == Spec => [](TypeOK /\ BudgetRespected)
<1>1. TypeBudget => TypeOK /\ BudgetRespected
  BY DEF TypeBudget, Budget, BudgetRespected
<1>2. QED BY TypeBudgetInvariant, <1>1, PTL

-----------------------------------------------------------------------------
(* The identifier of a delivery.  A copy that is still to be checked holds *)
(* the row's identifier or none; a worker about to push holds exactly the  *)
(* row's; and a row keeps its identifier, because only an empty one is     *)
(* written.                                                                *)
WorkerCID(p, d) ==
  LET w == worker[p][d]
  IN /\ w.pc \in {"listed", "queued", "event"} => w.cid \in {NoCID, cid[d]}
     /\ w.pc \in {"gate", "push", "sent"} => w.cid = cid[d]
     /\ w.pc = "sent" => <<d, cid[d]>> \in accepted

RowCID(d) ==
  /\ status[d] = "sent" => <<d, cid[d]>> \in accepted
  /\ \A c \in CIDs : <<d, c>> \in accepted => c = cid[d]

CIDInv ==
  /\ \A d \in Deliveries : RowCID(d)
  /\ \A p \in Procs, d \in Deliveries : WorkerCID(p, d)

(* A step that leaves identifiers and pushes alone and makes no row sent.  *)
LEMMA CIDKept ==
  ASSUME CIDInv, UNCHANGED <<cid, accepted>>,
         \A d \in Deliveries : status'[d] = "sent" => status[d] = "sent",
         \A p \in Procs, d \in Deliveries :
           \/ worker'[p][d] = worker[p][d]
           \/ worker'[p][d].pc = "none"
  PROVE  CIDInv'
BY DEF CIDInv, RowCID, WorkerCID

(* A worker that goes on: the row keeps what it has, and what the new step *)
(* requires of the worker holds already.                                   *)
LEMMA CIDGoto ==
  ASSUME TypeBudget, CIDInv, NEW p \in Procs, NEW d \in Deliveries, NEW step \in PC,
         Goto(p, d, step),
         \A e \in Deliveries : cid'[e] = cid[e] \/ cid[e] = NoCID,
         accepted \subseteq accepted',
         \A e \in Deliveries : RowCID(e)',
         step \in {"listed", "queued", "event"} => worker[p][d].cid \in {NoCID, cid'[d]},
         step \in {"gate", "push", "sent"} => worker[p][d].cid = cid'[d],
         step = "sent" => <<d, cid'[d]>> \in accepted'
  PROVE  CIDInv'
<1>1. /\ worker'[p][d].pc = step
      /\ worker'[p][d].cid = worker[p][d].cid
      /\ \A q \in Procs, e \in Deliveries :
              <<q, e>> # <<p, d>> => worker'[q][e] = worker[q][e]
  BY GotoFacts DEF TypeBudget
<1>2. WorkerCID(p, d)'
  BY <1>1 DEF WorkerCID
<1>3. ASSUME NEW q \in Procs, NEW e \in Deliveries, ~(q = p /\ e = d)
      PROVE  WorkerCID(q, e)'
  <2>1. worker'[q][e] = worker[q][e]
    BY <1>1, <1>3
  <2>2. WorkerCID(q, e) /\ RowCID(e)
    BY DEF CIDInv
  <2>3. worker[q][e].pc \in {"gate", "push"} => worker[q][e].cid # NoCID
    BY DEF TypeBudget, Budget
  <2>4. worker[q][e].pc = "sent" => cid[e] # NoCID
    BY <2>2, ConstantsAssumption DEF WorkerCID, TypeBudget, TypeOK
  <2>5. QED BY <2>1, <2>2, <2>3, <2>4 DEF WorkerCID
<1>4. \A q \in Procs, e \in Deliveries : WorkerCID(q, e)'
  BY <1>2, <1>3
<1>5. QED BY <1>4 DEF CIDInv

LEMMA CIDWork ==
  ASSUME TypeBudget, CIDInv, NEW p \in Procs, NEW d \in Deliveries, Work(p, d)
  PROVE  CIDInv'
<1>h. {"event", "getcid", "savecid", "gate", "push", "sent", "suppress", "retry"} \subseteq PC
  BY DEF PC, Holding
<1>r. /\ \A e \in Deliveries : RowCID(e)
      /\ WorkerCID(p, d)
  BY DEF CIDInv
<1>d. ASSUME Done(p, d) PROVE
        \A q \in Procs, e \in Deliveries :
           worker'[q][e] = worker[q][e] \/ worker'[q][e].pc = "none"
  BY <1>d DEF Done, NoWorker, TypeBudget, TypeOK
<1>1. ASSUME Claim(p, d) PROVE CIDInv'
  <2>1. UNCHANGED <<cid, accepted>> /\ \A e \in Deliveries : status'[e] = "sent" => status[e] = "sent"
    BY <1>1 DEF Claim, vendorVars, TypeBudget, TypeOK
  <2>2. CASE Done(p, d)
    BY <1>d, <2>1, <2>2, CIDKept
  <2>3. CASE Goto(p, d, "event")
    <3>1. \A e \in Deliveries : RowCID(e)'
      BY <1>r, <2>1 DEF RowCID
    <3>2. worker[p][d].cid \in {NoCID, cid[d]}
      BY <1>1, <1>r DEF Claim, WorkerCID
    <3>3. QED BY <1>h, <2>1, <2>3, <3>1, <3>2, CIDGoto
  <2>4. QED BY <1>1, <2>2, <2>3 DEF Claim
<1>2. ASSUME GetFeedEvent(p, d) PROVE CIDInv'
  <2>1. UNCHANGED <<status, cid, accepted>>
    BY <1>2 DEF GetFeedEvent, rowVars, vendorVars
  <2>2. \A e \in Deliveries : RowCID(e)'
    BY <1>r, <2>1 DEF RowCID
  <2>3. worker[p][d].cid \in {NoCID, cid[d]}
    BY <1>2, <1>r DEF GetFeedEvent, WorkerCID
  <2>4. PICK step \in {"suppress", "getcid", "gate", "retry"} :
          Goto(p, d, step) /\ (step = "gate" => worker[p][d].cid # NoCID)
    BY <1>2 DEF GetFeedEvent
  <2>5. QED BY <1>h, <2>1, <2>2, <2>3, <2>4, CIDGoto
<1>3. ASSUME GetPushCID(p, d) PROVE CIDInv'
  <2>1. UNCHANGED <<status, cid, accepted>>
    BY <1>3 DEF GetPushCID, rowVars
  <2>2. \A e \in Deliveries : RowCID(e)'
    BY <1>r, <2>1 DEF RowCID
  <2>3. CASE Goto(p, d, "retry")
    BY <1>h, <2>1, <2>2, <2>3, CIDGoto
  <2>4. CASE \E c \in CIDs : worker' = [worker EXCEPT ![p][d].pc = "savecid", ![p][d].cid = c]
    <3>1. worker'[p][d].pc = "savecid"
      BY <2>4 DEF TypeBudget, TypeOK, Worker
    <3>2. \A q \in Procs, e \in Deliveries : ~(q = p /\ e = d) => worker'[q][e] = worker[q][e]
      BY <2>4 DEF TypeBudget, TypeOK
    <3>3. \A q \in Procs, e \in Deliveries : WorkerCID(q, e)'
      BY <2>1, <3>1, <3>2 DEF CIDInv, WorkerCID
    <3>4. QED BY <2>2, <3>3 DEF CIDInv
  <2>5. QED BY <1>3, <2>3, <2>4 DEF GetPushCID
<1>4. ASSUME SaveCID(p, d) PROVE CIDInv'
  <2>1. UNCHANGED <<status, accepted>>
    BY <1>4 DEF SaveCID, vendorVars
  <2>2. CASE UNCHANGED cid /\ Goto(p, d, "retry")
    <3>1. \A e \in Deliveries : RowCID(e)'
      BY <1>r, <2>1, <2>2 DEF RowCID
    <3>2. QED BY <1>h, <2>1, <2>2, <3>1, CIDGoto
  <2>3. CASE CanSaveCID(d) /\ cid' = [cid EXCEPT ![d] = worker[p][d].cid]
    <3>1. /\ cid[d] = NoCID
          /\ cid'[d] = worker[p][d].cid
          /\ \A e \in Deliveries : e # d => cid'[e] = cid[e]
      BY <2>3 DEF CanSaveCID, TypeBudget, TypeOK
    <3>2. \A c \in CIDs : <<d, c>> \notin accepted
      BY <1>r, <3>1, ConstantsAssumption DEF RowCID
    <3>3. status[d] # "sent"
      BY <2>3 DEF CanSaveCID
    <3>4. \A e \in Deliveries : RowCID(e)'
      BY <1>r, <2>1, <3>1, <3>2, <3>3 DEF RowCID
    <3>5. PICK step \in {"gate", "retry"} : Goto(p, d, step)
      BY <1>4, <2>3 DEF SaveCID
    <3>6. QED BY <1>h, <2>1, <3>1, <3>4, <3>5, CIDGoto
  <2>4. QED BY <1>4, <2>2, <2>3 DEF SaveCID
<1>5. ASSUME GetPushConfig(p, d) PROVE CIDInv'
  <2>1. UNCHANGED <<status, cid, accepted>>
    BY <1>5 DEF GetPushConfig, rowVars, vendorVars
  <2>2. \A e \in Deliveries : RowCID(e)'
    BY <1>r, <2>1 DEF RowCID
  <2>3. worker[p][d].cid = cid[d]
    BY <1>5, <1>r DEF GetPushConfig, WorkerCID
  <2>4. PICK step \in {"push", "suppress", "retry"} : Goto(p, d, step)
    BY <1>5 DEF GetPushConfig
  <2>5. QED BY <1>h, <2>1, <2>2, <2>3, <2>4, CIDGoto
<1>6. ASSUME PushPreparedMSGWithCID(p, d) PROVE CIDInv'
  <2>1. UNCHANGED <<status, cid>> /\ worker[p][d].cid = cid[d]
    BY <1>6, <1>r DEF PushPreparedMSGWithCID, rowVars, WorkerCID
  <2>2. accepted' = accepted \/ accepted' = accepted \cup {<<d, cid[d]>>}
    BY <1>6, <2>1 DEF PushPreparedMSGWithCID
  <2>3. \A e \in Deliveries : RowCID(e)'
    BY <1>r, <2>1, <2>2 DEF RowCID
  <2>4. PICK step \in {"sent", "retry", "suppress"} :
          Goto(p, d, step) /\ (step = "sent" => <<d, cid[d]>> \in accepted')
    BY <1>6, <2>1 DEF PushPreparedMSGWithCID
  <2>5. QED BY <1>h, <2>1, <2>2, <2>3, <2>4, CIDGoto
<1>7. ASSUME NEW final \in {"sent", "suppressed"}, MarkFinal(p, d, final),
             final = "sent" => worker[p][d].pc = "sent"
      PROVE  CIDInv'
  <2>1. UNCHANGED <<cid, accepted>>
    BY <1>7 DEF MarkFinal, vendorVars
  <2>2. \A e \in Deliveries : status'[e] = "sent" => status[e] = "sent" \/ (e = d /\ final = "sent")
    BY <1>7 DEF MarkFinal, TypeBudget, TypeOK
  <2>3. \A e \in Deliveries : RowCID(e)'
    BY <1>r, <1>7, <2>1, <2>2 DEF RowCID, WorkerCID
  <2>4. CASE Goto(p, d, "retry")
    BY <1>h, <2>1, <2>3, <2>4, CIDGoto
  <2>5. CASE Done(p, d)
    BY <1>d, <2>1, <2>3, <2>5 DEF CIDInv, WorkerCID
  <2>6. QED BY <1>7, <2>4, <2>5 DEF MarkFinal
<1>8. ASSUME MarkRetry(p, d) PROVE CIDInv'
  <2>1. UNCHANGED <<cid, accepted>> /\ \A e \in Deliveries : status'[e] = "sent" => status[e] = "sent"
    BY <1>8 DEF MarkRetry, vendorVars, TypeBudget, TypeOK
  <2>2. QED BY <1>8, <1>d, <2>1, CIDKept DEF MarkRetry
<1>9. QED
  BY <1>1, <1>2, <1>3, <1>4, <1>5, <1>6, <1>7, <1>8 DEF Work, MarkSent, MarkSuppressed

LEMMA CIDControl ==
  ASSUME TypeBudget, CIDInv, NEW p \in Procs, Control(p) \/ Crash(p)
  PROVE  CIDInv'
<1>1. CASE StartCronTask(p) \/ DispatchDue(p)
  <2>1. UNCHANGED <<cid, accepted, worker>> /\ \A d \in Deliveries : status'[d] = "sent" => status[d] = "sent"
    BY <1>1 DEF StartCronTask, DispatchDue, RecoverStale, vendorVars
  <2>2. QED BY <2>1, CIDKept
<1>2. CASE ListDue(p)
  <2>1. UNCHANGED <<status, cid, accepted>>
    BY <1>2 DEF ListDue, rowVars, vendorVars
  <2>2. \A d \in Deliveries : worker'[p][d].pc = "none" \/ (worker'[p][d].pc = "listed" /\ worker'[p][d].cid = cid[d])
    <3>1. worker \in [Procs -> [Deliveries -> Worker]]
      BY DEF TypeBudget, TypeOK
    <3>2. PICK rows \in SUBSET DueRows :
            worker' = [worker EXCEPT ![p] = [d \in Deliveries |-> IF d \in rows THEN RowCopy(d) ELSE NoWorker]]
      BY <1>2 DEF ListDue
    <3>3. \A d \in Deliveries : worker'[p][d] = IF d \in rows THEN RowCopy(d) ELSE NoWorker
      BY <3>1, <3>2
    <3>4. \A d \in Deliveries : RowCopy(d).pc = "listed" /\ RowCopy(d).cid = cid[d] /\ NoWorker.pc = "none"
      BY DEF RowCopy, NoWorker
    <3>5. QED BY <3>3, <3>4
  <2>3. \A q \in Procs \ {p} : worker'[q] = worker[q]
    BY <1>2 DEF ListDue, TypeBudget, TypeOK
  <2>4. QED BY <2>1, <2>2, <2>3 DEF CIDInv, RowCID, WorkerCID
<1>3. CASE LoadPushTargets(p)
  <2>1. UNCHANGED <<status, cid, accepted>>
    BY <1>3 DEF LoadPushTargets, rowVars, vendorVars
  <2>2. \A d \in Deliveries : \/ worker'[p][d] = worker[p][d]
                              \/ /\ worker[p][d].pc = "listed"
                                 /\ worker'[p][d].pc = "queued"
                                 /\ worker'[p][d].cid = worker[p][d].cid
    <3>1. worker \in [Procs -> [Deliveries -> Worker]]
      BY DEF TypeBudget, TypeOK
    <3>2. PICK group \in SUBSET Listed(p), withToken \in SUBSET Students :
            worker' = [worker EXCEPT ![p] = [d \in Deliveries |->
                         IF d \in group
                         THEN [worker[p][d] EXCEPT !.pc = "queued",
                                                   !.target = Allows(d) /\ Owner[d] \in withToken]
                         ELSE worker[p][d]]]
      BY <1>3 DEF LoadPushTargets
    <3>3. ASSUME NEW d \in group
          PROVE  /\ worker[p][d].pc = "listed"
                 /\ worker'[p][d].pc = "queued"
                 /\ worker'[p][d].cid = worker[p][d].cid
      <4>1. d \in Deliveries /\ worker[p][d].pc = "listed" /\ worker[p][d] \in Worker
        BY <3>1 DEF Listed
      <4>2. worker'[p][d] = [worker[p][d] EXCEPT !.pc = "queued",
                                                 !.target = Allows(d) /\ Owner[d] \in withToken]
        BY <3>1, <3>2, <4>1
      <4>3. QED BY <4>1, <4>2 DEF Worker
    <3>4. \A d \in Deliveries \ group : worker'[p][d] = worker[p][d]
      BY <3>1, <3>2
    <3>5. QED BY <3>3, <3>4
  <2>3. \A q \in Procs \ {p} : worker'[q] = worker[q]
    BY <1>3 DEF LoadPushTargets, TypeBudget, TypeOK
  <2>4. QED BY <2>1, <2>2, <2>3 DEF CIDInv, RowCID, WorkerCID
<1>4. ASSUME NEW ph, Leave(p, ph), UNCHANGED <<rowVars, vendorVars>> PROVE CIDInv'
  <2>1. \A q \in Procs, d \in Deliveries : worker'[q][d] = worker[q][d] \/ worker'[q][d].pc = "none"
    BY <1>4 DEF Leave, NoWorker, TypeBudget, TypeOK
  <2>2. QED BY <1>4, <2>1, CIDKept DEF rowVars, vendorVars
<1>5. CASE BatchTimeout(p)
  <2>1. \A q \in Procs, d \in Deliveries : worker'[q][d] = worker[q][d] \/ worker'[q][d].pc = "none"
    BY <1>5 DEF BatchTimeout, NoWorker, TypeBudget, TypeOK
  <2>2. QED BY <1>5, <2>1, CIDKept DEF BatchTimeout, rowVars, vendorVars
<1>6. CASE GroupDone(p)
  <2>1. CASE UNCHANGED worker
    BY <1>6, <2>1, CIDKept DEF GroupDone, rowVars, vendorVars
  <2>2. QED BY <1>4, <1>6, <2>1 DEF GroupDone
<1>7. QED BY <1>1, <1>2, <1>3, <1>4, <1>5, <1>6 DEF Control, AbortBatch, Crash

LEMMA CIDInvariant == Spec => []CIDInv
<1>1. Init => CIDInv
  BY DEF Init, CIDInv, RowCID, WorkerCID, NoWorker
<1>2. TypeBudget /\ CIDInv /\ [Next]_vars => CIDInv'
  <2>1. SUFFICES ASSUME TypeBudget, CIDInv, [Next]_vars PROVE CIDInv'
    OBVIOUS
  <2>2. ASSUME UNCHANGED <<cid, accepted, worker>>,
               \A d \in Deliveries : status'[d] = "sent" => status[d] = "sent"
        PROVE  CIDInv'
    BY <2>1, <2>2, CIDKept
  <2>3. CASE UNCHANGED vars
    BY <2>2, <2>3 DEF vars, rowVars, vendorVars
  <2>4. ASSUME NEW p \in Procs, NEW d \in Deliveries, Work(p, d) PROVE CIDInv'
    BY <2>1, <2>4, CIDWork
  <2>5. ASSUME NEW p \in Procs, Control(p) \/ Crash(p) PROVE CIDInv'
    BY <2>1, <2>5, CIDControl
  <2>6. ASSUME NEW d \in Deliveries, Clock(d) PROVE CIDInv'
    BY <2>2, <2>6 DEF Clock, BackoffElapses, ClaimAges, Expires, rowVars, vendorVars
  <2>7. ASSUME NEW s \in Students, Student(s) PROVE CIDInv'
    BY <2>2, <2>7 DEF Student, FindOrCreateUserFeedConfig, RemoveFeedEvent, ChangeConfigBits, rowVars, vendorVars
  <2>8. ASSUME NEW D \in SUBSET Deliveries, StoreFeedEvents(D) PROVE CIDInv'
    BY <2>2, <2>8 DEF StoreFeedEvents, vendorVars
  <2>9. QED BY <2>1, <2>3, <2>4, <2>5, <2>6, <2>7, <2>8 DEF Next
<1>3. QED BY <1>1, <1>2, TypeBudgetInvariant, PTL DEF Spec

(* Whatever crashes, lost answers, recoveries and racing claimers do, the  *)
(* vendor sees one identifier per delivery, the one in the row, and a row  *)
(* says sent only if the vendor accepted it.                               *)
THEOREM PushedUnderOneCID == Spec => [](OneCIDPerDelivery /\ SentWasShown)
<1>1. TypeBudget /\ CIDInv => OneCIDPerDelivery
  <2>1. SUFFICES ASSUME TypeBudget, CIDInv, NEW x \in accepted PROVE x[2] = cid[x[1]]
    BY DEF OneCIDPerDelivery
  <2>2. PICK d \in Deliveries, c \in CIDs : x = <<d, c>>
    <3>1. accepted \in SUBSET (Deliveries \X CIDs)
      BY <2>1 DEF TypeBudget, TypeOK
    <3>2. x \in Deliveries \X CIDs
      BY <2>1, <3>1
    <3>3. QED BY <3>2
  <2>3. RowCID(d)
    BY <2>1 DEF CIDInv
  <2>4. QED BY <2>1, <2>2, <2>3 DEF RowCID
<1>2. TypeBudget /\ CIDInv => SentWasShown
  <2>1. SUFFICES ASSUME TypeBudget, CIDInv, NEW d \in Deliveries, status[d] = "sent"
                 PROVE  \E c \in CIDs : <<d, c>> \in accepted
    BY DEF SentWasShown
  <2>2. <<d, cid[d]>> \in accepted
    <3>1. RowCID(d)
      BY <2>1 DEF CIDInv
    <3>2. QED BY <2>1, <3>1 DEF RowCID
  <2>3. cid[d] \in CIDs
    <3>1. accepted \in SUBSET (Deliveries \X CIDs)
      BY <2>1 DEF TypeBudget, TypeOK
    <3>2. <<d, cid[d]>> \in Deliveries \X CIDs
      BY <2>2, <3>1
    <3>3. QED BY <3>2
  <2>4. QED BY <2>2, <2>3
<1>3. QED BY <1>1, <1>2, TypeBudgetInvariant, CIDInvariant, PTL

-----------------------------------------------------------------------------
(* A settled row keeps its status in every step of every process. *)
THEOREM SettledForGood == Spec => SettlesOnce
<1>1. TypeBudget /\ [Next]_vars => \A d \in Deliveries : status[d] \in Final => status'[d] = status[d]
  <2>1. SUFFICES ASSUME TypeBudget, [Next]_vars, NEW e \in Deliveries, status[e] \in Final
                 PROVE  status'[e] = status[e]
    OBVIOUS
  <2>2. /\ status \in [Deliveries -> Status]
        /\ status[e] \notin {"absent", "pending", "sending"}
        /\ event[e] # "none"
    BY <2>1 DEF TypeBudget, TypeOK, Budget, Final
  <2>3. CASE UNCHANGED vars
    BY <2>3 DEF vars, rowVars
  <2>4. ASSUME NEW p \in Procs, NEW d \in Deliveries, Work(p, d) PROVE status'[e] = status[e]
    BY <2>2, <2>4
       DEF Work, Claim, GetFeedEvent, GetPushCID, SaveCID, GetPushConfig, PushPreparedMSGWithCID,
           MarkSent, MarkSuppressed, MarkFinal, MarkRetry, IsClaimed, rowVars
  <2>5. ASSUME NEW p \in Procs, Control(p) \/ Crash(p) PROVE status'[e] = status[e]
    BY <2>2, <2>5
       DEF Control, Crash, StartCronTask, DispatchDue, RecoverStale, ListDue, LoadPushTargets,
           AbortBatch, BatchTimeout, GroupDone, rowVars
  <2>6. ASSUME NEW d \in Deliveries, Clock(d) PROVE status'[e] = status[e]
    BY <2>6 DEF Clock, BackoffElapses, ClaimAges, Expires, rowVars
  <2>7. ASSUME NEW s \in Students, Student(s) PROVE status'[e] = status[e]
    BY <2>2, <2>7 DEF Student, FindOrCreateUserFeedConfig, RemoveFeedEvent, ChangeConfigBits, ClosesRow, rowVars
  <2>8. ASSUME NEW D \in SUBSET Deliveries, StoreFeedEvents(D) PROVE status'[e] = status[e]
    BY <2>2, <2>8 DEF StoreFeedEvents
  <2>9. QED BY <2>1, <2>3, <2>4, <2>5, <2>6, <2>7, <2>8 DEF Next
<1>2. QED BY <1>1, TypeBudgetInvariant, PTL DEF Spec, SettlesOnce

-----------------------------------------------------------------------------
(* The steps that can bring a worker to push, or the vendor to accept. *)
LEMMA PushSteps ==
  ASSUME TypeBudget, [Next]_vars, NEW p \in Procs, NEW d \in Deliveries, ~Pushing(p, d), Pushing(p, d)'
  PROVE  Allows(d)
<1>t. worker \in [Procs -> [Deliveries -> Worker]]
  BY DEF TypeBudget, TypeOK
<1>1. ASSUME NEW q \in Procs, NEW e \in Deliveries, NEW step, Goto(q, e, step)
      PROVE  q = p /\ e = d /\ step = "push"
  BY <1>1, <1>t DEF Goto, Pushing, Worker
<1>2. ASSUME NEW q \in Procs, NEW e \in Deliveries, Done(q, e) PROVE FALSE
  BY <1>2, <1>t DEF Done, NoWorker, Pushing
<1>3. ASSUME NEW q \in Procs, NEW next, Leave(q, next) PROVE FALSE
  BY <1>3, <1>t DEF Leave, NoWorker, Pushing
<1>4. ASSUME worker' = worker PROVE FALSE
  BY <1>4 DEF Pushing
<1>5. CASE UNCHANGED vars
  BY <1>4, <1>5 DEF vars
<1>6. ASSUME NEW q \in Procs, NEW e \in Deliveries, Work(q, e) PROVE Allows(d)
  <2>1. CASE Claim(q, e)
    BY <1>1, <1>2, <2>1 DEF Claim
  <2>2. CASE GetFeedEvent(q, e)
    BY <1>1, <2>2 DEF GetFeedEvent
  <2>3. CASE GetPushCID(q, e)
    <3>1. ASSUME NEW c \in CIDs, worker' = [worker EXCEPT ![q][e].pc = "savecid", ![q][e].cid = c]
          PROVE  FALSE
      BY <3>1, <1>t DEF Pushing, Worker
    <3> QED BY <1>1, <2>3, <3>1 DEF GetPushCID
  <2>4. CASE SaveCID(q, e)
    BY <1>1, <2>4 DEF SaveCID
  <2>5. CASE GetPushConfig(q, e)
    BY <1>1, <2>5 DEF GetPushConfig
  <2>6. CASE PushPreparedMSGWithCID(q, e)
    BY <1>1, <2>6 DEF PushPreparedMSGWithCID
  <2>7. CASE MarkSent(q, e) \/ MarkSuppressed(q, e)
    BY <1>1, <1>2, <2>7 DEF MarkSent, MarkSuppressed, MarkFinal
  <2>8. CASE MarkRetry(q, e)
    BY <1>2, <2>8 DEF MarkRetry
  <2> QED BY <1>6, <2>1, <2>2, <2>3, <2>4, <2>5, <2>6, <2>7, <2>8 DEF Work
<1>7. ASSUME NEW q \in Procs, Control(q) \/ Crash(q) PROVE Allows(d)
  <2>1. CASE StartCronTask(q) \/ DispatchDue(q)
    BY <1>4, <2>1 DEF StartCronTask, DispatchDue
  <2>2. CASE ListDue(q)
    BY <1>t, <2>2, CopyStage DEF ListDue, Pushing
  <2>3. CASE LoadPushTargets(q)
    <3>1. PICK group \in SUBSET Listed(q), withToken \in SUBSET Students :
            worker' = [worker EXCEPT ![q] = [e \in Deliveries |->
                       IF e \in group
                       THEN [worker[q][e] EXCEPT !.pc = "queued",
                                                 !.target = Allows(e) /\ Owner[e] \in withToken]
                       ELSE worker[q][e]]]
      BY <2>3 DEF LoadPushTargets
    <3>2. worker'[p][d].pc \in {"queued", worker[p][d].pc}
      <4>1. q # p => worker'[p] = worker[p]
        BY <1>t, <3>1
      <4>2. q = p => worker'[p][d] = IF d \in group
                     THEN [worker[p][d] EXCEPT !.pc = "queued",
                                               !.target = Allows(d) /\ Owner[d] \in withToken]
                     ELSE worker[p][d]
        BY <1>t, <3>1
      <4>3. worker[p][d] \in Worker
        BY <1>t
      <4> HIDE DEF Worker
      <4> QED BY <4>1, <4>2, <4>3 DEF Worker
    <3> QED BY <3>2 DEF Pushing
  <2>4. CASE AbortBatch(q) \/ Crash(q)
    BY <1>3, <2>4 DEF AbortBatch, Crash
  <2>5. CASE BatchTimeout(q)
    BY <1>t, <2>5 DEF BatchTimeout, NoWorker, Pushing
  <2>6. CASE GroupDone(q)
    BY <1>3, <1>4, <2>6 DEF GroupDone
  <2> QED BY <1>7, <2>1, <2>2, <2>3, <2>4, <2>5, <2>6 DEF Control
<1>8. ASSUME NEW e \in Deliveries, Clock(e) PROVE Allows(d)
  BY <1>4, <1>8 DEF Clock, BackoffElapses, ClaimAges, Expires
<1>9. ASSUME NEW s \in Students, Student(s) PROVE Allows(d)
  BY <1>4, <1>9 DEF Student, FindOrCreateUserFeedConfig, RemoveFeedEvent, ChangeConfigBits
<1>10. ASSUME NEW D \in SUBSET Deliveries, StoreFeedEvents(D) PROVE Allows(d)
  BY <1>4, <1>10 DEF StoreFeedEvents
<1> QED BY <1>5, <1>6, <1>7, <1>8, <1>9, <1>10 DEF Next

LEMMA AcceptSteps ==
  ASSUME [Next]_vars, NEW d \in Deliveries, NEW c \in CIDs, <<d, c>> \notin accepted, <<d, c>> \in accepted'
  PROVE  \E p \in Procs : Pushing(p, d)
<1>1. accepted' # accepted
  OBVIOUS
<1>2. ~UNCHANGED vars
  BY <1>1 DEF vars, vendorVars
<1>3. ASSUME NEW q \in Procs, NEW e \in Deliveries, Work(q, e) PROVE Pushing(q, e) /\ e = d
  <2>1. PushPreparedMSGWithCID(q, e)
    BY <1>1, <1>3
       DEF Work, Claim, GetFeedEvent, GetPushCID, SaveCID, GetPushConfig, MarkSent, MarkSuppressed,
           MarkFinal, MarkRetry, vendorVars
  <2>2. accepted' = accepted \cup {<<e, worker[q][e].cid>>} /\ Pushing(q, e)
    BY <1>1, <2>1 DEF PushPreparedMSGWithCID, Pushing
  <2> QED BY <2>2
<1>4. ASSUME NEW q \in Procs, Control(q) \/ Crash(q) PROVE FALSE
  BY <1>1, <1>4
     DEF Control, Crash, StartCronTask, DispatchDue, ListDue, LoadPushTargets, AbortBatch,
         BatchTimeout, GroupDone, vendorVars
<1>5. ASSUME NEW e \in Deliveries, Clock(e) PROVE FALSE
  BY <1>1, <1>5 DEF Clock, BackoffElapses, ClaimAges, Expires, vendorVars
<1>6. ASSUME NEW s \in Students, Student(s) PROVE FALSE
  BY <1>1, <1>6 DEF Student, FindOrCreateUserFeedConfig, RemoveFeedEvent, ChangeConfigBits, vendorVars
<1>7. ASSUME NEW D \in SUBSET Deliveries, StoreFeedEvents(D) PROVE FALSE
  BY <1>1, <1>7 DEF StoreFeedEvents, vendorVars
<1> QED BY <1>2, <1>3, <1>4, <1>5, <1>6, <1>7 DEF Next

(* However rows are claimed, retried and recovered, nobody comes to push a *)
(* delivery of a closed type, whatever the group's snapshot says: only who *)
(* was about to push when the type was closed still does.                  *)
THEOREM ClosedTypesStayQuiet == Spec => ClosedIsNotPushed
<1> DEFINE Quiet ==
      \A d \in Deliveries :
        ~Allows(d) /\ (\A p \in Procs : ~Pushing(p, d)) =>
          /\ \A c \in CIDs : <<d, c>> \in accepted' => <<d, c>> \in accepted
          /\ Allows(d)' \/ \A p \in Procs : ~Pushing(p, d)'
<1>1. TypeBudget /\ [Next]_vars => Quiet
  BY PushSteps, AcceptSteps
<1> QED BY <1>1, TypeBudgetInvariant, PTL DEF Spec, ClosedIsNotPushed

-----------------------------------------------------------------------------
(* What the recovery timeout buys: when no delivery outlives it (~Overrun),  *)
(* claims are exclusive although the row does not name its claimer.          *)

(* A held row is being sent, except that a worker on its way to MarkRetry  *)
(* may have settled it without knowing; only rows nobody holds grow stale. *)
Held(p, d) == worker[p][d].pc \in Holding

ClaimInv ==
  \A d \in Deliveries, p \in Procs :
    Held(p, d) =>
      /\ status[d] \in {"sending"} \cup Final
      /\ worker[p][d].pc # "retry" => status[d] = "sending"
      /\ status[d] = "sending" => ~stale[d]
      /\ \A q \in Procs : Held(q, d) => q = p

(* Steps that give no row a holder and take no held row out of sending. *)
LEMMA ClaimKept ==
  ASSUME ClaimInv,
         \A p \in Procs, d \in Deliveries :
           Held(p, d)' => /\ Held(p, d)
                          /\ worker'[p][d].pc = worker[p][d].pc
                          /\ status'[d] = status[d]
                          /\ stale'[d] => stale[d]
  PROVE  ClaimInv'
BY DEF ClaimInv

(* A worker that goes on holds the row as before. *)
LEMMA ClaimGoto ==
  ASSUME TypeBudget, ClaimInv, NEW p \in Procs, NEW d \in Deliveries, Held(p, d),
         NEW step \in Holding, Goto(p, d, step),
         \A e \in Deliveries : e # d => status'[e] = status[e],
         \A e \in Deliveries : stale'[e] => stale[e],
         status'[d] \in {"sending"} \cup Final,
         status'[d] = "sending" => status[d] = "sending",
         step # "retry" => status'[d] = "sending"
  PROVE  ClaimInv'
<1>1. /\ worker'[p][d].pc = step
      /\ \A q \in Procs, e \in Deliveries :
           <<q, e>> # <<p, d>> => worker'[q][e] = worker[q][e]
  BY GotoFacts DEF TypeBudget, PC
<1>2. \A q \in Procs : q # p => ~Held(q, d)
  BY DEF ClaimInv
<1>3. \A q \in Procs, e \in Deliveries : Held(q, e)' => Held(q, e)
  BY <1>1 DEF Held
<1>4. \A q \in Procs, e \in Deliveries : e # d => worker'[q][e] = worker[q][e]
  BY <1>1
<1>5. ASSUME NEW e \in Deliveries, NEW q \in Procs, Held(q, e)'
      PROVE  /\ status'[e] \in {"sending"} \cup Final
             /\ worker'[q][e].pc # "retry" => status'[e] = "sending"
             /\ status'[e] = "sending" => ~stale'[e]
             /\ \A r \in Procs : Held(r, e)' => r = q
  <2>1. CASE e # d
    BY <1>3, <1>4, <1>5, <2>1 DEF ClaimInv
  <2>2. CASE e = d
    <3>1. q = p
      BY <1>2, <1>3, <1>5, <2>2
    <3>2. QED BY <1>1, <1>2, <1>3, <2>2, <3>1 DEF ClaimInv
  <2>3. QED BY <2>1, <2>2
<1>6. QED BY <1>5 DEF ClaimInv

LEMMA ClaimWork ==
  ASSUME TypeBudget, ClaimInv, NEW p \in Procs, NEW d \in Deliveries, Work(p, d)
  PROVE  ClaimInv'
<1>h. {"event", "getcid", "savecid", "gate", "push", "sent", "suppress", "retry"} = Holding
  BY DEF Holding
<1>t. /\ status \in [Deliveries -> Status]
      /\ stale \in [Deliveries -> BOOLEAN]
      /\ worker \in [Procs -> [Deliveries -> Worker]]
  BY DEF TypeBudget, TypeOK
<1>d. ASSUME Done(p, d) PROVE
        /\ ~Held(p, d)'
        /\ \A q \in Procs, e \in Deliveries : ~(q = p /\ e = d) => worker'[q][e] = worker[q][e]
  BY <1>d, <1>t DEF Done, NoWorker, Held, Holding
<1>1. ASSUME Claim(p, d) PROVE ClaimInv'
  <2>1. CASE UNCHANGED <<status, stale>> /\ Done(p, d)
    BY <1>d, <2>1, ClaimKept DEF Held
  <2>2. CASE /\ status[d] = "pending"
             /\ status' = [status EXCEPT ![d] = "sending"]
             /\ stale' = [stale EXCEPT ![d] = FALSE]
             /\ Done(p, d) \/ Goto(p, d, "event")
    <3>1. \A q \in Procs : ~Held(q, d)
      BY <2>2 DEF ClaimInv, Final
    <3>2. \A q \in Procs, e \in Deliveries : ~(q = p /\ e = d) => worker'[q][e] = worker[q][e]
      BY <1>d, <1>h, <2>2, GotoFacts DEF TypeBudget, PC
    <3>3. /\ status'[d] = "sending" /\ ~stale'[d]
          /\ \A e \in Deliveries : e # d => status'[e] = status[e] /\ stale'[e] = stale[e]
      BY <1>t, <2>2
    <3>4. \A q \in Procs : Held(q, d)' => q = p
      BY <3>1, <3>2 DEF Held
    <3>5. QED BY <3>2, <3>3, <3>4 DEF ClaimInv, Held
  <2>3. QED BY <1>1, <2>1, <2>2 DEF Claim
<1>2. ASSUME NEW step \in Holding \ {"retry"}, worker[p][d].pc \in Holding \ {"retry"},
             Goto(p, d, step) \/ Goto(p, d, "retry"), UNCHANGED status,
             stale' = stale \/ stale' = [stale EXCEPT ![d] = FALSE]
      PROVE  ClaimInv'
  <2>1. Held(p, d) /\ status[d] = "sending"
    BY <1>2 DEF ClaimInv, Held
  <2>2. \A e \in Deliveries : stale'[e] => stale[e]
    BY <1>2, <1>t
  <2>3. PICK next \in Holding : Goto(p, d, next)
    BY <1>2, <1>h
  <2>4. QED BY <1>2, <2>1, <2>2, <2>3, ClaimGoto
<1>3. ASSUME GetFeedEvent(p, d) \/ GetPushConfig(p, d) PROVE ClaimInv'
  <2>1. /\ UNCHANGED <<status, stale>>
        /\ worker[p][d].pc \in Holding \ {"retry"}
        /\ \E step \in {"suppress", "getcid", "gate", "push", "retry"} : Goto(p, d, step)
    BY <1>3, <1>h DEF GetFeedEvent, GetPushConfig, rowVars
  <2>2. QED BY <1>2, <1>h, <2>1
<1>4. ASSUME GetPushCID(p, d) PROVE ClaimInv'
  <2>1. /\ UNCHANGED <<status, stale>>
        /\ worker[p][d].pc = "getcid"
    BY <1>4 DEF GetPushCID, rowVars
  <2>2. CASE Goto(p, d, "retry")
    BY <1>2, <1>h, <2>1, <2>2
  <2>3. CASE \E c \in CIDs : worker' = [worker EXCEPT ![p][d].pc = "savecid", ![p][d].cid = c]
    <3>1. worker'[p][d].pc = "savecid"
      BY <1>t, <2>3 DEF Worker
    <3>2. \A q \in Procs, e \in Deliveries : ~(q = p /\ e = d) => worker'[q][e] = worker[q][e]
      BY <1>t, <2>3
    <3>3. Held(p, d) /\ status[d] = "sending"
      BY <2>1, <1>h DEF ClaimInv, Held
    <3>4. \A q \in Procs, e \in Deliveries :
            /\ Held(q, e)' => Held(q, e)
            /\ worker'[q][e].pc = "retry" <=> worker[q][e].pc = "retry"
      BY <2>1, <3>1, <3>2, <3>3 DEF Held
    <3>5. QED BY <2>1, <3>4 DEF ClaimInv
  <2>4. QED BY <1>4, <2>2, <2>3 DEF GetPushCID
<1>5. ASSUME SaveCID(p, d) PROVE ClaimInv'
  BY <1>5, <1>2, <1>h DEF SaveCID
<1>6. ASSUME PushPreparedMSGWithCID(p, d) PROVE ClaimInv'
  <2>1. /\ UNCHANGED <<status, stale>>
        /\ worker[p][d].pc \in Holding \ {"retry"}
        /\ \E step \in {"sent", "suppress", "retry"} : Goto(p, d, step)
    BY <1>6, <1>h DEF PushPreparedMSGWithCID, rowVars
  <2>2. QED BY <1>2, <1>h, <2>1
<1>7. ASSUME NEW final \in Final, MarkFinal(p, d, final), worker[p][d].pc \in {"sent", "suppress"}
      PROVE  ClaimInv'
  <2>1. Held(p, d) /\ status[d] = "sending" /\ \A q \in Procs : Held(q, d) => q = p
    BY <1>7, <1>h DEF ClaimInv, Held
  <2>2. /\ UNCHANGED stale
        /\ status'[d] \in {"sending", final}
        /\ \A e \in Deliveries : e # d => status'[e] = status[e]
    BY <1>7, <1>t, <2>1 DEF MarkFinal
  <2>3. CASE Goto(p, d, "retry")
    BY <1>h, <2>1, <2>2, <2>3, ClaimGoto
  <2>4. CASE Done(p, d)
    <3>1. \A q \in Procs : ~Held(q, d)'
      BY <1>d, <2>1, <2>4 DEF Held
    <3>2. QED BY <1>d, <2>2, <2>4, <3>1, ClaimKept DEF Held
  <2>5. QED BY <1>7, <2>3, <2>4 DEF MarkFinal
<1>8. ASSUME MarkRetry(p, d) PROVE ClaimInv'
  <2>1. \A q \in Procs : Held(q, d) => q = p
    BY <1>8, <1>h DEF MarkRetry, ClaimInv, Held
  <2>2. Done(p, d) /\ UNCHANGED stale /\ \A e \in Deliveries : e # d => status'[e] = status[e]
    BY <1>8, <1>t DEF MarkRetry
  <2>3. \A q \in Procs : ~Held(q, d)'
    BY <1>d, <2>1, <2>2 DEF Held
  <2>4. QED BY <1>d, <2>2, <2>3, ClaimKept DEF Held
<1>9. QED
  BY <1>1, <1>3, <1>4, <1>5, <1>6, <1>7, <1>8 DEF Work, MarkSent, MarkSuppressed, Final

LEMMA ClaimControl ==
  ASSUME TypeBudget, ClaimInv, NEW p \in Procs, Control(p) \/ Crash(p)
  PROVE  ClaimInv'
<1>t. /\ status \in [Deliveries -> Status]
      /\ stale \in [Deliveries -> BOOLEAN]
      /\ worker \in [Procs -> [Deliveries -> Worker]]
  BY DEF TypeBudget, TypeOK
<1>k. ASSUME UNCHANGED <<status, stale>>,
             \A q \in Procs, d \in Deliveries :
               worker'[q][d] = worker[q][d] \/ worker'[q][d].pc \in {"none", "listed", "queued"}
      PROVE  ClaimInv'
  BY <1>k, ClaimKept DEF Held, Holding
<1>1. CASE StartCronTask(p) \/ DispatchDue(p)
  <2>1. /\ UNCHANGED worker
        /\ \A d \in Deliveries : /\ (status[d] = "sending" /\ stale[d]) \/ status'[d] = status[d]
                                 /\ stale'[d] => stale[d]
    BY <1>1, <1>t DEF StartCronTask, DispatchDue, RecoverStale
  <2>2. \A q \in Procs, d \in Deliveries : Held(q, d) => status'[d] = status[d]
    BY <2>1 DEF ClaimInv
  <2>3. QED BY <2>1, <2>2, ClaimKept DEF Held
<1>2. CASE ListDue(p)
  <2>1. \A q \in Procs, d \in Deliveries :
          worker'[q][d] = worker[q][d] \/ worker'[q][d].pc \in {"none", "listed"}
    <3>1. PICK rows \in SUBSET DueRows :
            worker' = [worker EXCEPT ![p] = [d \in Deliveries |-> IF d \in rows THEN RowCopy(d) ELSE NoWorker]]
      BY <1>2 DEF ListDue
    <3>2. \A d \in Deliveries : RowCopy(d).pc = "listed" /\ NoWorker.pc = "none"
      BY CopyStage, Zenon
    <3>3. QED BY <1>t, <3>1, <3>2
  <2>2. QED BY <1>2, <1>k, <2>1 DEF ListDue, rowVars
<1>3. CASE LoadPushTargets(p)
  <2>1. \A q \in Procs, d \in Deliveries :
          worker'[q][d] = worker[q][d] \/ worker'[q][d].pc = "queued"
    <3>1. PICK group \in SUBSET Listed(p), withToken \in SUBSET Students :
            worker' = [worker EXCEPT ![p] = [d \in Deliveries |->
                         IF d \in group
                         THEN [worker[p][d] EXCEPT !.pc = "queued",
                                                   !.target = Allows(d) /\ Owner[d] \in withToken]
                         ELSE worker[p][d]]]
      BY <1>3 DEF LoadPushTargets
    <3>2. ASSUME NEW d \in group PROVE worker'[p][d].pc = "queued"
      <4>1. d \in Deliveries /\ worker[p][d] \in Worker
        BY <1>t DEF Listed
      <4>2. worker'[p][d] = [worker[p][d] EXCEPT !.pc = "queued",
                                                 !.target = Allows(d) /\ Owner[d] \in withToken]
        BY <1>t, <3>1, <4>1
      <4>3. QED BY <4>1, <4>2 DEF Worker
    <3>3. QED BY <1>t, <3>1, <3>2
  <2>2. QED BY <1>3, <1>k, <2>1 DEF LoadPushTargets, rowVars
<1>4. ASSUME NEW ph, Leave(p, ph), UNCHANGED rowVars PROVE ClaimInv'
  <2>1. \A q \in Procs, d \in Deliveries : worker'[q][d] = worker[q][d] \/ worker'[q][d].pc = "none"
    BY <1>4, <1>t DEF Leave, NoWorker
  <2>2. QED BY <1>4, <1>k, <2>1 DEF rowVars
<1>5. CASE BatchTimeout(p)
  <2>1. \A q \in Procs, d \in Deliveries : worker'[q][d] = worker[q][d] \/ worker'[q][d].pc = "none"
    BY <1>5, <1>t DEF BatchTimeout, NoWorker
  <2>2. QED BY <1>5, <1>k, <2>1 DEF BatchTimeout, rowVars
<1>6. CASE GroupDone(p)
  <2>1. CASE UNCHANGED worker
    BY <1>6, <1>k, <2>1 DEF GroupDone, rowVars
  <2>2. QED BY <1>4, <1>6, <2>1 DEF GroupDone
<1>7. QED BY <1>1, <1>2, <1>3, <1>4, <1>5, <1>6 DEF Control, AbortBatch, Crash

LEMMA ClaimInvariant == ASSUME ~Overrun PROVE Spec => []ClaimInv
<1>1. Init => ClaimInv
  BY DEF Init, ClaimInv, Held, NoWorker, Holding
<1>2. TypeBudget /\ ClaimInv /\ [Next]_vars => ClaimInv'
  <2>1. SUFFICES ASSUME TypeBudget, ClaimInv, [Next]_vars PROVE ClaimInv'
    OBVIOUS
  <2>t. /\ status \in [Deliveries -> Status]
        /\ stale \in [Deliveries -> BOOLEAN]
    BY <2>1 DEF TypeBudget, TypeOK
  <2>2. ASSUME UNCHANGED worker,
               \A d \in Deliveries, p \in Procs : Held(p, d) => status'[d] = status[d] /\ (stale'[d] => stale[d])
        PROVE  ClaimInv'
    BY <2>1, <2>2, ClaimKept DEF Held
  <2>3. CASE UNCHANGED vars
    BY <2>2, <2>3 DEF vars, rowVars
  <2>4. ASSUME NEW p \in Procs, NEW d \in Deliveries, Work(p, d) PROVE ClaimInv'
    BY <2>1, <2>4, ClaimWork
  <2>5. ASSUME NEW p \in Procs, Control(p) \/ Crash(p) PROVE ClaimInv'
    BY <2>1, <2>5, ClaimControl
  <2>6. ASSUME NEW d \in Deliveries, Clock(d) PROVE ClaimInv'
    <3>1. CASE ClaimAges(d)
      <4>1. \A p \in Procs : ~Held(p, d)
        BY <3>1 DEF ClaimAges, Held
      <4>2. UNCHANGED <<status, worker>> /\ \A e \in Deliveries : e # d => stale'[e] = stale[e]
        BY <2>t, <3>1 DEF ClaimAges
      <4>3. QED BY <2>2, <4>1, <4>2
    <3>2. QED BY <2>2, <2>6, <3>1 DEF Clock, BackoffElapses, Expires, rowVars
  <2>7. ASSUME NEW s \in Students, Student(s) PROVE ClaimInv'
    <3>1. CASE \E on \in SUBSET (Types \ {Library}), library \in {"keep", "on", "off"} :
                 ChangeConfigBits(s, on, library)
      <4>1. /\ UNCHANGED <<worker, stale>>
            /\ \A d \in Deliveries : status[d] # "pending" => status'[d] = status[d]
        BY <3>1 DEF ChangeConfigBits, ClosesRow
      <4>2. \A d \in Deliveries, p \in Procs : Held(p, d) => status[d] # "pending"
        BY <2>1 DEF ClaimInv, Final
      <4>3. QED BY <2>2, <4>1, <4>2
    <3>2. QED BY <2>2, <2>7, <3>1 DEF Student, FindOrCreateUserFeedConfig, RemoveFeedEvent, rowVars
  <2>8. ASSUME NEW D \in SUBSET Deliveries, StoreFeedEvents(D) PROVE ClaimInv'
    <3>1. \A d \in Deliveries : event[d] = "none" => status[d] = "absent"
      BY <2>1 DEF TypeBudget, Budget
    <3>2. /\ UNCHANGED <<worker, stale>>
          /\ \A d \in Deliveries : status[d] # "absent" => status'[d] = status[d]
      BY <2>8, <3>1 DEF StoreFeedEvents
    <3>3. \A d \in Deliveries, p \in Procs : Held(p, d) => status[d] # "absent"
      BY <2>1 DEF ClaimInv, Final
    <3>4. QED BY <2>2, <3>2, <3>3
  <2>9. QED BY <2>1, <2>3, <2>4, <2>5, <2>6, <2>7, <2>8 DEF Next
<1>3. QED BY <1>1, <1>2, TypeBudgetInvariant, PTL DEF Spec

(* Recovery never takes a row from a living worker, so that no two workers *)
(* of any process hold a row.                                              *)
THEOREM ClaimsAreExclusive == ASSUME ~Overrun PROVE Spec => []OneClaimer
<1>1. ClaimInv => OneClaimer
  BY DEF ClaimInv, OneClaimer, Held
<1>2. QED BY <1>1, ClaimInvariant, PTL

-----------------------------------------------------------------------------
(* The refinement of PushOutbox. *)

(* Claims, releases and recoveries keep a row open. *)
LEMMA OutboxStutters ==
  ASSUME UNCHANGED accepted,
         \A d \in Deliveries : \/ status'[d] = status[d]
                               \/ {status[d], status'[d]} \subseteq {"pending", "sending"}
  PROVE  UNCHANGED <<OutboxState, OutboxShown>>
BY DEF OutboxState, OutboxShown

(* Rows that are suppressed together. *)
LEMMA OutboxCloses ==
  ASSUME TypeBudget, UNCHANGED accepted, NEW D \in SUBSET Deliveries,
         \A d \in D : status[d] \in {"pending", "sending"} /\ status'[d] = "suppressed",
         \A d \in Deliveries \ D : status'[d] = status[d]
  PROVE  [Outbox!Next]_<<OutboxState, OutboxShown>>
<1>1. OutboxShown' = OutboxShown
  BY DEF OutboxShown
<1>2. OutboxState' = [d \in Deliveries |-> IF d \in D THEN "suppressed" ELSE OutboxState[d]]
  BY DEF OutboxState
<1>3. \A d \in D : OutboxState[d] = "open"
  BY DEF OutboxState
<1>4. CASE D = {}
  BY <1>1, <1>2, <1>4 DEF OutboxState
<1>5. CASE D # {}
  <2>1. Outbox!Suppress(D)
    BY <1>1, <1>2, <1>3, <1>5 DEF Outbox!Suppress, Outbox!Open
  <2> QED BY <2>1 DEF Outbox!Next
<1> QED BY <1>4, <1>5

(* What one worker does to its row and to the vendor. *)
LEMMA OutboxWork ==
  ASSUME TypeBudget, CIDInv, ClaimInv, NEW p \in Procs, NEW d \in Deliveries, Work(p, d)
  PROVE  [Outbox!Next]_<<OutboxState, OutboxShown>>
<1>t. status \in [Deliveries -> Status] /\ WorkerCID(p, d) /\ RowCID(d)
  BY DEF TypeBudget, TypeOK, CIDInv
<1>h. Held(p, d) /\ worker[p][d].pc # "retry" => status[d] = "sending"
  BY DEF ClaimInv
<1>s. ASSUME UNCHANGED accepted, UNCHANGED status PROVE UNCHANGED <<OutboxState, OutboxShown>>
  BY <1>s, OutboxStutters
<1>1. CASE Claim(p, d)
  BY <1>1, <1>t, OutboxStutters DEF Claim, vendorVars
<1>2. CASE GetFeedEvent(p, d) \/ GetPushCID(p, d) \/ SaveCID(p, d) \/ GetPushConfig(p, d)
  BY <1>2, <1>s DEF GetFeedEvent, GetPushCID, SaveCID, GetPushConfig, rowVars, vendorVars
<1>3. CASE PushPreparedMSGWithCID(p, d)
  <2> DEFINE c == worker[p][d].cid
             Shown(e) == {x \in CIDs : <<e, x>> \in accepted}
  <2>1. status[d] = "sending" /\ c = cid[d] /\ UNCHANGED status
    BY <1>3, <1>t, <1>h DEF PushPreparedMSGWithCID, WorkerCID, Held, Holding, rowVars
  <2>2. c \in CIDs
    <3>1. worker[p][d].pc = "push" /\ worker[p][d] \in Worker
      BY <1>3 DEF PushPreparedMSGWithCID, TypeBudget, TypeOK
    <3>2. c # NoCID
      BY <3>1 DEF TypeBudget, Budget
    <3> QED BY <3>1, <3>2 DEF Worker
  <2>3. CASE accepted' = accepted
    BY <2>1, <2>3, <1>s
  <2>4. CASE accepted' = accepted \cup {<<d, c>>} /\ <<d, c>> \notin accepted
    <3>1. Shown(d) = {} /\ {x \in CIDs : <<d, x>> \in accepted'} = {c}
      BY <2>1, <2>2, <2>4, <1>t DEF RowCID
    <3>2. \A e \in Deliveries : e # d => {x \in CIDs : <<e, x>> \in accepted'} = Shown(e)
      BY <2>4
    <3>3. OutboxShown[d] = 0 /\ OutboxShown' = [OutboxShown EXCEPT ![d] = 1]
      <4>1. Cardinality({}) = 0 /\ Cardinality({c}) = 1
        BY FS_EmptySet, FS_Singleton
      <4> QED BY <4>1, <3>1, <3>2 DEF OutboxShown
    <3>4. OutboxState[d] = "open" /\ OutboxState' = OutboxState
      BY <2>1 DEF OutboxState
    <3>5. Outbox!Show(d)
      BY <3>3, <3>4 DEF Outbox!Show, Outbox!Open
    <3> QED BY <3>5 DEF Outbox!Next
  <2>5. accepted' = accepted \/ accepted' = accepted \cup {<<d, c>>}
    BY <1>3 DEF PushPreparedMSGWithCID
  <2> QED BY <2>3, <2>4, <2>5
<1>4. CASE MarkSent(p, d)
  <2>1. status[d] = "sending" /\ <<d, cid[d]>> \in accepted /\ UNCHANGED accepted
    BY <1>4, <1>t, <1>h DEF MarkSent, MarkFinal, WorkerCID, Held, Holding, vendorVars
  <2>2. CASE status' = status
    BY <2>1, <2>2, <1>s
  <2>3. CASE status' = [status EXCEPT ![d] = "sent"]
    <3>1. cid[d] \in CIDs
      <4>1. accepted \in SUBSET (Deliveries \X CIDs)
        BY DEF TypeBudget, TypeOK
      <4>2. <<d, cid[d]>> \in Deliveries \X CIDs
        BY <2>1, <4>1
      <4> QED BY <4>2
    <3>2. {x \in CIDs : <<d, x>> \in accepted} = {cid[d]}
      BY <2>1, <3>1, <1>t DEF RowCID
    <3>3. OutboxShown[d] = 1 /\ OutboxShown' = OutboxShown
      BY <3>2, <2>1, FS_Singleton DEF OutboxShown
    <3>4. OutboxState[d] = "open" /\ OutboxState' = [OutboxState EXCEPT ![d] = "sent"]
      BY <2>1, <2>3, <1>t DEF OutboxState
    <3>5. Outbox!Sent(d)
      BY <3>3, <3>4 DEF Outbox!Sent, Outbox!Open
    <3> QED BY <3>5 DEF Outbox!Next
  <2> QED BY <1>4, <2>2, <2>3 DEF MarkSent, MarkFinal
<1>5. CASE MarkSuppressed(p, d)
  <2>1. status[d] = "sending" /\ UNCHANGED accepted
    BY <1>5, <1>h DEF MarkSuppressed, MarkFinal, Held, Holding, vendorVars
  <2>2. CASE status' = status
    BY <2>1, <2>2, <1>s
  <2>3. CASE status' = [status EXCEPT ![d] = "suppressed"]
    <3>1. status'[d] = "suppressed" /\ \A e \in Deliveries \ {d} : status'[e] = status[e]
      BY <2>3, <1>t
    <3> QED BY <2>1, <3>1, OutboxCloses
  <2> QED BY <1>5, <2>2, <2>3 DEF MarkSuppressed, MarkFinal
<1>6. CASE MarkRetry(p, d)
  <2>1. UNCHANGED accepted
    BY <1>6 DEF MarkRetry, vendorVars
  <2>2. CASE status' = status
    BY <2>1, <2>2, <1>s
  <2>3. CASE status[d] = "sending" /\ status' = [status EXCEPT ![d] = "pending"]
    BY <2>1, <2>3, <1>t, OutboxStutters
  <2>4. CASE status[d] = "sending" /\ status' = [status EXCEPT ![d] = "failed"]
    <3>1. OutboxState[d] = "open" /\ OutboxState' = [OutboxState EXCEPT ![d] = "failed"]
      BY <2>4, <1>t DEF OutboxState
    <3>2. OutboxShown' = OutboxShown
      BY <2>1 DEF OutboxShown
    <3>3. Outbox!Fail(d)
      BY <3>1, <3>2 DEF Outbox!Fail, Outbox!Open
    <3> QED BY <3>3 DEF Outbox!Next
  <2> QED BY <1>6, <2>2, <2>3, <2>4 DEF MarkRetry, IsClaimed
<1> QED BY <1>1, <1>2, <1>3, <1>4, <1>5, <1>6 DEF Work

(* Every step is one of PushOutbox, or one it does not see. *)
LEMMA OutboxStep ==
  TypeBudget /\ CIDInv /\ ClaimInv /\ [Next]_vars => [Outbox!Next]_<<OutboxState, OutboxShown>>
<1> SUFFICES ASSUME TypeBudget, CIDInv, ClaimInv, [Next]_vars
             PROVE  [Outbox!Next]_<<OutboxState, OutboxShown>>
  OBVIOUS
<1>t. status \in [Deliveries -> Status]
  BY DEF TypeBudget, TypeOK
<1>s. ASSUME UNCHANGED accepted, UNCHANGED status PROVE [Outbox!Next]_<<OutboxState, OutboxShown>>
  BY <1>s, OutboxStutters
<1>1. CASE UNCHANGED vars
  BY <1>1, <1>s DEF vars, rowVars, vendorVars
<1>2. ASSUME NEW p \in Procs, NEW d \in Deliveries, Work(p, d)
      PROVE  [Outbox!Next]_<<OutboxState, OutboxShown>>
  BY <1>2, OutboxWork
<1>3. ASSUME NEW p \in Procs, Control(p) \/ Crash(p)
      PROVE  [Outbox!Next]_<<OutboxState, OutboxShown>>
  <2>1. CASE StartCronTask(p) \/ DispatchDue(p)
    BY <2>1, <1>t, OutboxStutters DEF StartCronTask, DispatchDue, RecoverStale, vendorVars
  <2>2. CASE ~(StartCronTask(p) \/ DispatchDue(p))
    BY <1>3, <2>2, <1>s DEF Control, Crash, ListDue, LoadPushTargets, AbortBatch, BatchTimeout, GroupDone,
                            rowVars, vendorVars
  <2> QED BY <2>1, <2>2
<1>4. ASSUME NEW d \in Deliveries, Clock(d) PROVE [Outbox!Next]_<<OutboxState, OutboxShown>>
  BY <1>4, <1>s DEF Clock, BackoffElapses, ClaimAges, Expires, rowVars, vendorVars
<1>5. ASSUME NEW s \in Students, Student(s) PROVE [Outbox!Next]_<<OutboxState, OutboxShown>>
  <2>1. ASSUME NEW on \in SUBSET (Types \ {Library}), NEW library \in {"keep", "on", "off"},
               ChangeConfigBits(s, on, library)
        PROVE  [Outbox!Next]_<<OutboxState, OutboxShown>>
    <3>1. PICK closed : status' = [d \in Deliveries |->
                          IF ClosesRow(s, d, closed) THEN "suppressed" ELSE status[d]]
      BY <2>1 DEF ChangeConfigBits
    <3> DEFINE D == {d \in Deliveries : ClosesRow(s, d, closed)}
    <3>2. D \in SUBSET Deliveries /\ UNCHANGED accepted
      BY <2>1 DEF ChangeConfigBits, vendorVars
    <3>3. \A d \in D : status[d] \in {"pending", "sending"} /\ status'[d] = "suppressed"
      BY <3>1 DEF ClosesRow
    <3>4. \A d \in Deliveries \ D : status'[d] = status[d]
      BY <3>1
    <3> QED BY <3>2, <3>3, <3>4, OutboxCloses
  <2> QED BY <1>5, <2>1, <1>s DEF Student, FindOrCreateUserFeedConfig, RemoveFeedEvent, rowVars, vendorVars
<1>6. ASSUME NEW D \in SUBSET Deliveries, StoreFeedEvents(D)
      PROVE  [Outbox!Next]_<<OutboxState, OutboxShown>>
  <2> DEFINE inserted == {d \in D : event[d] = "none" /\ (TypeOf[d] = Library => Allows(d))}
  <2>1. /\ inserted # {} /\ UNCHANGED accepted
        /\ status' = [d \in Deliveries |-> IF d \in inserted THEN "pending" ELSE status[d]]
    BY <1>6 DEF StoreFeedEvents, vendorVars
  <2>2. \A d \in inserted : d \in Deliveries /\ status[d] = "absent"
    BY DEF TypeBudget, Budget
  <2> HIDE DEF inserted
  <2>3. /\ \A d \in inserted : OutboxState[d] = "absent"
        /\ OutboxState' = [d \in Deliveries |-> IF d \in inserted THEN "open" ELSE OutboxState[d]]
        /\ OutboxShown' = OutboxShown
    BY <2>1, <2>2 DEF OutboxState, OutboxShown
  <2>4. inserted \in SUBSET Deliveries /\ Outbox!Enqueue(inserted)
    BY <2>1, <2>2, <2>3 DEF Outbox!Enqueue, Outbox!Open
  <2> QED BY <2>4 DEF Outbox!Next
<1> QED BY <1>1, <1>2, <1>3, <1>4, <1>5, <1>6 DEF Next

(* If no worker outlives the recovery timeout, a delivery is shown once,   *)
(* while it is open, and settled once: the rows, the workers and the       *)
(* vendor together implement PushOutbox.                                   *)
THEOREM OutboxImplemented == ASSUME ~Overrun PROVE Spec => ImplementsOutbox
<1>1. Init => Outbox!Init
  <2>1. Cardinality({}) = 0
    BY FS_EmptySet
  <2> SUFFICES ASSUME Init PROVE Outbox!Init
    OBVIOUS
  <2>2. \A d : {c \in CIDs : <<d, c>> \in accepted} = {}
    BY DEF Init
  <2> QED BY <2>1, <2>2 DEF Init, Outbox!Init, OutboxState, OutboxShown
<1> QED BY <1>1, OutboxStep, TypeBudgetInvariant, CIDInvariant, ClaimInvariant, PTL
        DEF Spec, ImplementsOutbox, Outbox!Spec

-----------------------------------------------------------------------------
(* What a single dispatching process buys: every failed push is counted,   *)
(* and no claim comes early, although neither the claim nor the retry mark *)
(* compares what the worker remembers with the row.                        *)
OneProcess == \A p, q \in Procs : p = q

(* The copy of a listed row that is still pending is the row as it is, and *)
(* the row is due; a worker counts from the row it holds.                  *)
Waiting == {"listed", "queued"}

CopyCurrent(p, d) ==
  LET w == worker[p][d]
  IN /\ w.pc \in Waiting => status[d] \in {"pending"} \cup Final
     /\ w.pc \in Waiting /\ status[d] = "pending" => due[d] /\ w.attempts = attempts[d]
     /\ w.pc \in Holding /\ status[d] = "sending" => w.attempts = attempts[d]

CopyInv ==
  /\ \A d \in Deliveries : status[d] = "sending" => due[d]
  /\ \A p \in Procs, d \in Deliveries : CopyCurrent(p, d)

(* What RetriesAreCounted says of one step and one row. *)
Counts(d) ==
  /\ attempts'[d] >= attempts[d]
  /\ status[d] = "sending" /\ (status'[d] = "failed" \/ (status'[d] = "pending" /\ ~due'[d]))
       => attempts'[d] = attempts[d] + 1
  /\ status[d] = "pending" /\ status'[d] = "sending" => due[d]

(* Steps that claim nothing, count nothing and list nothing: rows settle   *)
(* or go back to pending, workers go on or end.                            *)
LEMMA CopyKept ==
  ASSUME TypeOK, CopyInv, UNCHANGED attempts,
         \A d \in Deliveries :
           /\ due[d] => due'[d]
           /\ \/ status'[d] = status[d]
              \/ status[d] = "sending" /\ status'[d] \in {"pending", "sent", "suppressed"}
              \/ status[d] = "pending" /\ status'[d] \in Final
              \/ status[d] = "absent" /\ status'[d] = "pending",
         \A p \in Procs, d \in Deliveries :
           \/ worker'[p][d] = worker[p][d]
           \/ worker'[p][d].pc = "none"
           \/ /\ worker'[p][d].attempts = worker[p][d].attempts
              /\ \/ worker[p][d].pc \in Waiting /\ worker'[p][d].pc \in Waiting
                 \/ worker[p][d].pc \in Holding /\ worker'[p][d].pc \in Holding
  PROVE  CopyInv' /\ \A d \in Deliveries : Counts(d)
<1>1. ASSUME NEW d \in Deliveries PROVE status'[d] = "sending" => due'[d]
  BY DEF CopyInv, Final
<1>2. ASSUME NEW p \in Procs, NEW d \in Deliveries PROVE CopyCurrent(p, d)'
  <2>1. CopyCurrent(p, d)
    BY DEF CopyInv
  <2>2. status'[d] = "sending" => status[d] = "sending"
    BY DEF Final
  <2>3. status[d] \in {"pending"} \cup Final =>
          /\ status'[d] \in {"pending"} \cup Final
          /\ status'[d] = "pending" => status[d] = "pending"
    BY DEF Final
  <2>4. CASE worker'[p][d] = worker[p][d]
    BY <2>1, <2>2, <2>3, <2>4 DEF CopyCurrent
  <2>5. CASE worker'[p][d].pc = "none"
    BY <2>5 DEF CopyCurrent, Waiting, Holding
  <2>6. CASE /\ worker'[p][d].attempts = worker[p][d].attempts
             /\ worker[p][d].pc \in Waiting /\ worker'[p][d].pc \in Waiting
    BY <2>1, <2>3, <2>6 DEF CopyCurrent, Waiting, Holding
  <2>7. CASE /\ worker'[p][d].attempts = worker[p][d].attempts
             /\ worker[p][d].pc \in Holding /\ worker'[p][d].pc \in Holding
    BY <2>1, <2>2, <2>7 DEF CopyCurrent, Waiting, Holding
  <2>8. QED BY <2>4, <2>5, <2>6, <2>7
<1>3. ASSUME NEW d \in Deliveries PROVE Counts(d)
  <2>1. attempts'[d] >= attempts[d]
    BY DEF TypeOK
  <2>2. status[d] = "sending" => due'[d] /\ status'[d] # "failed"
    BY DEF CopyInv, Final
  <2>3. status[d] = "pending" => status'[d] # "sending"
    BY DEF Final
  <2>4. QED BY <2>1, <2>2, <2>3 DEF Counts
<1>4. QED BY <1>1, <1>2, <1>3 DEF CopyInv

(* A claim finds the row as it was listed. *)
LEMMA CopyClaim ==
  ASSUME TypeOK, CopyInv, OneProcess,
         NEW p \in Procs, NEW d \in Deliveries, Claim(p, d)
  PROVE  CopyInv' /\ \A e \in Deliveries : Counts(e)
<1>t. /\ status \in [Deliveries -> Status]
      /\ attempts \in [Deliveries -> 0..MaxAttempts]
      /\ worker \in [Procs -> [Deliveries -> Worker]]
      /\ UNCHANGED <<attempts, due>>
  BY DEF TypeOK, Claim
<1>d. ASSUME Done(p, d) PROVE
        /\ worker'[p][d].pc = "none"
        /\ \A q \in Procs, e \in Deliveries : ~(q = p /\ e = d) => worker'[q][e] = worker[q][e]
  BY <1>d, <1>t DEF Done, NoWorker
<1>1. CASE UNCHANGED status /\ Done(p, d)
  BY <1>1, <1>d, <1>t, CopyKept
<1>2. CASE /\ status[d] = "pending"
           /\ status' = [status EXCEPT ![d] = "sending"]
           /\ Done(p, d) \/ Goto(p, d, "event")
  <2>1. due[d] /\ worker[p][d].attempts = attempts[d]
    BY <1>2 DEF CopyInv, CopyCurrent, Claim, Waiting
  <2>2. /\ status'[d] = "sending"
        /\ \A e \in Deliveries : e # d => status'[e] = status[e]
    BY <1>t, <1>2
  <2>3. /\ \A q \in Procs, e \in Deliveries : ~(q = p /\ e = d) => worker'[q][e] = worker[q][e]
        /\ \/ worker'[p][d].pc = "none"
           \/ worker'[p][d].pc = "event" /\ worker'[p][d].attempts = worker[p][d].attempts
    BY <1>d, <1>2, GotoFacts DEF PC, Holding
  <2>4. ASSUME NEW q \in Procs, NEW e \in Deliveries PROVE CopyCurrent(q, e)'
    <3>1. CASE e = d
      <4>1. q = p
        BY DEF OneProcess
      <4>2. QED BY <1>t, <2>1, <2>2, <2>3, <3>1, <4>1 DEF CopyCurrent, Waiting, Holding
    <3>2. CASE e # d
      <4>1. CopyCurrent(q, e)
        BY DEF CopyInv
      <4>2. worker'[q][e] = worker[q][e] /\ status'[e] = status[e]
        BY <2>2, <2>3, <3>2
      <4>3. QED BY <1>t, <4>1, <4>2 DEF CopyCurrent
    <3>3. QED BY <3>1, <3>2
  <2>5. \A e \in Deliveries : status'[e] = "sending" => due'[e]
    BY <1>t, <2>1, <2>2 DEF CopyInv
  <2>6. ASSUME NEW e \in Deliveries PROVE Counts(e)
    <3>1. attempts'[e] >= attempts[e]
      BY <1>t
    <3>2. QED BY <1>2, <2>1, <2>2, <3>1 DEF Counts
  <2>7. QED BY <2>4, <2>5, <2>6 DEF CopyInv
<1>3. QED BY <1>1, <1>2 DEF Claim

(* A retry mark counts one more attempt than the row has. *)
LEMMA CopyRetry ==
  ASSUME TypeOK, CopyInv, OneProcess,
         NEW p \in Procs, NEW d \in Deliveries, MarkRetry(p, d)
  PROVE  CopyInv' /\ \A e \in Deliveries : Counts(e)
<1>t. /\ status \in [Deliveries -> Status]
      /\ attempts \in [Deliveries -> 0..MaxAttempts]
      /\ due \in [Deliveries -> BOOLEAN]
      /\ worker \in [Procs -> [Deliveries -> Worker]]
  BY DEF TypeOK
<1>d. /\ worker'[p][d].pc = "none"
      /\ \A q \in Procs, e \in Deliveries : ~(q = p /\ e = d) => worker'[q][e] = worker[q][e]
  BY <1>t DEF MarkRetry, Done, NoWorker
<1>1. CASE UNCHANGED <<status, attempts, due>>
  BY <1>1, <1>d, CopyKept
<1>2. CASE /\ IsClaimed(d)
           /\ status' = [status EXCEPT ![d] = IF Exhausted(NextAttempt(p, d)) THEN "failed" ELSE "pending"]
           /\ attempts' = [attempts EXCEPT ![d] = NextAttempt(p, d)]
           /\ due' = [due EXCEPT ![d] = FALSE]
  <2>1. worker[p][d].attempts = attempts[d] /\ status[d] = "sending"
    BY <1>2 DEF CopyInv, CopyCurrent, MarkRetry, IsClaimed, Holding
  <2>2. attempts'[d] = attempts[d] + 1
    BY <1>t, <1>2, <2>1 DEF NextAttempt
  <2>3. /\ status'[d] \in {"failed", "pending"}
        /\ \A e \in Deliveries :
             e # d => status'[e] = status[e] /\ attempts'[e] = attempts[e] /\ due'[e] = due[e]
    BY <1>t, <1>2
  <2>4. ASSUME NEW q \in Procs, NEW e \in Deliveries PROVE CopyCurrent(q, e)'
    <3>1. CASE e = d
      <4>1. q = p
        BY DEF OneProcess
      <4>2. QED BY <1>d, <3>1, <4>1 DEF CopyCurrent, Waiting, Holding
    <3>2. CASE e # d
      <4>1. CopyCurrent(q, e)
        BY DEF CopyInv
      <4>2. worker'[q][e] = worker[q][e]
        BY <1>d, <3>2
      <4>3. QED BY <2>3, <3>2, <4>1, <4>2 DEF CopyCurrent
    <3>3. QED BY <3>1, <3>2
  <2>5. \A e \in Deliveries : status'[e] = "sending" => due'[e]
    BY <2>3 DEF CopyInv
  <2>6. ASSUME NEW e \in Deliveries PROVE Counts(e)
    <3>1. CASE e = d
      <4>1. attempts'[d] >= attempts[d]
        BY <1>t, <2>2
      <4>2. QED BY <2>1, <2>2, <3>1, <4>1 DEF Counts
    <3>2. CASE e # d
      <4>1. attempts'[e] = attempts[e] /\ status'[e] = status[e] /\ attempts'[e] >= attempts[e]
        BY <1>t, <2>3, <3>2
      <4>2. QED BY <4>1 DEF Counts
    <3>3. QED BY <3>1, <3>2
  <2>7. QED BY <2>4, <2>5, <2>6 DEF CopyInv
<1>3. QED BY <1>1, <1>2 DEF MarkRetry

(* Steps of one worker. *)
LEMMA CopyWork ==
  ASSUME TypeOK, CopyInv, OneProcess, NEW p \in Procs, NEW d \in Deliveries, Work(p, d)
  PROVE  CopyInv' /\ \A e \in Deliveries : Counts(e)
<1>t. status \in [Deliveries -> Status] /\ worker \in [Procs -> [Deliveries -> Worker]]
  BY DEF TypeOK
<1> DEFINE Result == CopyInv' /\ \A e \in Deliveries : Counts(e)
<1>1. ASSUME NEW step \in Holding, Goto(p, d, step), worker[p][d].pc \in Holding,
             UNCHANGED <<attempts, due>>,
             \/ UNCHANGED status
             \/ /\ status[d] = "sending"
                /\ \E final \in {"sent", "suppressed"} : status' = [status EXCEPT ![d] = final]
      PROVE  Result
  <2>1. /\ worker'[p][d].pc = step
        /\ worker'[p][d].attempts = worker[p][d].attempts
        /\ \A q \in Procs, e \in Deliveries :
             <<q, e>> # <<p, d>> => worker'[q][e] = worker[q][e]
    <3>1. step \in PC
      BY DEF PC
    <3>2. QED BY <1>1, <3>1, GotoFacts
  <2>2. \A e \in Deliveries : \/ status'[e] = status[e]
                              \/ status[e] = "sending" /\ status'[e] \in {"sent", "suppressed"}
    BY <1>t, <1>1
  <2>3. worker'[p][d].pc \in Holding
    BY <2>1
  <2>4. \A q \in Procs, e \in Deliveries : ~(q = p /\ e = d) => worker'[q][e] = worker[q][e]
    BY <2>1
  <2>5. QED BY <1>1, <2>1, <2>2, <2>3, <2>4, CopyKept DEF Final
<1>2. CASE Claim(p, d)
  BY <1>t, <1>2, CopyClaim
<1>3. CASE MarkRetry(p, d)
  BY <1>t, <1>3, CopyRetry
<1>4. CASE GetPushCID(p, d)
  <2>1. CASE Goto(p, d, "retry")
    BY <1>1, <1>4, <2>1 DEF GetPushCID, Holding, rowVars
  <2>2. CASE \E c \in CIDs : worker' = [worker EXCEPT ![p][d].pc = "savecid", ![p][d].cid = c]
    <3>1. /\ worker'[p][d].pc = "savecid"
          /\ worker'[p][d].attempts = worker[p][d].attempts
          /\ \A q \in Procs, e \in Deliveries : ~(q = p /\ e = d) => worker'[q][e] = worker[q][e]
      BY <1>t, <2>2 DEF Worker
    <3>2. worker[p][d].pc \in Holding /\ worker'[p][d].pc \in Holding
      BY <1>4, <3>1 DEF GetPushCID, Holding
    <3>3. UNCHANGED <<status, attempts, due>>
      BY <1>4 DEF GetPushCID, rowVars
    <3>4. QED BY <1>t, <3>1, <3>2, <3>3, CopyKept
  <2>3. QED BY <1>4, <2>1, <2>2 DEF GetPushCID
<1>5. CASE GetFeedEvent(p, d) \/ GetPushConfig(p, d)
  <2>1. PICK step \in {"suppress", "getcid", "gate", "push", "retry"} : Goto(p, d, step)
    BY <1>5 DEF GetFeedEvent, GetPushConfig
  <2>2. QED BY <1>1, <1>5, <2>1 DEF GetFeedEvent, GetPushConfig, Holding, rowVars
<1>6. CASE SaveCID(p, d)
  <2>1. PICK step \in {"gate", "retry"} : Goto(p, d, step)
    BY <1>6 DEF SaveCID
  <2>2. QED BY <1>1, <1>6, <2>1 DEF SaveCID, Holding
<1>7. CASE PushPreparedMSGWithCID(p, d)
  <2>1. PICK step \in {"sent", "retry", "suppress"} : Goto(p, d, step)
    BY <1>7 DEF PushPreparedMSGWithCID
  <2>2. QED BY <1>1, <1>7, <2>1 DEF PushPreparedMSGWithCID, Holding, rowVars
<1>8. CASE MarkSent(p, d) \/ MarkSuppressed(p, d)
  <2>1. PICK final \in {"sent", "suppressed"} : MarkFinal(p, d, final)
    BY <1>8 DEF MarkSent, MarkSuppressed
  <2>2. worker[p][d].pc \in Holding
    BY <1>8 DEF MarkSent, MarkSuppressed, Holding
  <2>3. /\ UNCHANGED <<attempts, due>>
        /\ \/ UNCHANGED status
           \/ status[d] = "sending" /\ status' = [status EXCEPT ![d] = final]
    BY <2>1 DEF MarkFinal, IsClaimed
  <2>4. CASE Goto(p, d, "retry")
    BY <1>1, <2>2, <2>3, <2>4 DEF Holding
  <2>5. CASE Done(p, d)
    <3>1. /\ worker'[p][d].pc = "none"
          /\ \A q \in Procs, e \in Deliveries : ~(q = p /\ e = d) => worker'[q][e] = worker[q][e]
      BY <1>t, <2>5 DEF Done, NoWorker
    <3>2. \A e \in Deliveries : \/ status'[e] = status[e]
                                \/ status[e] = "sending" /\ status'[e] \in {"sent", "suppressed"}
      BY <1>t, <2>3
    <3>3. QED BY <1>t, <2>3, <3>1, <3>2, CopyKept
  <2>6. QED BY <2>1, <2>4, <2>5 DEF MarkFinal
<1>9. QED BY <1>2, <1>3, <1>4, <1>5, <1>6, <1>7, <1>8 DEF Work

(* Steps of the controller: a listing copies the rows as they are. *)
LEMMA CopyControl ==
  ASSUME TypeOK, CopyInv, OneProcess, NEW p \in Procs, Control(p) \/ Crash(p)
  PROVE  CopyInv' /\ \A e \in Deliveries : Counts(e)
<1>t. status \in [Deliveries -> Status] /\ worker \in [Procs -> [Deliveries -> Worker]]
  BY DEF TypeOK
<1> DEFINE Result == CopyInv' /\ \A e \in Deliveries : Counts(e)
<1>1. CASE StartCronTask(p) \/ DispatchDue(p)
  <2>1. UNCHANGED <<attempts, due, worker>>
    BY <1>1 DEF StartCronTask, DispatchDue
  <2>2. \A d \in Deliveries : \/ status'[d] = status[d]
                              \/ status[d] = "sending" /\ status'[d] = "pending"
    BY <1>1 DEF StartCronTask, DispatchDue, RecoverStale
  <2>3. QED BY <1>t, <2>1, <2>2, CopyKept
<1>2. CASE ListDue(p)
  <2>1. PICK rows \in SUBSET DueRows :
          worker' = [worker EXCEPT ![p] = [d \in Deliveries |->
                       IF d \in rows THEN RowCopy(d) ELSE NoWorker]]
    BY <1>2 DEF ListDue
  <2>2. UNCHANGED <<status, attempts, due>>
    BY <1>2 DEF ListDue, rowVars
  <2>3. ASSUME NEW q \in Procs, NEW d \in Deliveries PROVE CopyCurrent(q, d)'
    <3>1. q = p
      BY DEF OneProcess
    <3>2. worker'[q][d] = IF d \in rows THEN RowCopy(d) ELSE NoWorker
      BY <1>t, <2>1, <3>1
    <3>3. CASE d \in rows
      <4>1. status[d] = "pending" /\ due[d]
        BY <3>3 DEF DueRows
      <4>2. worker'[q][d].pc = "listed" /\ worker'[q][d].attempts = attempts[d]
        BY <3>2, <3>3 DEF RowCopy, NoWorker
      <4>3. QED BY <2>2, <4>1, <4>2 DEF CopyCurrent, Holding
    <3>4. CASE d \notin rows
      BY <3>2, <3>4 DEF CopyCurrent, NoWorker, Waiting, Holding
    <3>5. QED BY <3>3, <3>4
  <2>4. ASSUME NEW d \in Deliveries PROVE Counts(d)
    <3>1. attempts'[d] >= attempts[d]
      BY <1>t, <2>2 DEF TypeOK
    <3>2. QED BY <2>2, <3>1 DEF Counts
  <2>5. QED BY <2>2, <2>3, <2>4 DEF CopyInv
<1>3. CASE LoadPushTargets(p)
  <2>1. PICK group \in SUBSET Listed(p), withToken \in SUBSET Students :
          worker' = [worker EXCEPT ![p] = [d \in Deliveries |->
                       IF d \in group
                       THEN [worker[p][d] EXCEPT !.pc = "queued",
                                                 !.target = Allows(d) /\ Owner[d] \in withToken]
                       ELSE worker[p][d]]]
    BY <1>3 DEF LoadPushTargets
  <2>2. ASSUME NEW q \in Procs, NEW d \in Deliveries
        PROVE  \/ worker'[q][d] = worker[q][d]
               \/ /\ worker'[q][d].attempts = worker[q][d].attempts
                  /\ worker[q][d].pc = "listed" /\ worker'[q][d].pc = "queued"
    <3>1. q = p /\ worker[p][d] \in Worker
      BY <1>t DEF OneProcess
    <3>2. CASE d \in group
      BY <1>t, <2>1, <3>1, <3>2 DEF Listed, Worker
    <3>3. CASE d \notin group
      BY <1>t, <2>1, <3>1, <3>3
    <3>4. QED BY <3>2, <3>3
  <2>3. UNCHANGED <<status, attempts, due>>
    BY <1>3 DEF LoadPushTargets, rowVars
  <2>4. QED BY <1>t, <2>2, <2>3, CopyKept DEF Waiting
<1>4. CASE AbortBatch(p) \/ BatchTimeout(p) \/ GroupDone(p) \/ Crash(p)
  <2>1. UNCHANGED <<status, attempts, due>>
    BY <1>4 DEF AbortBatch, BatchTimeout, GroupDone, Crash, rowVars
  <2>2. \A q \in Procs, d \in Deliveries :
          worker'[q][d] = worker[q][d] \/ worker'[q][d].pc = "none"
    BY <1>t, <1>4 DEF AbortBatch, BatchTimeout, GroupDone, Crash, Leave, NoWorker
  <2>3. QED BY <1>t, <2>1, <2>2, CopyKept
<1>5. QED BY <1>1, <1>2, <1>3, <1>4 DEF Control

(* Every step of a single process and of the feed around it. *)
LEMMA CopyStep ==
  ASSUME TypeBudget, CopyInv, OneProcess, [Next]_vars
  PROVE  CopyInv' /\ \A d \in Deliveries : Counts(d)
<1>t. TypeOK /\ status \in [Deliveries -> Status] /\ worker \in [Procs -> [Deliveries -> Worker]]
  BY DEF TypeBudget, TypeOK
<1> DEFINE Result == CopyInv' /\ \A d \in Deliveries : Counts(d)
<1>1. CASE UNCHANGED vars
  BY <1>t, <1>1, CopyKept DEF vars, rowVars
<1>2. ASSUME NEW p \in Procs, NEW d \in Deliveries, Work(p, d) PROVE Result
  BY <1>t, <1>2, CopyWork
<1>3. ASSUME NEW p \in Procs, Control(p) \/ Crash(p) PROVE Result
  BY <1>t, <1>3, CopyControl
<1>4. ASSUME UNCHANGED <<attempts, worker>>,
             \A d \in Deliveries :
               /\ due[d] => due'[d]
               /\ \/ status'[d] = status[d]
                  \/ status[d] = "pending" /\ status'[d] \in Final
                  \/ status[d] = "absent" /\ status'[d] = "pending"
      PROVE  Result
  BY <1>t, <1>4, CopyKept
<1>5. ASSUME NEW d \in Deliveries, Clock(d) PROVE Result
  <2>1. UNCHANGED <<status, attempts, worker>>
    BY <1>5 DEF Clock, BackoffElapses, ClaimAges, Expires, rowVars
  <2>2. \A e \in Deliveries : due[e] => due'[e]
    BY <1>5 DEF Clock, BackoffElapses, ClaimAges, Expires, rowVars, TypeBudget, TypeOK
  <2>3. QED BY <1>4, <2>1, <2>2
<1>6. ASSUME NEW s \in Students, Student(s) PROVE Result
  <2>1. UNCHANGED <<attempts, due, worker>>
    BY <1>6 DEF Student, FindOrCreateUserFeedConfig, RemoveFeedEvent, ChangeConfigBits, rowVars
  <2>2. \A d \in Deliveries : \/ status'[d] = status[d]
                              \/ status[d] = "pending" /\ status'[d] = "suppressed"
    BY <1>6 DEF Student, FindOrCreateUserFeedConfig, RemoveFeedEvent, ChangeConfigBits, ClosesRow, rowVars
  <2>3. QED BY <1>4, <2>1, <2>2 DEF Final
<1>7. ASSUME NEW D \in SUBSET Deliveries, StoreFeedEvents(D) PROVE Result
  <2>1. UNCHANGED <<attempts, worker>>
    BY <1>7 DEF StoreFeedEvents
  <2>2. \A d \in Deliveries :
          /\ due[d] => due'[d]
          /\ status'[d] = status[d] \/ (status[d] = "absent" /\ status'[d] = "pending")
    BY <1>7 DEF StoreFeedEvents, TypeBudget, Budget
  <2>3. QED BY <1>4, <2>1, <2>2
<1>8. QED BY <1>1, <1>2, <1>3, <1>5, <1>6, <1>7 DEF Next

(* With one dispatching process, however often it crashes and restarts and *)
(* whether or not its workers outlive the recovery timeout, every failed   *)
(* push uses up one attempt of the row and no claim comes before its time. *)
THEOREM RetriesCounted ==
  ASSUME OneProcess
  PROVE  Spec => RetriesAreCounted
<1>1. Init => CopyInv
  BY DEF Init, CopyInv, CopyCurrent, NoWorker, Waiting, Holding
<1>2. TypeBudget /\ CopyInv /\ [Next]_vars => CopyInv'
  BY CopyStep
<1>3. TypeBudget /\ CopyInv /\ [Next]_vars =>
        [\A d \in Deliveries :
           /\ attempts'[d] >= attempts[d]
           /\ status[d] = "sending" /\ (status'[d] = "failed" \/ (status'[d] = "pending" /\ ~due'[d]))
                => attempts'[d] = attempts[d] + 1]_vars
  BY CopyStep DEF Counts
<1>4. TypeBudget /\ CopyInv /\ [Next]_vars =>
        [\A d \in Deliveries : status[d] = "pending" /\ status'[d] = "sending" => due[d]]_vars
  BY CopyStep DEF Counts
<1>5. QED
  BY <1>1, <1>2, <1>3, <1>4, TypeBudgetInvariant, PTL
     DEF Spec, RetriesAreCounted, AttemptsNeverLost, ClaimsAreDue

=============================================================================
