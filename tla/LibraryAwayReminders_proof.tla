--------------------- MODULE LibraryAwayReminders_proof ----------------------
(***************************************************************************)
(* Proofs about LibraryAwayReminders, for any number of episodes, attempts *)
(* and faults.                                                             *)
(***************************************************************************)
EXTENDS LibraryAwayReminders, TLAPS

-----------------------------------------------------------------------------
(* Types *)

(* The rows and workers of the initial state have their types. *)
LEMMA ConstantRows ==
  /\ NoJob \in Job /\ NoOutbox \in Outbox
  /\ NoDispatcher \in Dispatcher /\ NoSender \in Sender
BY DEF NoJob, Job, JobStatus, NoOutbox, Outbox, OutboxStatus, NoDispatcher, Dispatcher,
       DispatchStep, NoSender, Sender, SendStep

(* The initial state is well typed. *)
LEMMA InitType == Init => TypeOK
<1> SUFFICES ASSUME Init PROVE TypeOK
  OBVIOUS
<1>1. sub \in [enabled : BOOLEAN, version : Nat]
  <2>1. PICK b \in BOOLEAN : sub = [enabled |-> b, version |-> 1]
    BY DEF Init
  <2>2. QED BY <2>1
<1>2. episode \in [version : 0..MaxEpisode, open : BOOLEAN]
  BY ConstantsAssumption DEF Init
<1>3. scan \in [seen : Observations \cup {"none"}, pv : Nat]
  BY DEF Init, NoScan
<1>4. calls \in [Episodes -> Nat]
  BY DEF Init
<1>5. QED BY <1>1, <1>2, <1>3, <1>4, ConstantRows DEF Init, TypeOK

(* Faults are counted in the naturals. *)
LEMMA FaultType ==
  ASSUME faults \in Nat, Fault \/ UNCHANGED faults
  PROVE  faults' \in Nat
BY DEF Fault

(* A scan leaves the seat, the batches and be-feed alone. *)
LEMMA ScanFrame ==
  ASSUME Scan
  PROVE  UNCHANGED <<worldVars, sub, up, jobVars, sendVars, feedVars, faults>>
<1> USE DEF worldVars, dbVars, procVars, feedVars
<1>1. CASE ScanActiveUser
  BY <1>1 DEF ScanActiveUser
<1>2. CASE ApplyActiveObservation
  BY <1>2 DEF ApplyActiveObservation
<1>3. CASE ReconcileReservation
  BY <1>3 DEF ReconcileReservation
<1>4. CASE ScanFails
  BY <1>4 DEF ScanFails
<1>5. QED BY <1>1, <1>2, <1>3, <1>4 DEF Scan

DispatchLeaves == UNCHANGED <<worldVars, sub, up, sendVars, scan, feedVars>>

(* The dispatcher touches neither the sender's state nor be-feed's. *)
LEMMA DispatchFrame ==
  ASSUME Dispatch
  PROVE  DispatchLeaves
<1> USE DEF DispatchLeaves, worldVars, dbVars, procVars, sendVars, feedVars
<1>1. ASSUME NEW e \in Episodes, ClaimJob(e) \/ CheckJob(e) \/ ObserveForJob(e) PROVE DispatchLeaves
  BY <1>1 DEF ClaimJob, CheckJob, ObserveForJob
<1>2. ASSUME NEW e \in Episodes, EndForJob(e) \/ FinishJob(e) PROVE DispatchLeaves
  BY <1>2 DEF EndForJob, FinishJob
<1>3. ASSUME NEW e \in Episodes, CompleteJobAndEnqueue(e) \/ ReleaseClaimedJob(e) PROVE DispatchLeaves
  BY <1>3 DEF CompleteJobAndEnqueue, ReleaseClaimedJob
<1>4. CASE SuppressStaleJobs \/ ListDueJobs
  BY <1>4 DEF SuppressStaleJobs, ListDueJobs
<1>5. CASE StopLaunching \/ DispatchDone
  BY <1>5 DEF StopLaunching, DispatchDone
<1>6. QED
  <2> HIDE DEF DispatchLeaves
  <2> QED BY <1>1, <1>2, <1>3, <1>4, <1>5 DEF Dispatch, DispatchStepOf

SendLeaves == UNCHANGED <<worldVars, sub, up, jobVars, scan, stored>>

(* The sender touches neither the dispatcher's state nor the scan's. *)
LEMMA SendFrame ==
  ASSUME Send
  PROVE  SendLeaves
<1> USE DEF SendLeaves, worldVars, dbVars, procVars, feedVars
<1>1. ASSUME NEW e \in Episodes, CheckOutbox(e) \/ ObserveForOutbox(e) \/ EndForOutbox(e)
      PROVE  SendLeaves
  BY <1>1 DEF CheckOutbox, ObserveForOutbox, EndForOutbox
<1>2. ASSUME NEW e \in Episodes, RecheckOutbox(e) \/ Publish(e) PROVE SendLeaves
  BY <1>2 DEF RecheckOutbox, Publish
<1>3. ASSUME NEW e \in Episodes, FinishOutbox(e) \/ ReleaseOutboxAfterFailure(e) PROVE SendLeaves
  BY <1>3 DEF FinishOutbox, ReleaseOutboxAfterFailure
<1>4. CASE SuppressStaleOutbox \/ ClaimOutbox
  BY <1>4 DEF SuppressStaleOutbox, ClaimOutbox
<1>5. CASE ReleaseClaimedOutbox \/ SendDone
  BY <1>5 DEF ReleaseClaimedOutbox, SendDone
<1>6. QED
  <2> HIDE DEF SendLeaves
  <2> QED BY <1>1, <1>2, <1>3, <1>4, <1>5 DEF Send, SendStepOf

(* An update is applied only where it can be. *)
LEMMA UpdateFacts ==
  ASSUME faults \in Nat, NEW can \in BOOLEAN, NEW applied \in BOOLEAN, NEW answered \in BOOLEAN,
         Update(can, applied, answered)
  PROVE  /\ applied => can
         /\ faults' \in Nat
BY DEF Update, Fault

(* A job moved on to another status and its next version. *)
Moved(r, s, v, n) == [r EXCEPT !.status = s, !.version = v, !.attempts = n]

(* The fields of a moved job. *)
LEMMA MovedFacts ==
  ASSUME NEW r \in Job, NEW s \in JobStatus, NEW v \in Nat, NEW n \in Nat
  PROVE  /\ Moved(r, s, v, n) \in Job
         /\ Moved(r, s, v, n).status = s /\ Moved(r, s, v, n).version = v
         /\ Moved(r, s, v, n).attempts = n /\ Moved(r, s, v, n).pv = r.pv
BY DEF Moved, Job

(* What cancelling does to a row. *)
LEMMA CancelFacts ==
  ASSUME TypeOK, NEW final \in {"cancelled", "disabled"}, CancelWork(final)
  PROVE  /\ job' \in [Episodes -> Job] /\ outbox' \in [Episodes -> Outbox]
         /\ UNCHANGED <<dueJobs, dueOutbox>>
         /\ \A e \in Episodes :
              /\ IF job[e].status \in LiveJob
                 THEN /\ job'[e].status = final /\ job'[e].version = job[e].version + 1
                      /\ job'[e].attempts = job[e].attempts /\ job'[e].pv = job[e].pv
                 ELSE job'[e] = job[e]
              /\ IF outbox[e].status \in LiveOutbox
                 THEN /\ outbox'[e].status = "suppressed"
                      /\ outbox'[e].attempts = outbox[e].attempts
                      /\ outbox'[e].pv = outbox[e].pv
                 ELSE outbox'[e] = outbox[e]
<1>1. \A e \in Episodes : job[e] \in Job /\ outbox[e] \in Outbox
  BY DEF TypeOK
<1>2. UNCHANGED <<dueJobs, dueOutbox>>
  BY DEF CancelWork
<1>3. /\ job' \in [Episodes -> Job]
      /\ \A e \in Episodes :
           IF job[e].status \in LiveJob
           THEN /\ job'[e].status = final /\ job'[e].version = job[e].version + 1
                /\ job'[e].attempts = job[e].attempts /\ job'[e].pv = job[e].pv
           ELSE job'[e] = job[e]
  <2>1. ASSUME NEW e \in Episodes, job[e].status \in LiveJob
        PROVE  /\ job'[e] \in Job
               /\ job'[e].status = final /\ job'[e].version = job[e].version + 1
               /\ job'[e].attempts = job[e].attempts /\ job'[e].pv = job[e].pv
    <3>1. /\ job[e].version + 1 \in Nat /\ job[e].attempts \in Nat /\ final \in JobStatus
          /\ job[e] \in Job
      BY <1>1 DEF Job, JobStatus
    <3>2. job'[e] = [job[e] EXCEPT !.status = final, !.version = job[e].version + 1]
      BY <2>1 DEF CancelWork
    <3>3. PICK v \in Nat : v = job[e].version + 1
      BY <3>1
    <3>4. job'[e] = Moved(job[e], final, v, job[e].attempts)
      BY <3>1, <3>2, <3>3 DEF Moved, Job
    <3>n. final \in JobStatus
      BY DEF JobStatus
    <3>5. PICK r \in Job, n \in Nat : r = job[e] /\ n = job[e].attempts
      BY <3>1
    <3>6. /\ Moved(r, final, v, n) \in Job
          /\ Moved(r, final, v, n).status = final /\ Moved(r, final, v, n).version = v
          /\ Moved(r, final, v, n).attempts = n /\ Moved(r, final, v, n).pv = r.pv
      BY <3>n, MovedFacts
    <3>7. QED BY <3>3, <3>4, <3>5, <3>6
  <2>2. ASSUME NEW e \in Episodes, job[e].status \notin LiveJob PROVE job'[e] = job[e]
    BY <2>2 DEF CancelWork
  <2>3. job' = [e \in Episodes |-> job'[e]]
    BY DEF CancelWork
  <2>4. QED BY <1>1, <2>1, <2>2, <2>3
<1>4. /\ outbox' \in [Episodes -> Outbox]
      /\ \A e \in Episodes :
           IF outbox[e].status \in LiveOutbox
           THEN /\ outbox'[e].status = "suppressed"
                /\ outbox'[e].attempts = outbox[e].attempts
                /\ outbox'[e].pv = outbox[e].pv
           ELSE outbox'[e] = outbox[e]
  BY <1>1 DEF CancelWork, Outbox, OutboxStatus
<1>5. QED BY <1>2, <1>3, <1>4

(* The fields of a refunded job. *)
LEMMA RefundFacts ==
  ASSUME NEW r \in Job
  PROVE  /\ Refunded(r) \in Job
         /\ Refunded(r).status = "pending" /\ Refunded(r).version = r.version + 1
         /\ Refunded(r).pv = r.pv
         /\ Refunded(r).attempts <= r.attempts
<1>1. r.attempts \in Nat /\ r.version + 1 \in Nat /\ "pending" \in JobStatus
  BY DEF Job, JobStatus
<1>2. PICK n \in Nat : n <= r.attempts /\ n = IF r.attempts > 0 THEN r.attempts - 1 ELSE 0
  BY <1>1
<1>3. PICK v \in Nat : v = r.version + 1
  BY <1>1
<1>4. Refunded(r) = Moved(r, "pending", v, n)
  BY <1>2, <1>3 DEF Refunded, Moved
<1>p. PICK s \in JobStatus : s = "pending"
  BY DEF JobStatus
<1>5. /\ Moved(r, s, v, n) \in Job
      /\ Moved(r, s, v, n).status = s /\ Moved(r, s, v, n).version = v
      /\ Moved(r, s, v, n).attempts = n /\ Moved(r, s, v, n).pv = r.pv
  BY MovedFacts
<1>6. QED BY <1>2, <1>3, <1>4, <1>5, <1>p

(* What recovery does to a row. *)
LEMMA RecoverFacts ==
  ASSUME TypeOK, NEW J \in SUBSET Episodes, NEW O \in SUBSET Episodes, RecoverClaimedWork(J, O)
  PROVE  /\ job' \in [Episodes -> Job] /\ outbox' \in [Episodes -> Outbox]
         /\ UNCHANGED <<dueJobs, dueOutbox>>
         /\ \A e \in Episodes :
              /\ e \in J => job'[e] = Refunded(job[e])
              /\ e \notin J => job'[e] = job[e]
              /\ e \in O => /\ outbox'[e].status = "failed"
                            /\ outbox'[e].attempts = outbox[e].attempts
                            /\ outbox'[e].pv = outbox[e].pv
              /\ e \notin O => outbox'[e] = outbox[e]
<1>1. \A e \in Episodes : job[e] \in Job /\ outbox[e] \in Outbox
  BY DEF TypeOK
<1>2. UNCHANGED <<dueJobs, dueOutbox>>
  BY DEF RecoverClaimedWork
<1>3. /\ job' \in [Episodes -> Job]
      /\ \A e \in Episodes : IF e \in J THEN job'[e] = Refunded(job[e]) ELSE job'[e] = job[e]
  BY <1>1, RefundFacts DEF RecoverClaimedWork
<1>4. /\ outbox' \in [Episodes -> Outbox]
      /\ \A e \in Episodes :
           IF e \in O
           THEN /\ outbox'[e].status = "failed"
                /\ outbox'[e].attempts = outbox[e].attempts
                /\ outbox'[e].pv = outbox[e].pv
           ELSE outbox'[e] = outbox[e]
  BY <1>1 DEF RecoverClaimedWork, Outbox, OutboxStatus
<1>5. QED BY <1>2, <1>3, <1>4

(* A worker that goes on changes only its own step. *)
LEMMA DispatcherFacts ==
  ASSUME TypeOK, NEW e \in Episodes, NEW step \in DispatchStep, DispatcherTo(e, step)
  PROVE  /\ dispatcher' \in [Episodes -> Dispatcher]
         /\ dispatcher'[e].pc = step
         /\ step # "none" => /\ dispatcher'[e].version = dispatcher[e].version
                             /\ dispatcher'[e].attempts = dispatcher[e].attempts
                             /\ dispatcher'[e].pv = dispatcher[e].pv
         /\ \A f \in Episodes \ {e} : dispatcher'[f] = dispatcher[f]
<1>1. dispatcher[e] \in Dispatcher
  BY DEF TypeOK
<1>2. CASE step = "none"
  BY <1>2, ConstantRows DEF DispatcherTo, TypeOK, NoDispatcher
<1>3. CASE step # "none"
  BY <1>1, <1>3 DEF DispatcherTo, TypeOK, Dispatcher
<1>4. QED BY <1>2, <1>3

(* SenderTo changes the step of one worker. *)
LEMMA SenderFacts ==
  ASSUME TypeOK, NEW e \in Episodes, NEW step \in SendStep, SenderTo(e, step)
  PROVE  /\ sender' \in [Episodes -> Sender]
         /\ sender'[e].pc = step
         /\ step # "none" => /\ sender'[e].attempts = sender[e].attempts
                             /\ sender'[e].pv = sender[e].pv
         /\ \A f \in Episodes \ {e} : sender'[f] = sender[f]
<1>1. sender[e] \in Sender
  BY DEF TypeOK
<1>2. CASE step = "none"
  BY <1>2, ConstantRows DEF SenderTo, TypeOK, NoSender
<1>3. CASE step # "none"
  BY <1>1, <1>3 DEF SenderTo, TypeOK, Sender
<1>4. QED BY <1>2, <1>3

(* The seat, the clock, be-feed and the preference keep the types. *)
LEMMA TypeWorld ==
  ASSUME TypeOK, World \/ Preference
  PROVE  TypeOK'
<1> USE DEF worldVars, dbVars, rowVars, procVars, sendVars, jobVars, feedVars
<1>1. ASSUME Leave \/ AbsenceGrows \/ Return \/ ReservationEnds PROVE TypeOK'
  <2>1. away' \in {"no", "early", "long"} /\ leaves' \in Nat
    BY <1>1 DEF TypeOK, Leave, AbsenceGrows, Return, ReservationEnds
  <2>2. over' \in BOOLEAN
    BY <1>1, Zenon DEF TypeOK, Leave, AbsenceGrows, Return, ReservationEnds
  <2>3. UNCHANGED <<dbVars, procVars, feedVars, faults>>
    BY <1>1 DEF Leave, AbsenceGrows, Return, ReservationEnds
  <2>4. QED BY <2>1, <2>2, <2>3 DEF TypeOK
<1>2. ASSUME NEW e \in Episodes, JobDue(e) \/ OutboxDue(e) \/ FeedStores(e) PROVE TypeOK'
  BY <1>2 DEF TypeOK, JobDue, OutboxDue, FeedStores
<1>3. ASSUME PreferenceTurnsOff \/ PreferenceRenewed PROVE TypeOK'
  <2>1. CancelWork("cancelled") /\ UNCHANGED <<worldVars, episode, procVars, feedVars, faults>>
    BY <1>3 DEF PreferenceTurnsOff, PreferenceRenewed
  <2>2. sub' \in [enabled : BOOLEAN, version : Nat]
    <3>1. sub.version + 1 \in Nat
      BY DEF TypeOK
    <3>2. CASE PreferenceTurnsOff
      BY <3>1, <3>2 DEF PreferenceTurnsOff
    <3>3. CASE PreferenceRenewed
      BY <3>1, <3>3 DEF PreferenceRenewed, TypeOK
    <3>4. QED BY <1>3, <3>2, <3>3
  <2>3. /\ job' \in [Episodes -> Job] /\ outbox' \in [Episodes -> Outbox]
        /\ UNCHANGED <<dueJobs, dueOutbox>>
    BY <2>1, CancelFacts
  <2>4. QED BY <2>1, <2>2, <2>3 DEF TypeOK
<1>4. ASSUME PreferenceTurnsOn PROVE TypeOK'
  <2>1. sub' \in [enabled : BOOLEAN, version : Nat]
    BY <1>4 DEF PreferenceTurnsOn, TypeOK
  <2>2. QED BY <1>4, <2>1 DEF PreferenceTurnsOn, TypeOK
<1>5. QED BY <1>1, <1>2, <1>3, <1>4 DEF World, Preference

(* What scheduling does to a job. *)
LEMMA UpsertFacts ==
  ASSUME TypeOK, NEW r \in Job
  PROVE  /\ Upserted(r) \in Job
         /\ \/ Upserted(r) = r /\ r.status \notin {"none", "deleted"}
            \/ /\ Upserted(r).status = "pending" /\ Upserted(r).pv = sub.version
               /\ IF r.status \in {"none", "deleted"}
                  THEN Upserted(r).attempts = 0
                  ELSE Upserted(r).version = r.version + 1 /\ Upserted(r).attempts = r.attempts
<1>1. sub.version \in Nat /\ r.version + 1 \in Nat /\ 0 \in Nat /\ 1 \in Nat
  BY DEF TypeOK, Job
<1>2. CASE r.status \in {"none", "deleted"}
  BY <1>1, <1>2 DEF Upserted, Job, JobStatus
<1>3. CASE Upserted(r) = r /\ r.status \notin {"none", "deleted"}
  BY <1>3
<1>4. CASE r.status \notin {"none", "deleted"} /\ Upserted(r) # r
  <2>1. PICK v \in Nat : v = r.version + 1
    BY <1>1
  <2>2. Upserted(r) = [r EXCEPT !.status = "pending", !.version = v, !.pv = sub.version]
    BY <1>4, <2>1 DEF Upserted
  <2>3. PICK p \in Nat : p = sub.version
    BY <1>1
  <2>4. LET q == [r EXCEPT !.status = "pending", !.version = v, !.pv = p]
        IN  /\ q \in Job /\ q.status = "pending" /\ q.version = v /\ q.pv = p
            /\ q.attempts = r.attempts
    BY DEF Job, JobStatus
  <2>5. QED BY <1>4, <2>1, <2>2, <2>3, <2>4
<1>5. QED BY <1>2, <1>3, <1>4

(* The scan keeps the types. *)
LEMMA TypeScan ==
  ASSUME TypeOK, Scan
  PROVE  TypeOK'
<1> USE DEF worldVars, dbVars, rowVars, procVars, sendVars, jobVars, feedVars
<1>1. ASSUME ScanActiveUser PROVE TypeOK'
  <2>1. Observation \in Observations
    BY DEF Observation, Observations, TypeOK
  <2>2. scan' \in [seen : Observations \cup {"none"}, pv : Nat]
    BY <1>1, <2>1 DEF ScanActiveUser, TypeOK
  <2>3. QED BY <1>1, <2>2 DEF ScanActiveUser, TypeOK
<1>2. NoScan \in [seen : Observations \cup {"none"}, pv : Nat]
  BY DEF NoScan
<1>3. ASSUME ApplyActiveObservation PROVE TypeOK'
  <2>1. UNCHANGED <<worldVars, sub, up, jobVars, sendVars, feedVars, faults>> /\ scan' = NoScan
    BY <1>3 DEF ApplyActiveObservation
  <2>2. CASE UNCHANGED <<episode, rowVars>>
    BY <1>2, <2>1, <2>2 DEF TypeOK
  <2>3. CASE CancelWork("cancelled")
    <3>1. /\ job' \in [Episodes -> Job] /\ outbox' \in [Episodes -> Outbox]
          /\ UNCHANGED <<dueJobs, dueOutbox>>
      BY <2>3, CancelFacts
    <3>2. CASE episode' = [episode EXCEPT !.open = FALSE] \/ UNCHANGED episode
      <4>1. episode' \in [version : 0..MaxEpisode, open : BOOLEAN]
        BY <3>2 DEF TypeOK
      <4>2. QED BY <1>2, <2>1, <3>1, <4>1 DEF TypeOK
    <3>3. CASE NextEpisode \in Episodes /\ episode' = [version |-> NextEpisode, open |-> TRUE]
      <4>1. episode' \in [version : 0..MaxEpisode, open : BOOLEAN]
        BY <3>3 DEF TypeOK, Episodes
      <4>2. QED BY <1>2, <2>1, <3>1, <4>1 DEF TypeOK
    <3>4. QED BY <1>3, <2>2, <3>2, <3>3 DEF ApplyActiveObservation
  <2>4. CASE /\ NextEpisode \in Episodes
             /\ episode' = [version |-> NextEpisode, open |-> TRUE]
             /\ job' = [job EXCEPT ![NextEpisode] = Upserted(@)]
             /\ dueJobs' = IF job'[NextEpisode] = job[NextEpisode] THEN dueJobs
                           ELSE dueJobs \ {NextEpisode}
             /\ UNCHANGED <<outbox, dueOutbox>>
    <3>1. episode' \in [version : 0..MaxEpisode, open : BOOLEAN]
      BY <2>4 DEF TypeOK, Episodes
    <3>2. job' \in [Episodes -> Job]
      BY <2>4, UpsertFacts DEF TypeOK
    <3>3. dueJobs' \in SUBSET Episodes
      BY <2>4 DEF TypeOK
    <3>4. QED BY <1>2, <2>1, <2>4, <3>1, <3>2, <3>3 DEF TypeOK
  <2>5. QED BY <1>3, <2>2, <2>3, <2>4 DEF ApplyActiveObservation
<1>4. ASSUME ReconcileReservation PROVE TypeOK'
  <2>1. /\ job' \in [Episodes -> Job] /\ outbox' \in [Episodes -> Outbox]
        /\ UNCHANGED <<dueJobs, dueOutbox>>
    BY <1>4, CancelFacts DEF ReconcileReservation
  <2>2. QED BY <1>4, <2>1 DEF ReconcileReservation, TypeOK
<1>5. ASSUME ScanFails PROVE TypeOK'
  BY <1>2, <1>5 DEF ScanFails, TypeOK
<1>6. QED BY <1>1, <1>3, <1>4, <1>5 DEF Scan

(* What the claim of a job does to the rows and the copies. *)
LEMMA ClaimFacts ==
  ASSUME TypeOK, NEW e \in Episodes, ClaimJob(e)
  PROVE  /\ job' \in [Episodes -> Job]
         /\ dispatcher' \in [Episodes -> Dispatcher]
         /\ faults' \in Nat
         /\ \A f \in Episodes \ {e} : job'[f] = job[f]
         /\ \/ job' = job
            \/ /\ CanClaim(e)
               /\ job'[e].status = "running" /\ job'[e].version = job[e].version + 1
               /\ job'[e].attempts = job[e].attempts + 1 /\ job'[e].pv = job[e].pv
         /\ \A f \in Episodes :
              \/ dispatcher'[f].pc \in {"none", "release"} /\ (dispatcher'[f].pc = "release" => Busy(f))
              \/ dispatcher'[f] = dispatcher[f] /\ f # e
              \/ /\ f = e /\ dispatcher'[e].pc = "claimed" /\ CanClaim(e)
                 /\ dispatcher'[e].version = dispatcher[e].version + 1
                 /\ dispatcher'[e].pv = dispatcher[e].pv
                 /\ job'[e].version = job[e].version + 1 /\ job'[e].pv = job[e].pv
                 /\ job'[e].status = "running"
<1>1. PICK applied \in BOOLEAN, answered \in BOOLEAN :
        /\ Update(CanClaim(e), applied, answered)
        /\ job' = IF applied
                  THEN [job EXCEPT ![e].status = "running", ![e].version = @ + 1,
                                   ![e].attempts = @ + 1]
                  ELSE job
        /\ LET d == dispatcher[e]
               mine(step) == [d EXCEPT !.pc = step, !.version = @ + 1, !.attempts = @ + 1]
           IN dispatcher' =
                IF answered
                THEN [dispatcher EXCEPT ![e] = IF applied THEN mine("claimed") ELSE NoDispatcher]
                ELSE [f \in Episodes |->
                        IF f = e THEN mine("release")
                        ELSE IF dispatcher[f].pc = "claimed"
                             THEN [dispatcher[f] EXCEPT !.pc = "release"]
                             ELSE NoDispatcher]
  BY DEF ClaimJob
<1>2. /\ job \in [Episodes -> Job] /\ dispatcher \in [Episodes -> Dispatcher] /\ faults \in Nat
      /\ \A f \in Episodes : dispatcher[f] \in Dispatcher
  BY DEF TypeOK
<1>3. faults' \in Nat
  BY <1>1, <1>2 DEF Update, Fault
<1>4. applied => CanClaim(e)
  BY <1>1 DEF Update
<1>5. /\ job' \in [Episodes -> Job]
      /\ \A f \in Episodes \ {e} : job'[f] = job[f]
      /\ applied => /\ job'[e].status = "running" /\ job'[e].version = job[e].version + 1
                    /\ job'[e].attempts = job[e].attempts + 1 /\ job'[e].pv = job[e].pv
  <2>1. CASE applied
    <3>1. PICK v \in Nat, n \in Nat : v = job[e].version + 1 /\ n = job[e].attempts + 1
      BY <1>2 DEF Job
    <3>2. PICK r \in Job : r = job[e]
      BY <1>2
    <3>3. "running" \in JobStatus
      BY DEF JobStatus
    <3>4. /\ Moved(r, "running", v, n) \in Job
          /\ Moved(r, "running", v, n).status = "running" /\ Moved(r, "running", v, n).version = v
          /\ Moved(r, "running", v, n).attempts = n /\ Moved(r, "running", v, n).pv = r.pv
      BY <3>3, MovedFacts
    <3>5. job' = [job EXCEPT ![e] = Moved(r, "running", v, n)]
      BY <1>1, <2>1, <3>1, <3>2 DEF Moved
    <3>6. QED BY <1>2, <3>1, <3>2, <3>4, <3>5
  <2>2. CASE ~applied
    BY <1>1, <1>2, <2>2
  <2>3. QED BY <2>1, <2>2
<1>6. dispatcher[e].pc = "listed"
  BY DEF ClaimJob, ListedJobs
<1>7. PICK v \in Nat, n \in Nat : v = dispatcher[e].version + 1 /\ n = dispatcher[e].attempts + 1
  BY <1>2 DEF Dispatcher
<1>8. ASSUME NEW step \in {"claimed", "release"}
      PROVE  LET w == [dispatcher[e] EXCEPT !.pc = step, !.version = v, !.attempts = n]
             IN  w \in Dispatcher /\ w.pc = step /\ w.version = v /\ w.pv = dispatcher[e].pv
  BY <1>2 DEF Dispatcher, DispatchStep
<1>9. CASE answered
  <2>1. CASE applied
    <3>1. dispatcher' = [dispatcher EXCEPT ![e] =
                           [dispatcher[e] EXCEPT !.pc = "claimed", !.version = v, !.attempts = n]]
      BY <1>1, <1>7, <1>9, <2>1
    <3>2. QED BY <1>2, <1>3, <1>4, <1>5, <1>7, <1>8, <2>1, <3>1
  <2>2. CASE ~applied
    <3>1. dispatcher' = [dispatcher EXCEPT ![e] = NoDispatcher]
      BY <1>1, <1>9, <2>2
    <3>2. job' = job
      BY <1>1, <2>2
    <3>3. QED BY <1>2, <1>3, <1>5, <3>1, <3>2, ConstantRows DEF NoDispatcher
  <2>3. QED BY <2>1, <2>2
<1>10. CASE ~answered
  <2>1. dispatcher' = [f \in Episodes |->
                         IF f = e
                         THEN [dispatcher[e] EXCEPT !.pc = "release", !.version = v, !.attempts = n]
                         ELSE IF dispatcher[f].pc = "claimed"
                              THEN [dispatcher[f] EXCEPT !.pc = "release"]
                              ELSE NoDispatcher]
    BY <1>1, <1>7, <1>10
  <2>2. \A f \in Episodes : LET w == [dispatcher[f] EXCEPT !.pc = "release"]
                            IN  w \in Dispatcher /\ w.pc = "release"
    BY <1>2 DEF Dispatcher, DispatchStep
  <2>3. dispatcher' \in [Episodes -> Dispatcher]
    BY <1>8, <2>1, <2>2, ConstantRows
  <2>4. \A f \in Episodes : /\ dispatcher'[f].pc \in {"none", "release"}
                            /\ dispatcher'[f].pc = "release" => Busy(f)
    BY <1>6, <1>8, <2>1, <2>2 DEF Busy, NoDispatcher
  <2>5. \/ job' = job
        \/ /\ CanClaim(e)
           /\ job'[e].status = "running" /\ job'[e].version = job[e].version + 1
           /\ job'[e].attempts = job[e].attempts + 1 /\ job'[e].pv = job[e].pv
    BY <1>1, <1>4, <1>5
  <2>6. QED BY <1>3, <1>5, <2>3, <2>4, <2>5
<1>11. QED BY <1>9, <1>10

(* DispatchJobs keeps the types. *)
LEMMA TypeDispatch ==
  ASSUME TypeOK, Dispatch
  PROVE  TypeOK'
<1> USE DEF worldVars, dbVars, rowVars, procVars, sendVars, jobVars, feedVars
<1>1. ASSUME SuppressStaleJobs PROVE TypeOK'
  <2>1. \A e \in Episodes : job[e] \in Job
    BY DEF TypeOK
  <2>2. job' \in [Episodes -> Job]
    BY <1>1, <2>1 DEF SuppressStaleJobs, Job, JobStatus
  <2>3. QED BY <1>1, <2>2 DEF SuppressStaleJobs, TypeOK
<1>2. ASSUME ListDueJobs PROVE TypeOK'
  <2>1. \A e \in Episodes : job[e] \in Job
    BY DEF TypeOK
  <2>2. dispatcher' \in [Episodes -> Dispatcher]
    BY <1>2, <2>1, ConstantRows DEF ListDueJobs, Dispatcher, DispatchStep, Job
  <2>3. QED BY <1>2, <2>2 DEF ListDueJobs, TypeOK
<1>3. ASSUME StopLaunching PROVE TypeOK'
  <2>1. \A e \in Episodes : dispatcher[e] \in Dispatcher
    BY DEF TypeOK
  <2>2. dispatcher' \in [Episodes -> Dispatcher]
    BY <1>3, <2>1 DEF StopLaunching, Dispatcher, DispatchStep
  <2>3. faults' \in Nat
    BY <1>3 DEF StopLaunching, Fault, TypeOK
  <2>4. QED BY <1>3, <2>2, <2>3 DEF StopLaunching, TypeOK
<1>4. ASSUME DispatchDone PROVE TypeOK'
  BY <1>4 DEF DispatchDone, TypeOK
<1>5. ASSUME NEW e \in Episodes, ClaimJob(e) PROVE TypeOK'
  <2>1. /\ job' \in [Episodes -> Job]
        /\ dispatcher' \in [Episodes -> Dispatcher]
        /\ faults' \in Nat
    BY <1>5, ClaimFacts
  <2>2. QED BY <1>5, <2>1 DEF ClaimJob, TypeOK
<1>6. ASSUME NEW e \in Episodes, CheckJob(e) \/ ObserveForJob(e) PROVE TypeOK'
  <2>1. PICK step \in DispatchStep : DispatcherTo(e, step)
    BY <1>6 DEF CheckJob, ObserveForJob, DispatchStep
  <2>2. dispatcher' \in [Episodes -> Dispatcher]
    BY <2>1, DispatcherFacts
  <2>3. faults' \in Nat
    BY <1>6 DEF CheckJob, ObserveForJob, Fault, TypeOK
  <2>4. QED BY <1>6, <2>2, <2>3 DEF CheckJob, ObserveForJob, TypeOK
<1>7. ASSUME NEW e \in Episodes, EndForJob(e) PROVE TypeOK'
  <2>1. PICK applied \in BOOLEAN, answered \in BOOLEAN :
          /\ Update(CanEndEpisode(e, dispatcher[e].pv), applied, answered)
          /\ IF applied THEN EndAwayEpisode ELSE UNCHANGED <<episode, rowVars>>
          /\ IF answered
             THEN DispatcherTo(e, IF applied THEN "none" ELSE "suppress")
             ELSE \E step \in DispatchStep : RetryStep(e, step) /\ DispatcherTo(e, step)
    BY <1>7 DEF EndForJob
  <2>2. PICK step \in DispatchStep : DispatcherTo(e, step)
    BY <2>1 DEF DispatchStep
  <2>3. dispatcher' \in [Episodes -> Dispatcher]
    BY <2>2, DispatcherFacts
  <2>4. faults' \in Nat
    BY <2>1 DEF Update, Fault, TypeOK
  <2>5. UNCHANGED <<worldVars, sub, up, dispatching, sendVars, scan, feedVars>>
    BY <1>7 DEF EndForJob
  <2>6. CASE applied
    <3>1. /\ job' \in [Episodes -> Job] /\ outbox' \in [Episodes -> Outbox]
          /\ UNCHANGED <<dueJobs, dueOutbox>>
      BY <2>1, <2>6, CancelFacts DEF EndAwayEpisode
    <3>2. episode' \in [version : 0..MaxEpisode, open : BOOLEAN]
      BY <2>1, <2>6 DEF EndAwayEpisode, TypeOK
    <3>3. QED BY <2>3, <2>4, <2>5, <3>1, <3>2 DEF TypeOK
  <2>7. CASE ~applied
    BY <2>1, <2>3, <2>4, <2>5, <2>7 DEF TypeOK
  <2>8. QED BY <2>6, <2>7
<1>8. ASSUME NEW e \in Episodes,
             FinishJob(e) \/ CompleteJobAndEnqueue(e) \/ ReleaseClaimedJob(e)
      PROVE  TypeOK'
  <2>1. PICK step \in DispatchStep : DispatcherTo(e, step)
    BY <1>8 DEF FinishJob, CompleteJobAndEnqueue, ReleaseClaimedJob, DispatchStep
  <2>2. dispatcher' \in [Episodes -> Dispatcher]
    BY <2>1, DispatcherFacts
  <2>3. faults' \in Nat
    BY <1>8 DEF FinishJob, CompleteJobAndEnqueue, ReleaseClaimedJob, Update, Fault, TypeOK
  <2>4. job[e] \in Job /\ outbox[e] \in Outbox /\ dispatcher[e].pv \in Nat
    BY DEF TypeOK, Dispatcher
  <2>5. job' \in [Episodes -> Job]
    <3>1. Refunded(job[e]) \in Job
      BY <2>4, RefundFacts
    <3>2. \A s \in {"suppressed", "pending", "done"} : [job[e] EXCEPT !.status = s] \in Job
      BY <2>4 DEF Job, JobStatus
    <3>3. CASE FinishJob(e)
      BY <3>2, <3>3 DEF FinishJob, TypeOK
    <3>4. CASE CompleteJobAndEnqueue(e)
      BY <3>2, <3>4 DEF CompleteJobAndEnqueue, TypeOK
    <3>5. CASE ReleaseClaimedJob(e)
      BY <3>1, <3>5 DEF ReleaseClaimedJob, TypeOK
    <3>6. QED BY <1>8, <3>3, <3>4, <3>5
  <2>6. outbox' \in [Episodes -> Outbox]
    <3>1. Enqueued(e) \in Outbox
      BY <2>4 DEF Enqueued, Outbox, OutboxStatus
    <3>2. QED BY <1>8, <3>1 DEF FinishJob, CompleteJobAndEnqueue, ReleaseClaimedJob, TypeOK
  <2>7. dueJobs' \in SUBSET Episodes /\ dueOutbox' \in SUBSET Episodes
    BY <1>8 DEF FinishJob, CompleteJobAndEnqueue, ReleaseClaimedJob, TypeOK
  <2>8. UNCHANGED <<worldVars, sub, episode, up, dispatching, sendVars, scan, feedVars>>
    BY <1>8 DEF FinishJob, CompleteJobAndEnqueue, ReleaseClaimedJob
  <2>9. QED BY <2>2, <2>3, <2>5, <2>6, <2>7, <2>8 DEF TypeOK
<1>9. QED BY <1>1, <1>2, <1>3, <1>4, <1>5, <1>6, <1>7, <1>8 DEF Dispatch, DispatchStepOf

(* SendOutbox keeps the types. *)
LEMMA TypeSend ==
  ASSUME TypeOK, Send
  PROVE  TypeOK'
<1> USE DEF worldVars, dbVars, rowVars, procVars, sendVars, jobVars, feedVars
<1>r. \A e \in Episodes : outbox[e] \in Outbox /\ outbox[e].attempts + 1 \in Nat
  BY DEF TypeOK, Outbox
<1>s. \A e \in Episodes, s \in OutboxStatus : [outbox[e] EXCEPT !.status = s] \in Outbox
  BY <1>r DEF Outbox
<1>1. ASSUME SuppressStaleOutbox PROVE TypeOK'
  <2>1. outbox' \in [Episodes -> Outbox]
    BY <1>1, <1>r, <1>s DEF SuppressStaleOutbox, OutboxStatus
  <2>2. QED BY <1>1, <2>1 DEF SuppressStaleOutbox, TypeOK
<1>2. ASSUME ClaimOutbox PROVE TypeOK'
  <2>1. PICK applied \in BOOLEAN, answered \in BOOLEAN :
          /\ Update(Sendable # {}, applied, answered)
          /\ outbox' = [e \in Episodes |->
                          IF applied /\ e \in Sendable
                          THEN [outbox[e] EXCEPT !.status = "sending", !.attempts = @ + 1]
                          ELSE outbox[e]]
          /\ sending' = IF applied /\ answered THEN "work" ELSE "idle"
          /\ sender' = [e \in Episodes |->
                          IF applied /\ answered /\ e \in Sendable
                          THEN [pc |-> "claimed", attempts |-> outbox[e].attempts + 1,
                                pv |-> outbox[e].pv]
                          ELSE NoSender]
    BY <1>2 DEF ClaimOutbox
  <2>2. outbox' \in [Episodes -> Outbox]
    BY <1>r, <2>1 DEF Outbox, OutboxStatus
  <2>3. sender' \in [Episodes -> Sender]
    BY <1>r, <2>1, ConstantRows DEF Outbox, Sender, SendStep
  <2>4. faults' \in Nat
    <3>1. faults \in Nat
      BY DEF TypeOK
    <3>2. Fault \/ UNCHANGED faults
      BY <2>1 DEF Update
    <3>3. QED BY <3>1, <3>2, FaultType
  <2>5. sending' \in {"idle", "claim", "work"}
    BY <2>1
  <2>6. QED BY <1>2, <2>2, <2>3, <2>4, <2>5 DEF ClaimOutbox, TypeOK
<1>3. ASSUME NEW e \in Episodes,
             CheckOutbox(e) \/ ObserveForOutbox(e) \/ RecheckOutbox(e) \/ Publish(e)
      PROVE  TypeOK'
  <2>1. PICK step \in SendStep : SenderTo(e, step)
    BY <1>3 DEF CheckOutbox, ObserveForOutbox, RecheckOutbox, Publish, SendStep
  <2>2. sender' \in [Episodes -> Sender]
    BY <2>1, SenderFacts
  <2>3. faults' \in Nat
    BY <1>3 DEF CheckOutbox, ObserveForOutbox, RecheckOutbox, Publish, Fault, TypeOK
  <2>4. calls' \in [Episodes -> Nat] /\ accepted' \in SUBSET Episodes /\ stored' \in SUBSET accepted'
    BY <1>3 DEF CheckOutbox, ObserveForOutbox, RecheckOutbox, Publish, TypeOK
  <2>5. UNCHANGED <<worldVars, dbVars, up, jobVars, sending, scan>>
    BY <1>3 DEF CheckOutbox, ObserveForOutbox, RecheckOutbox, Publish
  <2>6. QED BY <2>2, <2>3, <2>4, <2>5 DEF TypeOK
<1>4. ASSUME NEW e \in Episodes, EndForOutbox(e) PROVE TypeOK'
  <2>1. PICK applied \in BOOLEAN, answered \in BOOLEAN :
          /\ Update(CanEndEpisode(e, sender[e].pv), applied, answered)
          /\ IF applied THEN EndAwayEpisode ELSE UNCHANGED <<episode, rowVars>>
          /\ SenderTo(e, IF ~answered THEN "fail" ELSE IF applied THEN "none" ELSE "suppress")
    BY <1>4 DEF EndForOutbox
  <2>2. PICK step \in SendStep : SenderTo(e, step)
    BY <2>1 DEF SendStep
  <2>3. sender' \in [Episodes -> Sender]
    BY <2>2, SenderFacts
  <2>4. faults' \in Nat
    <3>1. faults \in Nat
      BY DEF TypeOK
    <3>2. Fault \/ UNCHANGED faults
      BY <2>1 DEF Update
    <3>3. QED BY <3>1, <3>2, FaultType
  <2>5. UNCHANGED <<worldVars, sub, up, jobVars, sending, scan, feedVars>>
    BY <1>4 DEF EndForOutbox
  <2>6. CASE applied
    <3>1. /\ job' \in [Episodes -> Job] /\ outbox' \in [Episodes -> Outbox]
          /\ UNCHANGED <<dueJobs, dueOutbox>>
      BY <2>1, <2>6, CancelFacts DEF EndAwayEpisode
    <3>2. episode' \in [version : 0..MaxEpisode, open : BOOLEAN]
      BY <2>1, <2>6 DEF EndAwayEpisode, TypeOK
    <3>3. QED BY <2>3, <2>4, <2>5, <3>1, <3>2 DEF TypeOK
  <2>7. CASE ~applied
    BY <2>1, <2>3, <2>4, <2>5, <2>7 DEF TypeOK
  <2>8. QED BY <2>6, <2>7
<1>5. ASSUME NEW e \in Episodes, FinishOutbox(e) \/ ReleaseOutboxAfterFailure(e) PROVE TypeOK'
  <2>1. PICK step \in SendStep : SenderTo(e, step)
    BY <1>5 DEF FinishOutbox, ReleaseOutboxAfterFailure, SendStep
  <2>2. sender' \in [Episodes -> Sender]
    BY <2>1, SenderFacts
  <2>3. faults' \in Nat
    BY <1>5 DEF FinishOutbox, ReleaseOutboxAfterFailure, Update, Fault, TypeOK
  <2>4. outbox' \in [Episodes -> Outbox]
    <3>1. CASE FinishOutbox(e)
      BY <1>s, <3>1 DEF FinishOutbox, OutboxStatus, TypeOK
    <3>2. CASE ReleaseOutboxAfterFailure(e)
      BY <1>s, <3>2 DEF ReleaseOutboxAfterFailure, OutboxStatus, TypeOK
    <3>3. QED BY <1>5, <3>1, <3>2
  <2>5. dueOutbox' \in SUBSET Episodes
    BY <1>5 DEF FinishOutbox, ReleaseOutboxAfterFailure, TypeOK
  <2>6. UNCHANGED <<worldVars, sub, episode, job, dueJobs, up, jobVars, sending, scan, feedVars>>
    BY <1>5 DEF FinishOutbox, ReleaseOutboxAfterFailure
  <2>7. QED BY <2>2, <2>3, <2>4, <2>5, <2>6 DEF TypeOK
<1>6. ASSUME ReleaseClaimedOutbox PROVE TypeOK'
  <2>1. PICK applied \in BOOLEAN :
          outbox' = [e \in Episodes |->
                       IF applied /\ sender[e].pc = "claimed" /\ HoldsOutbox(e)
                       THEN [outbox[e] EXCEPT !.status = "pending",
                                              !.attempts = IF @ > 0 THEN @ - 1 ELSE 0]
                       ELSE outbox[e]]
    BY <1>6 DEF ReleaseClaimedOutbox
  <2>2. \A e \in Episodes : (IF outbox[e].attempts > 0 THEN outbox[e].attempts - 1 ELSE 0) \in Nat
    BY <1>r DEF Outbox
  <2>3. outbox' \in [Episodes -> Outbox]
    BY <1>r, <2>1, <2>2 DEF Outbox, OutboxStatus
  <2>4. faults' \in Nat /\ sender' \in [Episodes -> Sender]
    <3>1. faults \in Nat
      BY DEF TypeOK
    <3>2. Fault
      BY <1>6 DEF ReleaseClaimedOutbox
    <3>3. sender' \in [Episodes -> Sender]
      BY <1>6, ConstantRows DEF ReleaseClaimedOutbox
    <3>4. QED BY <3>1, <3>2, <3>3, FaultType
  <2>5. QED BY <1>6, <2>3, <2>4 DEF ReleaseClaimedOutbox, TypeOK
<1>7. ASSUME SendDone PROVE TypeOK'
  BY <1>7 DEF SendDone, TypeOK
<1>8. QED BY <1>1, <1>2, <1>3, <1>4, <1>5, <1>6, <1>7 DEF Send, SendStepOf

(* Start, recovery, clean-up and crash keep the types. *)
LEMMA TypeProcess ==
  ASSUME TypeOK, Process
  PROVE  TypeOK'
<1> USE DEF worldVars, dbVars, rowVars, procVars, sendVars, jobVars, feedVars
<1>1. ASSUME RecoverOrphanedWork \/ RecoverStaleWork PROVE TypeOK'
  <2>1. PICK J \in SUBSET Episodes, O \in SUBSET Episodes : RecoverClaimedWork(J, O)
    BY <1>1 DEF RecoverOrphanedWork, RecoverStaleWork, RunningJobs, SendingOutbox
  <2>2. /\ job' \in [Episodes -> Job] /\ outbox' \in [Episodes -> Outbox]
        /\ UNCHANGED <<dueJobs, dueOutbox>>
    BY <2>1, RecoverFacts
  <2>3. faults' \in Nat
    BY <1>1 DEF RecoverOrphanedWork, RecoverStaleWork, Fault, TypeOK
  <2>4. up' \in BOOLEAN /\ UNCHANGED <<worldVars, sub, episode, jobVars, sendVars, scan, feedVars>>
    BY <1>1 DEF RecoverOrphanedWork, RecoverStaleWork, TypeOK
  <2>5. QED BY <2>2, <2>3, <2>4 DEF TypeOK
<1>2. ASSUME SuppressDisabledWork PROVE TypeOK'
  <2>1. /\ job' \in [Episodes -> Job] /\ outbox' \in [Episodes -> Outbox]
        /\ UNCHANGED <<dueJobs, dueOutbox>>
    BY <1>2, CancelFacts DEF SuppressDisabledWork
  <2>2. QED BY <1>2, <2>1 DEF SuppressDisabledWork, TypeOK
<1>3. ASSUME CleanupHistory PROVE TypeOK'
  <2>1. [NoJob EXCEPT !.status = "deleted"] \in Job /\ [NoOutbox EXCEPT !.status = "deleted"] \in Outbox
    BY DEF NoJob, Job, JobStatus, NoOutbox, Outbox, OutboxStatus
  <2>2. job' \in [Episodes -> Job] /\ outbox' \in [Episodes -> Outbox]
    BY <1>3, <2>1 DEF CleanupHistory, TypeOK
  <2>3. QED BY <1>3, <2>2 DEF CleanupHistory, TypeOK
<1>4. ASSUME Crash PROVE TypeOK'
  <2>1. faults' \in Nat
    BY <1>4 DEF Crash, Fault, TypeOK
  <2>2. scan' \in [seen : Observations \cup {"none"}, pv : Nat]
    BY <1>4 DEF Crash, NoScan
  <2>3. QED BY <1>4, <2>1, <2>2, ConstantRows DEF Crash, TypeOK
<1>5. QED BY <1>1, <1>2, <1>3, <1>4 DEF Process

(* Every step keeps the types. *)
LEMMA TypeStep == TypeOK /\ [Next]_vars => TypeOK'
<1> SUFFICES ASSUME TypeOK, [Next]_vars PROVE TypeOK'
  OBVIOUS
<1>1. CASE UNCHANGED vars
  BY <1>1 DEF TypeOK, vars, worldVars, dbVars, rowVars, procVars, sendVars, jobVars, feedVars
<1>2. QED BY <1>1, TypeWorld, TypeScan, TypeDispatch, TypeSend, TypeProcess DEF Next

(* All variables keep their types. *)
THEOREM TypeCorrect == Spec => []TypeOK
BY InitType, TypeStep, PTL DEF Spec

-----------------------------------------------------------------------------
(* The rows: live work matches the episode and the preference, and no       *)
(* reminder is published more often than it may be.  First what any step    *)
(* can do to a job, an outbox row and the copies of their workers; the      *)
(* invariants then follow from these few moves.                             *)

Absent == {"none", "deleted"}

(* The copy of a worker that may still complete its job: as long as the    *)
(* versions agree, nothing else has happened to the job.                   *)
CopyInv ==
  \A e \in Episodes :
    /\ Busy(e) => job[e].status \notin Absent
    /\ dispatcher[e].pc \notin {"none", "release"} =>
         /\ dispatcher[e].version <= job[e].version
         /\ dispatcher[e].version = job[e].version => dispatcher[e].pv = job[e].pv

(* A row that is not there has no attempts, and a row that was cleaned up  *)
(* never comes back: the reservation is over and every scan says so.       *)
GoneInv ==
  \A e \in Episodes :
    /\ job[e].status \in Absent => job[e].attempts = 0
    /\ job[e].status = "deleted" => over /\ scan.seen \in {"none", "ended"}
    /\ outbox[e].status = "none" => outbox[e].attempts = 0
    /\ outbox[e].status = "deleted" => job[e].status = "deleted"

(* The attempt of a sender that has not published is not used up. *)
Before == {"claimed", "checked", "observed", "publish"}

SenderInv ==
  \A e \in Episodes :
    /\ sender[e].pc # "none" => outbox[e].status \notin Absent
    /\ sender[e].pc \in Before => calls[e] < outbox[e].attempts

IInv == TypeOK /\ CopyInv /\ GoneInv /\ SenderInv
          /\ NoWorkForClosedEpisode /\ WorkMatchesPreference /\ PublishBudget

-----------------------------------------------------------------------------
(* Moves of a job *)

JobGoesOn(e) ==
  /\ job[e].status \in LiveJob /\ job'[e].status \notin Absent
  /\ job'[e].pv = job[e].pv
  /\ job'[e].version >= job[e].version
  /\ job'[e].attempts < job[e].attempts => job[e].status = "running"

JobScheduled(e) ==
  /\ scan.seen \in {"early", "long"} /\ ScanStillCurrent /\ e = NextEpisode
  /\ job'[e].status = "pending" /\ job'[e].pv = sub.version
  /\ IF job[e].status \in Absent
     THEN job'[e].attempts = 0
     ELSE job'[e].version = job[e].version + 1 /\ job'[e].attempts = job[e].attempts
  /\ episode' = [version |-> NextEpisode, open |-> TRUE]
  /\ UNCHANGED <<sub, outbox, dispatcher>>

JobForgotten(e) ==
  /\ over /\ scan.seen = "none" /\ ~Busy(e)
  /\ job'[e].status = "deleted" /\ job'[e].attempts = 0
  /\ UNCHANGED <<over, scan, dispatcher>>

JobMoves ==
  \A e \in Episodes :
    job'[e] = job[e] \/ JobGoesOn(e) \/ JobScheduled(e) \/ JobForgotten(e)

(* A cancellation leaves no live job. *)
LEMMA CancelMovesJobs ==
  ASSUME TypeOK, NEW final \in {"cancelled", "disabled"}, CancelWork(final)
  PROVE  /\ JobMoves
         /\ \A e \in Episodes : job'[e].status \notin LiveJob
<1>1. ASSUME NEW e \in Episodes, job[e].status \in LiveJob
      PROVE  JobGoesOn(e) /\ job'[e].status \notin LiveJob
  <2>1. /\ job'[e].status = final /\ job'[e].version = job[e].version + 1
        /\ job'[e].attempts = job[e].attempts /\ job'[e].pv = job[e].pv
    BY <1>1, CancelFacts
  <2>2. job[e].version \in Nat /\ job[e].attempts \in Nat
    BY DEF TypeOK, Job
  <2>3. QED BY <1>1, <2>1, <2>2 DEF JobGoesOn, Absent, LiveJob
<1>2. ASSUME NEW e \in Episodes, job[e].status \notin LiveJob
      PROVE  job'[e] = job[e]
  BY <1>2, CancelFacts
<1>3. QED BY <1>1, <1>2 DEF JobMoves

(* A cancellation leaves no live outbox row. *)
LEMMA CancelMovesOutbox ==
  ASSUME TypeOK, NEW final \in {"cancelled", "disabled"}, CancelWork(final)
  PROVE  \A e \in Episodes : outbox'[e].status \notin LiveOutbox
BY CancelFacts DEF LiveOutbox

(* A recovered job goes on. *)
LEMMA RecoverMovesJobs ==
  ASSUME TypeOK, NEW J \in SUBSET RunningJobs, NEW O \in SUBSET SendingOutbox,
         RecoverClaimedWork(J, O)
  PROVE  JobMoves
<1>1. J \in SUBSET Episodes /\ O \in SUBSET Episodes
  BY DEF RunningJobs, SendingOutbox
<1>2. ASSUME NEW e \in J PROVE JobGoesOn(e)
  <2>1. job[e] \in Job /\ job[e].status = "running" /\ job[e].version \in Nat
    BY DEF RunningJobs, TypeOK, Job
  <2>2. job'[e] = Refunded(job[e])
    BY <1>1, RecoverFacts
  <2>3. /\ Refunded(job[e]).status = "pending" /\ Refunded(job[e]).version = job[e].version + 1
        /\ Refunded(job[e]).pv = job[e].pv
    BY <2>1, RefundFacts
  <2>4. QED BY <2>1, <2>2, <2>3 DEF JobGoesOn, Absent, LiveJob
<1>3. \A e \in Episodes \ J : job'[e] = job[e]
  BY <1>1, RecoverFacts
<1>4. QED BY <1>2, <1>3 DEF JobMoves

(* No step does anything else to a job. *)
LEMMA NextMovesJobs ==
  ASSUME TypeOK, Next
  PROVE  JobMoves
<1> USE DEF worldVars, dbVars, rowVars, procVars, sendVars, jobVars, feedVars
<1>n. \A e \in Episodes : job[e] \in Job /\ job[e].version \in Nat /\ job[e].attempts \in Nat
  BY DEF TypeOK, Job
<1>u. ASSUME UNCHANGED job PROVE JobMoves
  BY <1>u DEF JobMoves
<1>1. CASE World
  BY <1>1, <1>u DEF World, Leave, AbsenceGrows, Return, ReservationEnds, JobDue, OutboxDue, FeedStores
<1>2. CASE Preference
  BY <1>2, <1>u, CancelMovesJobs
     DEF Preference, PreferenceTurnsOff, PreferenceTurnsOn, PreferenceRenewed
<1>3. CASE Scan
  <2>1. CASE ApplyActiveObservation
    <3>1. CASE UNCHANGED <<episode, rowVars>>
      BY <1>u, <3>1
    <3>2. CASE CancelWork("cancelled")
      BY <3>2, CancelMovesJobs
    <3>3. CASE /\ ScanStillCurrent /\ scan.seen \in {"early", "long"}
               /\ NextEpisode \in Episodes
               /\ episode' = [version |-> NextEpisode, open |-> TRUE]
               /\ job' = [job EXCEPT ![NextEpisode] = Upserted(@)]
               /\ UNCHANGED <<outbox, dueOutbox>>
      <4>1. \A e \in Episodes : e # NextEpisode => job'[e] = job[e]
        BY <3>3 DEF TypeOK
      <4>2. job'[NextEpisode] = Upserted(job[NextEpisode])
        BY <3>3 DEF TypeOK
      <4>3. UNCHANGED <<sub, outbox, dispatcher>>
        BY <2>1, <3>3 DEF ApplyActiveObservation
      <4>4. \/ job'[NextEpisode] = job[NextEpisode]
            \/ JobScheduled(NextEpisode)
        <5>1. PICK r \in Job : r = job[NextEpisode]
          BY <1>n, <3>3
        <5>2. \/ Upserted(r) = r /\ r.status \notin {"none", "deleted"}
              \/ /\ Upserted(r).status = "pending" /\ Upserted(r).pv = sub.version
                 /\ IF r.status \in {"none", "deleted"}
                    THEN Upserted(r).attempts = 0
                    ELSE Upserted(r).version = r.version + 1 /\ Upserted(r).attempts = r.attempts
          BY UpsertFacts
        <5>3. QED BY <3>3, <4>2, <4>3, <5>1, <5>2 DEF JobScheduled, Absent
      <4>5. QED BY <4>1, <4>4 DEF JobMoves
    <3>4. QED BY <2>1, <3>1, <3>2, <3>3 DEF ApplyActiveObservation
  <2>2. CASE ScanActiveUser \/ ScanFails
    BY <1>u, <2>2 DEF ScanActiveUser, ScanFails
  <2>3. CASE ReconcileReservation
    BY <2>3, CancelMovesJobs DEF ReconcileReservation
  <2>4. QED BY <1>3, <2>1, <2>2, <2>3 DEF Scan
<1>4. CASE Dispatch
  <2>1. CASE SuppressStaleJobs
    <3>1. ASSUME NEW e \in Episodes PROVE job'[e] = job[e] \/ JobGoesOn(e)
      <4>1. CASE job[e].status = "pending" /\ ~IsCurrent(job[e].pv)
        <5>1. job'[e] = [job[e] EXCEPT !.status = "suppressed"]
          BY <2>1, <4>1 DEF SuppressStaleJobs
        <5>2. /\ job'[e].status = "suppressed" /\ job'[e].pv = job[e].pv
              /\ job'[e].version = job[e].version /\ job'[e].attempts = job[e].attempts
          BY <1>n, <5>1 DEF Job
        <5>3. QED BY <1>n, <4>1, <5>2 DEF JobGoesOn, Absent, LiveJob
      <4>2. CASE ~(job[e].status = "pending" /\ ~IsCurrent(job[e].pv))
        BY <2>1, <4>2 DEF SuppressStaleJobs
      <4>3. QED BY <4>1, <4>2
    <3>2. QED BY <3>1 DEF JobMoves
  <2>2. CASE ListDueJobs \/ StopLaunching \/ DispatchDone
    BY <1>u, <2>2 DEF ListDueJobs, StopLaunching, DispatchDone
  <2>3. ASSUME NEW e \in Episodes, ClaimJob(e) PROVE JobMoves
    <3>1. CASE job' = job
      BY <1>u, <3>1
    <3>2. CASE /\ CanClaim(e)
               /\ job'[e].status = "running" /\ job'[e].version = job[e].version + 1
               /\ job'[e].attempts = job[e].attempts + 1 /\ job'[e].pv = job[e].pv
      <4>1. job[e].status = "pending"
        BY <3>2 DEF CanClaim
      <4>2. JobGoesOn(e)
        BY <1>n, <3>2, <4>1 DEF JobGoesOn, Absent, LiveJob
      <4>3. \A f \in Episodes \ {e} : job'[f] = job[f]
        BY <2>3, ClaimFacts
      <4>4. QED BY <4>2, <4>3 DEF JobMoves
    <3>3. QED BY <2>3, <3>1, <3>2, ClaimFacts
  <2>4. ASSUME NEW e \in Episodes, CheckJob(e) \/ ObserveForJob(e) PROVE JobMoves
    BY <1>u, <2>4 DEF CheckJob, ObserveForJob
  <2>5. ASSUME NEW e \in Episodes, EndForJob(e) PROVE JobMoves
    BY <1>u, <2>5, CancelMovesJobs DEF EndForJob, EndAwayEpisode
  <2>6. ASSUME NEW e \in Episodes,
               FinishJob(e) \/ CompleteJobAndEnqueue(e) \/ ReleaseClaimedJob(e)
        PROVE  JobMoves
    <3>1. CASE job' = job
      BY <1>u, <3>1
    <3>2. CASE HoldsJob(e) /\ \E s \in {"suppressed", "pending", "done"} :
                 job' = [job EXCEPT ![e].status = s]
      <4>1. PICK s \in {"suppressed", "pending", "done"} : job' = [job EXCEPT ![e].status = s]
        BY <3>2
      <4>2. /\ job'[e].status = s /\ job'[e].pv = job[e].pv /\ job'[e].version = job[e].version
            /\ job'[e].attempts = job[e].attempts
        BY <1>n, <4>1 DEF Job, TypeOK
      <4>3. job[e].status = "running"
        BY <3>2 DEF HoldsJob
      <4>4. JobGoesOn(e)
        BY <1>n, <4>2, <4>3 DEF JobGoesOn, Absent, LiveJob
      <4>5. \A f \in Episodes \ {e} : job'[f] = job[f]
        BY <4>1 DEF TypeOK
      <4>6. QED BY <4>4, <4>5 DEF JobMoves
    <3>3. CASE HoldsJob(e) /\ job' = [job EXCEPT ![e] = Refunded(@)]
      <4>1. job'[e] = Refunded(job[e]) /\ \A f \in Episodes \ {e} : job'[f] = job[f]
        BY <3>3 DEF TypeOK
      <4>2. job[e].status = "running"
        BY <3>3 DEF HoldsJob
      <4>3. /\ Refunded(job[e]).status = "pending" /\ Refunded(job[e]).version = job[e].version + 1
            /\ Refunded(job[e]).pv = job[e].pv
        BY <1>n, RefundFacts
      <4>4. JobGoesOn(e)
        BY <1>n, <4>1, <4>2, <4>3 DEF JobGoesOn, Absent, LiveJob
      <4>5. QED BY <4>1, <4>4 DEF JobMoves
    <3>4. QED BY <2>6, <3>1, <3>2, <3>3
              DEF FinishJob, CompleteJobAndEnqueue, ReleaseClaimedJob, Update
  <2>7. QED BY <1>4, <2>1, <2>2, <2>3, <2>4, <2>5, <2>6 DEF Dispatch, DispatchStepOf
<1>5. CASE Send
  <2>1. ASSUME NEW e \in Episodes, EndForOutbox(e) PROVE JobMoves
    BY <1>u, <2>1, CancelMovesJobs DEF EndForOutbox, EndAwayEpisode
  <2>2. ASSUME NEW e \in Episodes,
               CheckOutbox(e) \/ ObserveForOutbox(e) \/ RecheckOutbox(e) \/ Publish(e)
                 \/ FinishOutbox(e) \/ ReleaseOutboxAfterFailure(e)
        PROVE  JobMoves
    BY <1>u, <2>2 DEF CheckOutbox, ObserveForOutbox, RecheckOutbox, Publish, FinishOutbox,
                      ReleaseOutboxAfterFailure
  <2>3. CASE SuppressStaleOutbox \/ ClaimOutbox \/ ReleaseClaimedOutbox \/ SendDone
    BY <1>u, <2>3 DEF SuppressStaleOutbox, ClaimOutbox, ReleaseClaimedOutbox, SendDone
  <2>4. QED BY <1>5, <2>1, <2>2, <2>3 DEF Send, SendStepOf
<1>6. CASE Process
  <2>1. CASE RecoverOrphanedWork \/ RecoverStaleWork
    BY <2>1, RecoverMovesJobs DEF RecoverOrphanedWork, RecoverStaleWork
  <2>2. CASE SuppressDisabledWork
    BY <2>2, CancelMovesJobs DEF SuppressDisabledWork
  <2>3. CASE CleanupHistory
    <3>1. PICK J \in SUBSET Episodes, O \in SUBSET Episodes :
            /\ Abandoned(J, O)
            /\ job' = [e \in Episodes |-> IF e \in J THEN [NoJob EXCEPT !.status = "deleted"] ELSE job[e]]
      BY <2>3 DEF CleanupHistory
    <3>2. ASSUME NEW e \in J PROVE JobForgotten(e)
      <4>1. job'[e].status = "deleted" /\ job'[e].attempts = 0
        BY <3>1 DEF NoJob
      <4>2. over /\ scan.seen = "none" /\ UNCHANGED <<over, scan, dispatcher>>
        BY <2>3 DEF CleanupHistory
      <4>3. ~Busy(e)
        BY <3>1 DEF Abandoned
      <4>4. QED BY <4>1, <4>2, <4>3 DEF JobForgotten
    <3>3. QED BY <3>1, <3>2 DEF JobMoves
  <2>4. CASE Crash
    BY <1>u, <2>4 DEF Crash
  <2>5. QED BY <1>6, <2>1, <2>2, <2>3, <2>4 DEF Process
<1>7. QED BY <1>1, <1>2, <1>3, <1>4, <1>5, <1>6 DEF Next

-----------------------------------------------------------------------------
(* Moves of an outbox row *)

OutboxGoesOn(e) ==
  /\ outbox[e].status \in LiveOutbox /\ outbox'[e].status \notin Absent
  /\ outbox'[e].pv = outbox[e].pv
  /\ outbox'[e].attempts = outbox[e].attempts

OutboxClaimed(e) ==
  /\ outbox[e].status \in LiveOutbox /\ outbox'[e].status \notin Absent
  /\ outbox'[e].pv = outbox[e].pv
  /\ outbox[e].attempts < RetryMaxAttempts /\ outbox'[e].attempts = outbox[e].attempts + 1
  /\ UNCHANGED calls

(* The refund: nobody has published under this claim. *)
OutboxReleased(e) ==
  /\ outbox[e].status \in LiveOutbox /\ outbox'[e].status \notin Absent
  /\ outbox'[e].pv = outbox[e].pv
  /\ sender[e].pc = "claimed" /\ \A f \in Episodes : sender'[f].pc = "none"
  /\ outbox'[e].attempts = IF outbox[e].attempts > 0 THEN outbox[e].attempts - 1 ELSE 0
  /\ UNCHANGED calls

OutboxCreated(e) ==
  /\ HoldsJob(e) /\ dispatcher[e].pc = "complete"
  /\ outbox[e].status \in Absent
  /\ outbox'[e].status = "pending" /\ outbox'[e].attempts = 0
  /\ outbox'[e].pv = dispatcher[e].pv
  /\ UNCHANGED <<sub, episode, sender, calls>>

OutboxForgotten(e) ==
  /\ sender[e].pc = "none" /\ UNCHANGED sender
  /\ outbox'[e].status = "deleted" /\ job'[e].status = "deleted"

OutboxMoves ==
  \A e \in Episodes :
    outbox'[e] = outbox[e] \/ OutboxGoesOn(e) \/ OutboxClaimed(e) \/ OutboxReleased(e)
      \/ OutboxCreated(e) \/ OutboxForgotten(e)

(* A cancelled outbox row goes on. *)
LEMMA CancelOutboxMoves ==
  ASSUME TypeOK, NEW final \in {"cancelled", "disabled"}, CancelWork(final)
  PROVE  OutboxMoves
<1>1. ASSUME NEW e \in Episodes PROVE outbox'[e] = outbox[e] \/ OutboxGoesOn(e)
  BY CancelFacts DEF OutboxGoesOn, Absent
<1>2. QED BY <1>1 DEF OutboxMoves

(* No step does anything else to an outbox row. *)
LEMMA NextMovesOutbox ==
  ASSUME TypeOK, Next
  PROVE  OutboxMoves
<1> USE DEF worldVars, dbVars, rowVars, procVars, sendVars, jobVars, feedVars
<1>n. \A e \in Episodes : outbox[e] \in Outbox /\ outbox[e].attempts \in Nat
  BY DEF TypeOK, Outbox
<1>u. ASSUME UNCHANGED outbox PROVE OutboxMoves
  BY <1>u DEF OutboxMoves
<1>s. ASSUME NEW e \in Episodes, outbox[e].status \in LiveOutbox, NEW s \in OutboxStatus \ Absent,
             outbox'[e] = [outbox[e] EXCEPT !.status = s]
      PROVE  OutboxGoesOn(e)
  BY <1>n, <1>s DEF OutboxGoesOn, Outbox
<1>1. CASE World
  BY <1>1, <1>u DEF World, Leave, AbsenceGrows, Return, ReservationEnds, JobDue, OutboxDue, FeedStores
<1>2. CASE Preference
  BY <1>2, <1>u, CancelOutboxMoves
     DEF Preference, PreferenceTurnsOff, PreferenceTurnsOn, PreferenceRenewed
<1>3. CASE Scan
  BY <1>3, <1>u, CancelOutboxMoves
     DEF Scan, ScanActiveUser, ApplyActiveObservation, ReconcileReservation, ScanFails
<1>4. CASE Dispatch
  <2>1. CASE SuppressStaleJobs \/ ListDueJobs \/ StopLaunching \/ DispatchDone
    BY <1>u, <2>1 DEF SuppressStaleJobs, ListDueJobs, StopLaunching, DispatchDone
  <2>2. ASSUME NEW e \in Episodes,
               ClaimJob(e) \/ CheckJob(e) \/ ObserveForJob(e) \/ FinishJob(e) \/ ReleaseClaimedJob(e)
        PROVE  OutboxMoves
    BY <1>u, <2>2 DEF ClaimJob, CheckJob, ObserveForJob, FinishJob, ReleaseClaimedJob
  <2>3. ASSUME NEW e \in Episodes, EndForJob(e) PROVE OutboxMoves
    BY <1>u, <2>3, CancelOutboxMoves DEF EndForJob, EndAwayEpisode
  <2>4. ASSUME NEW e \in Episodes, CompleteJobAndEnqueue(e) PROVE OutboxMoves
    <3>1. CASE HoldsJob(e) /\ outbox' = [outbox EXCEPT ![e] = Enqueued(e)]
      <4>1. outbox'[e] = Enqueued(e) /\ \A f \in Episodes \ {e} : outbox'[f] = outbox[f]
        BY <3>1 DEF TypeOK
      <4>2. dispatcher[e].pc = "complete" /\ UNCHANGED <<sub, episode, sender, calls>>
        BY <2>4 DEF CompleteJobAndEnqueue
      <4>3. outbox'[e] = outbox[e] \/ OutboxCreated(e)
        BY <3>1, <4>1, <4>2 DEF Enqueued, OutboxCreated, Absent
      <4>4. QED BY <4>1, <4>3 DEF OutboxMoves
    <3>2. QED BY <1>u, <2>4, <3>1 DEF CompleteJobAndEnqueue, Update
  <2>5. QED BY <1>4, <2>1, <2>2, <2>3, <2>4 DEF Dispatch, DispatchStepOf
<1>5. CASE Send
  <2>1. CASE SuppressStaleOutbox
    <3>1. ASSUME NEW e \in Episodes PROVE outbox'[e] = outbox[e] \/ OutboxGoesOn(e)
      BY <1>s, <2>1 DEF SuppressStaleOutbox, OutboxStatus, LiveOutbox, Absent
    <3>2. QED BY <3>1 DEF OutboxMoves
  <2>2. CASE ClaimOutbox
    <3>1. PICK applied \in BOOLEAN :
            outbox' = [e \in Episodes |->
                         IF applied /\ e \in Sendable
                         THEN [outbox[e] EXCEPT !.status = "sending", !.attempts = @ + 1]
                         ELSE outbox[e]]
      BY <2>2 DEF ClaimOutbox
    <3>2. ASSUME NEW e \in Sendable, applied PROVE OutboxClaimed(e)
      <4>1. /\ e \in Episodes /\ outbox[e].status \in {"pending", "failed"}
            /\ outbox[e].attempts < RetryMaxAttempts
        BY DEF Sendable, TypeOK
      <4>2. PICK n \in Nat : n = outbox[e].attempts + 1
        BY <1>n, <4>1
      <4>3. outbox'[e] = [outbox[e] EXCEPT !.status = "sending", !.attempts = n]
        BY <3>1, <3>2, <4>1, <4>2
      <4>4. /\ outbox'[e].status = "sending" /\ outbox'[e].attempts = n
            /\ outbox'[e].pv = outbox[e].pv
        BY <1>n, <4>1, <4>3 DEF Outbox
      <4>5. UNCHANGED calls
        BY <2>2 DEF ClaimOutbox
      <4>6. QED BY <4>1, <4>2, <4>4, <4>5 DEF OutboxClaimed, LiveOutbox, Absent
    <3>3. ASSUME NEW e \in Episodes, ~(applied /\ e \in Sendable) PROVE outbox'[e] = outbox[e]
      BY <3>1, <3>3
    <3>4. QED BY <3>2, <3>3 DEF OutboxMoves
  <2>3. CASE ReleaseClaimedOutbox
    <3>1. PICK applied \in BOOLEAN :
            outbox' = [e \in Episodes |->
                         IF applied /\ sender[e].pc = "claimed" /\ HoldsOutbox(e)
                         THEN [outbox[e] EXCEPT !.status = "pending",
                                                !.attempts = IF @ > 0 THEN @ - 1 ELSE 0]
                         ELSE outbox[e]]
      BY <2>3 DEF ReleaseClaimedOutbox
    <3>2. ASSUME NEW e \in Episodes, applied, sender[e].pc = "claimed", HoldsOutbox(e)
          PROVE  OutboxReleased(e)
      <4>1. PICK n \in Nat : n = IF outbox[e].attempts > 0 THEN outbox[e].attempts - 1 ELSE 0
        BY <1>n
      <4>2. outbox'[e] = [outbox[e] EXCEPT !.status = "pending", !.attempts = n]
        BY <3>1, <3>2, <4>1
      <4>3. /\ outbox'[e].status = "pending" /\ outbox'[e].attempts = n
            /\ outbox'[e].pv = outbox[e].pv
        BY <1>n, <4>2 DEF Outbox
      <4>4. UNCHANGED calls /\ \A f \in Episodes : sender'[f].pc = "none"
        BY <2>3 DEF ReleaseClaimedOutbox, NoSender
      <4>5. outbox[e].status \in LiveOutbox
        BY <3>2 DEF HoldsOutbox, LiveOutbox
      <4>6. QED BY <3>2, <4>1, <4>3, <4>4, <4>5 DEF OutboxReleased, Absent
    <3>3. ASSUME NEW e \in Episodes, ~(applied /\ sender[e].pc = "claimed" /\ HoldsOutbox(e))
          PROVE  outbox'[e] = outbox[e]
      BY <3>1, <3>3
    <3>4. QED BY <3>2, <3>3 DEF OutboxMoves
  <2>4. CASE SendDone
    BY <1>u, <2>4 DEF SendDone
  <2>5. ASSUME NEW e \in Episodes,
               CheckOutbox(e) \/ ObserveForOutbox(e) \/ RecheckOutbox(e) \/ Publish(e)
        PROVE  OutboxMoves
    BY <1>u, <2>5 DEF CheckOutbox, ObserveForOutbox, RecheckOutbox, Publish
  <2>6. ASSUME NEW e \in Episodes, EndForOutbox(e) PROVE OutboxMoves
    BY <1>u, <2>6, CancelOutboxMoves DEF EndForOutbox, EndAwayEpisode
  <2>7. ASSUME NEW e \in Episodes, FinishOutbox(e) \/ ReleaseOutboxAfterFailure(e)
        PROVE  OutboxMoves
    <3>1. CASE HoldsOutbox(e) /\ \E s \in {"sent", "suppressed", "failed"} :
                 outbox' = [outbox EXCEPT ![e].status = s]
      <4>1. PICK s \in {"sent", "suppressed", "failed"} : outbox' = [outbox EXCEPT ![e].status = s]
        BY <3>1
      <4>2. /\ outbox'[e] = [outbox[e] EXCEPT !.status = s]
            /\ \A f \in Episodes \ {e} : outbox'[f] = outbox[f]
        BY <4>1 DEF TypeOK
      <4>3. outbox[e].status \in LiveOutbox /\ s \in OutboxStatus \ Absent
        BY <3>1 DEF HoldsOutbox, LiveOutbox, OutboxStatus, Absent
      <4>4. OutboxGoesOn(e)
        BY <1>s, <4>2, <4>3
      <4>5. QED BY <4>2, <4>4 DEF OutboxMoves
    <3>2. CASE outbox' = outbox
      BY <1>u, <3>2
    <3>3. QED BY <2>7, <3>1, <3>2 DEF FinishOutbox, ReleaseOutboxAfterFailure, Update
  <2>8. QED BY <1>5, <2>1, <2>2, <2>3, <2>4, <2>5, <2>6, <2>7 DEF Send, SendStepOf
<1>6. CASE Process
  <2>1. CASE RecoverOrphanedWork \/ RecoverStaleWork
    <3>1. PICK J \in SUBSET RunningJobs, O \in SUBSET SendingOutbox : RecoverClaimedWork(J, O)
      BY <2>1 DEF RecoverOrphanedWork, RecoverStaleWork
    <3>2. J \in SUBSET Episodes /\ O \in SUBSET Episodes
      BY DEF RunningJobs, SendingOutbox
    <3>3. ASSUME NEW e \in O PROVE OutboxGoesOn(e)
      <4>1. /\ outbox'[e].status = "failed" /\ outbox'[e].attempts = outbox[e].attempts
            /\ outbox'[e].pv = outbox[e].pv
        <5>1. e \in Episodes
          BY <3>2
        <5>2. QED BY <3>1, <3>2, <5>1, RecoverFacts
      <4>2. QED BY <4>1 DEF OutboxGoesOn, SendingOutbox, LiveOutbox, Absent
    <3>4. \A e \in Episodes \ O : outbox'[e] = outbox[e]
      BY <3>1, <3>2, RecoverFacts
    <3>5. QED BY <3>3, <3>4 DEF OutboxMoves
  <2>2. CASE SuppressDisabledWork
    BY <2>2, CancelOutboxMoves DEF SuppressDisabledWork
  <2>3. CASE CleanupHistory
    <3>1. PICK J \in SUBSET Episodes, O \in SUBSET Episodes :
            /\ Abandoned(J, O)
            /\ \A e \in O : e \in J \/ job[e].status = "deleted"
            /\ job' = [e \in Episodes |-> IF e \in J THEN [NoJob EXCEPT !.status = "deleted"] ELSE job[e]]
            /\ outbox' = [e \in Episodes |->
                            IF e \in O THEN [NoOutbox EXCEPT !.status = "deleted"] ELSE outbox[e]]
      BY <2>3 DEF CleanupHistory
    <3>2. ASSUME NEW e \in O PROVE OutboxForgotten(e)
      <4>1. outbox'[e].status = "deleted" /\ job'[e].status = "deleted"
        BY <3>1 DEF NoOutbox, NoJob
      <4>2. UNCHANGED sender
        BY <2>3 DEF CleanupHistory
      <4>3. QED BY <3>1, <4>1, <4>2 DEF OutboxForgotten, Abandoned
    <3>3. QED BY <3>1, <3>2 DEF OutboxMoves
  <2>4. CASE Crash
    BY <1>u, <2>4 DEF Crash
  <2>5. QED BY <1>6, <2>1, <2>2, <2>3, <2>4 DEF Process
<1>7. QED BY <1>1, <1>2, <1>3, <1>4, <1>5, <1>6 DEF Next

-----------------------------------------------------------------------------
(* Moves of the workers *)

DispatcherKept(e) ==
  dispatcher'[e].version = dispatcher[e].version /\ dispatcher'[e].pv = dispatcher[e].pv

DispatcherListed(e) ==
  /\ job[e].status = "pending" /\ job'[e] = job[e]
  /\ dispatcher'[e].version = job[e].version /\ dispatcher'[e].pv = job[e].pv

DispatcherClaimed(e) ==
  /\ dispatcher[e].pc = "listed" /\ CanClaim(e)
  /\ dispatcher'[e].version = dispatcher[e].version + 1 /\ dispatcher'[e].pv = dispatcher[e].pv
  /\ job'[e].version = job[e].version + 1 /\ job'[e].pv = job[e].pv

DispatcherMoves ==
  \A e \in Episodes :
    \/ dispatcher'[e].pc = "none"
    \/ dispatcher'[e].pc = "release" /\ Busy(e)
    \/ dispatcher[e].pc \notin {"none", "release"} /\ DispatcherKept(e)
    \/ DispatcherListed(e)
    \/ DispatcherClaimed(e)

(* No step does anything else to the copy of a dispatcher. *)
LEMMA NextMovesDispatcher ==
  ASSUME TypeOK, Next
  PROVE  DispatcherMoves
<1> USE DEF worldVars, dbVars, rowVars, procVars, sendVars, jobVars, feedVars
<1>k. ASSUME NEW e \in Episodes, dispatcher'[e] = dispatcher[e]
      PROVE  \/ dispatcher'[e].pc = "none"
             \/ dispatcher'[e].pc = "release" /\ Busy(e)
             \/ dispatcher[e].pc \notin {"none", "release"} /\ DispatcherKept(e)
  BY <1>k DEF Busy, DispatcherKept
<1>u. ASSUME UNCHANGED dispatcher PROVE DispatcherMoves
  <2>1. \A e \in Episodes : dispatcher'[e] = dispatcher[e]
    BY <1>u
  <2>2. QED BY <1>k, <2>1 DEF DispatcherMoves
<1>g. ASSUME NEW e \in Episodes, dispatcher[e].pc \notin {"none", "release"},
             NEW step \in DispatchStep, DispatcherTo(e, step)
      PROVE  DispatcherMoves
  <2>1. /\ dispatcher'[e].pc = step
        /\ step # "none" => /\ dispatcher'[e].version = dispatcher[e].version
                            /\ dispatcher'[e].pv = dispatcher[e].pv
        /\ \A f \in Episodes \ {e} : dispatcher'[f] = dispatcher[f]
    BY <1>g, DispatcherFacts
  <2>2. QED BY <1>k, <1>g, <2>1 DEF DispatcherMoves, DispatcherKept
<1>1. CASE World
  BY <1>1, <1>u DEF World, Leave, AbsenceGrows, Return, ReservationEnds, JobDue, OutboxDue, FeedStores
<1>2. CASE Preference
  BY <1>2, <1>u DEF Preference, PreferenceTurnsOff, PreferenceTurnsOn, PreferenceRenewed
<1>3. CASE Scan
  BY <1>3, <1>u DEF Scan, ScanActiveUser, ApplyActiveObservation, ReconcileReservation, ScanFails
<1>4. CASE Dispatch
  <2>1. CASE SuppressStaleJobs \/ DispatchDone
    BY <1>u, <2>1 DEF SuppressStaleJobs, DispatchDone
  <2>2. CASE ListDueJobs
    <3>1. ASSUME NEW e \in Episodes PROVE dispatcher'[e].pc = "none" \/ DispatcherListed(e)
      BY <2>2 DEF ListDueJobs, DueJobs, DispatcherListed, NoDispatcher
    <3>2. QED BY <3>1 DEF DispatcherMoves
  <2>3. CASE StopLaunching
    <3>n. dispatcher' = [e \in Episodes |->
                           IF dispatcher[e].pc = "claimed"
                           THEN [dispatcher[e] EXCEPT !.pc = "release"] ELSE dispatcher[e]]
      BY <2>3 DEF StopLaunching
    <3>1. ASSUME NEW e \in Episodes
          PROVE  dispatcher'[e] = dispatcher[e] \/ (dispatcher'[e].pc = "release" /\ Busy(e))
      <4>1. dispatcher[e] \in Dispatcher
        BY DEF TypeOK
      <4>2. CASE dispatcher[e].pc = "claimed"
        <5>1. dispatcher'[e] = [dispatcher[e] EXCEPT !.pc = "release"]
          BY <3>n, <4>2
        <5>2. QED BY <4>1, <4>2, <5>1 DEF Busy, Dispatcher
      <4>3. CASE dispatcher[e].pc # "claimed"
        <5>1. dispatcher'[e] = dispatcher[e]
          BY <3>n, <4>3
        <5>2. QED BY <5>1
      <4>4. QED BY <4>2, <4>3
    <3>2. QED BY <1>k, <3>1 DEF DispatcherMoves
  <2>4. ASSUME NEW e \in Episodes, ClaimJob(e) PROVE DispatcherMoves
    <3>1. dispatcher[e].pc = "listed"
      BY <2>4 DEF ClaimJob, ListedJobs
    <3>2. \A f \in Episodes :
            \/ dispatcher'[f].pc \in {"none", "release"} /\ (dispatcher'[f].pc = "release" => Busy(f))
            \/ dispatcher'[f] = dispatcher[f] /\ f # e
            \/ /\ f = e /\ dispatcher'[e].pc = "claimed" /\ CanClaim(e)
               /\ dispatcher'[e].version = dispatcher[e].version + 1
               /\ dispatcher'[e].pv = dispatcher[e].pv
               /\ job'[e].version = job[e].version + 1 /\ job'[e].pv = job[e].pv
      BY <2>4, ClaimFacts
    <3>3. QED BY <1>k, <3>1, <3>2 DEF DispatcherMoves, DispatcherClaimed
  <2>5. ASSUME NEW e \in Episodes, CheckJob(e) \/ ObserveForJob(e) PROVE DispatcherMoves
    BY <1>g, <2>5 DEF CheckJob, ObserveForJob, DispatchStep
  <2>6. ASSUME NEW e \in Episodes, EndForJob(e) PROVE DispatcherMoves
    BY <1>g, <2>6 DEF EndForJob, DispatchStep
  <2>7. ASSUME NEW e \in Episodes, FinishJob(e) \/ CompleteJobAndEnqueue(e) PROVE DispatcherMoves
    BY <1>g, <2>7 DEF FinishJob, CompleteJobAndEnqueue, DispatchStep
  <2>8. ASSUME NEW e \in Episodes, ReleaseClaimedJob(e) PROVE DispatcherMoves
    <3>1. /\ dispatcher'[e].pc = "none"
          /\ \A f \in Episodes \ {e} : dispatcher'[f] = dispatcher[f]
      BY <2>8, DispatcherFacts DEF ReleaseClaimedJob, DispatchStep
    <3>2. QED BY <1>k, <3>1 DEF DispatcherMoves
  <2>9. QED BY <1>4, <2>1, <2>2, <2>3, <2>4, <2>5, <2>6, <2>7, <2>8 DEF Dispatch, DispatchStepOf
<1>5. CASE Send
  BY <1>5, <1>u
     DEF Send, SendStepOf, CheckOutbox, ObserveForOutbox, EndForOutbox, RecheckOutbox, Publish,
         FinishOutbox, ReleaseOutboxAfterFailure, SuppressStaleOutbox, ClaimOutbox,
         ReleaseClaimedOutbox, SendDone
<1>6. CASE Process
  <2>1. CASE RecoverOrphanedWork \/ RecoverStaleWork \/ SuppressDisabledWork \/ CleanupHistory
    BY <1>u, <2>1 DEF RecoverOrphanedWork, RecoverStaleWork, SuppressDisabledWork, CleanupHistory
  <2>2. CASE Crash
    BY <2>2 DEF Crash, DispatcherMoves, NoDispatcher
  <2>3. QED BY <1>6, <2>1, <2>2 DEF Process
<1>7. QED BY <1>1, <1>2, <1>3, <1>4, <1>5, <1>6 DEF Next

SenderClaimed(e) ==
  /\ outbox[e].status \in LiveOutbox /\ outbox'[e].status = "sending"
  /\ outbox'[e].attempts = outbox[e].attempts + 1
  /\ UNCHANGED calls

SenderMoves ==
  \A e \in Episodes :
    \/ sender'[e].pc = "none"
    \/ sender[e].pc # "none" /\ sender'[e].pc \notin Before
    \/ sender[e].pc \in Before /\ calls'[e] = calls[e]
    \/ SenderClaimed(e)

(* No step does anything else to a sender. *)
LEMMA NextMovesSender ==
  ASSUME TypeOK, Next
  PROVE  SenderMoves
<1> USE DEF worldVars, dbVars, rowVars, procVars, sendVars, jobVars, feedVars
<1>k. ASSUME NEW e \in Episodes, sender'[e] = sender[e], calls'[e] = calls[e]
      PROVE  \/ sender'[e].pc = "none"
             \/ sender[e].pc # "none" /\ sender'[e].pc \notin Before
             \/ sender[e].pc \in Before /\ calls'[e] = calls[e]
  BY <1>k
<1>u. ASSUME UNCHANGED <<sender, calls>> PROVE SenderMoves
  BY <1>k, <1>u DEF SenderMoves
<1>g. ASSUME NEW e \in Episodes, NEW step \in SendStep, SenderTo(e, step),
             \A f \in Episodes \ {e} : calls'[f] = calls[f],
             \/ step = "none"
             \/ sender[e].pc # "none" /\ step \notin Before
             \/ sender[e].pc \in Before /\ calls'[e] = calls[e]
      PROVE  SenderMoves
  <2>1. /\ sender'[e].pc = step
        /\ \A f \in Episodes \ {e} : sender'[f] = sender[f]
    BY <1>g, SenderFacts
  <2>2. QED BY <1>k, <1>g, <2>1 DEF SenderMoves
<1>1. CASE World
  BY <1>1, <1>u DEF World, Leave, AbsenceGrows, Return, ReservationEnds, JobDue, OutboxDue, FeedStores
<1>2. CASE Preference
  BY <1>2, <1>u DEF Preference, PreferenceTurnsOff, PreferenceTurnsOn, PreferenceRenewed
<1>3. CASE Scan
  BY <1>3, <1>u, ScanFrame
<1>4. CASE Dispatch
  BY <1>4, <1>u, DispatchFrame DEF DispatchLeaves
<1>5. CASE Send
  <2>1. CASE SuppressStaleOutbox \/ SendDone
    BY <1>u, <2>1 DEF SuppressStaleOutbox, SendDone
  <2>2. CASE ClaimOutbox
    <3>1. PICK applied \in BOOLEAN, answered \in BOOLEAN :
            /\ outbox' = [e \in Episodes |->
                            IF applied /\ e \in Sendable
                            THEN [outbox[e] EXCEPT !.status = "sending", !.attempts = @ + 1]
                            ELSE outbox[e]]
            /\ sender' = [e \in Episodes |->
                            IF applied /\ answered /\ e \in Sendable
                            THEN [pc |-> "claimed", attempts |-> outbox[e].attempts + 1,
                                  pv |-> outbox[e].pv]
                            ELSE NoSender]
      BY <2>2 DEF ClaimOutbox
    <3>2. ASSUME NEW e \in Episodes, applied, e \in Sendable PROVE SenderClaimed(e)
      <4>1. outbox[e] \in Outbox
        BY DEF TypeOK
      <4>2. PICK n \in Nat : n = outbox[e].attempts + 1
        BY <4>1 DEF Outbox
      <4>3. outbox'[e] = [outbox[e] EXCEPT !.status = "sending", !.attempts = n]
        BY <3>1, <3>2, <4>2
      <4>4. outbox'[e].status = "sending" /\ outbox'[e].attempts = n
        BY <4>1, <4>3 DEF Outbox
      <4>5. outbox[e].status \in LiveOutbox /\ UNCHANGED calls
        BY <2>2, <3>2 DEF ClaimOutbox, Sendable, LiveOutbox
      <4>6. QED BY <4>2, <4>4, <4>5 DEF SenderClaimed
    <3>3. ASSUME NEW e \in Episodes, ~(applied /\ answered /\ e \in Sendable)
          PROVE  sender'[e].pc = "none"
      BY <3>1, <3>3 DEF NoSender
    <3>4. QED BY <3>2, <3>3 DEF SenderMoves
  <2>3. CASE ReleaseClaimedOutbox
    BY <2>3 DEF ReleaseClaimedOutbox, SenderMoves, NoSender
  <2>4. ASSUME NEW e \in Episodes, CheckOutbox(e) \/ ObserveForOutbox(e) \/ RecheckOutbox(e)
        PROVE  SenderMoves
    <3>1. UNCHANGED calls /\ sender[e].pc \in Before
      BY <2>4 DEF CheckOutbox, ObserveForOutbox, RecheckOutbox, Before
    <3>2. PICK step \in SendStep : SenderTo(e, step)
      BY <2>4 DEF CheckOutbox, ObserveForOutbox, RecheckOutbox, SendStep
    <3>3. QED BY <1>g, <3>1, <3>2
  <2>5. ASSUME NEW e \in Episodes, EndForOutbox(e) \/ FinishOutbox(e) \/ ReleaseOutboxAfterFailure(e)
        PROVE  SenderMoves
    <3>1. UNCHANGED calls /\ sender[e].pc # "none"
      BY <2>5 DEF EndForOutbox, FinishOutbox, ReleaseOutboxAfterFailure
    <3>2. PICK step \in SendStep \ Before : SenderTo(e, step)
      BY <2>5 DEF EndForOutbox, FinishOutbox, ReleaseOutboxAfterFailure, SendStep, Before
    <3>3. QED BY <1>g, <3>1, <3>2
  <2>6. ASSUME NEW e \in Episodes, Publish(e) PROVE SenderMoves
    <3>1. sender[e].pc # "none" /\ \A f \in Episodes \ {e} : calls'[f] = calls[f]
      BY <2>6 DEF Publish, TypeOK
    <3>2. PICK step \in SendStep \ Before : SenderTo(e, step)
      BY <2>6 DEF Publish, SendStep, Before
    <3>3. QED BY <1>g, <3>1, <3>2
  <2>7. QED BY <1>5, <2>1, <2>2, <2>3, <2>4, <2>5, <2>6 DEF Send, SendStepOf
<1>6. CASE Process
  <2>1. CASE RecoverOrphanedWork \/ RecoverStaleWork \/ SuppressDisabledWork \/ CleanupHistory
    BY <1>u, <2>1 DEF RecoverOrphanedWork, RecoverStaleWork, SuppressDisabledWork, CleanupHistory
  <2>2. CASE Crash
    BY <2>2 DEF Crash, SenderMoves, NoSender
  <2>3. QED BY <1>6, <2>1, <2>2 DEF Process
<1>7. QED BY <1>1, <1>2, <1>3, <1>4, <1>5, <1>6 DEF Next

CallMoves ==
  \/ UNCHANGED calls
  \/ \E e \in Episodes : /\ sender[e].pc = "publish" /\ UNCHANGED outbox
                         /\ calls' = [calls EXCEPT ![e] = @ + 1]

(* Only a sender about to publish calls be-feed. *)
LEMMA NextMovesCalls ==
  ASSUME TypeOK, Next
  PROVE  CallMoves
<1> USE DEF worldVars, dbVars, rowVars, procVars, sendVars, jobVars, feedVars
<1>1. ASSUME NEW e \in Episodes, Publish(e) PROVE CallMoves
  BY <1>1 DEF Publish, CallMoves
<1>2. ASSUME NEW e \in Episodes,
             CheckOutbox(e) \/ ObserveForOutbox(e) \/ EndForOutbox(e) \/ RecheckOutbox(e)
               \/ FinishOutbox(e) \/ ReleaseOutboxAfterFailure(e)
      PROVE  UNCHANGED calls
  BY <1>2 DEF CheckOutbox, ObserveForOutbox, EndForOutbox, RecheckOutbox, FinishOutbox,
              ReleaseOutboxAfterFailure
<1>3. CASE SuppressStaleOutbox \/ ClaimOutbox \/ ReleaseClaimedOutbox \/ SendDone
  BY <1>3 DEF SuppressStaleOutbox, ClaimOutbox, ReleaseClaimedOutbox, SendDone, CallMoves
<1>4. CASE Send
  BY <1>1, <1>2, <1>3, <1>4 DEF Send, SendStepOf, CallMoves
<1>5. CASE World
  BY <1>5 DEF World, Leave, AbsenceGrows, Return, ReservationEnds, JobDue, OutboxDue, FeedStores,
              CallMoves
<1>6. CASE Preference
  BY <1>6 DEF Preference, PreferenceTurnsOff, PreferenceTurnsOn, PreferenceRenewed, CallMoves
<1>7. CASE Scan
  BY <1>7, ScanFrame DEF CallMoves
<1>8. CASE Dispatch
  BY <1>8, DispatchFrame DEF DispatchLeaves, CallMoves
<1>9. CASE Process
  BY <1>9 DEF Process, RecoverOrphanedWork, RecoverStaleWork, SuppressDisabledWork, CleanupHistory,
              Crash, CallMoves
<1>10. QED BY <1>4, <1>5, <1>6, <1>7, <1>8, <1>9 DEF Next

-----------------------------------------------------------------------------
(* Moves of the preference and the episode *)

NoWorkLeft == \A e \in Episodes : job'[e].status \notin LiveJob /\ outbox'[e].status \notin LiveOutbox

EpisodeSeen ==
  /\ ScanStillCurrent /\ UNCHANGED <<sub, outbox>>
  /\ episode' = [version |-> NextEpisode, open |-> TRUE]

CurrentMoves ==
  \/ UNCHANGED <<sub, episode>>
  \/ NoWorkLeft
  \/ ~sub.enabled /\ UNCHANGED <<episode, job, outbox>>
  \/ EpisodeSeen

(* A cancellation leaves no live work. *)
LEMMA CancelLeavesNothing ==
  ASSUME TypeOK, NEW final \in {"cancelled", "disabled"}, CancelWork(final)
  PROVE  NoWorkLeft
BY CancelMovesJobs, CancelMovesOutbox DEF NoWorkLeft

(* The preference and the episode change only together with their work. *)
LEMMA NextMovesCurrent ==
  ASSUME TypeOK, Next
  PROVE  CurrentMoves
<1> USE DEF worldVars, dbVars, rowVars, procVars, sendVars, jobVars, feedVars
<1>u. ASSUME UNCHANGED <<sub, episode>> PROVE CurrentMoves
  BY <1>u DEF CurrentMoves
<1>c. ASSUME CancelWork("cancelled") PROVE CurrentMoves
  BY <1>c, CancelLeavesNothing DEF CurrentMoves
<1>1. CASE World
  BY <1>1, <1>u DEF World, Leave, AbsenceGrows, Return, ReservationEnds, JobDue, OutboxDue, FeedStores
<1>2. CASE Preference
  BY <1>2, <1>c DEF Preference, PreferenceTurnsOff, PreferenceTurnsOn, PreferenceRenewed, CurrentMoves
<1>3. CASE Scan
  <2>1. CASE ApplyActiveObservation
    <3>1. CASE UNCHANGED <<episode, rowVars>>
      BY <1>u, <2>1, <3>1 DEF ApplyActiveObservation
    <3>2. CASE CancelWork("cancelled")
      BY <1>c, <3>2
    <3>3. CASE /\ ScanStillCurrent
               /\ episode' = [version |-> NextEpisode, open |-> TRUE]
               /\ UNCHANGED <<outbox, dueOutbox>>
      BY <2>1, <3>3 DEF ApplyActiveObservation, CurrentMoves, EpisodeSeen
    <3>4. QED BY <2>1, <3>1, <3>2, <3>3 DEF ApplyActiveObservation
  <2>2. CASE ScanActiveUser \/ ReconcileReservation \/ ScanFails
    BY <1>u, <2>2 DEF ScanActiveUser, ReconcileReservation, ScanFails
  <2>3. QED BY <1>3, <2>1, <2>2 DEF Scan
<1>4. CASE Dispatch
  <2>1. ASSUME NEW e \in Episodes, EndForJob(e) PROVE CurrentMoves
    BY <1>u, <1>c, <2>1 DEF EndForJob, EndAwayEpisode
  <2>2. ASSUME NEW e \in Episodes,
               ClaimJob(e) \/ CheckJob(e) \/ ObserveForJob(e) \/ FinishJob(e)
                 \/ CompleteJobAndEnqueue(e) \/ ReleaseClaimedJob(e)
        PROVE  CurrentMoves
    BY <1>u, <2>2 DEF ClaimJob, CheckJob, ObserveForJob, FinishJob, CompleteJobAndEnqueue,
                      ReleaseClaimedJob
  <2>3. CASE SuppressStaleJobs \/ ListDueJobs \/ StopLaunching \/ DispatchDone
    BY <1>u, <2>3 DEF SuppressStaleJobs, ListDueJobs, StopLaunching, DispatchDone
  <2>4. QED BY <1>4, <2>1, <2>2, <2>3 DEF Dispatch, DispatchStepOf
<1>5. CASE Send
  <2>1. ASSUME NEW e \in Episodes, EndForOutbox(e) PROVE CurrentMoves
    BY <1>u, <1>c, <2>1 DEF EndForOutbox, EndAwayEpisode
  <2>2. ASSUME NEW e \in Episodes,
               CheckOutbox(e) \/ ObserveForOutbox(e) \/ RecheckOutbox(e) \/ Publish(e)
                 \/ FinishOutbox(e) \/ ReleaseOutboxAfterFailure(e)
        PROVE  CurrentMoves
    BY <1>u, <2>2 DEF CheckOutbox, ObserveForOutbox, RecheckOutbox, Publish, FinishOutbox,
                      ReleaseOutboxAfterFailure
  <2>3. CASE SuppressStaleOutbox \/ ClaimOutbox \/ ReleaseClaimedOutbox \/ SendDone
    BY <1>u, <2>3 DEF SuppressStaleOutbox, ClaimOutbox, ReleaseClaimedOutbox, SendDone
  <2>4. QED BY <1>5, <2>1, <2>2, <2>3 DEF Send, SendStepOf
<1>6. CASE Process
  BY <1>6, <1>u DEF Process, RecoverOrphanedWork, RecoverStaleWork, SuppressDisabledWork,
                    CleanupHistory, Crash
<1>7. QED BY <1>1, <1>2, <1>3, <1>4, <1>5, <1>6 DEF Next

(* Once the reservation is over and no older observation is under way, no  *)
(* scan finds the student away.                                            *)
LEMMA OverStays ==
  ASSUME TypeOK, Next, over, scan.seen \in {"none", "ended"}
  PROVE  over' /\ scan'.seen \in {"none", "ended"}
<1> USE DEF worldVars, dbVars, rowVars, procVars, sendVars, jobVars, feedVars
<1>s. ASSUME UNCHANGED over, scan' = NoScan PROVE over' /\ scan'.seen \in {"none", "ended"}
  BY <1>s DEF NoScan
<1>1. CASE UNCHANGED <<over, scan>>
  BY <1>1
<1>2. CASE World
  BY <1>2 DEF World, Leave, AbsenceGrows, Return, ReservationEnds, JobDue, OutboxDue, FeedStores
<1>3. CASE Preference
  BY <1>1, <1>3 DEF Preference, PreferenceTurnsOff, PreferenceTurnsOn, PreferenceRenewed
<1>4. CASE Scan
  <2>1. CASE ScanActiveUser
    <3>1. Observation = "ended"
      BY DEF Observation
    <3>2. QED BY <2>1, <3>1 DEF ScanActiveUser
  <2>2. CASE ApplyActiveObservation
    <3>1. UNCHANGED over /\ scan' = NoScan
      BY <2>2 DEF ApplyActiveObservation
    <3>2. QED BY <1>s, <3>1
  <2>3. CASE ScanFails
    <3>1. UNCHANGED over /\ scan' = NoScan
      BY <2>3 DEF ScanFails
    <3>2. QED BY <1>s, <3>1
  <2>4. CASE ReconcileReservation
    <3>1. UNCHANGED <<over, scan>>
      BY <2>4 DEF ReconcileReservation
    <3>2. QED BY <1>1, <3>1
  <2>5. QED BY <1>4, <2>1, <2>2, <2>3, <2>4 DEF Scan
<1>5. CASE Dispatch
  BY <1>1, <1>5, DispatchFrame DEF DispatchLeaves
<1>6. CASE Send
  BY <1>1, <1>6, SendFrame DEF SendLeaves
<1>7. CASE Process
  <2>1. CASE Crash
    <3>1. UNCHANGED over /\ scan' = NoScan
      BY <2>1 DEF Crash
    <3>2. QED BY <1>s, <3>1
  <2>2. CASE RecoverOrphanedWork \/ RecoverStaleWork \/ SuppressDisabledWork \/ CleanupHistory
    BY <1>1, <2>2 DEF RecoverOrphanedWork, RecoverStaleWork, SuppressDisabledWork, CleanupHistory
  <2>3. QED BY <1>7, <2>1, <2>2 DEF Process
<1>8. QED BY <1>2, <1>3, <1>4, <1>5, <1>6, <1>7 DEF Next

-----------------------------------------------------------------------------
(* The invariants *)

(* The invariant holds in the initial state. *)
LEMMA InvInit == Init => IInv
<1> SUFFICES ASSUME Init PROVE IInv
  OBVIOUS
<1>1. TypeOK
  BY InitType
<1>2. CopyInv
  BY DEF Init, CopyInv, Busy, NoDispatcher
<1>3. GoneInv
  BY DEF Init, GoneInv, NoJob, NoOutbox, Absent
<1>4. SenderInv
  BY DEF Init, SenderInv, NoSender, Before
<1>5. NoWorkForClosedEpisode /\ WorkMatchesPreference
  BY DEF Init, NoWorkForClosedEpisode, WorkMatchesPreference, NoJob, NoOutbox, LiveJob, LiveOutbox
<1>6. PublishBudget
  BY ConstantsAssumption DEF Init, PublishBudget, NoOutbox
<1>7. QED BY <1>1, <1>2, <1>3, <1>4, <1>5, <1>6 DEF IInv

(* The copies of the dispatchers stay behind their rows. *)
LEMMA CopyStep ==
  ASSUME TypeOK, GoneInv, CopyInv, Next
  PROVE  CopyInv'
<1> SUFFICES ASSUME NEW e \in Episodes
             PROVE  /\ dispatcher'[e].pc # "none" => job'[e].status \notin Absent
                    /\ dispatcher'[e].pc \notin {"none", "release"} =>
                         /\ dispatcher'[e].version <= job'[e].version
                         /\ dispatcher'[e].version = job'[e].version =>
                              dispatcher'[e].pv = job'[e].pv
  BY DEF CopyInv, Busy
<1>n. /\ job[e].version \in Nat /\ dispatcher[e].version \in Nat
      /\ job'[e].version \in Nat /\ dispatcher'[e].version \in Nat
  <2>1. TypeOK'
    BY TypeStep
  <2>2. QED BY <2>1 DEF TypeOK, Job, Dispatcher
<1>c. /\ dispatcher[e].pc # "none" => job[e].status \notin Absent
      /\ dispatcher[e].pc \notin {"none", "release"} =>
           /\ dispatcher[e].version <= job[e].version
           /\ dispatcher[e].version = job[e].version => dispatcher[e].pv = job[e].pv
  BY DEF CopyInv, Busy
<1>d. \/ dispatcher'[e].pc = "none"
      \/ dispatcher'[e].pc = "release" /\ Busy(e)
      \/ dispatcher[e].pc \notin {"none", "release"} /\ DispatcherKept(e)
      \/ DispatcherListed(e)
      \/ DispatcherClaimed(e)
  BY NextMovesDispatcher DEF DispatcherMoves
<1>j. job'[e] = job[e] \/ JobGoesOn(e) \/ JobScheduled(e) \/ JobForgotten(e)
  BY NextMovesJobs DEF JobMoves
<1>s. Busy(e) => job'[e].status \notin Absent
  <2>1. ASSUME Busy(e) PROVE job[e].status \notin Absent
    BY <1>c, <2>1 DEF Busy
  <2>2. QED BY <1>j, <2>1 DEF JobGoesOn, JobScheduled, JobForgotten, Absent
<1>1. CASE dispatcher'[e].pc = "none"
  BY <1>1
<1>2. CASE dispatcher'[e].pc = "release" /\ Busy(e)
  BY <1>2, <1>s
<1>3. CASE dispatcher[e].pc \notin {"none", "release"} /\ DispatcherKept(e)
  <2>1. Busy(e)
    BY <1>3 DEF Busy
  <2>2. job[e].status \notin Absent
    BY <1>c, <1>3
  <2>3. \/ job'[e].version = job[e].version /\ job'[e].pv = job[e].pv
        \/ job'[e].version >= job[e].version /\ job'[e].pv = job[e].pv
        \/ job'[e].version = job[e].version + 1
    BY <1>j, <2>1, <2>2 DEF JobGoesOn, JobScheduled, JobForgotten
  <2>4. /\ dispatcher[e].version <= job[e].version
        /\ dispatcher[e].version = job[e].version => dispatcher[e].pv = job[e].pv
    BY <1>c, <1>3
  <2>5. dispatcher'[e].version = dispatcher[e].version /\ dispatcher'[e].pv = dispatcher[e].pv
    BY <1>3 DEF DispatcherKept
  <2>6. /\ dispatcher'[e].version <= job'[e].version
        /\ dispatcher'[e].version = job'[e].version => dispatcher'[e].pv = job'[e].pv
    BY <1>n, <2>3, <2>4, <2>5
  <2>7. QED BY <1>s, <2>1, <2>6
<1>4. CASE DispatcherListed(e)
  BY <1>4, <1>n DEF DispatcherListed, Absent
<1>5. CASE DispatcherClaimed(e)
  <2>1. dispatcher[e].pc = "listed" /\ Busy(e)
    BY <1>5 DEF DispatcherClaimed, Busy
  <2>2. job[e].version = dispatcher[e].version
    BY <1>5 DEF DispatcherClaimed, CanClaim
  <2>3. dispatcher[e].pv = job[e].pv
    BY <1>c, <2>1, <2>2
  <2>4. dispatcher'[e].version = job'[e].version /\ dispatcher'[e].pv = job'[e].pv
    BY <1>5, <2>2, <2>3 DEF DispatcherClaimed
  <2>5. QED BY <1>n, <1>s, <2>1, <2>4
<1>6. QED BY <1>d, <1>1, <1>2, <1>3, <1>4, <1>5

(* A cleaned-up row stays away. *)
LEMMA GoneStep ==
  ASSUME TypeOK, CopyInv, GoneInv, Next
  PROVE  GoneInv'
<1> SUFFICES ASSUME NEW e \in Episodes
             PROVE  /\ job'[e].status \in Absent => job'[e].attempts = 0
                    /\ job'[e].status = "deleted" => over' /\ scan'.seen \in {"none", "ended"}
                    /\ outbox'[e].status = "none" => outbox'[e].attempts = 0
                    /\ outbox'[e].status = "deleted" => job'[e].status = "deleted"
  BY DEF GoneInv
<1>g. /\ job[e].status \in Absent => job[e].attempts = 0
      /\ job[e].status = "deleted" => over /\ scan.seen \in {"none", "ended"}
      /\ outbox[e].status = "none" => outbox[e].attempts = 0
      /\ outbox[e].status = "deleted" => job[e].status = "deleted"
  BY DEF GoneInv
<1>j. job'[e] = job[e] \/ JobGoesOn(e) \/ JobScheduled(e) \/ JobForgotten(e)
  BY NextMovesJobs DEF JobMoves
<1>o. outbox'[e] = outbox[e] \/ OutboxGoesOn(e) \/ OutboxClaimed(e) \/ OutboxReleased(e)
        \/ OutboxCreated(e) \/ OutboxForgotten(e)
  BY NextMovesOutbox DEF OutboxMoves
<1>1. job'[e].status \in Absent => job'[e].attempts = 0
  BY <1>g, <1>j DEF JobGoesOn, JobScheduled, JobForgotten, Absent
<1>2. job'[e].status = "deleted" => over' /\ scan'.seen \in {"none", "ended"}
  <2>1. CASE job'[e] = job[e]
    BY <1>g, <2>1, OverStays
  <2>2. CASE JobGoesOn(e) \/ JobScheduled(e)
    BY <2>2 DEF JobGoesOn, JobScheduled, Absent
  <2>3. CASE JobForgotten(e)
    BY <2>3 DEF JobForgotten
  <2>4. QED BY <1>j, <2>1, <2>2, <2>3
<1>3. outbox'[e].status = "none" => outbox'[e].attempts = 0
  BY <1>g, <1>o DEF OutboxGoesOn, OutboxClaimed, OutboxReleased, OutboxCreated, OutboxForgotten, Absent
<1>4. outbox'[e].status = "deleted" => job'[e].status = "deleted"
  <2>1. ASSUME outbox[e].status = "deleted" PROVE job'[e].status = "deleted"
    <3>1. job[e].status = "deleted" /\ scan.seen \in {"none", "ended"}
      BY <1>g, <2>1
    <3>2. QED BY <1>j, <3>1 DEF JobGoesOn, JobScheduled, JobForgotten, LiveJob
  <2>2. QED
    BY <1>o, <2>1 DEF OutboxGoesOn, OutboxClaimed, OutboxReleased, OutboxCreated, OutboxForgotten,
                      Absent
<1>5. QED BY <1>1, <1>2, <1>3, <1>4

(* A sender that has not published has an attempt left to use. *)
LEMMA SenderKeepsAttempt ==
  ASSUME TypeOK, SenderInv, PublishBudget, Next
  PROVE  SenderInv'
<1> SUFFICES ASSUME NEW e \in Episodes, sender'[e].pc # "none"
             PROVE  /\ outbox'[e].status \notin Absent
                    /\ sender'[e].pc \in Before => calls'[e] < outbox'[e].attempts
  <2>1. "none" \notin Before
    BY DEF Before
  <2>2. QED BY <2>1 DEF SenderInv
<1>n. /\ outbox[e].attempts \in Nat /\ calls[e] \in Nat
      /\ calls'[e] \in Nat /\ outbox'[e].attempts \in Nat
  <2>1. TypeOK'
    BY TypeStep
  <2>2. QED BY <2>1 DEF TypeOK, Outbox
<1>i. /\ sender[e].pc # "none" => outbox[e].status \notin Absent
      /\ sender[e].pc \in Before => calls[e] < outbox[e].attempts
      /\ outbox[e].status # "deleted" => calls[e] <= outbox[e].attempts
  BY DEF SenderInv, PublishBudget
<1>s. \/ sender[e].pc # "none" /\ sender'[e].pc \notin Before
      \/ sender[e].pc \in Before /\ calls'[e] = calls[e]
      \/ SenderClaimed(e)
  BY NextMovesSender DEF SenderMoves
<1>o. outbox'[e] = outbox[e] \/ OutboxGoesOn(e) \/ OutboxClaimed(e) \/ OutboxCreated(e)
  <2>1. ~OutboxReleased(e)
    BY DEF OutboxReleased
  <2>2. ~OutboxForgotten(e)
    BY DEF OutboxForgotten
  <2>3. QED BY <2>1, <2>2, NextMovesOutbox DEF OutboxMoves
<1>1. CASE SenderClaimed(e)
  <2>1. outbox[e].status # "deleted" /\ outbox'[e].status \notin Absent
    BY <1>1 DEF SenderClaimed, LiveOutbox, Absent
  <2>2. calls'[e] = calls[e] /\ outbox'[e].attempts = outbox[e].attempts + 1
    BY <1>1 DEF SenderClaimed
  <2>3. QED BY <1>i, <1>n, <2>1, <2>2
<1>2. CASE sender[e].pc # "none"
  <2>1. outbox[e].status \notin Absent
    BY <1>i, <1>2
  <2>2. ~OutboxCreated(e)
    BY <2>1 DEF OutboxCreated
  <2>3. /\ outbox'[e].status \notin Absent
        /\ \/ outbox'[e].attempts = outbox[e].attempts
           \/ outbox'[e].attempts = outbox[e].attempts + 1
    BY <1>o, <2>1, <2>2 DEF OutboxGoesOn, OutboxClaimed
  <2>4. CASE sender'[e].pc \notin Before
    BY <2>3, <2>4
  <2>5. CASE sender[e].pc \in Before /\ calls'[e] = calls[e]
    BY <1>i, <1>n, <2>3, <2>5
  <2>6. QED BY <1>1, <1>s, <2>4, <2>5
<1>3. QED
  <2>1. sender[e].pc \in Before => sender[e].pc # "none"
    BY DEF Before
  <2>2. QED BY <1>1, <1>2, <1>s, <2>1

(* The calls of a reminder stay within its attempts. *)
LEMMA BudgetStep ==
  ASSUME TypeOK, GoneInv, SenderInv, PublishBudget, Next
  PROVE  PublishBudget'
<1> SUFFICES ASSUME NEW e \in Episodes, outbox'[e].status # "deleted"
             PROVE  /\ calls'[e] <= outbox'[e].attempts
                    /\ outbox'[e].attempts <= RetryMaxAttempts
  BY DEF PublishBudget
<1>n. /\ outbox[e].attempts \in Nat /\ calls[e] \in Nat /\ RetryMaxAttempts \in Nat
  BY ConstantsAssumption DEF TypeOK, Outbox
<1>b. outbox[e].status # "deleted" =>
        /\ calls[e] <= outbox[e].attempts
        /\ outbox[e].attempts <= RetryMaxAttempts
  BY DEF PublishBudget
<1>o. outbox'[e] = outbox[e] \/ OutboxGoesOn(e) \/ OutboxClaimed(e) \/ OutboxReleased(e)
        \/ OutboxCreated(e)
  <2>1. ~OutboxForgotten(e)
    BY DEF OutboxForgotten
  <2>2. QED BY <2>1, NextMovesOutbox DEF OutboxMoves
<1>1. CASE UNCHANGED calls
  <2>1. CASE outbox'[e] = outbox[e]
    BY <1>1, <1>b, <2>1
  <2>2. CASE OutboxGoesOn(e)
    <3>1. outbox[e].status # "deleted" /\ outbox'[e].attempts = outbox[e].attempts
      BY <2>2 DEF OutboxGoesOn, LiveOutbox
    <3>2. QED BY <1>1, <1>b, <3>1
  <2>3. CASE OutboxClaimed(e)
    <3>1. /\ outbox[e].status # "deleted" /\ outbox'[e].attempts = outbox[e].attempts + 1
          /\ outbox[e].attempts < RetryMaxAttempts
      BY <2>3 DEF OutboxClaimed, LiveOutbox
    <3>2. QED BY <1>1, <1>b, <1>n, <3>1
  <2>4. CASE OutboxReleased(e)
    <3>1. /\ outbox[e].status # "deleted" /\ sender[e].pc \in Before
          /\ outbox'[e].attempts = IF outbox[e].attempts > 0 THEN outbox[e].attempts - 1 ELSE 0
      BY <2>4 DEF OutboxReleased, LiveOutbox, Before
    <3>2. calls[e] < outbox[e].attempts
      BY <3>1 DEF SenderInv
    <3>3. QED BY <1>1, <1>b, <1>n, <3>1, <3>2
  <2>5. CASE OutboxCreated(e)
    <3>1. job[e].status = "running" /\ outbox[e].status \in Absent /\ outbox'[e].attempts = 0
      BY <2>5 DEF OutboxCreated, HoldsJob
    <3>2. outbox[e].status = "none" /\ outbox[e].attempts = 0
      BY <3>1 DEF GoneInv, Absent
    <3>3. QED BY <1>1, <1>b, <1>n, <3>1, <3>2
  <2>6. QED BY <1>o, <2>1, <2>2, <2>3, <2>4, <2>5
<1>2. ASSUME NEW f \in Episodes, sender[f].pc = "publish", UNCHANGED outbox,
             calls' = [calls EXCEPT ![f] = @ + 1]
      PROVE  /\ calls'[e] <= outbox'[e].attempts
             /\ outbox'[e].attempts <= RetryMaxAttempts
  <2>1. CASE e = f
    <3>1. calls'[e] = calls[e] + 1
      BY <1>2, <2>1 DEF TypeOK
    <3>2. sender[e].pc \in Before
      BY <1>2, <2>1 DEF Before
    <3>3. calls[e] < outbox[e].attempts
      BY <3>2 DEF SenderInv
    <3>4. QED BY <1>2, <1>b, <1>n, <3>1, <3>3
  <2>2. CASE e # f
    <3>1. calls'[e] = calls[e]
      BY <1>2, <2>2 DEF TypeOK
    <3>2. QED BY <1>2, <1>b, <3>1
  <2>3. QED BY <2>1, <2>2
<1>3. QED BY <1>1, <1>2, NextMovesCalls DEF CallMoves

(* Live work after a step was live before, or is scheduled or completed    *)
(* under the episode and the preference of this moment.                    *)
LEMMA LiveStep ==
  ASSUME TypeOK, CopyInv, NoWorkForClosedEpisode, WorkMatchesPreference, Next
  PROVE  NoWorkForClosedEpisode' /\ WorkMatchesPreference'
<1> SUFFICES ASSUME NEW e \in Episodes
             PROVE  /\ job'[e].status \in LiveJob =>
                          EpisodeCurrent(e)' /\ sub'.enabled /\ sub'.version = job'[e].pv
                    /\ outbox'[e].status \in LiveOutbox =>
                          EpisodeCurrent(e)' /\ sub'.enabled /\ sub'.version = outbox'[e].pv
  BY DEF NoWorkForClosedEpisode, WorkMatchesPreference, IsCurrent
<1>i. /\ job[e].status \in LiveJob =>
            EpisodeCurrent(e) /\ sub.enabled /\ sub.version = job[e].pv
      /\ outbox[e].status \in LiveOutbox =>
            EpisodeCurrent(e) /\ sub.enabled /\ sub.version = outbox[e].pv
  BY DEF NoWorkForClosedEpisode, WorkMatchesPreference, IsCurrent
<1>j. job'[e] = job[e] \/ JobGoesOn(e) \/ JobScheduled(e) \/ JobForgotten(e)
  BY NextMovesJobs DEF JobMoves
<1>o. outbox'[e] = outbox[e] \/ OutboxGoesOn(e) \/ OutboxClaimed(e) \/ OutboxReleased(e)
        \/ OutboxCreated(e) \/ OutboxForgotten(e)
  BY NextMovesOutbox DEF OutboxMoves
(* What a live job was before, and what a live outbox row was. *)
<1>lj. ASSUME job'[e].status \in LiveJob
       PROVE  JobScheduled(e) \/ (job[e].status \in LiveJob /\ job'[e].pv = job[e].pv)
  BY <1>j, <1>lj DEF JobGoesOn, JobForgotten, LiveJob
<1>lo. ASSUME outbox'[e].status \in LiveOutbox
       PROVE  OutboxCreated(e) \/ (outbox[e].status \in LiveOutbox /\ outbox'[e].pv = outbox[e].pv)
  BY <1>o, <1>lo DEF OutboxGoesOn, OutboxClaimed, OutboxReleased, OutboxForgotten, LiveOutbox
<1>js. ASSUME JobScheduled(e)
       PROVE  EpisodeCurrent(e)' /\ sub'.enabled /\ sub'.version = job'[e].pv
  BY <1>js DEF JobScheduled, ScanStillCurrent, IsCurrent, EpisodeCurrent
<1>oc. ASSUME OutboxCreated(e)
       PROVE  EpisodeCurrent(e)' /\ sub'.enabled /\ sub'.version = outbox'[e].pv
  <2>1. /\ job[e].status = "running" /\ job[e].version = dispatcher[e].version
        /\ dispatcher[e].pc = "complete"
    BY <1>oc DEF OutboxCreated, HoldsJob
  <2>2. dispatcher[e].pv = job[e].pv
    BY <2>1 DEF CopyInv
  <2>3. EpisodeCurrent(e) /\ sub.enabled /\ sub.version = job[e].pv
    BY <1>i, <2>1 DEF LiveJob
  <2>4. outbox'[e].pv = dispatcher[e].pv /\ UNCHANGED <<sub, episode>>
    BY <1>oc DEF OutboxCreated
  <2>5. QED BY <2>2, <2>3, <2>4 DEF EpisodeCurrent
<1>1. CASE UNCHANGED <<sub, episode>>
  <2>1. EpisodeCurrent(e)' <=> EpisodeCurrent(e)
    BY <1>1 DEF EpisodeCurrent
  <2>2. QED BY <1>1, <1>i, <1>lj, <1>lo, <1>js, <1>oc, <2>1
<1>2. CASE NoWorkLeft
  BY <1>2 DEF NoWorkLeft
<1>3. CASE ~sub.enabled /\ UNCHANGED <<episode, job, outbox>>
  BY <1>3, <1>i
<1>4. CASE EpisodeSeen
  <2>1. ASSUME EpisodeCurrent(e) PROVE EpisodeCurrent(e)'
    BY <1>4, <2>1 DEF EpisodeSeen, EpisodeCurrent, NextEpisode
  <2>2. UNCHANGED <<sub, outbox>>
    BY <1>4 DEF EpisodeSeen
  <2>3. QED BY <1>i, <1>lj, <1>js, <2>1, <2>2
<1>5. QED BY <1>1, <1>2, <1>3, <1>4, NextMovesCurrent DEF CurrentMoves

(* Every step keeps the invariant. *)
LEMMA InvStep == IInv /\ [Next]_vars => IInv'
<1> SUFFICES ASSUME IInv, [Next]_vars PROVE IInv'
  OBVIOUS
<1>1. CASE Next
  <2>1. TypeOK' /\ CopyInv' /\ GoneInv'
    BY <1>1, TypeStep, CopyStep, GoneStep DEF IInv
  <2>2. SenderInv' /\ PublishBudget'
    BY <1>1, SenderKeepsAttempt, BudgetStep DEF IInv
  <2>3. NoWorkForClosedEpisode' /\ WorkMatchesPreference'
    BY <1>1, LiveStep DEF IInv
  <2>4. QED BY <2>1, <2>2, <2>3 DEF IInv
<1>2. CASE UNCHANGED vars
  <2> USE <1>2 DEF vars, worldVars, dbVars, rowVars, procVars, sendVars, jobVars, feedVars, IInv
  <2>1. TypeOK'
    BY DEF TypeOK
  <2>2. CopyInv'
    BY DEF CopyInv, Busy
  <2>3. GoneInv' /\ SenderInv'
    BY DEF GoneInv, SenderInv
  <2>4. NoWorkForClosedEpisode' /\ WorkMatchesPreference' /\ PublishBudget'
    BY DEF NoWorkForClosedEpisode, WorkMatchesPreference, PublishBudget, EpisodeCurrent, IsCurrent
  <2>5. QED BY <2>1, <2>2, <2>3, <2>4
<1>3. QED BY <1>1, <1>2

(* The invariant holds in every reachable state. *)
LEMMA InvAlways == Spec => []IInv
BY InvInit, InvStep, PTL DEF Spec

-----------------------------------------------------------------------------
(* The theorems *)

(* No reminder of an absence that is over is pending, claimed or waiting   *)
(* for a retry, whatever the bounds: endAwayEpisode and the scan close the *)
(* episode and cancel its rows in one transaction, and no claim, retry,    *)
(* release, recovery or completion brings a row back.                      *)
THEOREM NoWorkAfterEpisode == Spec => []NoWorkForClosedEpisode
<1>1. IInv => NoWorkForClosedEpisode
  BY DEF IInv
<1>2. QED BY <1>1, InvAlways, PTL

(* Live jobs and outbox rows belong to the preference as it is now: the    *)
(* transaction that changes the preference voids the rest, and what        *)
(* CompleteJobAndEnqueue writes from a copy is of the row it has locked.   *)
THEOREM WorkIsOfPreference == Spec => []WorkMatchesPreference
<1>1. IInv => WorkMatchesPreference
  BY DEF IInv
<1>2. QED BY <1>1, InvAlways, PTL

(* Publish is called at most RetryMaxAttempts times for a reminder, for    *)
(* every RetryMaxAttempts and any number of faults, crashes and overruns.  *)
THEOREM PublishedWithinBudget == Spec => []PublishBudget
<1>1. IInv => PublishBudget
  BY DEF IInv
<1>2. QED BY <1>1, InvAlways, PTL

(* ReleaseClaimedJobs and recoverClaimedWork give back the attempt of a    *)
(* job that is still running, never that of a retry already recorded.      *)
THEOREM RetriesKept == Spec => RetriesAreKept
<1> DEFINE Kept == \A e \in Episodes :
                     job'[e].attempts < job[e].attempts =>
                       job[e].status = "running" \/ job'[e].status = "deleted"
<1>1. ASSUME IInv, Next PROVE Kept
  <2> SUFFICES ASSUME NEW e \in Episodes, job'[e].attempts < job[e].attempts
               PROVE  job[e].status = "running" \/ job'[e].status = "deleted"
    OBVIOUS
  <2>n. job[e].attempts \in Nat
    BY <1>1 DEF IInv, TypeOK, Job
  <2>1. job'[e] = job[e] \/ JobGoesOn(e) \/ JobScheduled(e) \/ JobForgotten(e)
    BY <1>1, NextMovesJobs DEF IInv, JobMoves
  <2>2. CASE job'[e] = job[e]
    BY <2>2, <2>n
  <2>3. CASE JobGoesOn(e)
    BY <2>3 DEF JobGoesOn
  <2>4. CASE JobScheduled(e)
    <3>1. job[e].status \in Absent => job[e].attempts = 0
      BY <1>1 DEF IInv, GoneInv
    <3>2. job'[e].attempts = job[e].attempts
      BY <2>4, <3>1 DEF JobScheduled
    <3>3. QED BY <2>n, <3>2
  <2>5. CASE JobForgotten(e)
    BY <2>5 DEF JobForgotten
  <2>6. QED BY <2>1, <2>2, <2>3, <2>4, <2>5
<1>2. ASSUME IInv, UNCHANGED vars PROVE UNCHANGED vars \/ Kept
  BY <1>2
<1>3. IInv /\ [Next]_vars => [Kept]_vars
  BY <1>1, <1>2
<1>4. QED BY <1>3, InvAlways, PTL DEF Spec, RetriesAreKept

-----------------------------------------------------------------------------
(* The handover from DispatchJobs to SendOutbox *)

Over == {"done", "deleted"}

(* A reminder is carried by its job or by its outbox row, never by both:   *)
(* a job that can still come back has no row, and one that is done has.    *)
Carried(e) ==
  /\ outbox[e].status # "none" => job[e].status \in Over
  /\ job[e].status = "done" => outbox[e].status # "none"
OneCarrier == \A e \in Episodes : Carried(e)

(* Steps that hand nothing over.                                           *)
StaysWhereItIs(e) ==
  /\ \/ job'[e].status = job[e].status
     \/ job[e].status \notin Over /\ job'[e].status # "done"
  /\ outbox'[e].status = "none" <=> outbox[e].status = "none"

(* They keep every reminder in its one place.                              *)
LEMMA StayingIsCarried ==
  ASSUME OneCarrier, \A e \in Episodes : StaysWhereItIs(e)
  PROVE  OneCarrier'
BY DEF OneCarrier, Carried, StaysWhereItIs, Over

(* A cancellation hands nothing over.                                      *)
LEMMA CancelStays ==
  ASSUME TypeOK, NEW final \in {"cancelled", "disabled"}, CancelWork(final)
  PROVE  \A e \in Episodes : StaysWhereItIs(e)
<1> SUFFICES ASSUME NEW e \in Episodes PROVE StaysWhereItIs(e)
  OBVIOUS
<1>1. job'[e].status = job[e].status \/ (job[e].status \in LiveJob /\ job'[e].status = final)
  BY CancelFacts
<1>2. outbox'[e] = outbox[e] \/ (outbox[e].status \in LiveOutbox /\ outbox'[e].status = "suppressed")
  BY CancelFacts
<1> QED BY <1>1, <1>2 DEF StaysWhereItIs, LiveJob, LiveOutbox, Over

(* Nor does a recovery: it only takes back claims.                         *)
LEMMA RecoverStays ==
  ASSUME TypeOK, NEW J \in SUBSET RunningJobs, NEW O \in SUBSET SendingOutbox, RecoverClaimedWork(J, O)
  PROVE  \A e \in Episodes : StaysWhereItIs(e)
<1> SUFFICES ASSUME NEW e \in Episodes PROVE StaysWhereItIs(e)
  OBVIOUS
<1>1. J \in SUBSET Episodes /\ O \in SUBSET Episodes
  BY DEF RunningJobs, SendingOutbox
<1>2. job'[e] = job[e] \/ (job[e].status = "running" /\ job'[e].status = "pending")
  <2>1. job[e] \in Job
    BY DEF TypeOK
  <2>2. Refunded(job[e]).status = "pending"
    BY <2>1, RefundFacts
  <2>3. e \in J => job'[e] = Refunded(job[e]) /\ job[e].status = "running"
    BY <1>1, RecoverFacts DEF RunningJobs
  <2>4. e \notin J => job'[e] = job[e]
    BY <1>1, RecoverFacts
  <2> QED BY <2>2, <2>3, <2>4
<1>3. outbox'[e] = outbox[e] \/ (outbox[e].status = "sending" /\ outbox'[e].status = "failed")
  BY <1>1, RecoverFacts DEF SendingOutbox
<1> QED BY <1>2, <1>3 DEF StaysWhereItIs, Over

(* The scan never schedules a reminder again that has been handed over.    *)
LEMMA ScanKeepsCarrier ==
  ASSUME TypeOK, GoneInv, OneCarrier, Scan
  PROVE  OneCarrier'
<1>1. CASE UNCHANGED <<job, outbox>>
  BY <1>1 DEF OneCarrier, Carried
<1>2. CASE CancelWork("cancelled")
  BY <1>2, CancelStays, StayingIsCarried
<1>3. CASE /\ scan.seen \in {"early", "long"} /\ NextEpisode \in Episodes
           /\ job' = [job EXCEPT ![NextEpisode] = Upserted(@)]
           /\ UNCHANGED outbox
  <2>1. job'[NextEpisode] = Upserted(job[NextEpisode])
        /\ \A e \in Episodes \ {NextEpisode} : job'[e] = job[e]
    BY <1>3 DEF TypeOK
  <2>2. PICK r \in Job : r = job[NextEpisode]
    BY <1>3 DEF TypeOK
  <2>3. r.status # "deleted"
    BY <1>3, <2>2 DEF GoneInv
  <2>4. Upserted(r) = r \/ Upserted(r).status = "pending"
    BY UpsertFacts
  <2>5. r.status = "done" => Upserted(r) = r
    BY DEF Upserted
  <2>6. StaysWhereItIs(NextEpisode)
    BY <1>3, <2>1, <2>2, <2>3, <2>4, <2>5 DEF StaysWhereItIs, Over
  <2>7. \A e \in Episodes \ {NextEpisode} : StaysWhereItIs(e)
    BY <1>3, <2>1 DEF StaysWhereItIs
  <2> QED BY <2>6, <2>7, StayingIsCarried
<1> QED BY <1>1, <1>2, <1>3
        DEF Scan, ScanActiveUser, ScanFails, ReconcileReservation, ApplyActiveObservation, rowVars, dbVars

(* Only the completion of a job hands it over, with its row.               *)
LEMMA DispatchKeepsCarrier ==
  ASSUME TypeOK, OneCarrier, Dispatch
  PROVE  OneCarrier'
<1>job. \A e \in Episodes : job[e] \in Job
  BY DEF TypeOK
<1>1. CASE UNCHANGED <<job, outbox>>
  BY <1>1 DEF OneCarrier, Carried
<1>2. CASE CancelWork("cancelled")
  BY <1>2, CancelStays, StayingIsCarried
<1>3. ASSUME UNCHANGED outbox,
             \A e \in Episodes : job'[e] = job[e] \/ (job[e].status \in LiveJob /\ job'[e].status # "done")
      PROVE  OneCarrier'
  <2>1. \A e \in Episodes : StaysWhereItIs(e)
    BY <1>3 DEF StaysWhereItIs, LiveJob, Over
  <2> QED BY <2>1, StayingIsCarried
<1>4. CASE SuppressStaleJobs
  <2>1. ASSUME NEW e \in Episodes
        PROVE  job'[e] = job[e] \/ (job[e].status \in LiveJob /\ job'[e].status # "done")
    <3>1. CASE job[e].status = "pending" /\ ~IsCurrent(job[e].pv)
      <4>1. job'[e] = [job[e] EXCEPT !.status = "suppressed"]
        BY <1>4, <3>1 DEF SuppressStaleJobs
      <4>2. job'[e].status = "suppressed"
        BY <4>1, <1>job DEF Job
      <4> QED BY <3>1, <4>2 DEF LiveJob
    <3>2. CASE ~(job[e].status = "pending" /\ ~IsCurrent(job[e].pv))
      BY <1>4, <3>2 DEF SuppressStaleJobs
    <3> QED BY <3>1, <3>2
  <2> QED BY <2>1, <1>3, <1>4 DEF SuppressStaleJobs
<1>5. ASSUME NEW e \in Episodes, ClaimJob(e) PROVE OneCarrier'
  <2>1. \/ job' = job
        \/ /\ CanClaim(e) /\ job'[e].status = "running"
           /\ \A f \in Episodes \ {e} : job'[f] = job[f]
    BY <1>5, ClaimFacts
  <2>2. UNCHANGED outbox
    BY <1>5 DEF ClaimJob
  <2> QED BY <2>1, <2>2, <1>3 DEF CanClaim, LiveJob
<1>6. ASSUME NEW e \in Episodes, FinishJob(e) \/ ReleaseClaimedJob(e), job' # job PROVE OneCarrier'
  <2>1. /\ HoldsJob(e) /\ UNCHANGED outbox
        /\ \/ \E s \in {"suppressed", "pending"} : job' = [job EXCEPT ![e].status = s]
           \/ job' = [job EXCEPT ![e] = Refunded(job[e])]
    BY <1>6 DEF FinishJob, ReleaseClaimedJob, Update
  <2>2. Refunded(job[e]).status = "pending"
    BY <1>job, RefundFacts
  <2>3. job'[e].status # "done" /\ \A f \in Episodes \ {e} : job'[f] = job[f]
    BY <2>1, <2>2, <1>job DEF TypeOK, Job
  <2> QED BY <2>1, <2>3, <1>3 DEF HoldsJob, LiveJob
<1>7. ASSUME NEW e \in Episodes, CompleteJobAndEnqueue(e), job' # job PROVE OneCarrier'
  <2>1. job' = [job EXCEPT ![e].status = "done"] /\ outbox' = [outbox EXCEPT ![e] = Enqueued(e)]
    BY <1>7 DEF CompleteJobAndEnqueue
  <2>2. /\ job'[e].status = "done" /\ outbox'[e] = Enqueued(e)
        /\ \A f \in Episodes \ {e} : job'[f] = job[f] /\ outbox'[f] = outbox[f]
    BY <2>1, <1>job DEF TypeOK, Job
  <2>3. Enqueued(e).status # "none"
    BY DEF Enqueued
  <2> QED BY <2>2, <2>3 DEF OneCarrier, Carried, Over
<1>8. CASE ListDueJobs \/ StopLaunching \/ DispatchDone
  BY <1>1, <1>8 DEF ListDueJobs, StopLaunching, DispatchDone, dbVars, rowVars
<1>9. ASSUME NEW e \in Episodes, CheckJob(e) \/ ObserveForJob(e) \/ EndForJob(e) PROVE OneCarrier'
  BY <1>1, <1>2, <1>9 DEF CheckJob, ObserveForJob, EndForJob, EndAwayEpisode, dbVars, rowVars
<1>10. ASSUME NEW e \in Episodes, job' = job,
              FinishJob(e) \/ CompleteJobAndEnqueue(e) \/ ReleaseClaimedJob(e)
       PROVE  OneCarrier'
  <2>1. ~CompleteJobAndEnqueue(e) => UNCHANGED outbox
    BY <1>10 DEF FinishJob, ReleaseClaimedJob
  <2>2. CASE CompleteJobAndEnqueue(e) /\ ~UNCHANGED outbox
    <3>1. HoldsJob(e) /\ job' = [job EXCEPT ![e].status = "done"]
      BY <2>2 DEF CompleteJobAndEnqueue, Update
    <3>2. job'[e].status = "done" /\ job[e].status = "running"
      BY <3>1, <1>job DEF TypeOK, Job, HoldsJob
    <3> QED BY <3>2, <1>10
  <2> QED BY <2>1, <2>2, <1>1, <1>10
<1> QED BY <1>4, <1>5, <1>6, <1>7, <1>8, <1>9, <1>10 DEF Dispatch, DispatchStepOf

(* Sending works on rows that are there.                                   *)
LEMMA SendKeepsCarrier ==
  ASSUME TypeOK, OneCarrier, Send
  PROVE  OneCarrier'
<1>1. CASE UNCHANGED <<job, outbox>>
  BY <1>1 DEF OneCarrier, Carried
<1>2. CASE CancelWork("cancelled")
  BY <1>2, CancelStays, StayingIsCarried
<1>3. ASSUME UNCHANGED job,
             \A e \in Episodes : \/ outbox'[e] = outbox[e]
                                 \/ outbox[e].status \in LiveOutbox /\ outbox'[e].status # "none"
      PROVE  OneCarrier'
  <2>1. \A e \in Episodes : StaysWhereItIs(e)
    BY <1>3 DEF StaysWhereItIs, LiveOutbox
  <2> QED BY <2>1, StayingIsCarried
<1>out. \A e \in Episodes : outbox[e] \in Outbox
  BY DEF TypeOK
<1>4. CASE SuppressStaleOutbox \/ ClaimOutbox \/ ReleaseClaimedOutbox
  <2>1. UNCHANGED job
    BY <1>4 DEF SuppressStaleOutbox, ClaimOutbox, ReleaseClaimedOutbox
  <2>2. \A e \in Episodes : \/ outbox'[e] = outbox[e]
                            \/ outbox[e].status \in LiveOutbox /\ outbox'[e].status # "none"
    <3>1. CASE SuppressStaleOutbox
      BY <3>1, <1>out DEF SuppressStaleOutbox, LiveOutbox, Outbox
    <3>2. CASE ClaimOutbox
      <4>1. PICK applied \in BOOLEAN :
              outbox' = [e \in Episodes |->
                           IF applied /\ e \in Sendable
                           THEN [outbox[e] EXCEPT !.status = "sending", !.attempts = @ + 1]
                           ELSE outbox[e]]
        BY <3>2 DEF ClaimOutbox
      <4>2. ASSUME NEW e \in Episodes
            PROVE  [outbox[e] EXCEPT !.status = "sending", !.attempts = @ + 1].status = "sending"
        BY <1>out DEF Outbox
      <4> QED BY <4>1, <4>2 DEF Sendable, LiveOutbox
    <3>3. CASE ReleaseClaimedOutbox
      <4>1. PICK applied \in BOOLEAN :
              outbox' = [e \in Episodes |->
                           IF applied /\ sender[e].pc = "claimed" /\ HoldsOutbox(e)
                           THEN [outbox[e] EXCEPT !.status = "pending",
                                                  !.attempts = IF @ > 0 THEN @ - 1 ELSE 0]
                           ELSE outbox[e]]
        BY <3>3 DEF ReleaseClaimedOutbox
      <4>2. ASSUME NEW e \in Episodes
            PROVE  [outbox[e] EXCEPT !.status = "pending",
                                     !.attempts = IF @ > 0 THEN @ - 1 ELSE 0].status = "pending"
        BY <1>out DEF Outbox
      <4> QED BY <4>1, <4>2 DEF HoldsOutbox, LiveOutbox
    <3> QED BY <1>4, <3>1, <3>2, <3>3
  <2> QED BY <2>1, <2>2, <1>3
<1>5. ASSUME NEW e \in Episodes, FinishOutbox(e) \/ ReleaseOutboxAfterFailure(e) PROVE OneCarrier'
  <2>1. /\ UNCHANGED job
        /\ \/ UNCHANGED outbox
           \/ /\ HoldsOutbox(e)
              /\ \E s \in {"sent", "suppressed", "failed"} : outbox' = [outbox EXCEPT ![e].status = s]
    BY <1>5 DEF FinishOutbox, ReleaseOutboxAfterFailure, Update
  <2>2. \A f \in Episodes : \/ outbox'[f] = outbox[f]
                            \/ outbox[f].status \in LiveOutbox /\ outbox'[f].status # "none"
    <3>1. CASE UNCHANGED outbox
      BY <3>1
    <3>2. ASSUME HoldsOutbox(e), NEW s \in {"sent", "suppressed", "failed"},
                 outbox' = [outbox EXCEPT ![e].status = s]
          PROVE  /\ outbox[e].status \in LiveOutbox /\ outbox'[e].status # "none"
                 /\ \A f \in Episodes \ {e} : outbox'[f] = outbox[f]
      <4>1. outbox'[e] = [outbox[e] EXCEPT !.status = s]
            /\ \A f \in Episodes \ {e} : outbox'[f] = outbox[f]
        BY <3>2 DEF TypeOK
      <4>2. outbox'[e].status = s
        BY <4>1, <1>out DEF Outbox
      <4> QED BY <3>2, <4>1, <4>2 DEF HoldsOutbox, LiveOutbox
    <3> QED BY <2>1, <3>1, <3>2
  <2> QED BY <2>1, <2>2, <1>3
<1> QED BY <1>1, <1>2, <1>4, <1>5
        DEF Send, SendStepOf, SendDone, CheckOutbox, ObserveForOutbox, EndForOutbox, EndAwayEpisode,
            RecheckOutbox, Publish, dbVars, rowVars

(* Recovery, shutdown and cleanup.                                         *)
LEMMA ProcessKeepsCarrier ==
  ASSUME TypeOK, OneCarrier, Process
  PROVE  OneCarrier'
<1>1. CASE RecoverOrphanedWork \/ RecoverStaleWork
  BY <1>1, RecoverStays, StayingIsCarried DEF RecoverOrphanedWork, RecoverStaleWork
<1>2. CASE SuppressDisabledWork
  BY <1>2, CancelStays, StayingIsCarried DEF SuppressDisabledWork
<1>3. CASE CleanupHistory
  <2>1. PICK J \in SUBSET {e \in Episodes : job[e].status \in {"done", "cancelled", "suppressed", "disabled"}},
             O \in SUBSET {e \in Episodes : \/ outbox[e].status \in {"sent", "suppressed"}
                                            \/ /\ outbox[e].status = "failed"
                                               /\ outbox[e].attempts >= RetryMaxAttempts} :
          /\ \A e \in O : e \in J \/ job[e].status = "deleted"
          /\ job' = [e \in Episodes |-> IF e \in J THEN [NoJob EXCEPT !.status = "deleted"] ELSE job[e]]
          /\ outbox' = [e \in Episodes |->
                          IF e \in O THEN [NoOutbox EXCEPT !.status = "deleted"] ELSE outbox[e]]
    BY <1>3 DEF CleanupHistory
  <2>2. ASSUME NEW e \in Episodes PROVE Carried(e)'
    <3>1. job'[e] = IF e \in J THEN [NoJob EXCEPT !.status = "deleted"] ELSE job[e]
      BY <2>1
    <3>2. outbox'[e] = IF e \in O THEN [NoOutbox EXCEPT !.status = "deleted"] ELSE outbox[e]
      BY <2>1
    <3>3. [NoJob EXCEPT !.status = "deleted"].status = "deleted"
          /\ [NoOutbox EXCEPT !.status = "deleted"].status = "deleted"
      BY DEF NoJob, NoOutbox
    <3>4. Carried(e)
      BY DEF OneCarrier
    <3>5. e \in O => outbox[e].status # "none" /\ (e \in J \/ job[e].status = "deleted")
      BY <2>1
    <3> QED BY <3>1, <3>2, <3>3, <3>4, <3>5 DEF Carried, Over
  <2> QED BY <2>2 DEF OneCarrier
<1>4. CASE Crash
  BY <1>4 DEF Crash, dbVars, rowVars, OneCarrier, Carried
<1> QED BY <1>1, <1>2, <1>3, <1>4 DEF Process

(* A reminder is in one place: a job that is done has its outbox row, and   *)
(* one that can still be tried or scheduled again has none, whatever is     *)
(* claimed, released, recovered, cancelled or cleaned up.                   *)
THEOREM HandedOverOnce == Spec => []OneCarrier
<1>1. Init => OneCarrier
  BY DEF Init, OneCarrier, Carried, NoJob, NoOutbox
<1>2. IInv /\ OneCarrier /\ [Next]_vars => OneCarrier'
  <2> SUFFICES ASSUME IInv, OneCarrier, [Next]_vars PROVE OneCarrier'
    OBVIOUS
  <2>i. TypeOK /\ GoneInv
    BY DEF IInv
  <2>1. CASE UNCHANGED <<job, outbox>>
    BY <2>1 DEF OneCarrier, Carried
  <2>2. CASE World \/ UNCHANGED vars
    BY <2>1, <2>2
       DEF World, Leave, AbsenceGrows, Return, ReservationEnds, JobDue, OutboxDue, FeedStores,
           vars, dbVars, rowVars
  <2>3. CASE Preference
    BY <2>1, <2>3, <2>i, CancelStays, StayingIsCarried
       DEF Preference, PreferenceTurnsOff, PreferenceTurnsOn, PreferenceRenewed, rowVars
  <2> QED BY <2>2, <2>3, <2>i, ScanKeepsCarrier, DispatchKeepsCarrier, SendKeepsCarrier,
             ProcessKeepsCarrier DEF Next
<1> QED BY <1>1, <1>2, InvAlways, PTL DEF Spec

-----------------------------------------------------------------------------
(* The refinement of ReminderOnce *)

(* A sender that has not given up has not sent its row yet, and a row is   *)
(* sent only after the feed has accepted it.                               *)
OfferInv ==
  \A e \in Episodes :
    /\ sender[e].pc \notin {"none", "fail"} => outbox[e].status # "sent"
    /\ sender[e].pc = "sent" => e \in accepted

(* Whatever is called off while it waits or is ready. *)
Quiet(e) ==
  \/ StageOf(e)' = StageOf(e)
  \/ StageOf(e) = "waiting" /\ StageOf(e)' = "off"
  \/ StageOf(e) = "ready" /\ StageOf(e)' = "dropped"

OnceVars == <<OnceStage, accepted>>

(* Rows that are left alone or called off: CallOff of ReminderOnce. *)
LEMMA QuietStep ==
  ASSUME UNCHANGED accepted, \A e \in Episodes : Quiet(e)
  PROVE  [Once!Next]_OnceVars
<1> DEFINE R == {e \in Episodes : StageOf(e)' # StageOf(e)}
<1>1. \A e \in Episodes : OnceStage[e] = StageOf(e)
  BY DEF OnceStage
<1>2. OnceStage' = [e \in Episodes |-> StageOf(e)']
  BY DEF OnceStage
<1>3. R \in SUBSET Episodes
  OBVIOUS
<1>4. \A e \in R : /\ OnceStage[e] \in {"waiting", "ready"}
                   /\ StageOf(e)' = IF OnceStage[e] = "waiting" THEN "off" ELSE "dropped"
  BY <1>1 DEF Quiet
<1>5. \A e \in Episodes \ R : StageOf(e)' = OnceStage[e]
  BY <1>1
<1> HIDE DEF R
<1>6. OnceStage' = [e \in Episodes |-> IF e \notin R THEN OnceStage[e]
                                        ELSE IF OnceStage[e] = "waiting" THEN "off" ELSE "dropped"]
  BY <1>2, <1>4, <1>5
<1>7. Once!CallOff(R)
  BY <1>4, <1>6 DEF Once!CallOff
<1>8. QED BY <1>3, <1>7 DEF Once!Next

(* One row moves, the others stay. *)
LEMMA OneMoves ==
  ASSUME UNCHANGED accepted, NEW e \in Episodes,
         \A f \in Episodes \ {e} : StageOf(f)' = StageOf(f),
         \/ StageOf(e) \in {"none", "off"} /\ StageOf(e)' = "waiting"
         \/ StageOf(e) = "waiting" /\ StageOf(e)' = "ready"
         \/ e \in accepted /\ StageOf(e) = "ready" /\ StageOf(e)' = "told"
  PROVE  [Once!Next]_OnceVars
<1>1. \A f \in Episodes : OnceStage[f] = StageOf(f)
  BY DEF OnceStage
<1>2. OnceStage' = [f \in Episodes |-> StageOf(f)']
  BY DEF OnceStage
<1>3. ASSUME NEW to, StageOf(e)' = to
      PROVE  OnceStage' = [f \in Episodes |-> IF f \in {e} THEN to ELSE OnceStage[f]]
  BY <1>1, <1>2, <1>3
<1>4. CASE StageOf(e) \in {"none", "off"} /\ StageOf(e)' = "waiting"
  <2>1. Once!Schedule(e)
    BY <1>1, <1>3, <1>4 DEF Once!Schedule, Once!Moves
  <2>2. QED BY <2>1 DEF Once!Next
<1>5. CASE StageOf(e) = "waiting" /\ StageOf(e)' = "ready"
  <2>1. Once!Prepare(e)
    BY <1>1, <1>3, <1>5 DEF Once!Prepare, Once!Moves
  <2>2. QED BY <2>1 DEF Once!Next
<1>6. CASE e \in accepted /\ StageOf(e) = "ready" /\ StageOf(e)' = "told"
  <2>1. Once!Tell(e)
    BY <1>1, <1>3, <1>6 DEF Once!Tell, Once!Moves
  <2>2. QED BY <2>1 DEF Once!Next
<1>7. QED BY <1>4, <1>5, <1>6

(* Rows are cleaned up: Forget of ReminderOnce. *)
LEMMA ForgottenStep ==
  ASSUME UNCHANGED accepted,
         \A e \in Episodes :
           \/ StageOf(e)' = StageOf(e)
           \/ StageOf(e) \in {"off", "told", "dropped"} /\ StageOf(e)' = "forgotten"
  PROVE  [Once!Next]_OnceVars
<1> DEFINE R == {e \in Episodes : StageOf(e)' # StageOf(e)}
<1>1. \A e \in Episodes : OnceStage[e] = StageOf(e)
  BY DEF OnceStage
<1>2. OnceStage' = [e \in Episodes |-> StageOf(e)']
  BY DEF OnceStage
<1>3. R \in SUBSET Episodes
  OBVIOUS
<1>4. \A e \in R : OnceStage[e] \in {"off", "told", "dropped"} /\ StageOf(e)' = "forgotten"
  BY <1>1
<1>5. \A e \in Episodes \ R : StageOf(e)' = OnceStage[e]
  BY <1>1
<1> HIDE DEF R
<1>6. OnceStage' = [e \in Episodes |-> IF e \in R THEN "forgotten" ELSE OnceStage[e]]
  BY <1>2, <1>4, <1>5
<1>7. Once!Forget(R)
  BY <1>4, <1>6 DEF Once!Forget, Once!Moves
<1>8. QED BY <1>3, <1>7 DEF Once!Next

(* A live job without an outbox row goes on or is called off. *)
LEMMA JobStaysQuiet ==
  ASSUME TypeOK, TypeOK', NEW e \in Episodes, outbox'[e] = outbox[e],
         \/ job'[e].status = job[e].status
         \/ job[e].status \in LiveJob /\ job'[e].status \notin Absent
  PROVE  Quiet(e)
<1>1. job[e].status \in JobStatus /\ job'[e].status \in JobStatus
  BY DEF TypeOK, Job
<1>2. QED BY <1>1 DEF Quiet, StageOf, LiveJob, Absent, JobStatus

(* So does a live outbox row, whatever becomes of its job. *)
LEMMA OutboxStaysQuiet ==
  ASSUME TypeOK, NEW e \in Episodes, outbox[e].status \in LiveOutbox,
         \/ outbox'[e].status \in {"failed", "suppressed"} /\ outbox'[e].attempts = outbox[e].attempts
         \/ outbox'[e].status = "sending" /\ outbox[e].attempts < RetryMaxAttempts
         \/ outbox[e].status = "sending" /\ outbox'[e].status = "pending"
  PROVE  Quiet(e)
<1>1. outbox[e].attempts \in Nat /\ RetryMaxAttempts \in Nat
  BY ConstantsAssumption DEF TypeOK, Outbox
<1>2. QED BY <1>1 DEF Quiet, StageOf, LiveOutbox

(* A cancellation calls off. *)
LEMMA CancelIsQuiet ==
  ASSUME TypeOK, TypeOK', NEW final \in {"cancelled", "disabled"}, CancelWork(final),
         UNCHANGED accepted
  PROVE  [Once!Next]_OnceVars
<1>1. ASSUME NEW e \in Episodes PROVE Quiet(e)
  <2>1. CASE outbox[e].status \in LiveOutbox
    <3>1. outbox'[e].status = "suppressed" /\ outbox'[e].attempts = outbox[e].attempts
      BY <2>1, CancelFacts
    <3>2. QED BY <2>1, <3>1, OutboxStaysQuiet
  <2>2. CASE outbox[e].status \notin LiveOutbox
    <3>1. outbox'[e] = outbox[e]
      BY <2>2, CancelFacts
    <3>2. \/ job'[e].status = job[e].status
          \/ job[e].status \in LiveJob /\ job'[e].status \notin Absent
      BY CancelFacts DEF Absent
    <3>3. QED BY <3>1, <3>2, JobStaysQuiet
  <2>3. QED BY <2>1, <2>2
<1>2. QED BY <1>1, QuietStep

(* Recovered claims wait again, or were the last attempt. *)
LEMMA RecoverIsQuiet ==
  ASSUME TypeOK, TypeOK', NEW J \in SUBSET RunningJobs, NEW O \in SUBSET SendingOutbox,
         RecoverClaimedWork(J, O), UNCHANGED accepted
  PROVE  [Once!Next]_OnceVars
<1>1. J \in SUBSET Episodes /\ O \in SUBSET Episodes
  BY DEF RunningJobs, SendingOutbox
<1>2. ASSUME NEW e \in Episodes PROVE Quiet(e)
  <2>1. CASE e \in O
    <3>1. outbox'[e].status = "failed" /\ outbox'[e].attempts = outbox[e].attempts
      BY <1>1, <2>1, RecoverFacts
    <3>2. outbox[e].status \in LiveOutbox
      BY <2>1 DEF SendingOutbox, LiveOutbox
    <3>3. QED BY <3>1, <3>2, OutboxStaysQuiet
  <2>2. CASE e \notin O
    <3>1. outbox'[e] = outbox[e]
      BY <1>1, <2>2, RecoverFacts
    <3>2. job'[e] = job[e] \/ JobGoesOn(e) \/ JobScheduled(e) \/ JobForgotten(e)
      BY RecoverMovesJobs DEF JobMoves
    <3>3. \/ job'[e].status = job[e].status
          \/ job[e].status \in LiveJob /\ job'[e].status \notin Absent
      <4>1. CASE e \in J
        <5>1. job[e] \in Job /\ job[e].status = "running"
          BY <4>1 DEF RunningJobs, TypeOK
        <5>2. job'[e] = Refunded(job[e])
          BY <1>1, <4>1, RecoverFacts
        <5>3. Refunded(job[e]).status = "pending"
          BY <5>1, RefundFacts
        <5>4. QED BY <5>1, <5>2, <5>3 DEF LiveJob, Absent
      <4>2. CASE e \notin J
        BY <1>1, <4>2, RecoverFacts
      <4>3. QED BY <4>1, <4>2
    <3>4. QED BY <3>1, <3>3, JobStaysQuiet
  <2>3. QED BY <2>1, <2>2
<1>3. QED BY <1>2, QuietStep

(* A step that leaves jobs, rows and the feed alone. *)
LEMMA RowsStay ==
  ASSUME UNCHANGED <<job, outbox, accepted>>
  PROVE  [Once!Next]_OnceVars
<1>1. \A e \in Episodes : StageOf(e)' = StageOf(e)
  BY DEF StageOf
<1>2. QED BY <1>1 DEF OnceStage, OnceVars

(* The scan schedules a reminder that has none or was called off. *)
LEMMA OnceScan ==
  ASSUME TypeOK, TypeOK', GoneInv, Scan
  PROVE  [Once!Next]_OnceVars
<1> USE DEF worldVars, dbVars, rowVars, procVars, sendVars, jobVars, feedVars
<1>1. CASE ScanActiveUser \/ ScanFails
  BY <1>1, RowsStay DEF ScanActiveUser, ScanFails
<1>2. CASE ReconcileReservation
  BY <1>2, CancelIsQuiet DEF ReconcileReservation
<1>3. CASE ApplyActiveObservation
  <2>1. UNCHANGED accepted
    BY <1>3 DEF ApplyActiveObservation
  <2>2. CASE UNCHANGED <<episode, rowVars>>
    BY <2>1, <2>2, RowsStay
  <2>3. CASE CancelWork("cancelled")
    BY <2>1, <2>3, CancelIsQuiet
  <2>4. CASE /\ scan.seen \in {"early", "long"}
             /\ NextEpisode \in Episodes
             /\ job' = [job EXCEPT ![NextEpisode] = Upserted(@)]
             /\ UNCHANGED outbox
    <3>n. PICK n \in Episodes : n = NextEpisode
      BY <2>4
    <3>1. \A f \in Episodes \ {n} : job'[f] = job[f] /\ outbox'[f] = outbox[f]
      BY <2>4, <3>n DEF TypeOK
    <3>2. \A f \in Episodes \ {n} : StageOf(f)' = StageOf(f)
      BY <3>1 DEF StageOf
    <3>3. PICK r \in Job : r = job[n]
      BY DEF TypeOK
    <3>4. job'[n] = Upserted(r)
      BY <2>4, <3>n, <3>3 DEF TypeOK
    <3>5. r.status # "deleted"
      BY <2>4, <3>3 DEF GoneInv
    <3>6. Upserted(r) = r \/ Upserted(r).status = "pending"
      BY <3>3, UpsertFacts
    <3>7. CASE job'[n].status = r.status \/ outbox[n].status # "none"
      <4>1. StageOf(n)' = StageOf(n)
        BY <2>4, <3>3, <3>7 DEF StageOf
      <4>2. \A f \in Episodes : Quiet(f)
        BY <3>2, <4>1 DEF Quiet
      <4>3. QED BY <2>1, <4>2, QuietStep
    <3>8. CASE job'[n].status = "pending" /\ outbox[n].status = "none"
      <4>1. StageOf(n)' = "waiting"
        BY <2>4, <3>8 DEF StageOf, LiveJob
      <4>2. StageOf(n) \in {"none", "waiting", "off"}
        BY <3>3, <3>5, <3>8 DEF StageOf
      <4>3. CASE StageOf(n) = "waiting"
        <5>1. \A f \in Episodes : Quiet(f)
          BY <3>2, <4>1, <4>3 DEF Quiet
        <5>2. QED BY <2>1, <5>1, QuietStep
      <4>4. CASE StageOf(n) \in {"none", "off"}
        BY <2>1, <2>4, <3>2, <4>1, <4>4, OneMoves
      <4>5. QED BY <4>2, <4>3, <4>4
    <3>9. QED BY <3>4, <3>6, <3>7, <3>8
  <2>5. QED BY <1>3, <2>2, <2>3, <2>4 DEF ApplyActiveObservation
<1>4. QED BY <1>1, <1>2, <1>3 DEF Scan

(* The dispatcher calls off, or completes a job into a row that is ready. *)
LEMMA OnceDispatch ==
  ASSUME TypeOK, TypeOK', GoneInv, Dispatch
  PROVE  [Once!Next]_OnceVars
<1> USE DEF worldVars, dbVars, rowVars, procVars, sendVars, jobVars, feedVars
<1>t. job \in [Episodes -> Job] /\ outbox \in [Episodes -> Outbox]
  BY DEF TypeOK
<1>g. ASSUME UNCHANGED <<outbox, accepted>>,
             \A e \in Episodes :
               \/ job'[e].status = job[e].status
               \/ job[e].status \in LiveJob /\ job'[e].status \notin Absent
      PROVE  [Once!Next]_OnceVars
  <2>1. \A e \in Episodes : Quiet(e)
    BY <1>g, JobStaysQuiet
  <2>2. QED BY <1>g, <2>1, QuietStep
<1>1. CASE SuppressStaleJobs
  <2>1. ASSUME NEW e \in Episodes
        PROVE  \/ job'[e].status = job[e].status
               \/ job[e].status \in LiveJob /\ job'[e].status \notin Absent
    <3>1. CASE job[e].status = "pending" /\ ~IsCurrent(job[e].pv)
      <4>1. job'[e] = [job[e] EXCEPT !.status = "suppressed"]
        BY <1>1, <3>1 DEF SuppressStaleJobs
      <4>2. job'[e].status = "suppressed"
        BY <1>t, <4>1 DEF Job
      <4>3. QED BY <3>1, <4>2 DEF LiveJob, Absent
    <3>2. CASE ~(job[e].status = "pending" /\ ~IsCurrent(job[e].pv))
      BY <1>1, <3>2 DEF SuppressStaleJobs
    <3>3. QED BY <3>1, <3>2
  <2>2. QED BY <1>1, <1>g, <2>1 DEF SuppressStaleJobs
<1>2. CASE ListDueJobs \/ StopLaunching \/ DispatchDone
  BY <1>2, RowsStay DEF ListDueJobs, StopLaunching, DispatchDone
<1>3. ASSUME NEW e \in Episodes, CheckJob(e) \/ ObserveForJob(e) PROVE [Once!Next]_OnceVars
  BY <1>3, RowsStay DEF CheckJob, ObserveForJob
<1>4. ASSUME NEW e \in Episodes, ClaimJob(e) PROVE [Once!Next]_OnceVars
  <2>1. \A f \in Episodes \ {e} : job'[f] = job[f]
    BY <1>4, ClaimFacts
  <2>2. \/ job'[e] = job[e]
        \/ job[e].status \in LiveJob /\ job'[e].status \notin Absent
    BY <1>4, ClaimFacts DEF CanClaim, LiveJob, Absent
  <2>3. QED BY <1>4, <1>g, <2>1, <2>2 DEF ClaimJob
<1>5. ASSUME NEW e \in Episodes, EndForJob(e) PROVE [Once!Next]_OnceVars
  BY <1>5, RowsStay, CancelIsQuiet DEF EndForJob, EndAwayEpisode
<1>6. ASSUME NEW e \in Episodes, FinishJob(e) \/ ReleaseClaimedJob(e)
      PROVE  [Once!Next]_OnceVars
  <2>1. UNCHANGED <<outbox, accepted>>
    BY <1>6 DEF FinishJob, ReleaseClaimedJob
  <2>2. CASE job' = job
    BY <2>1, <2>2, RowsStay
  <2>3. ASSUME HoldsJob(e), NEW s \in {"suppressed", "pending"}, job' = [job EXCEPT ![e].status = s]
        PROVE  [Once!Next]_OnceVars
    <3>1. job'[e].status = s /\ \A f \in Episodes \ {e} : job'[f] = job[f]
      BY <1>t, <2>3 DEF Job
    <3>2. job[e].status \in LiveJob
      BY <2>3 DEF HoldsJob, LiveJob
    <3>3. QED BY <1>g, <2>1, <2>3, <3>1, <3>2 DEF Absent
  <2>4. CASE HoldsJob(e) /\ job' = [job EXCEPT ![e] = Refunded(@)]
    <3>1. job'[e] = Refunded(job[e]) /\ \A f \in Episodes \ {e} : job'[f] = job[f]
      BY <1>t, <2>4
    <3>2. job'[e].status = "pending"
      BY <1>t, <3>1, RefundFacts
    <3>3. job[e].status \in LiveJob
      BY <2>4 DEF HoldsJob, LiveJob
    <3>4. QED BY <1>g, <2>1, <3>1, <3>2, <3>3 DEF Absent
  <2>5. QED BY <1>6, <2>2, <2>3, <2>4 DEF FinishJob, ReleaseClaimedJob, Update
<1>7. ASSUME NEW e \in Episodes, CompleteJobAndEnqueue(e) PROVE [Once!Next]_OnceVars
  <2>1. UNCHANGED accepted
    BY <1>7 DEF CompleteJobAndEnqueue
  <2>2. CASE UNCHANGED <<job, outbox>>
    BY <2>1, <2>2, RowsStay
  <2>3. CASE /\ HoldsJob(e)
             /\ job' = [job EXCEPT ![e].status = "done"]
             /\ outbox' = [outbox EXCEPT ![e] = Enqueued(e)]
    <3>1. \A f \in Episodes \ {e} : job'[f] = job[f] /\ outbox'[f] = outbox[f]
      BY <1>t, <2>3
    <3>2. \A f \in Episodes \ {e} : StageOf(f)' = StageOf(f)
      BY <3>1 DEF StageOf
    <3>3. job[e].status = "running" /\ outbox[e].status # "deleted" /\ outbox'[e] = Enqueued(e)
      BY <1>t, <2>3 DEF HoldsJob, GoneInv
    <3>4. CASE outbox[e].status = "none"
      <4>1. StageOf(e) = "waiting"
        BY <3>3, <3>4 DEF StageOf, LiveJob
      <4>2. outbox'[e].status = "pending"
        BY <3>3, <3>4 DEF Enqueued
      <4>3. StageOf(e)' = "ready"
        BY <4>2 DEF StageOf
      <4>4. QED BY <2>1, <3>2, <4>1, <4>3, OneMoves
    <3>5. CASE outbox[e].status # "none"
      <4>1. outbox'[e] = outbox[e]
        BY <3>3, <3>5 DEF Enqueued
      <4>2. StageOf(e)' = StageOf(e)
        BY <3>5, <4>1 DEF StageOf
      <4>3. \A f \in Episodes : Quiet(f)
        BY <3>2, <4>2 DEF Quiet
      <4>4. QED BY <2>1, <4>3, QuietStep
    <3>6. QED BY <3>4, <3>5
  <2>4. QED BY <1>7, <2>2, <2>3 DEF CompleteJobAndEnqueue, Update
<1>8. QED BY <1>1, <1>2, <1>3, <1>4, <1>5, <1>6, <1>7 DEF Dispatch, DispatchStepOf

(* The sender tells, gives up, calls off, or calls be-feed again. *)
LEMMA OnceSend ==
  ASSUME TypeOK, TypeOK', SenderInv, OfferInv, Send
  PROVE  [Once!Next]_OnceVars
<1> USE DEF worldVars, dbVars, rowVars, procVars, sendVars, jobVars, feedVars
<1>t. outbox \in [Episodes -> Outbox]
  BY DEF TypeOK
<1>g. ASSUME UNCHANGED <<job, accepted>>,
             \A e \in Episodes :
               \/ outbox'[e] = outbox[e]
               \/ /\ outbox[e].status \in LiveOutbox
                  /\ \/ /\ outbox'[e].status \in {"failed", "suppressed"}
                        /\ outbox'[e].attempts = outbox[e].attempts
                     \/ outbox'[e].status = "sending" /\ outbox[e].attempts < RetryMaxAttempts
                     \/ outbox[e].status = "sending" /\ outbox'[e].status = "pending"
      PROVE  [Once!Next]_OnceVars
  <2>1. ASSUME NEW e \in Episodes PROVE Quiet(e)
    <3>1. CASE outbox'[e] = outbox[e]
      BY <1>g, <3>1 DEF Quiet, StageOf
    <3>2. CASE outbox'[e] # outbox[e]
      BY <1>g, <3>2, OutboxStaysQuiet
    <3>3. QED BY <3>1, <3>2
  <2>2. QED BY <1>g, <2>1, QuietStep
<1>1. CASE SuppressStaleOutbox
  <2>1. ASSUME NEW e \in Episodes
        PROVE  \/ outbox'[e] = outbox[e]
               \/ /\ outbox[e].status \in LiveOutbox /\ outbox'[e].status = "suppressed"
                  /\ outbox'[e].attempts = outbox[e].attempts
    <3>1. CASE outbox[e].status \in {"pending", "failed"} /\ ~IsCurrent(outbox[e].pv)
      <4>1. outbox'[e] = [outbox[e] EXCEPT !.status = "suppressed"]
        BY <1>1, <3>1 DEF SuppressStaleOutbox
      <4>2. QED BY <1>t, <3>1, <4>1 DEF Outbox, LiveOutbox
    <3>2. CASE ~(outbox[e].status \in {"pending", "failed"} /\ ~IsCurrent(outbox[e].pv))
      BY <1>1, <3>2 DEF SuppressStaleOutbox
    <3>3. QED BY <3>1, <3>2
  <2>2. QED BY <1>1, <1>g, <2>1 DEF SuppressStaleOutbox
<1>2. CASE ClaimOutbox
  <2>1. PICK applied \in BOOLEAN :
          outbox' = [e \in Episodes |->
                       IF applied /\ e \in Sendable
                       THEN [outbox[e] EXCEPT !.status = "sending", !.attempts = @ + 1]
                       ELSE outbox[e]]
    BY <1>2 DEF ClaimOutbox
  <2>2. ASSUME NEW e \in Episodes
        PROVE  \/ outbox'[e] = outbox[e]
               \/ /\ outbox[e].status \in LiveOutbox /\ outbox'[e].status = "sending"
                  /\ outbox[e].attempts < RetryMaxAttempts
    <3>1. CASE applied /\ e \in Sendable
      <4>1. PICK n : n = outbox[e].attempts + 1
        OBVIOUS
      <4>2. outbox'[e] = [outbox[e] EXCEPT !.status = "sending", !.attempts = n]
        BY <2>1, <3>1, <4>1
      <4>3. QED BY <1>t, <3>1, <4>2 DEF Outbox, LiveOutbox, Sendable
    <3>2. CASE ~(applied /\ e \in Sendable)
      BY <2>1, <3>2
    <3>3. QED BY <3>1, <3>2
  <2>3. QED BY <1>2, <1>g, <2>2 DEF ClaimOutbox
<1>3. CASE ReleaseClaimedOutbox
  <2>1. PICK applied \in BOOLEAN :
          outbox' = [e \in Episodes |->
                       IF applied /\ sender[e].pc = "claimed" /\ HoldsOutbox(e)
                       THEN [outbox[e] EXCEPT !.status = "pending",
                                              !.attempts = IF @ > 0 THEN @ - 1 ELSE 0]
                       ELSE outbox[e]]
    BY <1>3 DEF ReleaseClaimedOutbox
  <2>2. ASSUME NEW e \in Episodes
        PROVE  \/ outbox'[e] = outbox[e]
               \/ outbox[e].status = "sending" /\ outbox'[e].status = "pending"
    <3>1. CASE applied /\ sender[e].pc = "claimed" /\ HoldsOutbox(e)
      <4>1. PICK n : n = IF outbox[e].attempts > 0 THEN outbox[e].attempts - 1 ELSE 0
        OBVIOUS
      <4>2. outbox'[e] = [outbox[e] EXCEPT !.status = "pending", !.attempts = n]
        BY <2>1, <3>1, <4>1
      <4>3. QED BY <1>t, <3>1, <4>2 DEF Outbox, HoldsOutbox
    <3>2. CASE ~(applied /\ sender[e].pc = "claimed" /\ HoldsOutbox(e))
      BY <2>1, <3>2
    <3>3. QED BY <3>1, <3>2
  <2>3. QED BY <1>3, <1>g, <2>2 DEF ReleaseClaimedOutbox, LiveOutbox
<1>4. CASE SendDone
  BY <1>4, RowsStay DEF SendDone
<1>5. ASSUME NEW e \in Episodes, CheckOutbox(e) \/ ObserveForOutbox(e) \/ RecheckOutbox(e)
      PROVE  [Once!Next]_OnceVars
  BY <1>5, RowsStay DEF CheckOutbox, ObserveForOutbox, RecheckOutbox
<1>6. ASSUME NEW e \in Episodes, EndForOutbox(e) PROVE [Once!Next]_OnceVars
  BY <1>6, RowsStay, CancelIsQuiet DEF EndForOutbox, EndAwayEpisode
<1>7. ASSUME NEW e \in Episodes, Publish(e) PROVE [Once!Next]_OnceVars
  <2>1. sender[e].pc = "publish" /\ UNCHANGED <<job, outbox>>
    BY <1>7 DEF Publish
  <2>2. accepted' = accepted \/ accepted' = accepted \cup {e}
    BY <1>7 DEF Publish
  <2>3. CASE accepted' = accepted
    BY <2>1, <2>3, RowsStay
  <2>4. CASE accepted' = accepted \cup {e}
    <3>1. outbox[e].status \in OutboxStatus /\ outbox[e].status \notin {"none", "deleted", "sent"}
      <4>1. sender[e].pc \notin {"none", "fail"}
        BY <2>1
      <4>2. QED BY <1>t, <4>1 DEF SenderInv, OfferInv, Outbox, Absent
    <3>2. StageOf(e) \in {"ready", "dropped"}
      BY <3>1 DEF StageOf, OutboxStatus
    <3>3. OnceStage[e] = StageOf(e) /\ OnceStage' = OnceStage
      BY <2>1 DEF OnceStage, StageOf
    <3>4. Once!Hear(e)
      BY <2>4, <3>2, <3>3 DEF Once!Hear
    <3>5. QED BY <3>4 DEF Once!Next
  <2>5. QED BY <2>2, <2>3, <2>4
<1>8. ASSUME NEW e \in Episodes, FinishOutbox(e) \/ ReleaseOutboxAfterFailure(e)
      PROVE  [Once!Next]_OnceVars
  <2>1. UNCHANGED <<job, accepted>>
    BY <1>8 DEF FinishOutbox, ReleaseOutboxAfterFailure
  <2>2. CASE outbox' = outbox
    BY <2>1, <2>2, RowsStay
  <2>3. ASSUME NEW s \in {"sent", "suppressed", "failed"}, HoldsOutbox(e),
               outbox' = [outbox EXCEPT ![e].status = s], s = "sent" => sender[e].pc = "sent"
        PROVE  [Once!Next]_OnceVars
    <3>1. \A f \in Episodes \ {e} : outbox'[f] = outbox[f]
      BY <1>t, <2>3
    <3>2. outbox'[e].status = s /\ outbox'[e].attempts = outbox[e].attempts
      <4>1. outbox'[e] = [outbox[e] EXCEPT !.status = s]
        BY <1>t, <2>3
      <4>2. QED BY <1>t, <4>1 DEF Outbox
    <3>3. outbox[e].status = "sending"
      BY <2>3 DEF HoldsOutbox
    <3>4. CASE s = "sent"
      <4>1. e \in accepted
        BY <2>3, <3>4 DEF OfferInv
      <4>2. StageOf(e) = "ready" /\ StageOf(e)' = "told"
        BY <3>2, <3>3, <3>4 DEF StageOf
      <4>3. \A f \in Episodes \ {e} : StageOf(f)' = StageOf(f)
        BY <2>1, <3>1 DEF StageOf
      <4>4. QED BY <2>1, <4>1, <4>2, <4>3, OneMoves
    <3>5. CASE s # "sent"
      BY <1>g, <2>1, <2>3, <3>1, <3>2, <3>3, <3>5 DEF LiveOutbox
    <3>6. QED BY <3>4, <3>5
  <2>4. QED BY <1>8, <2>2, <2>3 DEF FinishOutbox, ReleaseOutboxAfterFailure, Update
<1>9. QED BY <1>1, <1>2, <1>3, <1>4, <1>5, <1>6, <1>7, <1>8 DEF Send, SendStepOf

(* Recovery and history: claims wait again, what is final is forgotten. *)
LEMMA OnceProcess ==
  ASSUME TypeOK, TypeOK', GoneInv, Process
  PROVE  [Once!Next]_OnceVars
<1> USE DEF worldVars, dbVars, rowVars, procVars, sendVars, jobVars, feedVars
<1>1. CASE RecoverOrphanedWork \/ RecoverStaleWork
  BY <1>1, RecoverIsQuiet DEF RecoverOrphanedWork, RecoverStaleWork
<1>2. CASE SuppressDisabledWork
  BY <1>2, CancelIsQuiet DEF SuppressDisabledWork
<1>3. CASE Crash
  BY <1>3, RowsStay DEF Crash
<1>4. CASE CleanupHistory
  <2>1. PICK J \in SUBSET {e \in Episodes :
                             job[e].status \in {"done", "cancelled", "suppressed", "disabled"}},
             O \in SUBSET {e \in Episodes : \/ outbox[e].status \in {"sent", "suppressed"}
                                            \/ /\ outbox[e].status = "failed"
                                               /\ outbox[e].attempts >= RetryMaxAttempts} :
          /\ job' = [e \in Episodes |-> IF e \in J THEN [NoJob EXCEPT !.status = "deleted"] ELSE job[e]]
          /\ outbox' = [e \in Episodes |->
                          IF e \in O THEN [NoOutbox EXCEPT !.status = "deleted"] ELSE outbox[e]]
    BY <1>4 DEF CleanupHistory
  <2>2. ASSUME NEW e \in Episodes
        PROVE  \/ StageOf(e)' = StageOf(e)
               \/ StageOf(e) \in {"off", "told", "dropped"} /\ StageOf(e)' = "forgotten"
    <3>1. CASE e \in O
      <4>1. outbox'[e].status = "deleted"
        BY <2>1, <3>1 DEF NoOutbox
      <4>2. StageOf(e)' = "forgotten"
        BY <4>1 DEF StageOf
      <4>3. StageOf(e) \in {"told", "dropped"}
        BY <2>1, <3>1 DEF StageOf
      <4>4. QED BY <4>2, <4>3
    <3>2. CASE e \notin O
      <4>1. outbox'[e] = outbox[e]
        BY <2>1, <3>2
      <4>2. CASE e \in J
        <5>1. job'[e].status = "deleted"
          BY <2>1, <4>2 DEF NoJob
        <5>2. job[e].status \in {"done", "cancelled", "suppressed", "disabled"}
          BY <2>1, <4>2
        <5>3. QED BY <4>1, <5>1, <5>2 DEF StageOf, LiveJob
      <4>3. CASE e \notin J
        BY <2>1, <4>1, <4>3 DEF StageOf
      <4>4. QED BY <4>2, <4>3
    <3>3. QED BY <3>1, <3>2
  <2>3. UNCHANGED accepted
    BY <1>4 DEF CleanupHistory
  <2>4. QED BY <2>2, <2>3, ForgottenStep
<1>5. QED BY <1>1, <1>2, <1>3, <1>4 DEF Process

(* A row is sent by its sender, which then is done with it. *)
LEMMA OfferStep ==
  ASSUME TypeOK, OfferInv, Next
  PROVE  OfferInv'
<1> USE DEF worldVars, dbVars, rowVars, procVars, sendVars, jobVars, feedVars
<1>t. outbox \in [Episodes -> Outbox]
  BY DEF TypeOK
<1>k. ASSUME UNCHANGED <<sender, accepted>>,
             \A e \in Episodes : outbox'[e].status = "sent" => outbox[e].status = "sent"
      PROVE  OfferInv'
  BY <1>k DEF OfferInv
<1>n. ASSUME \A e \in Episodes : sender'[e].pc = "none" PROVE OfferInv'
  BY <1>n DEF OfferInv
<1>g. ASSUME NEW e \in Episodes, NEW step \in SendStep, SenderTo(e, step),
             \A f \in Episodes \ {e} : outbox'[f].status = "sent" => outbox[f].status = "sent",
             accepted \subseteq accepted',
             \/ step \in {"none", "fail"}
             \/ /\ sender[e].pc \notin {"none", "fail"}
                /\ outbox'[e].status = "sent" => outbox[e].status = "sent"
                /\ step = "sent" => e \in accepted'
      PROVE  OfferInv'
  <2>1. sender'[e].pc = step /\ \A f \in Episodes \ {e} : sender'[f] = sender[f]
    BY <1>g, SenderFacts
  <2>2. ASSUME NEW f \in Episodes
        PROVE  /\ sender'[f].pc \notin {"none", "fail"} => outbox'[f].status # "sent"
               /\ sender'[f].pc = "sent" => f \in accepted'
    <3>1. CASE f = e
      BY <1>g, <2>1, <3>1 DEF OfferInv
    <3>2. CASE f # e
      <4>1. sender'[f] = sender[f] /\ (outbox'[f].status = "sent" => outbox[f].status = "sent")
        BY <1>g, <2>1, <3>2
      <4>2. QED BY <1>g, <4>1 DEF OfferInv
    <3>3. QED BY <3>1, <3>2
  <2>3. QED BY <2>2 DEF OfferInv
<1>c. ASSUME NEW final \in {"cancelled", "disabled"}, CancelWork(final)
      PROVE  \A e \in Episodes : outbox'[e].status = "sent" => outbox[e].status = "sent"
  BY <1>c, CancelFacts
<1>1. CASE World
  BY <1>1, <1>k DEF World, Leave, AbsenceGrows, Return, ReservationEnds, JobDue, OutboxDue, FeedStores
<1>2. CASE Preference
  BY <1>2, <1>k, <1>c DEF Preference, PreferenceTurnsOff, PreferenceTurnsOn, PreferenceRenewed
<1>3. CASE Scan
  <2>1. CASE UNCHANGED outbox
    BY <1>3, <1>k, <2>1, ScanFrame
  <2>2. CASE CancelWork("cancelled")
    BY <1>3, <1>k, <1>c, <2>2, ScanFrame
  <2>3. UNCHANGED outbox \/ CancelWork("cancelled")
    BY <1>3 DEF Scan, ScanActiveUser, ApplyActiveObservation, ReconcileReservation, ScanFails
  <2>4. QED BY <2>1, <2>2, <2>3
<1>4. CASE Dispatch
  <2>1. CASE UNCHANGED outbox
    BY <1>4, <1>k, <2>1, DispatchFrame DEF DispatchLeaves
  <2>2. ASSUME NEW e \in Episodes, EndForJob(e) PROVE OfferInv'
    <3>1. UNCHANGED <<sender, accepted>>
      BY <1>4, DispatchFrame DEF DispatchLeaves
    <3>2. CASE UNCHANGED outbox
      BY <1>k, <3>1, <3>2
    <3>3. CASE CancelWork("cancelled")
      BY <1>k, <1>c, <3>1, <3>3
    <3>4. UNCHANGED outbox \/ CancelWork("cancelled")
      BY <2>2 DEF EndForJob, EndAwayEpisode
    <3>5. QED BY <3>2, <3>3, <3>4
  <2>3. ASSUME NEW e \in Episodes, CompleteJobAndEnqueue(e) PROVE OfferInv'
    <3>1. CASE outbox' = [outbox EXCEPT ![e] = Enqueued(e)]
      <4>1. outbox'[e] = Enqueued(e) /\ \A f \in Episodes \ {e} : outbox'[f] = outbox[f]
        BY <1>t, <3>1
      <4>2. outbox'[e].status = "sent" => outbox[e].status = "sent"
        BY <4>1 DEF Enqueued
      <4>3. QED BY <1>k, <2>3, <4>1, <4>2 DEF CompleteJobAndEnqueue
    <3>2. QED BY <1>k, <2>3, <3>1 DEF CompleteJobAndEnqueue
  <2>4. ASSUME NEW e \in Episodes, DispatchStepOf(e) PROVE OfferInv'
    <3>1. CASE ClaimJob(e) \/ CheckJob(e) \/ ObserveForJob(e)
      BY <2>1, <3>1 DEF ClaimJob, CheckJob, ObserveForJob
    <3>2. CASE FinishJob(e) \/ ReleaseClaimedJob(e)
      BY <2>1, <3>2 DEF FinishJob, ReleaseClaimedJob
    <3>3. QED BY <2>2, <2>3, <2>4, <3>1, <3>2 DEF DispatchStepOf
  <2>5. CASE SuppressStaleJobs \/ ListDueJobs \/ StopLaunching \/ DispatchDone
    BY <2>1, <2>5 DEF SuppressStaleJobs, ListDueJobs, StopLaunching, DispatchDone
  <2>6. QED BY <1>4, <2>4, <2>5 DEF Dispatch
<1>5. CASE Send
  <2>1. CASE SuppressStaleOutbox
    <3>1. ASSUME NEW e \in Episodes PROVE outbox'[e].status = "sent" => outbox[e].status = "sent"
      <4>1. CASE outbox[e].status \in {"pending", "failed"} /\ ~IsCurrent(outbox[e].pv)
        <5>1. outbox'[e] = [outbox[e] EXCEPT !.status = "suppressed"]
          BY <2>1, <4>1 DEF SuppressStaleOutbox
        <5>2. QED BY <1>t, <5>1 DEF Outbox
      <4>2. CASE ~(outbox[e].status \in {"pending", "failed"} /\ ~IsCurrent(outbox[e].pv))
        BY <2>1, <4>2 DEF SuppressStaleOutbox
      <4>3. QED BY <4>1, <4>2
    <3>2. QED BY <1>k, <2>1, <3>1 DEF SuppressStaleOutbox
  <2>2. CASE ClaimOutbox
    <3>1. PICK applied \in BOOLEAN, answered \in BOOLEAN :
            /\ outbox' = [e \in Episodes |->
                            IF applied /\ e \in Sendable
                            THEN [outbox[e] EXCEPT !.status = "sending", !.attempts = @ + 1]
                            ELSE outbox[e]]
            /\ sender' = [e \in Episodes |->
                            IF applied /\ answered /\ e \in Sendable
                            THEN [pc |-> "claimed", attempts |-> outbox[e].attempts + 1,
                                  pv |-> outbox[e].pv]
                            ELSE NoSender]
      BY <2>2 DEF ClaimOutbox
    <3>2. ASSUME NEW e \in Episodes
          PROVE  /\ sender'[e].pc \notin {"none", "fail"} => outbox'[e].status # "sent"
                 /\ sender'[e].pc = "sent" => e \in accepted'
      <4>1. CASE applied /\ answered /\ e \in Sendable
        <5>1. PICK n : n = outbox[e].attempts + 1
          OBVIOUS
        <5>2. outbox'[e] = [outbox[e] EXCEPT !.status = "sending", !.attempts = n]
          BY <3>1, <4>1, <5>1
        <5>3. outbox'[e].status = "sending"
          BY <1>t, <5>2 DEF Outbox
        <5>4. sender'[e].pc = "claimed"
          BY <3>1, <4>1
        <5>5. QED BY <5>3, <5>4
      <4>2. CASE ~(applied /\ answered /\ e \in Sendable)
        BY <3>1, <4>2 DEF NoSender
      <4>3. QED BY <4>1, <4>2
    <3>3. QED BY <3>2 DEF OfferInv
  <2>3. CASE ReleaseClaimedOutbox
    BY <2>3, <1>n DEF ReleaseClaimedOutbox, NoSender
  <2>4. CASE SendDone
    BY <1>k, <2>4 DEF SendDone
  <2>5. ASSUME NEW e \in Episodes,
               CheckOutbox(e) \/ ObserveForOutbox(e) \/ RecheckOutbox(e) \/ Publish(e)
        PROVE  OfferInv'
    <3>1. UNCHANGED outbox /\ sender[e].pc \notin {"none", "fail"} /\ accepted \subseteq accepted'
      BY <2>5 DEF CheckOutbox, ObserveForOutbox, RecheckOutbox, Publish
    <3>2. PICK step \in SendStep : SenderTo(e, step) /\ (step = "sent" => e \in accepted')
      BY <2>5 DEF CheckOutbox, ObserveForOutbox, RecheckOutbox, Publish, SendStep
    <3>3. QED BY <1>g, <3>1, <3>2
  <2>6. ASSUME NEW e \in Episodes, EndForOutbox(e) PROVE OfferInv'
    <3>1. UNCHANGED accepted /\ sender[e].pc \notin {"none", "fail"}
      BY <2>6 DEF EndForOutbox
    <3>2. PICK step \in SendStep : SenderTo(e, step) /\ step # "sent"
      BY <2>6 DEF EndForOutbox, SendStep
    <3>3. \A f \in Episodes : outbox'[f].status = "sent" => outbox[f].status = "sent"
      BY <1>c, <2>6 DEF EndForOutbox, EndAwayEpisode
    <3>4. QED BY <1>g, <3>1, <3>2, <3>3
  <2>7. ASSUME NEW e \in Episodes, FinishOutbox(e) \/ ReleaseOutboxAfterFailure(e)
        PROVE  OfferInv'
    <3>1. UNCHANGED accepted
      BY <2>7 DEF FinishOutbox, ReleaseOutboxAfterFailure
    <3>2. \A f \in Episodes \ {e} : outbox'[f] = outbox[f]
      BY <1>t, <2>7 DEF FinishOutbox, ReleaseOutboxAfterFailure
    <3>3. PICK step \in SendStep : SenderTo(e, step) /\ step \in {"none", "fail"}
      BY <2>7 DEF FinishOutbox, ReleaseOutboxAfterFailure, SendStep
    <3>4. QED BY <1>g, <3>1, <3>2, <3>3
  <2>8. QED BY <1>5, <2>1, <2>2, <2>3, <2>4, <2>5, <2>6, <2>7 DEF Send, SendStepOf
<1>6. CASE Process
  <2>1. CASE RecoverOrphanedWork \/ RecoverStaleWork
    <3>1. PICK J \in SUBSET RunningJobs, O \in SUBSET SendingOutbox : RecoverClaimedWork(J, O)
      BY <2>1 DEF RecoverOrphanedWork, RecoverStaleWork
    <3>2. J \in SUBSET Episodes /\ O \in SUBSET Episodes
      BY DEF RunningJobs, SendingOutbox
    <3>3. \A e \in Episodes : outbox'[e] = outbox[e] \/ outbox'[e].status = "failed"
      BY <3>1, <3>2, RecoverFacts
    <3>4. \A e \in Episodes : outbox'[e].status = "sent" => outbox[e].status = "sent"
      BY <3>3
    <3>5. QED BY <1>k, <2>1, <3>4 DEF RecoverOrphanedWork, RecoverStaleWork
  <2>2. CASE SuppressDisabledWork
    BY <1>k, <1>c, <2>2 DEF SuppressDisabledWork
  <2>3. CASE CleanupHistory
    <3>1. \A e \in Episodes : outbox'[e].status = "sent" => outbox[e].status = "sent"
      BY <2>3 DEF CleanupHistory, NoOutbox
    <3>2. QED BY <1>k, <2>3, <3>1 DEF CleanupHistory
  <2>4. CASE Crash
    BY <1>n, <2>4 DEF Crash, NoSender
  <2>5. QED BY <1>6, <2>1, <2>2, <2>3, <2>4 DEF Process
<1>7. QED BY <1>1, <1>2, <1>3, <1>4, <1>5, <1>6 DEF Next

(* Every step is one of ReminderOnce, or one it does not see. *)
LEMMA OnceNext ==
  IInv /\ OfferInv /\ IInv' /\ [Next]_vars => [Once!Next]_OnceVars
<1> SUFFICES ASSUME IInv, OfferInv, IInv', [Next]_vars PROVE [Once!Next]_OnceVars
  OBVIOUS
<1> USE DEF worldVars, dbVars, rowVars, procVars, sendVars, jobVars, feedVars
<1>i. TypeOK /\ TypeOK' /\ GoneInv /\ SenderInv
  BY DEF IInv
<1>1. CASE UNCHANGED vars
  BY <1>1, RowsStay DEF vars
<1>2. CASE World
  BY <1>2, RowsStay
     DEF World, Leave, AbsenceGrows, Return, ReservationEnds, JobDue, OutboxDue, FeedStores
<1>3. CASE Preference
  BY <1>3, <1>i, RowsStay, CancelIsQuiet
     DEF Preference, PreferenceTurnsOff, PreferenceTurnsOn, PreferenceRenewed
<1>4. CASE Scan \/ Dispatch
  BY <1>4, <1>i, OnceScan, OnceDispatch
<1>5. CASE Send \/ Process
  BY <1>5, <1>i, OnceSend, OnceProcess
<1>6. QED BY <1>1, <1>2, <1>3, <1>4, <1>5 DEF Next

(* Whatever becomes of the processes, the claims and the calls, a reminder *)
(* is never scheduled again once it is ready: the student is told, or it   *)
(* is dropped, and it counts as told only if the feed has heard of it.     *)
(* The jobs of DispatchJobs, the outbox of SendOutbox, their recovery and  *)
(* the cleanup implement ReminderOnce, whatever the bounds.                *)
THEOREM RemindersOnce == Spec => ImplementsReminderOnce
<1>1. Init => Once!Init
  <2> SUFFICES ASSUME Init PROVE Once!Init
    OBVIOUS
  <2>1. \A e \in Episodes : StageOf(e) = "none"
    BY DEF Init, StageOf, NoJob, NoOutbox
  <2>2. QED BY <2>1 DEF Init, Once!Init, OnceStage
<1>2. Init => OfferInv
  BY DEF Init, OfferInv, NoSender
<1>3. IInv /\ OfferInv /\ [Next]_vars => OfferInv'
  <2>1. ASSUME IInv, OfferInv, Next PROVE OfferInv'
    BY <2>1, OfferStep DEF IInv
  <2>2. ASSUME OfferInv, UNCHANGED vars PROVE OfferInv'
    BY <2>2 DEF OfferInv, vars, dbVars, rowVars, procVars, sendVars, feedVars
  <2>3. QED BY <2>1, <2>2
<1>4. QED BY <1>1, <1>2, <1>3, OnceNext, InvAlways, PTL
          DEF Spec, ImplementsReminderOnce, Once!Spec, OnceVars, Once!vars

=============================================================================
