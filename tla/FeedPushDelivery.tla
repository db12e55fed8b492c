-------------------------- MODULE FeedPushDelivery --------------------------
(***************************************************************************)
(* The push outbox of be-feed: the rows of feed_push_deliveries and the    *)
(* processes that work them off (service/pushDelivery.go on top of         *)
(* repository/dao/pushDelivery.go, ticked by cron/pushDelivery.go).        *)
(*                                                                         *)
(* A row is claimed, pushed and settled by compare-and-set updates on its  *)
(* status alone; nothing in the row names the claimer.  Every process      *)
(* works on a snapshot of the row taken when it was listed.                *)
(*                                                                         *)
(* Time is abstract: due[d] stands for next_attempt_at <= now and stale[d] *)
(* for updated_at < now - pushDeliveryRecoverTimeout.  The clock makes     *)
(* them true in any order that Overrun permits.                            *)
(***************************************************************************)
EXTENDS Naturals, FiniteSets

CONSTANTS
  Deliveries,   \* rows of feed_push_deliveries, one per stored feed event
  Students,
  Types,        \* feed types with a bit in the push configuration
  Library,      \* the type a missing configuration leaves off
  Owner,        \* Owner[d]: the student of delivery d
  TypeOf,       \* TypeOf[d]: the feed type of its event
  Urgent,       \* deliveries of priority 100: START_30, END_10, AWAY_60, AWAY_80
  Perishable,   \* deliveries whose event carries a deadline
  Procs,        \* be-feed processes that run the push controller
  CIDs,         \* push identifiers the vendor can issue
  NoCID,        \* the empty cid column
  MaxAttempts,  \* pushDeliveryMaxAttempts
  BatchSize,    \* pushDeliveryBatchSize
  GroupSize,    \* pushDeliveryMaxConcurrency
  Overrun       \* may a worker outlive pushDeliveryRecoverTimeout?

ASSUME ConstantsAssumption ==
  /\ Library \in Types
  /\ Owner \in [Deliveries -> Students]
  /\ TypeOf \in [Deliveries -> Types]
  /\ Urgent \subseteq Perishable
  /\ Perishable \subseteq {d \in Deliveries : TypeOf[d] = Library}
  /\ NoCID \notin CIDs
  /\ MaxAttempts \in Nat \ {0}
  /\ BatchSize \in Nat \ {0}
  /\ GroupSize \in Nat \ {0}
  /\ Overrun \in BOOLEAN

VARIABLES
  (* feed_push_deliveries *)
  status, cid, attempts, due, stale,
  (* feed_events and feed_user_configs *)
  event, expired, config,
  (* one process: its phase, whether its batch was full, whether it failed *)
  phase, full, failing,
  (* worker[p][d]: the step and the local copy of process p's worker for row d *)
  worker,
  (* JPush: the identifiers issued and the pushes it accepted *)
  issued, accepted

rowVars    == <<status, cid, attempts, due, stale>>
feedVars   == <<event, expired, config>>
procVars   == <<phase, full, failing>>
vendorVars == <<issued, accepted>>
vars == <<rowVars, feedVars, procVars, worker, vendorVars>>

Final   == {"sent", "failed", "suppressed"}
Status  == {"absent", "pending", "sending"} \cup Final
Phase   == {"down", "idle", "list", "group", "work"}
Holding == {"event", "getcid", "savecid", "gate", "push", "sent", "suppress", "retry"}
PC      == {"none", "listed", "queued"} \cup Holding

Worker == [pc : PC, cid : CIDs \cup {NoCID}, attempts : 0..MaxAttempts, target : BOOLEAN]
NoWorker == [pc |-> "none", cid |-> NoCID, attempts |-> 0, target |-> FALSE]

(* model.FeedUserConfig as PushConfigSnapshot sees it *)
Config == [kind : {"missing", "live", "deleted"}, bits : SUBSET Types]

TypeOK ==
  /\ status \in [Deliveries -> Status]
  /\ cid \in [Deliveries -> CIDs \cup {NoCID}]
  /\ attempts \in [Deliveries -> 0..MaxAttempts]
  /\ due \in [Deliveries -> BOOLEAN]
  /\ stale \in [Deliveries -> BOOLEAN]
  /\ event \in [Deliveries -> {"none", "live", "deleted"}]
  /\ expired \in [Deliveries -> BOOLEAN]
  /\ config \in [Students -> Config]
  /\ phase \in [Procs -> Phase]
  /\ full \in [Procs -> BOOLEAN]
  /\ failing \in [Procs -> BOOLEAN]
  /\ worker \in [Procs -> [Deliveries -> Worker]]
  /\ issued \in SUBSET CIDs
  /\ accepted \in SUBSET (Deliveries \X CIDs)

-----------------------------------------------------------------------------
(* PushConfigSnapshot.EffectiveConfig and Allows *)
EffectiveConfig(c) ==
  IF c.kind = "deleted" THEN {}
  ELSE IF c.kind = "missing" THEN Types \ {Library}
  ELSE c.bits

Allows(d) == TypeOf[d] \in EffectiveConfig(config[Owner[d]])

(* The configuration a student may have from earlier versions of the service. *)
Init ==
  /\ status = [d \in Deliveries |-> "absent"]
  /\ cid = [d \in Deliveries |-> NoCID]
  /\ attempts = [d \in Deliveries |-> 0]
  /\ due = [d \in Deliveries |-> FALSE]
  /\ stale = [d \in Deliveries |-> FALSE]
  /\ event = [d \in Deliveries |-> "none"]
  /\ expired = [d \in Deliveries |-> FALSE]
  /\ config \in [Students -> {c \in Config : c.kind = "live" \/ c.bits = {}}]
  /\ phase = [p \in Procs |-> "down"]
  /\ full = [p \in Procs |-> FALSE]
  /\ failing = [p \in Procs |-> FALSE]
  /\ worker = [p \in Procs |-> [d \in Deliveries |-> NoWorker]]
  /\ issued = {}
  /\ accepted = {}

-----------------------------------------------------------------------------
(* The feed around the outbox *)

(* One transaction stores a list of events.  A library event is dropped    *)
(* when the student's preference is off at that moment; an event whose     *)
(* dedupe key exists is left alone; every inserted event gets its pending  *)
(* delivery in the same transaction.                                       *)
StoreFeedEvents(D) ==
  LET inserted == {d \in D : /\ event[d] = "none"
                             /\ TypeOf[d] = Library => Allows(d)}
  IN /\ inserted # {}
     /\ event' = [d \in Deliveries |-> IF d \in inserted THEN "live" ELSE event[d]]
     /\ status' = [d \in Deliveries |-> IF d \in inserted THEN "pending" ELSE status[d]]
     /\ due' = [d \in Deliveries |-> due[d] \/ d \in inserted]
     /\ UNCHANGED <<cid, attempts, stale, expired, config, procVars, worker, vendorVars>>

(* The student deletes some messages of the inbox (soft delete). *)
RemoveFeedEvent(s, D) ==
  /\ D # {}
  /\ \A d \in D : Owner[d] = s /\ event[d] = "live"
  /\ event' = [d \in Deliveries |-> IF d \in D THEN "deleted" ELSE event[d]]
  /\ UNCHANGED <<rowVars, expired, config, procVars, worker, vendorVars>>

(* FindOrCreateUserFeedConfig: a missing configuration starts all on. *)
FindOrCreateUserFeedConfig(s) ==
  /\ config[s].kind = "missing"
  /\ config' = [config EXCEPT ![s] = [kind |-> "live", bits |-> Types]]
  /\ UNCHANGED <<rowVars, event, expired, procVars, worker, vendorVars>>

(* The bitmap before the request is applied: a deleted row is restored     *)
(* from all off, a missing row starts from the default, all on.            *)
BaseConfig(c) ==
  IF c.kind = "deleted" THEN {} ELSE IF c.kind = "missing" THEN Types ELSE c.bits

(* Mutation of ClosesRow: rows being sent are suppressed as well. *)
ClosesRow_Sending(s, d, closed) ==
  Owner[d] = s /\ status[d] \in {"pending", "sending"} /\ TypeOf[d] \in closed

(* The rows a closed type suppresses. *)
ClosesRow(s, d, closed) ==
  Owner[d] = s /\ status[d] = "pending" /\ TypeOf[d] \in closed

(* ChangeConfigBits: one transaction that sets the five ordinary bits, the *)
(* library bit when the request carries it, and suppresses the pending     *)
(* deliveries of every type this closes.  Rows being sent are left alone.  *)
ChangeConfigBits(s, on, library) ==
  LET kept   == IF library = "keep" THEN BaseConfig(config[s]) \cap {Library}
                ELSE IF library = "on" THEN {Library} ELSE {}
      bits   == (on \ {Library}) \cup kept
      closed == EffectiveConfig(config[s]) \ bits
  IN /\ config' = [config EXCEPT ![s] = [kind |-> "live", bits |-> bits]]
     /\ status' = [d \in Deliveries |->
                     IF ClosesRow(s, d, closed) THEN "suppressed" ELSE status[d]]
     /\ UNCHANGED <<cid, attempts, due, stale, event, expired, procVars, worker,
                    vendorVars>>

(* The clock reaches the next attempt of a row. *)
BackoffElapses(d) ==
  /\ status[d] = "pending" /\ ~due[d]
  /\ due' = [due EXCEPT ![d] = TRUE]
  /\ UNCHANGED <<status, cid, attempts, stale, feedVars, procVars, worker, vendorVars>>

(* The clock passes the recovery timeout of a claimed row.  The timeout is *)
(* chosen longer than one delivery can take, so without Overrun no worker  *)
(* of a living process holds the row any more.                             *)
ClaimAges(d) ==
  /\ status[d] = "sending" /\ ~stale[d]
  /\ Overrun \/ \A p \in Procs : worker[p][d].pc \notin Holding
  /\ stale' = [stale EXCEPT ![d] = TRUE]
  /\ UNCHANGED <<status, cid, attempts, due, feedVars, procVars, worker, vendorVars>>

(* The clock passes the deadline of a reminder. *)
Expires(d) ==
  /\ d \in Perishable /\ ~expired[d]
  /\ expired' = [expired EXCEPT ![d] = TRUE]
  /\ UNCHANGED <<rowVars, event, config, procVars, worker, vendorVars>>

-----------------------------------------------------------------------------
(* The push controller of one process *)

(* Mutation of RecoverStale: orphans are told from live claims no more. *)
RecoverStale_All ==
  /\ status' = [d \in Deliveries |-> IF status[d] = "sending" THEN "pending" ELSE status[d]]
  /\ UNCHANGED stale

(* Mutation of RecoverStale: the timeout starts again, the claim stays. *)
RecoverStale_Renew ==
  /\ stale' = [d \in Deliveries |-> FALSE]
  /\ UNCHANGED status

(* The UPDATE of dao.RecoverSending: only claims past the timeout. *)
RecoverStale ==
  /\ status' = [d \in Deliveries |->
                  IF status[d] = "sending" /\ stale[d] THEN "pending" ELSE status[d]]
  /\ stale' = [d \in Deliveries |-> stale[d] /\ status[d] # "sending"]

(* PushDeliveryController.StartCronTask *)
StartCronTask(p) ==
  /\ phase[p] = "down"
  /\ RecoverStale
  /\ phase' = [phase EXCEPT ![p] = "idle"]
  /\ UNCHANGED <<cid, attempts, due, feedVars, full, failing, worker, vendorVars>>

(* The head of DispatchDue; one process never runs two of them at once. *)
DispatchDue(p) ==
  /\ phase[p] = "idle"
  /\ RecoverStale
  /\ phase' = [phase EXCEPT ![p] = "list"]
  /\ UNCHANGED <<cid, attempts, due, feedVars, full, failing, worker, vendorVars>>

(* Mutation of DueRows: next_attempt_at is not compared. *)
DueRows == {d \in Deliveries : status[d] = "pending" /\ due[d]}

(* ORDER BY priority DESC: an urgent row is never left out for another one. *)
UrgentFirst(chosen, rows) ==
  (chosen \ Urgent # {}) => (rows \cap Urgent \subseteq chosen)

(* Mutation of RowCopy: the SELECT leaves out the attempts column. *)
RowCopy_NoAttempts(d) == [NoWorker EXCEPT !.pc = "listed", !.cid = cid[d]]

(* What a process remembers of a listed row. *)
RowCopy(d) == [NoWorker EXCEPT !.pc = "listed", !.cid = cid[d], !.attempts = attempts[d]]

(* dao.ListDue: the process now holds copies of the listed rows. *)
ListDue(p) ==
  /\ phase[p] = "list"
  /\ \E rows \in SUBSET DueRows :
       /\ Cardinality(rows) <= BatchSize
       /\ Cardinality(rows) < BatchSize => rows = DueRows
       /\ UrgentFirst(rows, DueRows)
       /\ phase' = [phase EXCEPT ![p] = IF rows = {} THEN "idle" ELSE "group"]
       /\ full' = [full EXCEPT ![p] = rows # {} /\ Cardinality(rows) = BatchSize]
       /\ worker' = [worker EXCEPT ![p] = [d \in Deliveries |->
                       IF d \in rows THEN RowCopy(d) ELSE NoWorker]]
  /\ UNCHANGED <<rowVars, feedVars, failing, vendorVars>>

Listed(p) == {d \in Deliveries : worker[p][d].pc = "listed"}

(* dispatchBatch and LoadPushTargets: the next group of listed rows shares *)
(* one snapshot of configurations and tokens.  The token table is outside  *)
(* this module: a student may have a token or none.                        *)
LoadPushTargets(p) ==
  /\ phase[p] = "group"
  /\ \E group \in SUBSET Listed(p), withToken \in SUBSET Students :
       /\ group # {}
       /\ Cardinality(group) <= GroupSize
       /\ Cardinality(group) < GroupSize => group = Listed(p)
       /\ UrgentFirst(group, Listed(p))
       /\ worker' = [worker EXCEPT ![p] = [d \in Deliveries |->
                       IF d \in group
                       THEN [worker[p][d] EXCEPT !.pc = "queued",
                                                 !.target = Allows(d) /\ Owner[d] \in withToken]
                       ELSE worker[p][d]]]
  /\ phase' = [phase EXCEPT ![p] = "work"]
  /\ UNCHANGED <<rowVars, feedVars, full, failing, vendorVars>>

(* DispatchDue returns, or its process dies: batch and workers are gone. *)
Leave(p, next) ==
  /\ phase' = [phase EXCEPT ![p] = next]
  /\ full' = [full EXCEPT ![p] = FALSE]
  /\ failing' = [failing EXCEPT ![p] = FALSE]
  /\ worker' = [worker EXCEPT ![p] = [d \in Deliveries |-> NoWorker]]

(* A failing prefetch, list or an expired batch context ends DispatchDue   *)
(* before the group is claimed; the rows stay pending.                     *)
AbortBatch(p) ==
  /\ phase[p] \in {"list", "group"}
  /\ Leave(p, "idle")
  /\ UNCHANGED <<rowVars, feedVars, vendorVars>>

(* The batch context ends while workers run: rows not yet handed to a      *)
(* worker are dropped, running workers finish.                             *)
BatchTimeout(p) ==
  /\ phase[p] = "work"
  /\ \E d \in Deliveries : worker[p][d].pc = "queued"
  /\ worker' = [worker EXCEPT ![p] = [d \in Deliveries |->
                  IF worker[p][d].pc = "queued" THEN NoWorker ELSE worker[p][d]]]
  /\ failing' = [failing EXCEPT ![p] = TRUE]
  /\ UNCHANGED <<rowVars, feedVars, phase, full, vendorVars>>

(* dispatchGroup returns once every worker is done.  An error ends the     *)
(* batch, otherwise the next group follows; a full batch is followed by    *)
(* another one until pushDeliveryMaxPerDispatch rows were handled.         *)
GroupDone(p) ==
  /\ phase[p] = "work"
  /\ \A d \in Deliveries : worker[p][d].pc \in {"none", "listed"}
  /\ \/ /\ ~failing[p] /\ Listed(p) # {}
        /\ phase' = [phase EXCEPT ![p] = "group"]
        /\ UNCHANGED <<full, failing, worker>>
     \/ /\ ~failing[p] /\ Listed(p) = {} /\ full[p]
        /\ phase' = [phase EXCEPT ![p] = "list"]
        /\ UNCHANGED <<full, failing, worker>>
     \/ /\ failing[p] \/ Listed(p) = {}
        /\ Leave(p, "idle")
  /\ UNCHANGED <<rowVars, feedVars, vendorVars>>

(* The process stops: its workers vanish, rows it had claimed stay sending. *)
Crash(p) ==
  /\ phase[p] # "down"
  /\ Leave(p, "down")
  /\ UNCHANGED <<rowVars, feedVars, vendorVars>>

-----------------------------------------------------------------------------
(* dispatchOne: the worker of process p for row d.  Every call to the      *)
(* database may also fail, or take effect and still report a failure.      *)

Goto(p, d, step) == worker' = [worker EXCEPT ![p][d].pc = step]
Done(p, d)       == worker' = [worker EXCEPT ![p][d] = NoWorker]
Fails(p)         == failing' = [failing EXCEPT ![p] = TRUE]

(* dao.Claim, a compare-and-set from pending to sending. *)
Claim(p, d) ==
  /\ worker[p][d].pc = "queued"
  /\ \/ /\ status[d] = "pending"
        /\ status' = [status EXCEPT ![d] = "sending"]
        /\ stale' = [stale EXCEPT ![d] = FALSE]
        /\ \/ Goto(p, d, "event") /\ UNCHANGED failing
           \/ Done(p, d) /\ Fails(p)
     \/ /\ status[d] # "pending"
        /\ Done(p, d)
        /\ UNCHANGED <<status, stale, failing>>
     \/ /\ Done(p, d)
        /\ Fails(p)
        /\ UNCHANGED <<status, stale>>
  /\ UNCHANGED <<cid, attempts, due, feedVars, phase, full, vendorVars>>

(* GetFeedEvent, the first deadline check and targets.prepare. *)
GetFeedEvent(p, d) ==
  /\ worker[p][d].pc = "event"
  /\ \/ /\ event[d] = "deleted" \/ expired[d] \/ ~worker[p][d].target
        /\ Goto(p, d, "suppress")
     \/ /\ event[d] = "live" /\ ~expired[d] /\ worker[p][d].target
        /\ Goto(p, d, IF worker[p][d].cid = NoCID THEN "getcid" ELSE "gate")
     \/ Goto(p, d, "retry")
  /\ UNCHANGED <<rowVars, feedVars, procVars, vendorVars>>

(* GetPushCID: the vendor issues an identifier nobody holds. *)
GetPushCID(p, d) ==
  /\ worker[p][d].pc = "getcid"
  /\ \/ \E c \in CIDs \ issued :
          /\ issued' = issued \cup {c}
          /\ worker' = [worker EXCEPT ![p][d].pc = "savecid", ![p][d].cid = c]
     \/ /\ Goto(p, d, "retry")
        /\ UNCHANGED issued
  /\ UNCHANGED <<rowVars, feedVars, procVars, accepted>>

(* Mutation of CanSaveCID: a second identifier replaces the first. *)
CanSaveCID_Again(d) == status[d] = "sending"

CanSaveCID(d) == status[d] = "sending" /\ cid[d] = NoCID

(* dao.SaveCID: only into a row that is being sent and has no identifier. *)
SaveCID(p, d) ==
  /\ worker[p][d].pc = "savecid"
  /\ \/ /\ CanSaveCID(d)
        /\ cid' = [cid EXCEPT ![d] = worker[p][d].cid]
        /\ stale' = [stale EXCEPT ![d] = FALSE]
        /\ Goto(p, d, "gate") \/ Goto(p, d, "retry")
     \/ /\ Goto(p, d, "retry")
        /\ UNCHANGED <<cid, stale>>
  /\ UNCHANGED <<status, attempts, due, feedVars, procVars, vendorVars>>

(* Mutation of GetPushConfig: the snapshot of the group is trusted. *)
GetPushConfig_Snapshot(p, d) ==
  /\ worker[p][d].pc = "gate"
  /\ \/ Goto(p, d, IF worker[p][d].target /\ ~expired[d] THEN "push" ELSE "suppress")
     \/ Goto(p, d, "retry")
  /\ UNCHANGED <<rowVars, feedVars, procVars, vendorVars>>

(* gate.GetPushConfig, the read of the preference right before the push,   *)
(* and the second deadline check.                                          *)
GetPushConfig(p, d) ==
  /\ worker[p][d].pc = "gate"
  /\ \/ Goto(p, d, IF Allows(d) /\ ~expired[d] THEN "push" ELSE "suppress")
     \/ Goto(p, d, "retry")
  /\ UNCHANGED <<rowVars, feedVars, procVars, vendorVars>>

(* PushPreparedMSGWithCID: accepted and acknowledged; accepted with the    *)
(* answer lost; refused; or turned down as expired.                        *)
PushPreparedMSGWithCID(p, d) ==
  /\ worker[p][d].pc = "push"
  /\ \/ /\ accepted' = accepted \cup {<<d, worker[p][d].cid>>}
        /\ Goto(p, d, "sent") \/ Goto(p, d, "retry")
     \/ /\ Goto(p, d, "retry")
        /\ UNCHANGED accepted
     \/ /\ expired[d]
        /\ Goto(p, d, "suppress")
        /\ UNCHANGED accepted
  /\ UNCHANGED <<rowVars, feedVars, procVars, issued>>

(* The condition of every settling update; it does not name the claimer. *)
IsClaimed(d) == status[d] = "sending"

(* dao.markFinal, a compare-and-set from sending to a final status. *)
MarkFinal(p, d, final) ==
  /\ \/ /\ IsClaimed(d)
        /\ status' = [status EXCEPT ![d] = final]
        /\ Done(p, d) \/ Goto(p, d, "retry")
     \/ /\ Goto(p, d, "retry")
        /\ UNCHANGED status
  /\ UNCHANGED <<cid, attempts, due, stale, feedVars, procVars, vendorVars>>

(* Mutation of MarkSent: the row is marked before the vendor accepted the push. *)
MarkSent(p, d)       == worker[p][d].pc = "sent" /\ MarkFinal(p, d, "sent")
MarkSuppressed(p, d) == worker[p][d].pc = "suppress" /\ MarkFinal(p, d, "suppressed")

(* Mutation of Exhausted: an off-by-one. *)
Exhausted_TooLate(n) == n > MaxAttempts

Exhausted(n) == n >= MaxAttempts

(* The attempts of the listed copy, plus one. *)
NextAttempt(p, d) == worker[p][d].attempts + 1

(* dao.MarkRetry *)
MarkRetry(p, d) ==
  LET n == NextAttempt(p, d)
  IN /\ worker[p][d].pc = "retry"
     /\ Done(p, d)
     /\ \/ /\ IsClaimed(d)
           /\ status' = [status EXCEPT ![d] = IF Exhausted(n) THEN "failed" ELSE "pending"]
           /\ attempts' = [attempts EXCEPT ![d] = n]
           /\ due' = [due EXCEPT ![d] = FALSE]
           /\ UNCHANGED failing \/ Fails(p)
        \/ /\ Fails(p)
           /\ UNCHANGED <<status, attempts, due>>
     /\ UNCHANGED <<cid, stale, feedVars, phase, full, vendorVars>>

Work(p, d) ==
  \/ Claim(p, d)      \/ GetFeedEvent(p, d)  \/ GetPushCID(p, d)
  \/ SaveCID(p, d)    \/ GetPushConfig(p, d) \/ PushPreparedMSGWithCID(p, d)
  \/ MarkSent(p, d)   \/ MarkSuppressed(p, d) \/ MarkRetry(p, d)

Control(p) ==
  \/ StartCronTask(p) \/ DispatchDue(p)  \/ ListDue(p) \/ LoadPushTargets(p)
  \/ AbortBatch(p)    \/ BatchTimeout(p) \/ GroupDone(p)

Student(s) ==
  \/ FindOrCreateUserFeedConfig(s)
  \/ \E D \in SUBSET Deliveries : RemoveFeedEvent(s, D)
  \/ \E on \in SUBSET (Types \ {Library}), library \in {"keep", "on", "off"} :
       ChangeConfigBits(s, on, library)

Clock(d) == BackoffElapses(d) \/ ClaimAges(d) \/ Expires(d)

Next ==
  \/ \E D \in SUBSET Deliveries : StoreFeedEvents(D)
  \/ \E s \in Students : Student(s)
  \/ \E d \in Deliveries : Clock(d)
  \/ \E p \in Procs : Control(p) \/ Crash(p)
  \/ \E p \in Procs, d \in Deliveries : Work(p, d)

Spec == Init /\ [][Next]_vars

-----------------------------------------------------------------------------
(* Properties that hold whether or not a worker outlives the timeout *)

(* Every push the vendor accepted for a delivery carried the identifier    *)
(* persisted in its row, so the vendor can tell all retries, after crashes *)
(* and by concurrent claimers alike, from a new notification.  SaveCID is  *)
(* guarded by the empty column and precedes the push.                      *)
OneCIDPerDelivery == \A x \in accepted : x[2] = cid[x[1]]

(* A row says sent only if the vendor accepted its push.  MarkSent is      *)
(* reached through an acknowledged push, also when several claimers race.  *)
SentWasShown ==
  \A d \in Deliveries : status[d] = "sent" => \E c \in CIDs : <<d, c>> \in accepted

(* A settled row is never reopened or settled differently, not even by a   *)
(* worker that lost the answer of its own update or of its claim.          *)
SettlesOnce ==
  [][\A d \in Deliveries : status[d] \in Final => status'[d] = status[d]]_vars

(* The retry budget of the attempts column: a row fails exactly when its   *)
(* last attempt is used up, and who works on a row, or holds a copy of it, *)
(* counts from an attempt that is left, also when copies of two processes  *)
(* are written over one another.  It counts what MarkRetry wrote: a push   *)
(* before a crash is not among it, and of two processes the slower one     *)
(* writes an older count back.                                             *)
BudgetRespected ==
  \A d \in Deliveries :
    /\ status[d] = "failed" => attempts[d] = MaxAttempts
    /\ status[d] \in {"pending", "sending"} => attempts[d] < MaxAttempts
    /\ \A p \in Procs : worker[p][d].pc # "none" => worker[p][d].attempts < MaxAttempts

(* A type that the student has closed is not pushed, unless a process was  *)
(* past its last look at the configuration (be-feed/README.md:288).        *)
(* Whatever the group's snapshot says, and however often the row was       *)
(* reopened, recovered or claimed again since, nobody comes to push it     *)
(* until the type is opened.                                               *)
Pushing(p, d) == worker[p][d].pc = "push"

ClosedIsNotPushed ==
  [][\A d \in Deliveries :
       ~Allows(d) /\ (\A p \in Procs : ~Pushing(p, d)) =>
         /\ \A c \in CIDs : <<d, c>> \in accepted' => <<d, c>> \in accepted
         /\ Allows(d)' \/ \A p \in Procs : ~Pushing(p, d)']_vars

-----------------------------------------------------------------------------
(* Properties that need the timeout to exceed every delivery (~Overrun) *)

(* At most one worker of all processes holds a row: recovery never hands   *)
(* out a row whose worker is still alive.                                  *)
OneClaimer ==
  \A d \in Deliveries, p, q \in Procs :
    worker[p][d].pc \in Holding /\ worker[q][d].pc \in Holding => p = q

(* What a delivery is to PushOutbox: a row that is pending or claimed is   *)
(* open, and the vendor shows one notification for each identifier.        *)
OutboxState ==
  [d \in Deliveries |-> IF status[d] \in {"pending", "sending"} THEN "open" ELSE status[d]]
OutboxShown == [d \in Deliveries |-> Cardinality({c \in CIDs : <<d, c>> \in accepted})]

(* The outbox implements PushOutbox: one notification per delivery, shown  *)
(* only while the delivery is open, settled once.                          *)
Outbox == INSTANCE PushOutbox WITH state <- OutboxState, shown <- OutboxShown

ImplementsOutbox == Outbox!Spec

-----------------------------------------------------------------------------
(* Properties of a single dispatching process that may crash and restart *)

(* Every failed push uses up one attempt of the row as it is now: the copy *)
(* a worker counts from and writes back is not older than the row.         *)
AttemptsNeverLost ==
  [][\A d \in Deliveries :
       /\ attempts'[d] >= attempts[d]
       /\ status[d] = "sending" /\ (status'[d] = "failed" \/ (status'[d] = "pending" /\ ~due'[d]))
            => attempts'[d] = attempts[d] + 1]_vars

(* A row is claimed only when its next attempt is due, although the claim  *)
(* itself does not look at next_attempt_at.                                *)
ClaimsAreDue ==
  [][\A d \in Deliveries : status[d] = "pending" /\ status'[d] = "sending" => due[d]]_vars

(* A failed push is neither forgotten nor repeated before its backoff. *)
RetriesAreCounted == AttemptsNeverLost /\ ClaimsAreDue

-----------------------------------------------------------------------------
(* Steps that fail without using up an attempt: a lost batch, a crash, a   *)
(* claim or a retry mark that does not reach its caller.                   *)
Outage ==
  \E p \in Procs :
    \/ AbortBatch(p) /\ (phase[p] = "group" \/ DueRows # {})
    \/ BatchTimeout(p) \/ Crash(p)
    \/ \E d \in Deliveries :
         \/ Claim(p, d) /\ status[d] = "pending" /\ worker'[p][d].pc # "event"
         \/ MarkRetry(p, d) /\ IsClaimed(d) /\ UNCHANGED attempts

(* The controller ticks, its workers run, the clock advances, and outages  *)
(* end some day.  The vendor may refuse or lose pushes forever.            *)
Fairness ==
  /\ \A d \in Deliveries : WF_vars(BackoffElapses(d)) /\ WF_vars(ClaimAges(d))
  /\ \A p \in Procs : WF_vars(Control(p) \/ \E d \in Deliveries : Work(p, d))
  /\ <>[][~Outage]_vars

FairSpec == Spec /\ Fairness

(* Every stored delivery is settled: a row orphaned by a crash or a lost   *)
(* answer is recovered, and a push that keeps failing runs out of attempts.*)
EveryDeliverySettles ==
  \A d \in Deliveries : status[d] = "pending" ~> status[d] \in Final

=============================================================================
