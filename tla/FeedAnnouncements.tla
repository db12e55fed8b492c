------------------------- MODULE FeedAnnouncements -------------------------
(* How be-feed announces: official messages are planned for a frozen list  *)
(* of recipients and published by a cron job of every process, holidays    *)
(* are broadcast page by page to who is registered.  Both go through       *)
(* PublicFeedEvent to Kafka and from there, at least once, to the store.   *)
EXTENDS Naturals, FiniteSets, FiniteSetsExt

CONSTANTS Plans,      \* official messages, by their unique key
          Holidays,   \* broadcasts, by their dedupe key
          Members,    \* how many students may register; their row IDs are 1 .. Members
          Jobs,       \* cron goroutines, of any number of processes
          PageSize,   \* students of one page of a broadcast (50)
          MaxFailures \* bound: failed calls and restarts

ASSUME AnnouncementAssumption ==
  /\ Plans \cap Holidays = {}
  /\ Members \in Nat /\ PageSize \in Nat \ {0}
  /\ MaxFailures \in Nat

Keys == Plans \cup Holidays
Students == 1 .. Members

VARIABLES
  registered, \* students 1 .. registered have a row in feed_user_configs
  graduated,  \* students IsCurrentStudent refuses by now
  whiteList,  \* the list set last; no student when it is missing or expired
  plans,      \* the planned messages in Redis
  jobs,       \* what each goroutine is doing
  queued,     \* for whom Kafka still has an event, in one copy or several
  rows,       \* the rows of feed_events, with those the student cleared
  inserts,    \* history: how often a row was inserted
  promised,   \* history: whom a run that reported success had to reach
  failures    \* how many faults there were

announcementVars == <<registered, graduated, whiteList, plans, jobs, queued, rows,
                      inserts, promised, failures>>

NoList == [to |-> {}, all |-> FALSE]
NoPlan == [state |-> "none", to |-> {}, all |-> FALSE]
NoJob == [pc |-> "idle", batch |-> {}, key |-> {}, todo |-> {}, cursor |-> 0, base |-> 0]

AnnouncementInit ==
  /\ registered = 0
  /\ graduated = {}
  /\ whiteList = NoList
  /\ plans = [m \in Plans |-> NoPlan]
  /\ jobs = [j \in Jobs |-> NoJob]
  /\ queued = [k \in Keys |-> {}]
  /\ rows = [k \in Keys |-> [s \in Students |-> "none"]]
  /\ inserts = [k \in Keys |-> [s \in Students |-> 0]]
  /\ promised = [k \in Keys |-> {}]
  /\ failures = 0

----------------------------------------------------------------------------
(* Students and operators. *)

storeVars == <<queued, rows, inserts>>

Register ==
  /\ registered < Members
  /\ registered' = registered + 1
  /\ UNCHANGED <<graduated, whiteList, plans, jobs, storeVars, promised, failures>>

Graduate ==
  /\ \E s \in 1 .. registered : s \notin graduated /\ graduated' = graduated \cup {s}
  /\ UNCHANGED <<registered, whiteList, plans, jobs, storeVars, promised, failures>>

\* SetOfficialWhiteList: chosen students, or "all" resolved to those enrolled.
SetOfficialWhiteList ==
  /\ \E to \in SUBSET (1 .. registered) : \E all \in BOOLEAN :
       /\ to # {}
       /\ all => to = (1 .. registered) \ graduated
       /\ whiteList' = [to |-> to, all |-> all]
  /\ UNCHANGED <<registered, graduated, plans, jobs, storeVars, promised, failures>>

ExpireWhiteList ==
  /\ whiteList # NoList
  /\ whiteList' = NoList
  /\ UNCHANGED <<registered, graduated, plans, jobs, storeVars, promised, failures>>

\* PublicMuxiOfficialMSG freezes the list; of "all", who will still be enrolled
\* when the message is published.
Frozen(gone) == IF whiteList.all THEN whiteList.to \ gone ELSE whiteList.to

PublicMuxiOfficialMSG(m) ==
  /\ plans[m].state = "none"
  /\ \E gone \in SUBSET Students :
       /\ graduated \subseteq gone
       /\ Frozen(gone) # {}
       /\ plans' = [plans EXCEPT ![m] = [state |-> "planned", to |-> Frozen(gone),
                                         all |-> whiteList.all]]
  /\ UNCHANGED <<registered, graduated, whiteList, jobs, storeVars, promised, failures>>

\* The time a plan is to be published at has come.
PlanFallsDue(m) ==
  /\ plans[m].state = "planned"
  /\ plans' = [plans EXCEPT ![m].state = "due"]
  /\ UNCHANGED <<registered, graduated, whiteList, jobs, storeVars, promised, failures>>

\* StopMuxiOfficialMSG by an operator.
StopPlan(m) ==
  /\ plans[m].state \in {"planned", "due"}
  /\ plans' = [plans EXCEPT ![m].state = "stopped"]
  /\ UNCHANGED <<registered, graduated, whiteList, jobs, storeVars, promised, failures>>

----------------------------------------------------------------------------
(* PublicFeedEvent for one student of a job, for the key it works on. *)

worldVars == <<registered, graduated, whiteList>>

JobGoes(j, r) == jobs' = [jobs EXCEPT ![j] = r]
KeyOf(j) == CHOOSE k \in jobs[j].key : TRUE
NextOf(j) == Min(jobs[j].todo)
Ticked(j) == [jobs[j] EXCEPT !.todo = @ \ {NextOf(j)}, !.pc = "send"]

\* A plan made for all enrolled skips who left; the others are looked up in
\* the store, and sent to when there is no row, cleared or not.
LookUp(j) ==
  LET k == KeyOf(j)
      s == NextOf(j)
      skips == k \in Plans /\ plans[k].all /\ s \in graduated
  IN /\ jobs[j].pc = "send" /\ jobs[j].todo # {}
     /\ k \in Plans
     /\ JobGoes(j, IF skips \/ rows[k][s] # "none" THEN Ticked(j)
                   ELSE [jobs[j] EXCEPT !.pc = "push"])
     /\ UNCHANGED <<worldVars, plans, storeVars, promised, failures>>

\* A broadcast looked the page up in one query.
PushesNow(j) ==
  \/ jobs[j].pc = "push"
  \/ jobs[j].pc = "send" /\ jobs[j].todo # {} /\ KeyOf(j) \in Holidays

Queue(k, s) == queued' = [queued EXCEPT ![k] = @ \cup {s}]

SendEvent(j) ==
  /\ PushesNow(j)
  /\ Queue(KeyOf(j), NextOf(j))
  /\ JobGoes(j, Ticked(j))
  /\ UNCHANGED <<worldVars, plans, rows, inserts, promised, failures>>

SendEventFails_GoesOn(j) ==
  /\ PushesNow(j)
  /\ failures < MaxFailures
  /\ failures' = failures + 1
  /\ \/ Queue(KeyOf(j), NextOf(j))
     \/ UNCHANGED queued
  /\ JobGoes(j, Ticked(j))
  /\ UNCHANGED <<worldVars, plans, rows, inserts, promised>>

\* The send fails, or only its answer is lost; the job gives up its run.
SendEventFails(j) ==
  /\ PushesNow(j)
  /\ failures < MaxFailures
  /\ failures' = failures + 1
  /\ \/ Queue(KeyOf(j), NextOf(j))
     \/ UNCHANGED queued
  /\ JobGoes(j, NoJob)
  /\ UNCHANGED <<worldVars, plans, rows, inserts, promised>>

\* The process stops, or a call to Redis or to the database fails.
JobEnds(j) ==
  /\ jobs[j].pc # "idle"
  /\ failures < MaxFailures
  /\ failures' = failures + 1
  /\ JobGoes(j, NoJob)
  /\ UNCHANGED <<worldVars, plans, storeVars, promised>>

----------------------------------------------------------------------------
(* publicMuxiFeed of the cron job. *)

Due == {m \in Plans : plans[m].state = "due"}

\* The next message of the batch that was read, which may be stopped by now.
Taking(batch, m) == [NoJob EXCEPT !.pc = "send", !.batch = batch \ {m}, !.key = {m},
                                  !.todo = plans[m].to]

StartMuxi_Pop(j) ==
  /\ jobs[j].pc = "idle"
  /\ \E m \in Due : /\ JobGoes(j, Taking({m}, m))
                    /\ plans' = [plans EXCEPT ![m].state = "done"]
  /\ UNCHANGED <<worldVars, storeVars, promised, failures>>

StartMuxi(j) ==
  /\ jobs[j].pc = "idle"
  /\ \E m \in Due : JobGoes(j, Taking(Due, m))
  /\ UNCHANGED <<worldVars, plans, storeVars, promised, failures>>

\* Every recipient is served: the plan is removed.  Its removal is read back
\* only by the operator and by other jobs.
FinishPlan(j) ==
  LET m == KeyOf(j)
      batch == jobs[j].batch
  IN /\ jobs[j].pc = "send" /\ jobs[j].todo = {}
     /\ m \in Plans
     /\ plans' = [plans EXCEPT ![m].state = IF @ = "due" THEN "done" ELSE @]
     /\ promised' = [promised EXCEPT
          ![m] = @ \cup (plans[m].to \ (IF plans[m].all THEN graduated ELSE {}))]
     /\ \/ batch = {} /\ JobGoes(j, NoJob)
        \/ \E n \in batch : JobGoes(j, Taking(batch, n))
     /\ UNCHANGED <<worldVars, storeVars, failures>>

----------------------------------------------------------------------------
(* publishMSG of the holiday cron job: PublicFeedEvent to all. *)

StartHoliday(j) ==
  /\ jobs[j].pc = "idle"
  /\ \E k \in Holidays : JobGoes(j, [NoJob EXCEPT !.pc = "page", !.key = {k},
                                                  !.base = registered])
  /\ UNCHANGED <<worldVars, plans, storeVars, promised, failures>>

PageAfter(cursor) ==
  {s \in 1 .. registered : cursor < s /\ s <= cursor + PageSize}

\* The next page, without those who have the message; none left ends the run.
ReadPage(j) ==
  LET k == KeyOf(j)
      page == PageAfter(jobs[j].cursor)
  IN /\ jobs[j].pc = "page"
     /\ \/ /\ page = {}
           /\ JobGoes(j, NoJob)
           /\ promised' = [promised EXCEPT ![k] = @ \cup 1 .. jobs[j].base]
        \/ /\ page # {}
           /\ JobGoes(j, [jobs[j] EXCEPT !.pc = "send", !.cursor = Max(page),
                            !.todo = {s \in page : rows[k][s] = "none"}])
           /\ UNCHANGED promised
     /\ UNCHANGED <<worldVars, plans, storeVars, failures>>

EndPage(j) ==
  /\ jobs[j].pc = "send" /\ jobs[j].todo = {}
  /\ KeyOf(j) \in Holidays
  /\ JobGoes(j, [jobs[j] EXCEPT !.pc = "page"])
  /\ UNCHANGED <<worldVars, plans, storeVars, promised, failures>>

----------------------------------------------------------------------------
(* The consumer of feed events and the student's inbox. *)

Inserted_NotCleared(k, s) ==
  IF rows[k][s] \in {"none", "cleared"}
  THEN /\ rows' = [rows EXCEPT ![k][s] = "shown"]
       /\ inserts' = [inserts EXCEPT ![k][s] = IF @ < 2 THEN @ + 1 ELSE @]
  ELSE UNCHANGED <<rows, inserts>>

\* StoreFeedEvents inserts unless the recipient has the key already.
Inserted(k, s) ==
  IF rows[k][s] = "none"
  THEN /\ rows' = [rows EXCEPT ![k][s] = "shown"]
       /\ inserts' = [inserts EXCEPT ![k][s] = IF @ < 2 THEN @ + 1 ELSE @]
  ELSE UNCHANGED <<rows, inserts>>

ConsumeEvent(k, s) ==
  /\ s \in queued[k]
  /\ Inserted(k, s)
  /\ queued' = [queued EXCEPT ![k] = @ \ {s}]
  /\ UNCHANGED <<worldVars, plans, jobs, promised, failures>>

\* Stored, but Kafka will hand it over again: there is another copy, or the
\* offset was not committed.
ConsumeAgain(k, s) ==
  /\ s \in queued[k]
  /\ Inserted(k, s)
  /\ UNCHANGED <<worldVars, plans, jobs, queued, promised, failures>>

ClearFeedEvent(k, s) ==
  /\ rows[k][s] = "shown"
  /\ rows' = [rows EXCEPT ![k][s] = "cleared"]
  /\ UNCHANGED <<worldVars, plans, jobs, queued, inserts, promised, failures>>

----------------------------------------------------------------------------
\* What both kinds of announcements go through.
CommonNext ==
  \/ Register
  \/ \E j \in Jobs : SendEvent(j) \/ SendEventFails(j) \/ JobEnds(j)
  \/ \E k \in Keys, s \in Students :
       ConsumeEvent(k, s) \/ ConsumeAgain(k, s) \/ ClearFeedEvent(k, s)

PlanNext ==
  \/ Graduate \/ SetOfficialWhiteList \/ ExpireWhiteList
  \/ \E m \in Plans : PublicMuxiOfficialMSG(m) \/ PlanFallsDue(m) \/ StopPlan(m)
  \/ \E j \in Jobs : StartMuxi(j) \/ LookUp(j) \/ FinishPlan(j)

HolidayNext == \E j \in Jobs : StartHoliday(j) \/ ReadPage(j) \/ EndPage(j)

AnnouncementNext == CommonNext \/ PlanNext \/ HolidayNext

AnnouncementSpec == AnnouncementInit /\ [][AnnouncementNext]_announcementVars

\* The cron jobs tick on and the consumer goes on with what Kafka has; the
\* operators and the students owe nothing.
AnnouncementWork ==
  \/ \E j \in Jobs : StartMuxi(j) \/ LookUp(j) \/ SendEvent(j) \/ FinishPlan(j)
  \/ \E k \in Keys, s \in Students : ConsumeEvent(k, s)

AnnouncementFairness == WF_announcementVars(AnnouncementWork)

AnnouncementFairSpec == AnnouncementSpec /\ AnnouncementFairness

----------------------------------------------------------------------------
\* The types of the plans, the jobs and the events.
AnnouncementTypeOK ==
  /\ registered \in 0 .. Members /\ graduated \subseteq Students
  /\ whiteList.to \subseteq Students /\ whiteList.all \in BOOLEAN
  /\ \A m \in Plans :
       /\ plans[m].state \in {"none", "planned", "due", "done", "stopped"}
       /\ plans[m].to \subseteq Students
  /\ \A j \in Jobs :
       /\ jobs[j].pc \in {"idle", "page", "send", "push"}
       /\ jobs[j].batch \subseteq Plans /\ jobs[j].key \subseteq Keys
       /\ jobs[j].batch \cap jobs[j].key = {}
       /\ (jobs[j].pc = "idle") <=> (jobs[j].key = {})
       /\ jobs[j].todo \subseteq Students /\ jobs[j].cursor \in 0 .. Members
  /\ queued \in [Keys -> SUBSET Students]
  /\ rows \in [Keys -> [Students -> {"none", "shown", "cleared"}]]
  /\ inserts \in [Keys -> [Students -> 0 .. 2]]
  /\ promised \in [Keys -> SUBSET Students]
  /\ failures \in 0 .. MaxFailures

\* A student gets an announcement once, whoever else publishes it, however
\* often a run is repeated or Kafka hands it over again, and also after the
\* student cleared it (feedEvent.go:215, dao/feedEvent.go:97).
AnnouncedOnce == \A k \in Keys, s \in Students : inserts[k][s] <= 1

\* A run that reports success, by removing the plan or by returning from the
\* broadcast, leaves nobody out: who was frozen into the plan and is still
\* enrolled, or was registered when the broadcast began, has the message in
\* Kafka or in the store (muxi.go:145, feedEvent.go:175).
SuccessLeavesNobodyOut ==
  \A k \in Keys : \A s \in promised[k] : s \in queued[k] \/ rows[k][s] # "none"

\* Nobody gets an official message who was not on its list when it was
\* planned, although the list is set anew in the meantime (muxi.go:113).
OnlyFrozenRecipients ==
  \A m \in Plans, s \in Students :
    s \in queued[m] \/ rows[m][s] # "none" => s \in plans[m].to

\* A message reaches exactly those it is for: neither is anybody left out by a
\* run that fails and is taken up again, nor does a list set anew since the
\* message was planned bring anybody in.
RightRecipients == SuccessLeavesNobodyOut /\ OnlyFrozenRecipients

\* A plan that has fallen due reaches everybody on its list who is still
\* enrolled, unless an operator stops it: a failed or interrupted run is taken
\* up again from the plan (muxi.go:142-149).
AnnouncementsArrive ==
  \A m \in Plans :
    plans[m].state = "due" ~>
      \/ plans[m].state = "stopped"
      \/ \A s \in plans[m].to :
           rows[m][s] # "none" \/ (plans[m].all /\ s \in graduated)
=============================================================================
