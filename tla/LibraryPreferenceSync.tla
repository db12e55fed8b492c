------------------------ MODULE LibraryPreferenceSync ------------------------
(***************************************************************************)
(* How the library preference of a student travels from be-feed, which     *)
(* owns it, to be-library, which acts on it.                               *)
(*                                                                         *)
(* be-feed keeps the preference as a bit of feed_user_configs and appends  *)
(* every change to feed_user_config_changes under a revision whose         *)
(* allocator row stays locked until the commit, so that revisions and      *)
(* commits have one order: the log is a sequence, a revision its index.    *)
(*                                                                         *)
(* be-library keeps a copy, its subscriptions.  It replays the log behind  *)
(* a cursor, and it rebuilds or calibrates the copy from a paged read of   *)
(* the students who have the preference on, bounded by a revision taken    *)
(* before the first page.  Pages, batches of rows and the cursor are       *)
(* separate transactions, interleaved with the students, with refreshes    *)
(* of the reservations, and with crashes of either service.                *)
(***************************************************************************)
EXTENDS Integers, Sequences, FiniteSets

CONSTANTS
  Students,
  Id,           \* Id[s]: the primary key of s in feed_user_configs
  PageSize,     \* users a page of ListLibraryReminderUsers returns
  ChangeLimit,  \* changes a page of ListLibraryPreferenceChanges returns
  BatchSize,    \* preferenceReconcileBatchSize
  Invitation,   \* is the team invitation notification enabled?
  MaxRevision   \* bound: the revisions after which students change nothing

ASSUME ConstantsAssumption ==
  /\ Id \in [Students -> Nat \ {0}]
  /\ \A s, t \in Students : Id[s] = Id[t] => s = t
  /\ PageSize \in Nat \ {0}
  /\ ChangeLimit \in Nat \ {0}
  /\ BatchSize \in Nat \ {0}
  /\ Invitation \in BOOLEAN
  /\ MaxRevision \in Nat

VARIABLES
  (* be-feed: feed_user_configs, feed_user_config_changes, is it serving? *)
  config, log, feedUp,
  (* be-library: subscriptions, the cursor (-1: no row), and the            *)
  (* <<student, preference version>> of the live jobs and outbox rows       *)
  sub, cursor, work,
  (* the task that holds preferenceLock: its kind and step *)
  task, phase,
  (* its locals: snapshot revision, last id read, revision of each listed  *)
  (* student (0: not listed), rows left, end of the fetched changes        *)
  snapshot, after, users, todo, upto,
  (* preferenceCaughtUp # 0, and the version each refresh started from *)
  caughtUp, refresh

feedVars == <<config, log, feedUp>>
subVars  == <<sub, cursor, work>>
taskVars == <<task, phase, snapshot, after, users, todo, upto>>
vars == <<feedVars, subVars, taskVars, caughtUp, refresh>>

Revision     == 0..Len(log)
Config       == [kind : {"none", "live", "deleted"}, library : BOOLEAN, revision : Revision]
Change       == [student : Students, enabled : BOOLEAN]
Subscription == [exists : BOOLEAN, enabled : BOOLEAN, revision : Revision, version : Nat]
NoConfig == [kind |-> "none", library |-> FALSE, revision |-> 0]
NoSub    == [exists |-> FALSE, enabled |-> FALSE, revision |-> 0, version |-> 0]

Phase == {"down", "idle", "snapshot", "page", "reconcile", "missing", "cursor", "fetch", "apply"}

TypeOK ==
  /\ config \in [Students -> Config]
  /\ log \in Seq(Change)
  /\ feedUp \in BOOLEAN
  /\ sub \in [Students -> Subscription]
  /\ cursor \in Revision \cup {-1}
  /\ work \in SUBSET (Students \X Nat)
  /\ task \in {"none", "rebuild", "calibrate"}
  /\ phase \in Phase
  /\ snapshot \in Revision
  /\ after \in Nat
  /\ users \in [Students -> Revision]
  /\ todo \in SUBSET Students
  /\ upto \in Revision
  /\ caughtUp \in BOOLEAN
  /\ refresh \in [Students -> Nat]

(* PushConfigSnapshot.EffectiveConfig at the library bit: a missing        *)
(* configuration has it off, and so has a soft-deleted one.                *)
LibraryOn(s) == config[s].kind = "live" /\ config[s].library

-----------------------------------------------------------------------------
(* Before the library preference existed, configurations carried no        *)
(* revision; some had been soft-deleted.  One more student may have had    *)
(* the configuration soft-deleted after it entered the log, with           *)
(* be-library new or already past that revision.                           *)
NoLocals ==
  /\ snapshot = 0 /\ after = 0 /\ upto = 0
  /\ users = [s \in Students |-> 0]
  /\ todo = {}

OldConfigs ==
  {NoConfig, [kind |-> "live", library |-> FALSE, revision |-> 0],
   [kind |-> "deleted", library |-> FALSE, revision |-> 0]}

LoggedConfigs ==
  {[kind |-> k, library |-> TRUE, revision |-> 1] : k \in {"live", "deleted"}}

Init ==
  /\ \E L \in SUBSET Students, consumed \in BOOLEAN :
       /\ \A s, t \in L : s = t
       /\ log \in {l \in {<<>>} \cup {<<[student |-> s, enabled |-> TRUE]>> : s \in L} :
                     L # {} => l # <<>>}
       /\ config \in {c \in [Students -> OldConfigs \cup LoggedConfigs] :
                        \A s \in Students : c[s] \in IF s \in L THEN LoggedConfigs ELSE OldConfigs}
       /\ cursor = IF consumed THEN Len(log) ELSE -1
       /\ sub = [s \in Students |->
                   IF consumed /\ s \in L
                   THEN [exists |-> TRUE, enabled |-> TRUE, revision |-> 1, version |-> 1]
                   ELSE NoSub]
  /\ feedUp = FALSE
  /\ work = {}
  /\ task = "none" /\ phase = "down" /\ NoLocals
  /\ caughtUp = FALSE
  /\ refresh = [s \in Students |-> 0]

-----------------------------------------------------------------------------
(* be-feed *)

(* Bounds what the students do; the migration is finite by itself. *)
Room == Len(log) < MaxRevision

(* A change is a log entry and the new bit under its revision, together. *)
Announce(s, on) ==
  /\ log' = Append(log, [student |-> s, enabled |-> on])
  /\ config' = [config EXCEPT ![s] =
                  [kind |-> "live", library |-> on, revision |-> Len(log) + 1]]

(* On start every live configuration without a revision gets the           *)
(* preference turned on and announced; the service serves when none is     *)
(* left.  (The code takes 200 rows to a transaction, in the order of id.)  *)
Unmigrated == {s \in Students : config[s].kind = "live" /\ config[s].revision = 0}

MigrateInitialLibraryPreference(s) ==
  /\ ~feedUp
  /\ s \in Unmigrated
  /\ \A t \in Unmigrated : Id[s] <= Id[t]
  /\ Announce(s, TRUE)
  /\ UNCHANGED <<feedUp, subVars, taskVars, caughtUp, refresh>>

FeedStarts ==
  /\ ~feedUp
  /\ Unmigrated = {}
  /\ feedUp' = TRUE
  /\ UNCHANGED <<config, log, subVars, taskVars, caughtUp, refresh>>

FeedStops ==
  /\ feedUp
  /\ feedUp' = FALSE
  /\ UNCHANGED <<config, log, subVars, taskVars, caughtUp, refresh>>

(* A student opens the settings: the first time the defaults are created,  *)
(* the library preference on.                                              *)
FindOrCreateUserFeedConfig(s) ==
  /\ feedUp
  /\ config[s].kind = "none"
  /\ Room
  /\ Announce(s, TRUE)
  /\ UNCHANGED <<feedUp, subVars, taskVars, caughtUp, refresh>>

(* A student saves the settings, with the library preference ("on", "off") *)
(* or, from an old client, without it ("omitted").  A new row starts from  *)
(* the defaults, a soft-deleted one comes back with everything off.  A new *)
(* row is always announced, an old one when the effective bit changes.     *)
ChangeConfigBits(s, choice) ==
  LET isNew == config[s].kind = "none"
      base  == isNew \/ LibraryOn(s)
      on    == IF choice = "omitted" THEN base ELSE choice = "on"
  IN /\ feedUp
     /\ IF isNew \/ on # LibraryOn(s)
        THEN Room /\ Announce(s, on)
        ELSE /\ config' = [config EXCEPT ![s].kind = "live", ![s].library = on]
             /\ config' # config
             /\ log' = log
     /\ UNCHANGED <<feedUp, subVars, taskVars, caughtUp, refresh>>

-----------------------------------------------------------------------------
(* be-library: the start of a task under preferenceLock *)

ServiceStarts ==
  /\ phase = "down"
  /\ phase' = "idle"
  /\ UNCHANGED <<feedVars, subVars, task, snapshot, after, users, todo, upto, caughtUp, refresh>>

NeedsRebuild == cursor < 0 \/ (Invitation /\ ~caughtUp)

(* syncPreferences: rebuild without a cursor, or, when invitations need a  *)
(* copy known to be fresh, once in every process; else replay.             *)
Resync ==
  IF NeedsRebuild THEN task' = "rebuild" /\ phase' = "snapshot"
                  ELSE task' = "none" /\ phase' = "fetch"

SyncPreferences ==
  /\ phase = "idle"
  /\ Resync
  /\ UNCHANGED <<feedVars, subVars, snapshot, after, users, todo, upto, caughtUp, refresh>>

CalibratePreferences ==
  /\ phase = "idle"
  /\ task' = "calibrate" /\ phase' = "snapshot"
  /\ UNCHANGED <<feedVars, subVars, snapshot, after, users, todo, upto, caughtUp, refresh>>

ForgetLocals ==
  /\ snapshot' = 0 /\ after' = 0 /\ upto' = 0
  /\ users' = [s \in Students |-> 0]
  /\ todo' = {}

(* A call or a transaction fails, or its answer is lost after it took      *)
(* effect: the task returns the error and releases the lock.               *)
TaskFails ==
  /\ phase \notin {"down", "idle"}
  /\ task' = "none" /\ phase' = "idle" /\ ForgetLocals
  /\ UNCHANGED <<feedVars, subVars, caughtUp, refresh>>

ServiceStops ==
  /\ phase # "down"
  /\ task' = "none" /\ phase' = "down" /\ ForgetLocals
  /\ caughtUp' = FALSE
  /\ refresh' = [s \in Students |-> 0]
  /\ UNCHANGED <<feedVars, subVars>>

-----------------------------------------------------------------------------
(* loadReminderUsers *)

(* Mutant: the snapshot is the next revision. *)
(* The first call fixes the revision before it reads its page. *)
LatestLibraryPreferenceRevision ==
  /\ phase = "snapshot"
  /\ feedUp
  /\ snapshot' = Len(log)
  /\ phase' = "page"
  /\ UNCHANGED <<feedVars, subVars, task, after, users, todo, upto, caughtUp, refresh>>

(* Mutant: soft-deleted rows are listed too. *)
Listed_Unscoped == {s \in Students : Id[s] > after /\ config[s].library /\ config[s].revision <= snapshot}

(* The next users with the preference on, and unchanged since the snapshot. *)
Listed == {s \in Students : Id[s] > after /\ LibraryOn(s) /\ config[s].revision <= snapshot}

IsPage(P) ==
  /\ P \subseteq Listed
  /\ Cardinality(P) <= PageSize
  /\ \A s \in P, t \in Listed \ P : Id[s] < Id[t]
  /\ P # Listed => Cardinality(P) = PageSize

ListLibraryReminderUsers(P) ==
  /\ phase = "page"
  /\ feedUp
  /\ P # {}
  /\ IsPage(P)
  /\ users' = [s \in Students |-> IF s \in P THEN config[s].revision ELSE users[s]]
  /\ \E last \in P : (\A s \in P : Id[s] <= Id[last]) /\ after' = Id[last]
  /\ UNCHANGED <<feedVars, subVars, task, phase, snapshot, todo, upto, caughtUp, refresh>>

LastPage ==
  /\ phase = "page"
  /\ feedUp
  /\ Listed = {}
  /\ phase' = "reconcile"
  /\ todo' = {s \in Students : sub[s].exists}
  /\ UNCHANGED <<feedVars, subVars, task, snapshot, after, users, upto, caughtUp, refresh>>

-----------------------------------------------------------------------------
(* reconcilePreferences *)

(* Mutant: a row that is on is left alone. *)
Reset_OffOnly(s) == IF users[s] > 0 THEN ~sub[s].enabled ELSE sub[s].enabled

(* A listed student whose row is off, or whose preference was announced    *)
(* again since the row was written, starts over: the preference may have   *)
(* been off in between.  A student not listed is turned off; the revision  *)
(* of the row stays, so that the replay decides.                           *)
Reset(s) == IF users[s] > 0 THEN ~sub[s].enabled \/ users[s] > sub[s].revision
                            ELSE sub[s].enabled

Reconciled(s) ==
  [sub[s] EXCEPT !.enabled = users[s] > 0,
                 !.revision = IF users[s] > @ THEN users[s] ELSE @,
                 !.version = IF Reset(s) THEN @ + 1 ELSE @]

(* suppressStudentWorkTx *)
WorkWithout(S) == {w \in work : w[1] \notin S}

(* One transaction reconciles a batch of the existing rows. *)
ReconcileBatch(B) ==
  /\ phase = "reconcile"
  /\ B # {} /\ B \subseteq todo
  /\ Cardinality(B) <= BatchSize
  /\ B # todo => Cardinality(B) = BatchSize
  /\ sub' = [s \in Students |-> IF s \in B THEN Reconciled(s) ELSE sub[s]]
  /\ work' = WorkWithout({s \in B : Reset(s)})
  /\ todo' = todo \ B
  /\ UNCHANGED <<feedVars, cursor, task, phase, snapshot, after, users, upto, caughtUp, refresh>>

RowsReconciled ==
  /\ phase = "reconcile"
  /\ todo = {}
  /\ phase' = "missing"
  /\ todo' = {s \in Students : users[s] > 0 /\ ~sub[s].exists}
  /\ UNCHANGED <<feedVars, subVars, task, snapshot, after, users, upto, caughtUp, refresh>>

(* Listed students without a row get one, again in batches. *)
CreateMissing(B) ==
  /\ phase = "missing"
  /\ B # {} /\ B \subseteq todo
  /\ Cardinality(B) <= BatchSize
  /\ B # todo => Cardinality(B) = BatchSize
  /\ sub' = [s \in Students |->
               IF s \in B THEN [exists |-> TRUE, enabled |-> TRUE,
                                revision |-> users[s], version |-> 1]
                          ELSE sub[s]]
  /\ todo' = todo \ B
  /\ UNCHANGED <<feedVars, cursor, work, task, phase, snapshot, after, users, upto, caughtUp, refresh>>

(* Mutant: the cursor jumps to the latest revision. *)
SaveCursor_Latest ==
  /\ phase = "missing" /\ todo = {}
  /\ task = "rebuild"
  /\ cursor' = Len(log)
  /\ task' = "none" /\ phase' = "fetch" /\ ForgetLocals
  /\ UNCHANGED <<feedVars, sub, work, caughtUp, refresh>>

(* A rebuild then moves the cursor to the snapshot and replays; a          *)
(* calibration leaves the cursor and goes on with syncPreferences.         *)
SaveCursor ==
  /\ phase = "missing" /\ todo = {}
  /\ task = "rebuild"
  /\ cursor' = snapshot
  /\ task' = "none" /\ phase' = "fetch" /\ ForgetLocals
  /\ UNCHANGED <<feedVars, sub, work, caughtUp, refresh>>

ReplayAfterCalibration ==
  /\ phase = "missing" /\ todo = {}
  /\ task = "calibrate"
  /\ Resync
  /\ ForgetLocals
  /\ UNCHANGED <<feedVars, subVars, caughtUp, refresh>>

-----------------------------------------------------------------------------
(* The replay of the log *)

PreferenceChanges ==
  /\ phase = "fetch"
  /\ feedUp
  /\ cursor < Len(log)
  /\ upto' = IF Len(log) - cursor <= ChangeLimit THEN Len(log) ELSE cursor + ChangeLimit
  /\ phase' = "apply"
  /\ UNCHANGED <<feedVars, subVars, task, snapshot, after, users, todo, caughtUp, refresh>>

NoMoreChanges ==
  /\ phase = "fetch"
  /\ feedUp
  /\ cursor >= Len(log)
  /\ caughtUp' = TRUE
  /\ phase' = "idle"
  /\ UNCHANGED <<feedVars, subVars, task, snapshot, after, users, todo, upto, refresh>>

(* The revisions of the fetched page that are news to the row of s. *)
News(s) == {r \in (cursor + 1)..upto : log[r].student = s /\ r > sub[s].revision}

(* The preference before revision r of the page is applied to s. *)
Before(s, r) ==
  LET earlier == {q \in News(s) : q < r}
  IN IF earlier # {} THEN log[CHOOSE q \in earlier : \A k \in earlier : k <= q].enabled
     ELSE IF sub[s].exists THEN sub[s].enabled
     ELSE log[r].enabled

Flips(s) == {r \in News(s) : log[r].enabled # Before(s, r)}

(* The changes of the page one after the other: each that flips the row    *)
(* gives it a new version; a first row has version 1.                      *)
Replayed(s) ==
  LET last == CHOOSE r \in News(s) : \A q \in News(s) : q <= r
      first == IF sub[s].exists THEN sub[s].version ELSE 1
  IN IF News(s) = {} THEN sub[s]
     ELSE [exists |-> TRUE, enabled |-> log[last].enabled, revision |-> last,
           version |-> first + Cardinality(Flips(s))]

(* One transaction applies the page and moves the cursor past it; a change *)
(* that turns the preference off suppresses the student's work.            *)
ApplyPreferenceChanges ==
  /\ phase = "apply"
  /\ sub' = [s \in Students |-> Replayed(s)]
  /\ work' = WorkWithout({s \in Students : \E r \in News(s) : ~log[r].enabled})
  /\ cursor' = upto
  /\ phase' = "fetch" /\ upto' = 0
  /\ UNCHANGED <<feedVars, task, snapshot, after, users, todo, caughtUp, refresh>>

-----------------------------------------------------------------------------
(* The refreshes of reservations, at any time beside the task *)

(* A refresh reads the row, then asks the library for the reservations ... *)
RefreshUser(s) ==
  /\ phase # "down"
  /\ refresh[s] = 0
  /\ sub[s].enabled
  /\ refresh' = [refresh EXCEPT ![s] = sub[s].version]
  /\ UNCHANGED <<feedVars, subVars, taskVars, caughtUp>>

(* Mutant: the version is not compared. *)
StillCurrent_AnyVersion(s, version) == sub[s].enabled

(* ... and creates jobs and outbox rows under the version it started from, *)
(* in a transaction that locks the row and looks at it again.              *)
StillCurrent(s, version) == sub[s].enabled /\ sub[s].version = version

SaveReservations(s) ==
  /\ refresh[s] > 0
  /\ work' = IF StillCurrent(s, refresh[s]) THEN work \cup {<<s, refresh[s]>>} ELSE work
  /\ refresh' = [refresh EXCEPT ![s] = 0]
  /\ UNCHANGED <<feedVars, sub, cursor, taskVars, caughtUp>>

-----------------------------------------------------------------------------
Feed ==
  \/ \E s \in Students : MigrateInitialLibraryPreference(s)
  \/ FeedStarts
  \/ FeedStops
  \/ \E s \in Students : FindOrCreateUserFeedConfig(s)
  \/ \E s \in Students, choice \in {"on", "off", "omitted"} : ChangeConfigBits(s, choice)

Steps ==
  \/ LatestLibraryPreferenceRevision
  \/ \E P \in SUBSET Students : ListLibraryReminderUsers(P)
  \/ LastPage
  \/ \E B \in SUBSET Students : ReconcileBatch(B)
  \/ RowsReconciled
  \/ \E B \in SUBSET Students : CreateMissing(B)
  \/ SaveCursor
  \/ ReplayAfterCalibration
  \/ PreferenceChanges
  \/ NoMoreChanges
  \/ ApplyPreferenceChanges

(* Failures; a task that ends with nothing left to read is none. *)
Outage == (TaskFails /\ ~NoMoreChanges) \/ ServiceStops \/ FeedStops

Next ==
  \/ Feed
  \/ ServiceStarts
  \/ SyncPreferences
  \/ CalibratePreferences
  \/ Steps
  \/ TaskFails
  \/ ServiceStops
  \/ \E s \in Students : RefreshUser(s) \/ SaveReservations(s)

Spec == Init /\ [][Next]_vars

(* The loop ticks for ever and the cron fires every night, both queue for  *)
(* the lock in order; a task runs to its end when the calls succeed;       *)
(* students change their mind finitely often (MaxRevision).                *)
FairSpec ==
  /\ Spec
  /\ WF_vars(\E s \in Students : MigrateInitialLibraryPreference(s))
  /\ WF_vars(FeedStarts)
  /\ WF_vars(ServiceStarts)
  /\ WF_vars(SyncPreferences)
  /\ SF_vars(CalibratePreferences)
  /\ WF_vars(Steps)
  /\ <>[][~Outage]_vars

-----------------------------------------------------------------------------
(* Properties *)

(* What be-feed holds and what it announced are the same for s; they are   *)
(* not when the row was soft-deleted without a change.                     *)
Announced(s) ==
  config[s].revision > 0 => (log[config[s].revision].enabled <=> LibraryOn(s))

(* A preference whose last change lies behind the cursor is the one        *)
(* be-library acts on: no interleaving of snapshot, pages, batches, cursor *)
(* and replay with the students' changes, no failed or repeated task loses *)
(* a change or lets an older one win.                                      *)
ConsumedAgrees ==
  \A s \in Students :
    Announced(s) /\ config[s].revision <= cursor => (sub[s].enabled <=> LibraryOn(s))

(* Reminder work exists only under the version of a preference that is on: *)
(* a refresh that asked the library before the preference was turned off,  *)
(* or off and on again, leaves nothing behind.                             *)
WorkIsCurrent == \A w \in work : sub[w[1]].enabled /\ sub[w[1]].version = w[2]

(* When a row that is on moves past a revision that turned it off, it gets *)
(* a new version although it is still on, also when the snapshot jumped    *)
(* over the change: the old baseline and the old work are void.            *)
NoSilentReopen ==
  [][\A s \in Students :
       (/\ sub[s].enabled /\ sub'[s].enabled
        /\ \E r \in (sub[s].revision + 1)..sub'[s].revision :
             log[r] = [student |-> s, enabled |-> FALSE])
       => sub'[s].version > sub[s].version]_vars

(* Once calls succeed and processes stay up, be-library ends up acting on  *)
(* the preference of every student, the soft-deleted rows included.        *)
Converges == <>[](\A s \in Students : (sub[s].enabled <=> LibraryOn(s)))

=============================================================================
