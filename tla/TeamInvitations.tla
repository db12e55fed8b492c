-------------------------- MODULE TeamInvitations --------------------------
(* be-library: NotifyTeamInvitation.  The master of a team has students    *)
(* told that they are invited.  Calls run at the same time, in several     *)
(* processes; each checks the team at the school and then writes, in one   *)
(* transaction under the row locks of the subscriptions, an invitation     *)
(* that is kept for good and, for who wants it, a row of the outbox.       *)
EXTENDS Naturals, FiniteSets

CONSTANTS Invitees,            \* students, by number: rows are locked in this order
          Teams, Masters,
          Notifiers,           \* places for calls, of all processes
          RecipientDailyLimit,
          Tries,               \* how often a transaction is tried (3)
          MaxPreference,       \* bound: versions of a preference
          LastDay, MaxNotified \* bounds: days 0 .. LastDay, calls

ASSUME InvitationAssumption ==
  /\ Invitees \subseteq Nat /\ IsFiniteSet(Invitees) /\ IsFiniteSet(Teams)
  /\ RecipientDailyLimit \in Nat /\ Tries \in Nat \ {0}
  /\ MaxPreference \in Nat /\ LastDay \in Nat /\ MaxNotified \in Nat

VARIABLES
  subscription, \* library_reminder_subscriptions: enabled, preference_version (0: no row)
  invitation,   \* library_team_invitations
  notice,       \* notification_outbox: the rows for invitations that are still to be sent
  notifier,     \* the calls
  day,          \* the day in China
  notified,     \* how many calls there were
  created       \* history: how many rows of the outbox were ever made

invitationVars == <<subscription, invitation, notice, notifier, day, notified, created>>

NoInvitation == [by |-> {}, enqueued |-> FALSE, day |-> 0, confirmed |-> FALSE]
NoNotice == 0
NoTransaction == [looked |-> {}, locked |-> {}, on |-> {}, fresh |-> {}, room |-> {}, day |-> 0]
NotCalled == [pc |-> "idle", by |-> {}, team |-> {}, to |-> {}, confirmed |-> {}, tries |-> 0,
              tx |-> NoTransaction]

InvitationInit ==
  /\ subscription = [r \in Invitees |-> [on |-> FALSE, version |-> 0]]
  /\ invitation = [t \in Teams |-> [r \in Invitees |-> NoInvitation]]
  /\ notice = [t \in Teams |-> [r \in Invitees |-> NoNotice]]
  /\ notifier = [c \in Notifiers |-> NotCalled]
  /\ day = 0 /\ notified = 0
  /\ created = [t \in Teams |-> [r \in Invitees |-> 0]]

-----------------------------------------------------------------------------
(* Around the calls: preferences, the sender of the outbox and midnight.    *)

HasRow(r) == subscription[r].version > 0
Unlocked(r) == \A c \in Notifiers : r \notin notifier[c].tx.locked

\* suppressStudentWorkTx
Suppressed(r) ==
  [t \in Teams |-> [notice[t] EXCEPT ![r] = NoNotice]]

\* ApplyPreferenceChanges and reconcilePreferences: a row is inserted, turned
\* on or off, or begins again; what was to be sent under it is suppressed.
ChangePreference(r) ==
  /\ Unlocked(r) /\ subscription[r].version < MaxPreference
  /\ \E on \in BOOLEAN :
       /\ subscription' = [subscription EXCEPT ![r].on = on, ![r].version = @ + 1]
       /\ HasRow(r) => on \/ subscription[r].on
  /\ notice' = IF subscription[r].on THEN Suppressed(r) ELSE notice
  /\ UNCHANGED <<invitation, notifier, day, notified, created>>

\* A row is sent, given up or cleaned up.
EndNotice(t, r) ==
  /\ notice[t][r] # NoNotice
  /\ notice' = [notice EXCEPT ![t][r] = NoNotice]
  /\ UNCHANGED <<subscription, invitation, notifier, day, notified, created>>

EndOfDay ==
  /\ day < LastDay /\ day' = day + 1
  /\ UNCHANGED <<subscription, invitation, notice, notifier, notified, created>>

-----------------------------------------------------------------------------
(* NotifyTeamInvitation *)

stored == <<subscription, invitation, notice, day, created>>

Invited(t, r) == invitation[t][r] # NoInvitation

\* pendingInvitationRecipients: those who are not invited yet.
Pending(t, to) == {r \in to : ~Invited(t, r)}
OtherMaster(m, t, to) == \E r \in to : invitation[t][r].by \cap m # invitation[t][r].by

\* The first lookup, and the school: it has to confirm that the operator leads
\* the team and waits for those who are not invited yet.
NotifyTeamInvitation(c) ==
  /\ notifier[c].pc = "idle" /\ notified < MaxNotified
  /\ \E m \in Masters, t \in Teams, to \in SUBSET Invitees \ {{}} :
       /\ ~OtherMaster({m}, t, to)
       /\ notifier' = [notifier EXCEPT ![c] =
            [pc |-> IF Pending(t, to) = {} THEN "accepted" ELSE "lock",
             by |-> {m}, team |-> {t}, to |-> to, confirmed |-> Pending(t, to),
             tries |-> 0, tx |-> NoTransaction]]
  /\ notified' = notified + 1
  /\ UNCHANGED stored

\* A call goes on with its transaction, or leaves it and its locks.
Proceed(c, pc, tx, tries) ==
  notifier' = [notifier EXCEPT ![c] =
    [pc |-> pc, by |-> notifier[c].by, team |-> notifier[c].team, to |-> notifier[c].to,
     confirmed |-> notifier[c].confirmed, tries |-> tries, tx |-> tx]]

Accept(c) == Proceed(c, "accepted", NoTransaction, 0)
Refuse(c) == notifier' = [notifier EXCEPT ![c] = NotCalled]

Locks_None(locked, r) == locked

\* SubscriptionForUpdate, student by student; a missing row is not locked.
Locks(locked, r) == IF HasRow(r) THEN locked \cup {r} ELSE locked

SubscriptionForUpdate(c) ==
  LET tx == notifier[c].tx
  IN /\ notifier[c].pc = "lock"
     /\ \E r \in notifier[c].to \ tx.looked :
          /\ \A s \in notifier[c].to \ tx.looked : r <= s
          /\ HasRow(r) => Unlocked(r)
          /\ Proceed(c, IF notifier[c].to = tx.looked \cup {r} THEN "read" ELSE "lock",
                     [looked |-> tx.looked \cup {r}, locked |-> Locks(tx.locked, r),
                      on |-> IF subscription[r].on THEN tx.on \cup {r} ELSE tx.on,
                      fresh |-> {}, room |-> {}, day |-> 0],
                     notifier[c].tries)
     /\ UNCHANGED <<stored, notified>>

\* InvitationDailyCount
DailyCount(r, d) ==
  Cardinality({t \in Teams : invitation[t][r].enqueued /\ invitation[t][r].day = d})

\* Under the locks: who is still not invited, and who may be told today.
ReadInvitations(c) ==
  LET k == notifier[c]
  IN /\ k.pc = "read"
     /\ \E t \in k.team :
          \/ OtherMaster(k.by, t, k.to) /\ Refuse(c)
          \/ ~OtherMaster(k.by, t, k.to) /\ Pending(t, k.to) = {} /\ Accept(c)
          \/ /\ ~OtherMaster(k.by, t, k.to) /\ Pending(t, k.to) # {}
             /\ Proceed(c, "create",
                        [looked |-> k.tx.looked, locked |-> k.tx.locked, on |-> k.tx.on,
                         fresh |-> Pending(t, k.to), day |-> day,
                         room |-> {r \in Pending(t, k.to) \cap k.tx.on :
                                     DailyCount(r, day) < RecipientDailyLimit}],
                        k.tries)
     /\ UNCHANGED <<stored, notified>>

Insertable_AnyTime(fresh, t) == fresh \subseteq Invitees

\* The unique key of a team and a student.
Insertable(fresh, t) == fresh \subseteq Pending(t, Invitees)

\* CreateInvitation for all of them and the commit, which may get no answer.
\* Somebody who has been invited meanwhile is a duplicate key.
CreateInvitation(c) ==
  LET k == notifier[c]
  IN /\ k.pc = "create"
     /\ \E t \in k.team :
          /\ Insertable(k.tx.fresh, t)
          /\ invitation' = [invitation EXCEPT ![t] = [r \in Invitees |->
               IF r \in k.tx.fresh
                 THEN [by |-> k.by, enqueued |-> r \in k.tx.room, day |-> k.tx.day,
                       confirmed |-> r \in k.confirmed]
                 ELSE invitation[t][r]]]
          /\ notice' = [notice EXCEPT ![t] = [r \in Invitees |->
               IF r \in k.tx.room THEN subscription[r].version ELSE notice[t][r]]]
          /\ created' = [created EXCEPT ![t] = [r \in Invitees |->
               IF r \in k.tx.room THEN created[t][r] + 1 ELSE created[t][r]]]
     /\ Accept(c) \/ Refuse(c)
     /\ UNCHANGED <<subscription, day, notified>>

\* A duplicate key, a deadlock or a lock wait that was too long: rolled back
\* and tried again.
RetryTransaction(c) ==
  /\ notifier[c].pc \in {"lock", "read", "create"} /\ notifier[c].tries + 1 < Tries
  /\ Proceed(c, "lock", NoTransaction, notifier[c].tries + 1)
  /\ UNCHANGED <<stored, notified>>

\* The call is answered; or it fails, is refused or runs out of time, or its
\* process dies, and what it had not committed is gone.
EndCall(c) ==
  /\ notifier[c].pc # "idle" /\ Refuse(c)
  /\ UNCHANGED <<stored, notified>>

-----------------------------------------------------------------------------
InvitationNext ==
  \/ EndOfDay
  \/ \E r \in Invitees : ChangePreference(r) \/ \E t \in Teams : EndNotice(t, r)
  \/ \E c \in Notifiers :
       \/ NotifyTeamInvitation(c) \/ SubscriptionForUpdate(c)
       \/ ReadInvitations(c) \/ CreateInvitation(c) \/ RetryTransaction(c) \/ EndCall(c)

InvitationSpec == InvitationInit /\ [][InvitationNext]_invitationVars

-----------------------------------------------------------------------------
IsCall(k) ==
  /\ k = [pc |-> k.pc, by |-> k.by, team |-> k.team, to |-> k.to, confirmed |-> k.confirmed,
          tries |-> k.tries, tx |-> k.tx]
  /\ k.tx = [looked |-> k.tx.looked, locked |-> k.tx.locked, on |-> k.tx.on,
             fresh |-> k.tx.fresh, room |-> k.tx.room, day |-> k.tx.day]
  /\ k.pc \in {"idle", "lock", "read", "create", "accepted"}
  /\ k.by \subseteq Masters /\ k.team \subseteq Teams /\ k.to \subseteq Invitees
  /\ k.confirmed \subseteq k.to /\ k.tries \in 0 .. Tries - 1
  /\ k.tx.looked \subseteq k.to /\ k.tx.locked \subseteq k.tx.looked
  /\ k.tx.on \subseteq k.tx.looked /\ k.tx.fresh \subseteq k.to
  /\ k.tx.room \subseteq k.tx.fresh /\ k.tx.day \in 0 .. LastDay

\* The types of the rows and of the calls.
InvitationTypeOK ==
  /\ subscription \in [Invitees -> [on : BOOLEAN, version : 0 .. MaxPreference]]
  /\ invitation \in [Teams -> [Invitees -> [by : SUBSET Masters, enqueued : BOOLEAN,
                                            day : 0 .. LastDay, confirmed : BOOLEAN]]]
  /\ notice \in [Teams -> [Invitees -> 0 .. MaxPreference]]
  /\ notifier = [c \in Notifiers |-> notifier[c]] /\ \A c \in Notifiers : IsCall(notifier[c])
  /\ day \in 0 .. LastDay /\ notified \in 0 .. MaxNotified
  /\ created \in [Teams -> [Invitees -> Nat]]

\* No student is told of more invitations on a day than the limit, whichever
\* teams and processes invite the student at the same time and though the day
\* may end between the count and the commit (reminder_invitation.go:193-211).
DailyLimitKept ==
  \A r \in Invitees, d \in 0 .. LastDay : DailyCount(r, d) <= RecipientDailyLimit

\* A student is told once of a team, also when the outbox row is gone, the
\* answer was lost or the preference has changed (reminder_model.go:168).
InvitedOnce == \A t \in Teams, r \in Invitees : created[t][r] <= 1

\* A call that is told "accepted" has everybody invited, by its own operator:
\* whoever met it in the transaction did not leave anybody out or take the
\* invitation for another master (reminder_invitation.go:168-228).
AcceptedIsRecorded ==
  \A c \in Notifiers : notifier[c].pc = "accepted" =>
    \A t \in notifier[c].team, r \in notifier[c].to : invitation[t][r].by = notifier[c].by

\* Only those are invited whom the school confirmed, although the ones to be
\* invited are looked up again after the school was asked.
OnlyConfirmed ==
  \A t \in Teams, r \in Invitees : Invited(t, r) => invitation[t][r].confirmed

\* What waits to be sent belongs to the preference as it is.
NoticesAreCurrent ==
  \A t \in Teams, r \in Invitees : notice[t][r] # NoNotice =>
    subscription[r].on /\ notice[t][r] = subscription[r].version

\* An invitation is kept for good, is told once and under the preference of
\* its day, and stands behind every "accepted"; the rows keep their types.
InvitationsKept == InvitationTypeOK /\ InvitedOnce /\ AcceptedIsRecorded /\ OnlyConfirmed /\ NoticesAreCurrent
=============================================================================
