----------------------------- MODULE TeamSuccess -----------------------------
(* be-library: ScanTeams.  A cron job asks the library for the team of each  *)
(* student who wants notifications, remembers the teams it has seen and puts *)
(* a row into the outbox when one has come about.  What was so before the    *)
(* student turned notifications on is a baseline and no news.                *)
EXTENDS Naturals

CONSTANTS Mates,         \* students
          Groups,        \* teams
          Scanners,      \* goroutines of the job, of all processes
          Baseline,      \* ShouldBaselineOnEnable
          MaxTurns,      \* bound: versions of a preference
          MaxMoves       \* bound: how often students change their team

ASSUME SuccessAssumption == Baseline \in BOOLEAN /\ MaxTurns \in Nat /\ MaxMoves \in Nat

VARIABLES
  wish,      \* library_reminder_subscriptions: enabled, preference_version, team_baseline_completed
  groupOf,   \* the library: the current team of each student, if any,
  formed,    \* and the teams that have come about
  moves,     \* what is used up of the bound
  snapshot,  \* library_team_snapshots: success_disposition; "none" without a row
  scan,      \* what each goroutine is doing
  overlapped, \* observation: the students whom two scans were ever at work on at the same time
  old,       \* history: the team of each student that had come about when the preference began
  told       \* history: the successes put into the outbox, and how many of them were old

successVars == <<wish, groupOf, formed, moves, snapshot, scan, overlapped, old, told>>
library == <<groupOf, formed, moves>>

NoScan == [pc |-> "idle", stu |-> {}, version |-> 0, team |-> {}, success |-> FALSE]
Begun(s, version) ==
  [pc |-> "fetch", stu |-> {s}, version |-> version, team |-> {}, success |-> FALSE]

SuccessInit ==
  /\ wish = [s \in Mates |-> [on |-> FALSE, version |-> 0, baseline |-> FALSE]]
  /\ groupOf = [s \in Mates |-> {}] /\ formed = {} /\ moves = 0
  /\ snapshot = [s \in Mates |-> [g \in Groups |-> "none"]]
  /\ scan = [x \in Scanners |-> NoScan] /\ overlapped = {}
  /\ old = [s \in Mates |-> {}]
  /\ told = [s \in Mates |-> [g \in Groups |-> [times |-> 0, old |-> FALSE]]]

-----------------------------------------------------------------------------
(* The library and the preferences. *)

\* A student joins a team that waits for members, or leaves one.
Move(s) ==
  /\ moves < MaxMoves /\ moves' = moves + 1
  /\ \/ groupOf[s] # {} /\ groupOf' = [groupOf EXCEPT ![s] = {}]
     \/ /\ groupOf[s] = {}
        /\ \E g \in Groups \ formed : groupOf' = [groupOf EXCEPT ![s] = {g}]
  /\ UNCHANGED <<wish, formed, snapshot, scan, overlapped, old, told>>

Form(g) ==
  /\ g \notin formed /\ formed' = formed \cup {g}
  /\ UNCHANGED <<wish, groupOf, moves, snapshot, scan, overlapped, old, told>>

\* ApplyPreferenceChanges and reconcilePreferences: a preference that is
\* turned on, or off, or begins again loses its baseline.
TurnPreference(s) ==
  /\ wish[s].version < MaxTurns
  /\ \E on \in BOOLEAN :
       /\ on \/ wish[s].on
       /\ wish' = [wish EXCEPT ![s] = [on |-> on, version |-> wish[s].version + 1,
                                       baseline |-> FALSE]]
  /\ old' = [old EXCEPT ![s] = groupOf[s] \cap formed]
  /\ UNCHANGED <<library, snapshot, scan, overlapped, told>>

-----------------------------------------------------------------------------
(* ScanTeams *)

\* TeamSubscriptions: rows that are on, as they are read.
ListTeamSubscription(x, s) ==
  /\ scan[x].pc = "idle" /\ wish[s].on
  /\ scan' = [scan EXCEPT ![x] = Begun(s, wish[s].version)]
  /\ overlapped' = overlapped \cup {r \in {s} : \E y \in Scanners : s \in scan[y].stu}
  /\ UNCHANGED <<wish, library, snapshot, old, told>>

Current_OnlyOn(x, s) == wish[s].on

\* subscriptionStillCurrent, MarkTeamAttempt and the guard under the lock.
Current(x, s) == wish[s].on /\ wish[s].version = scan[x].version

\* scanTeamUserAttempt up to the answer of the library.
GetCurrentTeam(x, s) ==
  /\ scan[x].pc = "fetch" /\ scan[x].stu = {s} /\ Current(x, s)
  /\ scan' = [scan EXCEPT ![x] =
       [pc |-> "save", stu |-> {s}, version |-> scan[x].version, team |-> groupOf[s],
        success |-> groupOf[s] \subseteq formed]]
  /\ UNCHANGED <<wish, library, snapshot, overlapped, old, told>>

\* reconcileTeam, in one transaction under the row lock, which may get no
\* answer and is then tried again from the start.
Disposition(s, success) ==
  IF ~success THEN "seen" ELSE IF Baseline /\ ~wish[s].baseline THEN "baseline" ELSE "enqueued"

ReconcileTeam(x, s) ==
  /\ scan[x].pc = "save" /\ scan[x].stu = {s} /\ Current(x, s)
  /\ wish' = [wish EXCEPT ![s].baseline = TRUE]
  /\ snapshot' = [snapshot EXCEPT ![s] = [g \in Groups |->
       IF g \in scan[x].team /\ snapshot[s][g] \in {"none", "seen"}
         THEN Disposition(s, scan[x].success) ELSE snapshot[s][g]]]
  /\ told' = [told EXCEPT ![s] = [g \in Groups |->
       IF snapshot'[s][g] = "enqueued" /\ snapshot[s][g] # "enqueued"
         THEN [times |-> told[s][g].times + 1, old |-> g \in old[s]] ELSE told[s][g]]]
  /\ \/ scan' = [scan EXCEPT ![x] = NoScan]
     \/ scan' = [scan EXCEPT ![x] = Begun(s, scan[x].version)]
  /\ UNCHANGED <<library, overlapped, old>>

\* A scan whose preference has changed ends; one that fails is tried again,
\* or ends.
EndScan(x) ==
  /\ scan[x].pc # "idle"
  /\ \/ scan' = [scan EXCEPT ![x] = NoScan]
     \/ \E s \in scan[x].stu : scan' = [scan EXCEPT ![x] = Begun(s, scan[x].version)]
  /\ UNCHANGED <<wish, library, snapshot, overlapped, old, told>>

SuccessNext ==
  \/ \E s \in Mates : Move(s) \/ TurnPreference(s)
  \/ \E g \in Groups : Form(g)
  \/ \E x \in Scanners : EndScan(x) \/ \E s \in Mates :
       ListTeamSubscription(x, s) \/ GetCurrentTeam(x, s) \/ ReconcileTeam(x, s)

SuccessSpec == SuccessInit /\ [][SuccessNext]_successVars

-----------------------------------------------------------------------------
\* The types of the rows and of the scans.
SuccessTypeOK ==
  /\ wish \in [Mates -> [on : BOOLEAN, version : 0 .. MaxTurns, baseline : BOOLEAN]]
  /\ groupOf \in [Mates -> SUBSET Groups] /\ formed \subseteq Groups /\ moves \in 0 .. MaxMoves
  /\ snapshot \in [Mates -> [Groups -> {"none", "seen", "baseline", "enqueued"}]]
  /\ scan \in [Scanners -> [pc : {"idle", "fetch", "save"}, stu : SUBSET Mates,
                            version : 0 .. MaxTurns, team : SUBSET Groups, success : BOOLEAN]]
  /\ overlapped \subseteq Mates /\ old \in [Mates -> SUBSET Groups]
  /\ told \in [Mates -> [Groups -> [times : Nat, old : BOOLEAN]]]

\* A student is told of a success once, and never of one that was there when
\* the preference was turned on, although what a scan saw may be older than
\* the preference (reminder_team.go:167) or, of two scans, than what the other
\* one has written.  Only a student who has left the team while two scans were
\* at work may be told of its old success: the scan that saw no team writes
\* the baseline, the one that saw the team comes after it.
\* The rows keep their types.
NoOldNews ==
  /\ SuccessTypeOK
  /\ \A s \in Mates, g \in Groups :
       /\ told[s][g].times <= 1
       /\ Baseline /\ told[s][g].old => s \in overlapped /\ g \notin groupOf[s]
=============================================================================
