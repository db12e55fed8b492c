---------------------------- MODULE CounterRefresh ----------------------------
(* be-counter and the tiered refresh of the bff.  The counter adds up what *)
(* each student did in the last days; a ranking, rebuilt from it now and   *)
(* then, splits the students into three levels, each refreshed at its own  *)
(* pace by whichever instance gets the level's lock.  Refreshing costs     *)
(* score; students whose fellow student has a new grade are boosted.       *)
EXTENDS Integers, FiniteSets, SequencesExt

CONSTANTS
  Fellows,         \* students
  Window,          \* days that count
  Decay, Boost,    \* calcVariation of the two rates, by score
  Runs, LevelOf,   \* runs of the scheduler, one at a time for an instance and level
  Boosters,        \* calls of BoostScores
  InitialBoost,
  MaxAdds, MaxRuns, MaxDays, MaxMarks   \* bounds: requests, runs, days, marks

Levels == {"low", "middle", "high"}

ASSUME CounterAssumption ==
  /\ IsFiniteSet(Fellows) /\ Window \in Nat \ {0} /\ InitialBoost \in Nat \ {0}
  /\ LevelOf \in [Runs -> Levels]
  /\ \A n \in DOMAIN Decay : 0 < Decay[n] /\ Decay[n] <= n
  /\ \A n \in DOMAIN Boost : Boost[n] > 0
  /\ {MaxAdds, MaxRuns, MaxDays, MaxMarks} \subseteq Nat

VARIABLES
  daily,     \* the hash of each day, the last one first
  ranked,    \* the ZSET: the scores, 0 for who is not in it
  lock,      \* tiered-refresh:<level>: the run that holds it, if any
  run,       \* runRefresh
  mark,      \* dedup:<student>: whether it is set
  boost,     \* BoostScores
  adds, started, midnights, marks,   \* what is used up of the bounds
  orderly,   \* observation: no two runs were ever at work together, no score left the window
  boosted    \* observation: the boosts of each student since its mark was set

scoreVars == <<daily, ranked>>
countBounds == <<adds, started, midnights, marks>>
counterVars == <<scoreVars, lock, run, mark, boost, countBounds, orderly, boosted>>

-----------------------------------------------------------------------------
Zero == [s \in Fellows |-> 0]
Resting == [pc |-> "idle", stus |-> {}]
NoBoost == [pc |-> "idle", stu |-> {}, score |-> 0]

CounterTypeOK ==
  /\ daily \in [Fellows -> [1 .. Window -> Int]]
  /\ ranked \in [Fellows -> Nat]
  /\ lock \in [Levels -> SUBSET Runs]
  /\ run \in [Runs -> [pc : {"idle", "rebuild", "levels", "refresh"}, stus : SUBSET Fellows]]
  /\ mark \subseteq Fellows
  /\ boost \in [Boosters -> [pc : {"idle", "score", "write"}, stu : SUBSET Fellows, score : Nat]]
  /\ adds \in 0 .. MaxAdds /\ started \in 0 .. MaxRuns
  /\ midnights \in 0 .. MaxDays /\ marks \in 0 .. MaxMarks
  /\ orderly \in BOOLEAN /\ boosted \in [Fellows -> Nat]

CounterInit ==
  /\ daily = [s \in Fellows |-> [d \in 1 .. Window |-> 0]]
  /\ ranked = Zero /\ lock = [l \in Levels |-> {}]
  /\ run = [r \in Runs |-> Resting]
  /\ mark = {} /\ boost = [b \in Boosters |-> NoBoost]
  /\ adds = 0 /\ started = 0 /\ midnights = 0 /\ marks = 0
  /\ orderly = TRUE /\ boosted = Zero

Total(s) == FoldFunction(+, 0, daily[s])
Today(s, n) == daily' = [daily EXCEPT ![s][1] = @ + n]

-----------------------------------------------------------------------------
(* AddCounter *)
AddCounter(s) ==
  /\ adds < MaxAdds /\ adds' = adds + 1
  /\ Today(s, 1)
  /\ UNCHANGED <<ranked, lock, run, mark, boost, started, midnights, marks, orderly, boosted>>

(* A day ends: the hash of the day before the window no longer counts.     *)
(* What was taken later because of its scores stays taken.                 *)
NextDay ==
  /\ midnights < MaxDays /\ midnights' = midnights + 1
  /\ daily' = [s \in Fellows |-> [d \in 1 .. Window |-> IF d = 1 THEN 0 ELSE daily[s][d - 1]]]
  /\ orderly' = (orderly /\ \A s \in Fellows : daily[s][Window] <= 0)
  /\ UNCHANGED <<ranked, lock, run, mark, boost, adds, started, marks, boosted>>

-----------------------------------------------------------------------------
(* GetCounterLevels: with fewer than three students all are of the high    *)
(* level, otherwise the ranking is cut at a third and at two thirds.       *)
Ranked(scores) == {s \in Fellows : scores[s] > 0}
Below(scores, order, s) ==
  Cardinality({t \in Ranked(scores) : scores[t] < scores[s] \/ (scores[t] = scores[s] /\ order[t] < order[s])})

Cut(total, label) ==
  LET third == IF total < 3 THEN 0 ELSE total \div 3
  IN CASE label = "low"    -> 0 .. (third - 1)
       [] label = "middle" -> third .. (third * 2 - 1)
       [] label = "high"   -> (third * 2) .. (total - 1)

GetCounterLevels(scores, order, label) ==
  {s \in Ranked(scores) : Below(scores, order, s) \in Cut(Cardinality(Ranked(scores)), label)}

(* Equal scores are in the order of the student numbers. *)
Number == CHOOSE f \in [Fellows -> 1 .. Cardinality(Fellows)] : IsInjective(f)

-----------------------------------------------------------------------------
(* runRefresh: one try at the lock, which is freed at the end or expires   *)
(* while the run goes on.                                                  *)
To(r, pc) == run' = [run EXCEPT ![r].pc = pc]
Busy(r) == run[r].pc # "idle"

Tick(r) ==
  /\ ~Busy(r) /\ lock[LevelOf[r]] = {}
  /\ started < MaxRuns /\ started' = started + 1
  /\ lock' = [lock EXCEPT ![LevelOf[r]] = {r}]
  /\ To(r, "rebuild")
  /\ orderly' = (orderly /\ \A q \in Runs : ~Busy(q))
  /\ UNCHANGED <<scoreVars, mark, boost, adds, midnights, marks, boosted>>

LockExpires(l) ==
  /\ lock[l] # {}
  /\ lock' = [lock EXCEPT ![l] = {}]
  /\ UNCHANGED <<scoreVars, run, mark, boost, countBounds, orderly, boosted>>

RebuildCounter_NoDel(r) ==
  /\ run[r].pc = "rebuild"
  /\ ranked' = [s \in Fellows |-> IF Total(s) > 0 THEN Total(s) ELSE ranked[s]]
  /\ To(r, "levels")
  /\ UNCHANGED <<daily, lock, mark, boost, countBounds, orderly, boosted>>

(* RebuildCounter adds up the hashes of the window and replaces the        *)
(* ranking by the sums that are positive.                                  *)
RebuildCounter(r) ==
  /\ run[r].pc = "rebuild"
  /\ ranked' = [s \in Fellows |-> IF Total(s) > 0 THEN Total(s) ELSE 0]
  /\ To(r, "levels")
  /\ UNCHANGED <<daily, lock, mark, boost, countBounds, orderly, boosted>>

(* The students of the level are refreshed, at any length; all of them     *)
(* will pay.                                                               *)
Refresh(r) ==
  /\ run[r].pc = "levels"
  /\ run' = [run EXCEPT ![r].pc = "refresh", ![r].stus = GetCounterLevels(ranked, Number, LevelOf[r])]
  /\ UNCHANGED <<scoreVars, lock, mark, boost, countBounds, orderly, boosted>>

(* DecayCounter reads their scores of the ranking as it is by then, and    *)
(* takes the decay from today's counters.                                  *)
Unlock(r) == lock' = [lock EXCEPT ![LevelOf[r]] = @ \ {r}]

DecayCounter(r) ==
  /\ run[r].pc = "refresh"
  /\ daily' = [s \in Fellows |-> IF s \in run[r].stus /\ ranked[s] > 0
                                 THEN [daily[s] EXCEPT ![1] = @ - Decay[ranked[s]]] ELSE daily[s]]
  /\ run' = [run EXCEPT ![r] = Resting] /\ Unlock(r)
  /\ UNCHANGED <<ranked, mark, boost, countBounds, orderly, boosted>>

(* Without students, after an error or a crash the run ends earlier. *)
EndRun(r) ==
  /\ Busy(r)
  /\ run' = [run EXCEPT ![r] = Resting] /\ Unlock(r)
  /\ UNCHANGED <<scoreVars, mark, boost, countBounds, orderly, boosted>>

-----------------------------------------------------------------------------
(* BoostScores.  The mark is set first; who finds it set does nothing. *)
SetNX(b, s) ==
  /\ s \notin mark /\ marks < MaxMarks /\ marks' = marks + 1
  /\ mark' = mark \cup {s}
  /\ boosted' = [boosted EXCEPT ![s] = 0]

BoostScores(b) ==
  /\ boost[b].pc = "idle"
  /\ \E s \in Fellows :
       /\ SetNX(b, s)
       /\ boost' = [boost EXCEPT ![b] = [pc |-> "score", stu |-> {s}, score |-> 0]]
  /\ UNCHANGED <<scoreVars, lock, run, adds, started, midnights, orderly>>

ReadRank(b) ==
  /\ boost[b].pc = "score"
  /\ \E s \in boost[b].stu : boost' = [boost EXCEPT ![b].pc = "write", ![b].score = ranked[s]]
  /\ UNCHANGED <<scoreVars, lock, run, mark, countBounds, orderly, boosted>>

WriteBoost(b) ==
  /\ boost[b].pc = "write"
  /\ \E s \in boost[b].stu :
       /\ Today(s, IF boost[b].score = 0 THEN InitialBoost ELSE Boost[boost[b].score])
       /\ boosted' = [boosted EXCEPT ![s] = @ + 1]
  /\ boost' = [boost EXCEPT ![b] = NoBoost]
  /\ UNCHANGED <<ranked, lock, run, mark, countBounds, orderly>>

(* An error in between leaves the mark, the boost is lost. *)
BoostFails(b) ==
  /\ boost[b].pc # "idle"
  /\ boost' = [boost EXCEPT ![b] = NoBoost]
  /\ UNCHANGED <<scoreVars, lock, run, mark, countBounds, orderly, boosted>>

(* After an hour the mark expires, long after the call has ended. *)
MarkExpires(s) ==
  /\ s \in mark
  /\ \A b \in Boosters : s \notin boost[b].stu
  /\ mark' = mark \ {s}
  /\ UNCHANGED <<scoreVars, lock, run, boost, countBounds, orderly, boosted>>

-----------------------------------------------------------------------------
CounterNext ==
  \/ \E s \in Fellows : AddCounter(s) \/ MarkExpires(s)
  \/ NextDay
  \/ \E r \in Runs : Tick(r) \/ RebuildCounter(r) \/ Refresh(r) \/ DecayCounter(r) \/ EndRun(r)
  \/ \E l \in Levels : LockExpires(l)
  \/ \E b \in Boosters : BoostScores(b) \/ ReadRank(b) \/ WriteBoost(b) \/ BoostFails(b)

CounterSpec == CounterInit /\ [][CounterNext]_counterVars

-----------------------------------------------------------------------------
(* Properties *)

(* No student owes score as long as runs follow each other and no counted  *)
(* score leaves the window: what a run takes was counted before, also when *)
(* midnight falls between its ranking and its decay.  Runs of two levels,  *)
(* or one whose lock has expired and the next one, take the decay of one   *)
(* score twice, and a day that leaves the window takes its scores along,   *)
(* not their decay.  All variables keep their types.                       *)
NoDebt == CounterTypeOK /\ (orderly => \A s \in Fellows : Total(s) >= 0)

(* Every student in the ranking is of exactly one level. *)
LevelsPartition ==
  \A s \in Ranked(ranked) :
    Cardinality({l \in Levels : s \in GetCounterLevels(ranked, Number, l)}) = 1

(* However many fellow students get the same grade at the same time, one   *)
(* boost is given for each mark.                                           *)
BoostedOncePerMark == \A s \in Fellows : boosted[s] <= 1
=============================================================================
