---------------------------- MODULE ActivityDays ----------------------------
(* The daily activity records of the bff: the login middleware admits a    *)
(* request only after its student is registered for the day, a heartbeat   *)
(* moves the registered students into the day's set and certifies closed   *)
(* days, and the white list strategy "high_activity" selects from them.    *)
(* Each Redis script is one step.  Keys of a day expire together, after    *)
(* every heartbeat that reads them, and are not modelled to expire.        *)
EXTENDS Naturals, Sequences, FiniteSets

CONSTANTS Students,      \* students with a valid token
          Requests,      \* places for requests of the middleware
          Heartbeats,    \* processes of the bff that run EnsureDay
          FlushBatch,    \* how many intents one flush moves (512)
          RetentionDays, \* how many days EnsureDay looks at
          WindowDays,    \* the days a selection looks at
          MinActiveDays, \* on how many of them a student was active
          MaxDay,        \* bound: days 0 .. MaxDay
          MaxLosses      \* bound: keys or members Redis loses of one day

ASSUME ActivityAssumption ==
  /\ IsFiniteSet(Students)
  /\ FlushBatch \in Nat \ {0} /\ RetentionDays \in Nat \ {0}
  /\ WindowDays \in Nat \ {0} /\ MinActiveDays \in 1 .. WindowDays
  /\ MaxDay \in Nat /\ MaxLosses \in Nat

VARIABLES
  today,      \* the day in China
  startedAt,  \* activity:daily:v2:started_at, as a day; NoDay when not set
  days,       \* the keys of each day
  recorded,   \* history: the students registered for each day
  losses,     \* history: what Redis lost of each day
  requests,   \* requests in the middleware
  heartbeats, \* running EnsureDay
  selection   \* the running or last selection of the white list

activityVars == <<today, startedAt, days, recorded, losses, requests, heartbeats,
                  selection>>

Days == 0 .. MaxDay
NoDay == MaxDay + 1     \* later than any day: no window starts after it
None == [set |-> FALSE, n |-> 0]

\* members: the set, with the empty ID in it when it exists; count: the number
\* of admitted students; complete: the number that was certified.
NoKeys == [exists |-> FALSE, members |-> {}, pending |-> {}, count |-> None,
           complete |-> None]

NoAsk == [student |-> {}, day |-> 0]
NoBeat == [pc |-> "idle", now |-> 0, back |-> 0]
NoSelection == [pc |-> "idle", start |-> 0, seen |-> 0, reads |-> <<>>]

ActivityInit ==
  /\ today = 0
  /\ startedAt = NoDay
  /\ days = [d \in Days |-> NoKeys]
  /\ recorded = [d \in Days |-> {}]
  /\ losses = [d \in Days |-> 0]
  /\ requests = [r \in Requests |-> NoAsk]
  /\ heartbeats = [h \in Heartbeats |-> NoBeat]
  /\ selection = NoSelection

----------------------------------------------------------------------------
(* The scripts. *)

Intact(k) ==
  /\ k.exists
  /\ Cardinality(k.members) + Cardinality(k.pending) = k.count.n

Fresh(k) == ~k.exists /\ k.pending = {}

Recordable_Closed(k) == IF k.count.set THEN Intact(k) ELSE Fresh(k)

\* recordScript lets the student in: the day is open and nothing was lost.
Recordable(k) ==
  /\ ~k.complete.set
  /\ IF k.count.set THEN Intact(k) ELSE Fresh(k)

\* ss is the student, or nobody when a heartbeat only opens the day.
WithRecord(k, ss) ==
  LET new == ss \ (k.members \cup k.pending)
  IN [k EXCEPT !.exists = TRUE,
               !.pending = @ \cup new,
               !.count = [set |-> TRUE, n |-> k.count.n + Cardinality(new)]]

Recorded(d, ss) ==
  /\ startedAt' = IF startedAt = NoDay THEN d ELSE startedAt
  /\ days' = [days EXCEPT ![d] = WithRecord(@, ss)]
  /\ recorded' = [recorded EXCEPT ![d] = @ \cup ss]

\* flushScript: an error, a day nobody opened, or a batch and perhaps the seal.
Flushable(k) == k.count.set /\ Intact(k)

FlushedBy(k, batch, closed) ==
  LET left == k.pending \ batch
  IN [k EXCEPT !.members = @ \cup batch, !.pending = left,
               !.complete = IF left = {} /\ closed THEN k.count ELSE @]

Batches(k) ==
  {b \in SUBSET k.pending :
     Cardinality(b) = IF Cardinality(k.pending) < FlushBatch
                      THEN Cardinality(k.pending) ELSE FlushBatch}

\* ReadDay answers the members, or nothing when the day is not all there.
Readable(k) == k.complete.set /\ k.exists /\ Cardinality(k.members) = k.complete.n

----------------------------------------------------------------------------
(* The middleware.  The time is read before the script runs. *)

AskIn(r, s) ==
  /\ requests[r] = NoAsk
  /\ requests' = [requests EXCEPT ![r] = [student |-> {s}, day |-> today]]
  /\ UNCHANGED <<today, startedAt, days, recorded, losses, heartbeats, selection>>

\* The request goes on to its handler, or its answer from Redis was lost and
\* the student is registered all the same.
Admit(r) ==
  LET q == requests[r]
  IN /\ q # NoAsk
     /\ Recordable(days[q.day])
     /\ Recorded(q.day, q.student)
     /\ requests' = [requests EXCEPT ![r] = NoAsk]
     /\ UNCHANGED <<today, losses, heartbeats, selection>>

\* The day is closed, its keys are damaged or Redis is down: 503.
Refuse(r) ==
  /\ requests[r] # NoAsk
  /\ requests' = [requests EXCEPT ![r] = NoAsk]
  /\ UNCHANGED <<today, startedAt, days, recorded, losses, heartbeats, selection>>

----------------------------------------------------------------------------
(* EnsureDay. *)

BeatGoes(h, b) == heartbeats' = [heartbeats EXCEPT ![h] = b]

StartBeat(h) ==
  /\ heartbeats[h].pc = "idle"
  /\ BeatGoes(h, [pc |-> "open", now |-> today, back |-> 0])
  /\ UNCHANGED <<today, startedAt, days, recorded, losses, requests, selection>>

OpenDay(h) ==
  LET b == heartbeats[h]
  IN /\ b.pc = "open"
     /\ Recordable(days[b.now])
     /\ Recorded(b.now, {})
     /\ BeatGoes(h, [b EXCEPT !.pc = "flush"])
     /\ UNCHANGED <<today, losses, requests, selection>>

OpenFails(h) ==
  LET b == heartbeats[h]
  IN /\ b.pc = "open"
     /\ ~Recordable(days[b.now])
     /\ BeatGoes(h, NoBeat)
     /\ UNCHANGED <<today, startedAt, days, recorded, losses, requests, selection>>

\* Redis fails, or the three seconds of the heartbeat are over.
BeatEnds(h) ==
  /\ heartbeats[h].pc # "idle"
  /\ BeatGoes(h, NoBeat)
  /\ UNCHANGED <<today, startedAt, days, recorded, losses, requests, selection>>

\* On to the day before, as far as the days are kept.
Earlier(b) ==
  IF b.back + 1 < RetentionDays /\ b.back < b.now THEN [b EXCEPT !.back = @ + 1]
                                                  ELSE NoBeat

FlushDay(h) ==
  LET b == heartbeats[h]
      d == b.now - b.back
  IN /\ b.pc = "flush"
     /\ \/ /\ Flushable(days[d])
           /\ \E batch \in Batches(days[d]) :
                /\ days' = [days EXCEPT ![d] = FlushedBy(@, batch, b.back > 0)]
                /\ BeatGoes(h, IF days'[d].pending = {} THEN Earlier(b) ELSE b)
        \/ /\ ~Flushable(days[d])
           /\ BeatGoes(h, Earlier(b))
           /\ UNCHANGED days
     /\ UNCHANGED <<today, startedAt, recorded, losses, requests, selection>>

----------------------------------------------------------------------------
(* WhiteListService: activeUsers over the days before today. *)

WindowFrom(start) == start .. (start + WindowDays - 1)

StartSelection_FirstDay ==
  LET start == today - WindowDays
  IN /\ selection.pc # "read"
     /\ today >= WindowDays
     /\ startedAt <= start
     /\ \A d \in WindowFrom(start) : Readable(days[d])
     /\ selection' = [pc |-> "read", start |-> start, seen |-> 0, reads |-> <<>>]
     /\ UNCHANGED <<today, startedAt, days, recorded, losses, requests, heartbeats>>

\* CheckWindow; when it refuses, the strategy answers an error.
StartSelection ==
  LET start == today - WindowDays
  IN /\ selection.pc # "read"
     /\ today >= WindowDays
     /\ startedAt < start
     /\ \A d \in WindowFrom(start) : Readable(days[d])
     /\ selection' = [pc |-> "read", start |-> start, seen |-> 0, reads |-> <<>>]
     /\ UNCHANGED <<today, startedAt, days, recorded, losses, requests, heartbeats>>

\* ReadDay of the next day; a day that got lost since ends the selection.
SelectDay ==
  LET d == selection.start + selection.seen
      last == selection.seen + 1 = WindowDays
      chosen == [selection EXCEPT !.seen = @ + 1,
                                  !.reads = Append(@, days[d].members),
                                  !.pc = IF last THEN "done" ELSE "read"]
  IN /\ selection.pc = "read"
     /\ selection' = IF Readable(days[d]) THEN chosen ELSE NoSelection
     /\ UNCHANGED <<today, startedAt, days, recorded, losses, requests, heartbeats>>

\* The users who are put on the list.
ActiveUsers(reads) ==
  {s \in Students : Cardinality({i \in DOMAIN reads : s \in reads[i]}) >= MinActiveDays}

----------------------------------------------------------------------------
(* The calendar and the failures of Redis. *)

Midnight ==
  /\ today < MaxDay
  /\ today' = today + 1
  /\ UNCHANGED <<startedAt, days, recorded, losses, requests, heartbeats, selection>>

Lost(d, k) ==
  /\ losses[d] < MaxLosses
  /\ days[d] # k
  /\ losses' = [losses EXCEPT ![d] = @ + 1]
  /\ days' = [days EXCEPT ![d] = k]
  /\ UNCHANGED <<today, startedAt, recorded, requests, heartbeats, selection>>

\* Redis loses a key of a day other than its certificate, or a member of a set.
LoseKey(d) ==
  \/ Lost(d, [days[d] EXCEPT !.exists = FALSE, !.members = {}])
  \/ Lost(d, [days[d] EXCEPT !.pending = {}])
  \/ Lost(d, [days[d] EXCEPT !.count = None])
  \/ \E s \in Students : Lost(d, [days[d] EXCEPT !.members = @ \ {s}])
  \/ \E s \in Students : Lost(d, [days[d] EXCEPT !.pending = @ \ {s}])

\* The certificate is lost, and the next heartbeat certifies the day again.
\* Until then the day is open: a request that still carries it would be let in
\* after a selection may have read the day; it is not under way here.
LoseCertificate(d) ==
  /\ \A r \in Requests : requests[r] = NoAsk \/ requests[r].day > d
  /\ \A h \in Heartbeats : heartbeats[h].pc = "idle" \/ heartbeats[h].now > d
  /\ Lost(d, [days[d] EXCEPT !.complete = None])

\* Redis comes back empty.  A request or heartbeat that still carries the day
\* before would date the new collection too early; it is not under way here.
LoseAll ==
  /\ \A d \in Days : losses[d] < MaxLosses
  /\ \A r \in Requests : requests[r] = NoAsk \/ requests[r].day = today
  /\ \A h \in Heartbeats : heartbeats[h].pc = "idle" \/ heartbeats[h].now = today
  /\ startedAt' = NoDay
  /\ days' = [d \in Days |-> NoKeys]
  /\ losses' = [d \in Days |-> losses[d] + 1]
  /\ UNCHANGED <<today, recorded, requests, heartbeats, selection>>

----------------------------------------------------------------------------
BeatStep(h) == StartBeat(h) \/ OpenDay(h) \/ OpenFails(h) \/ FlushDay(h)

ActivityNext ==
  \/ Midnight \/ LoseAll \/ StartSelection \/ SelectDay
  \/ \E r \in Requests : Admit(r) \/ Refuse(r) \/ \E s \in Students : AskIn(r, s)
  \/ \E h \in Heartbeats : BeatStep(h) \/ BeatEnds(h)
  \/ \E d \in Days : LoseKey(d) \/ LoseCertificate(d)

ActivitySpec == ActivityInit /\ [][ActivityNext]_activityVars
----------------------------------------------------------------------------
\* The types of the keys and of the handlers.
ActivityTypeOK ==
  /\ today \in Days /\ startedAt \in 0 .. NoDay
  /\ \A d \in Days :
       LET k == days[d]
       IN /\ k.exists \in BOOLEAN
          /\ k.members \subseteq Students /\ k.pending \subseteq Students
          /\ k.members \cap k.pending = {}
          /\ k.count.n \in Nat /\ k.complete.n \in Nat
  /\ recorded \in [Days -> SUBSET Students]
  /\ \A r \in Requests : requests[r].student \subseteq Students /\ requests[r].day <= today
  /\ \A h \in Heartbeats : heartbeats[h].back <= heartbeats[h].now
  /\ selection.seen = Len(selection.reads)

\* A day that reads as complete, and that the collection has covered from its
\* beginning, holds exactly the students who were admitted on it, whichever
\* key or member of it Redis lost in between (daily.go:142-159, whitelist.go:131).
\* The keys keep their types, and what a batch takes is no longer pending.
CertifiedIsExact ==
  /\ ActivityTypeOK
  /\ \A d \in Days : Readable(days[d]) /\ startedAt < d => days[d].members = recorded[d]

\* The selected users are those who were admitted on enough of the days of
\* the window, although its days are read one by one (whitelist.go:126-165).
SelectionIsExact ==
  selection.pc = "done" =>
    ActiveUsers(selection.reads)
      = {s \in Students :
           Cardinality({d \in WindowFrom(selection.start) : s \in recorded[d]})
             >= MinActiveDays}
=============================================================================
