----------------------------- MODULE ClassRefresh -----------------------------
(* be-classlist: refreshing the timetable of one student and semester.     *)
(* GetClasses answers from the tables, waits for a refresh somebody else   *)
(* has begun or begins one itself; the requests of a process share one     *)
(* crawl.  A refresh writes a log row: pending, then ready or failed.  A   *)
(* failure worth retrying puts a message on a delay topic, from where it   *)
(* is forwarded to the consumers; each attempt may publish the next.       *)
EXTENDS Integers, FiniteSets

CONSTANTS
  Procs,
  Callers, Home,             \* requests, and the process that serves each
  LogIds,                    \* bound: ids of rows; one nobody refers to any more is reused
  MaxRefreshRetryAttempts,
  MaxCopies,                 \* bound: copies of a message told apart
  MaxCalls,                  \* bound: requests
  MaxOutages                 \* bound: crashes, rebalances, lost or duplicated messages

ASSUME ClassRefreshAssumption ==
  /\ IsFiniteSet(Procs) /\ Home \in [Callers -> Procs]
  /\ MaxRefreshRetryAttempts \in Nat \ {0} /\ MaxCopies \in Nat \ {0}
  /\ MaxCalls \in Nat /\ MaxOutages \in Nat
  /\ LogIds \subseteq Nat \ {0}

VARIABLES
  refreshLog,  \* class_refresh_log: the status of a row
  newest,      \* the row updated last
  recent,      \* whether that was less than refreshInterval ago
  stored,      \* observation: the rows whose crawl is saved, without a known conflict left
  call,        \* GetClasses of each caller
  flight,      \* sfGroup: the crawl of each process and attempt
  delayed,     \* messages on the delay topic, by attempt
  due,         \* messages on the real topic that are not acknowledged
  handler,     \* the message a process handles
  calls, outages

logVars == <<refreshLog, newest, recent, stored>>
queueVars == <<delayed, due, handler>>
refreshVars == <<logVars, call, flight, queueVars, calls, outages>>

-----------------------------------------------------------------------------
NoLog == 0
Attempts == 0 .. MaxRefreshRetryAttempts
Messages == Attempts \ {0}

NoCall == [pc |-> "idle", fetch |-> FALSE, log |-> NoLog]
NoFlight == [pc |-> "none", log |-> NoLog, retryable |-> FALSE]
NoMessage == [n |-> 0, joined |-> FALSE]

RefreshTypeOK ==
  /\ refreshLog \in [LogIds -> {"none", "pending", "ready", "failed"}]
  /\ newest \in LogIds \cup {NoLog} /\ recent \in BOOLEAN
  /\ stored \subseteq LogIds
  /\ call \in [Callers -> [pc : {"idle", "decide", "wait", "crawl", "join"}, fetch : BOOLEAN,
                           log : LogIds \cup {NoLog}]]
  /\ flight \in [Procs -> [Attempts -> [pc : {"none", "insert", "crawl", "save", "merge", "ready",
                                              "failed", "publish"},
                                        log : LogIds \cup {NoLog}, retryable : BOOLEAN]]]
  /\ delayed \in [Messages -> 0 .. MaxCopies] /\ due \in [Messages -> 0 .. MaxCopies]
  /\ handler \in [Procs -> [n : Attempts, joined : BOOLEAN]]
  /\ calls \in 0 .. MaxCalls /\ outages \in 0 .. MaxOutages

RefreshInit ==
  /\ refreshLog = [l \in LogIds |-> "none"] /\ newest = NoLog /\ recent = FALSE
  /\ stored = {}
  /\ call = [c \in Callers |-> NoCall]
  /\ flight = [p \in Procs |-> [n \in Attempts |-> NoFlight]]
  /\ delayed = [n \in Messages |-> 0] /\ due = [n \in Messages |-> 0]
  /\ handler = [p \in Procs |-> NoMessage]
  /\ calls = 0 /\ outages = 0

-----------------------------------------------------------------------------
(* Rows that a flight, a waiting request or the newest row stand for; the  *)
(* others are never read again.                                            *)
Referred(new, calls_, flights) ==
  {new} \cup {calls_[c].log : c \in Callers}
        \cup {flights[p][n].log : p \in Procs, n \in Attempts}

(* The id of the next row: the first that nobody refers to. *)
FreshLogs == LET free == LogIds \ Referred(newest, call, flight)
             IN {l \in free : \A k \in free : l <= k}

Write(log, save) ==
  LET kept == Referred(newest', call', flight')
  IN /\ refreshLog' = [l \in LogIds |-> IF l \in kept THEN log[l] ELSE "none"]
     /\ stored' = save \cap kept

Update(l, status) ==
  /\ newest' = l /\ recent' = TRUE
  /\ Write([refreshLog EXCEPT ![l] = status], stored)

LogsStay == UNCHANGED <<newest, recent>> /\ Write(refreshLog, stored)

Outage == outages < MaxOutages /\ outages' = outages + 1

More(k) == IF k < MaxCopies THEN k + 1 ELSE k

-----------------------------------------------------------------------------
(* GetClasses *)

(* loadLocal.  A request that wants no refresh and finds classes is         *)
(* answered; one that wants a refresh, or finds none, is to fetch.         *)
GetClasses(c) ==
  /\ call[c].pc = "idle" /\ calls < MaxCalls
  /\ \E fetch \in BOOLEAN : call' = [call EXCEPT ![c] = [NoCall EXCEPT !.pc = "decide", !.fetch = fetch]]
  /\ calls' = calls + 1
  /\ UNCHANGED <<logVars, flight, queueVars, outages>>

Answer(c) == call' = [call EXCEPT ![c] = NoCall] /\ UNCHANGED flight /\ LogsStay
GoCrawl(c) ==
  call' = [call EXCEPT ![c] = [NoCall EXCEPT !.pc = "crawl"]] /\ UNCHANGED flight /\ LogsStay

(* decideRefreshAction.  Without a row, after refreshInterval, after a     *)
(* failure, or when the row cannot be read, the request crawls.            *)
Recent(status) == newest # NoLog /\ recent /\ refreshLog[newest] = status

DecideRefreshAction(c) ==
  /\ call[c].pc = "decide"
  /\ \/ /\ ~call[c].fetch \/ Recent("ready")
        /\ Answer(c) /\ UNCHANGED outages
     \/ /\ call[c].fetch
        /\ Recent("pending")
        /\ call' = [call EXCEPT ![c] = [NoCall EXCEPT !.pc = "wait", !.log = newest]]
        /\ UNCHANGED <<logVars, flight, outages>>
     \/ /\ call[c].fetch
        /\ (~Recent("pending") /\ ~Recent("ready") /\ UNCHANGED outages) \/ Outage
        /\ GoCrawl(c)
  /\ UNCHANGED <<queueVars, calls>>

(* waitPending sees the end of the refresh: the tables are read again, or  *)
(* after a failure within a second the request crawls itself.              *)
Polled(c) ==
  /\ call[c].pc = "wait"
  /\ \/ /\ refreshLog[call[c].log] # "pending" /\ UNCHANGED outages
        /\ \/ Answer(c)
           \/ refreshLog[call[c].log] = "failed" /\ GoCrawl(c)
     \/ Outage /\ (Answer(c) \/ GoCrawl(c))
  /\ UNCHANGED <<queueVars, calls>>

WaitTimeout_Never(c) ==
  /\ call[c].pc = "wait" /\ refreshLog[call[c].log] # "pending"
  /\ Answer(c)
  /\ UNCHANGED <<queueVars, calls, outages>>

(* The wait is over after half of waitCrawTime, which is over a second.    *)
WaitTimeout(c) ==
  /\ call[c].pc = "wait"
  /\ Answer(c)
  /\ UNCHANGED <<queueVars, calls, outages>>

(* The caller goes away, or a query fails; what it began goes on.          *)
Leave(c) ==
  /\ call[c].pc # "idle"
  /\ Answer(c)
  /\ UNCHANGED <<queueVars, calls, outages>>

-----------------------------------------------------------------------------
(* sfGroup.DoChan: a crawl of the same attempt that runs in this process   *)
(* is joined, another one is begun.                                        *)
Joined(p, n) == IF flight[p][n].pc = "none" THEN [NoFlight EXCEPT !.pc = "insert"] ELSE flight[p][n]
DoChan(p, n) == flight' = [flight EXCEPT ![p][n] = Joined(p, n)]

DoCrawl(c) ==
  /\ call[c].pc = "crawl"
  /\ call' = [call EXCEPT ![c].pc = "join"]
  /\ DoChan(Home[c], 0)
  /\ UNCHANGED <<logVars, queueVars, calls, outages>>

Goes(p, n, pc) == flight' = [flight EXCEPT ![p][n].pc = pc]
Fails(p, n, pc) == \E r \in BOOLEAN : flight' = [flight EXCEPT ![p][n].pc = pc, ![p][n].retryable = r]

(* crawMergedClass: the pending row, *)
InsertRefreshLog(p, n) ==
  /\ flight[p][n].pc = "insert"
  /\ \/ \E l \in FreshLogs :
          /\ flight' = [flight EXCEPT ![p][n].pc = "crawl", ![p][n].log = l]
          /\ UNCHANGED call /\ Update(l, "pending")
     \/ Fails(p, n, "publish") /\ UNCHANGED <<logVars, call>>
  /\ UNCHANGED <<queueVars, calls, outages>>

(* the classes of the school system, *)
GetCourseFromCrawler(p, n) ==
  /\ flight[p][n].pc = "crawl"
  /\ (Goes(p, n, "save") \/ Fails(p, n, "failed"))
  /\ UNCHANGED <<logVars, call, queueVars, calls, outages>>

(* their transaction, *)
SaveSnapshot(p, n) ==
  /\ flight[p][n].pc = "save"
  /\ \/ Goes(p, n, "merge") /\ stored' = stored \cup {flight[p][n].log}
     \/ Fails(p, n, "failed") /\ UNCHANGED stored
  /\ UNCHANGED <<refreshLog, newest, recent, call, queueVars, calls, outages>>

(* Mutation of DeleteConflicting: a failing deletion is only logged. *)
DeleteConflicting_Logged(p, n) ==
  /\ flight[p][n].pc = "merge"
  /\ Goes(p, n, "ready")
  /\ UNCHANGED stored \/ stored' = stored \ {flight[p][n].log}
  /\ UNCHANGED <<refreshLog, newest, recent, call, queueVars, calls, outages>>

(* the deletion of added classes that meet official ones.  When the added  *)
(* classes cannot be read, that is only logged: no conflict is known, and  *)
(* the row becomes ready all the same.  A deletion that fails leaves one.  *)
DeleteConflicting(p, n) ==
  /\ flight[p][n].pc = "merge"
  /\ \/ Goes(p, n, "ready") /\ UNCHANGED stored
     \/ Fails(p, n, "failed") /\ stored' = stored \ {flight[p][n].log}
  /\ UNCHANGED <<refreshLog, newest, recent, call, queueVars, calls, outages>>

EndFlight_Acknowledge(p, n, handoff) ==
  LET waiting == handler[p].n = n /\ handler[p].joined
  IN /\ flight' = [flight EXCEPT ![p][n] = NoFlight]
     /\ call' = [c \in Callers |->
          IF n = 0 /\ Home[c] = p /\ call[c].pc = "join" THEN NoCall ELSE call[c]]
     /\ handler' = IF waiting THEN [handler EXCEPT ![p] = NoMessage] ELSE handler
     /\ due' = IF waiting THEN [due EXCEPT ![n] = @ - 1] ELSE due

(* The end of a flight answers the requests that joined it.  A message is  *)
(* acknowledged unless the next one could not be published.                *)
EndFlight(p, n, handoff) ==
  LET waiting == handler[p].n = n /\ handler[p].joined
  IN /\ flight' = [flight EXCEPT ![p][n] = NoFlight]
     /\ call' = [c \in Callers |->
          IF n = 0 /\ Home[c] = p /\ call[c].pc = "join" THEN NoCall ELSE call[c]]
     /\ handler' = IF ~waiting THEN handler
                   ELSE [handler EXCEPT ![p] = IF handoff THEN [@ EXCEPT !.joined = FALSE] ELSE NoMessage]
     /\ due' = IF waiting /\ ~handoff THEN [due EXCEPT ![n] = @ - 1] ELSE due

(* and the status, ready or failed; the update may fail, or fail after it  *)
(* was applied, and the row stays pending or not.                          *)
UpdateOrNot(l, status) == Update(l, status) \/ LogsStay

MarkReady(p, n) ==
  /\ flight[p][n].pc = "ready"
  /\ \/ EndFlight(p, n, FALSE) /\ Update(flight[p][n].log, "ready")
     \/ /\ Fails(p, n, "publish") /\ UNCHANGED <<call, due, handler>>
        /\ UpdateOrNot(flight[p][n].log, "ready")
  /\ UNCHANGED <<delayed, calls, outages>>

MarkFailed(p, n) ==
  /\ flight[p][n].pc = "failed"
  /\ \/ Goes(p, n, "publish") /\ UNCHANGED call /\ Update(flight[p][n].log, "failed")
     \/ /\ \E r \in {flight[p][n].retryable, TRUE} :
             flight' = [flight EXCEPT ![p][n].pc = "publish", ![p][n].retryable = r]
        /\ UNCHANGED call
        /\ UpdateOrNot(flight[p][n].log, "failed")
  /\ UNCHANGED <<queueVars, calls, outages>>

(* coordinateRefreshRetry: the next attempt is published, without an       *)
(* answer it may be on the topic or not.                                   *)
Send(n) == delayed' = [delayed EXCEPT ![n] = More(@)]

CoordinateRefreshRetry(p, n) ==
  /\ flight[p][n].pc = "publish"
  /\ \/ /\ ~flight[p][n].retryable \/ n = MaxRefreshRetryAttempts
        /\ EndFlight(p, n, FALSE) /\ UNCHANGED <<delayed, outages>>
     \/ /\ flight[p][n].retryable /\ n < MaxRefreshRetryAttempts
        /\ \/ Send(n + 1) /\ EndFlight(p, n, FALSE) /\ UNCHANGED outages
           \/ (Send(n + 1) \/ UNCHANGED delayed) /\ EndFlight(p, n, TRUE) /\ Outage
  /\ LogsStay
  /\ UNCHANGED calls

Crawl(p, n) ==
  InsertRefreshLog(p, n) \/ GetCourseFromCrawler(p, n) \/ SaveSnapshot(p, n) \/ DeleteConflicting(p, n)
    \/ MarkReady(p, n) \/ MarkFailed(p, n) \/ CoordinateRefreshRetry(p, n)

-----------------------------------------------------------------------------
(* The delay topic and the consumers *)

(* A message that is due is forwarded, and again if its offset was not     *)
(* committed.                                                              *)
Forward(n) ==
  /\ delayed[n] > 0
  /\ due' = [due EXCEPT ![n] = More(@)]
  /\ \/ delayed' = [delayed EXCEPT ![n] = @ - 1] /\ UNCHANGED outages
     \/ UNCHANGED delayed /\ Outage
  /\ UNCHANGED <<logVars, call, flight, handler, calls>>

(* One that is late by twenty delays, or that the broker refuses for good, *)
(* is dropped.                                                             *)
DropDelayed(n) ==
  /\ delayed[n] > 0 /\ Outage
  /\ delayed' = [delayed EXCEPT ![n] = @ - 1]
  /\ UNCHANGED <<logVars, call, flight, due, handler, calls>>

(* handleRetryMessage: the message's attempt is crawled.                   *)
HandleRetryMessage(p, n) ==
  /\ handler[p] = NoMessage
  /\ due[n] > Cardinality({q \in Procs : handler[q].n = n})
  /\ handler' = [handler EXCEPT ![p] = [n |-> n, joined |-> TRUE]]
  /\ DoChan(p, n)
  /\ UNCHANGED <<logVars, call, delayed, due, calls, outages>>

(* After the backoff the message that was kept is handled again.           *)
HandleAgain(p) ==
  /\ handler[p].n # 0 /\ ~handler[p].joined
  /\ handler' = [handler EXCEPT ![p].joined = TRUE]
  /\ DoChan(p, handler[p].n)
  /\ UNCHANGED <<logVars, call, delayed, due, calls, outages>>

(* A session ends: the message will be delivered again, its crawl goes on. *)
EndSession(p) ==
  /\ handler[p] # NoMessage /\ Outage
  /\ handler' = [handler EXCEPT ![p] = NoMessage]
  /\ UNCHANGED <<logVars, call, flight, delayed, due, calls>>

(* A process dies.  The rows of its crawls stay pending. *)
Die(p) ==
  /\ Outage
  /\ handler' = [handler EXCEPT ![p] = NoMessage]
  /\ flight' = [flight EXCEPT ![p] = [n \in Attempts |-> NoFlight]]
  /\ call' = [c \in Callers |-> IF Home[c] = p THEN NoCall ELSE call[c]]
  /\ LogsStay
  /\ UNCHANGED <<delayed, due, calls>>

IntervalElapses ==
  /\ recent /\ recent' = FALSE
  /\ UNCHANGED <<refreshLog, newest, stored, call, flight, queueVars, calls, outages>>

-----------------------------------------------------------------------------
Caller(c) == DecideRefreshAction(c) \/ Polled(c) \/ WaitTimeout(c) \/ DoCrawl(c)

RefreshNext ==
  \/ \E c \in Callers : GetClasses(c) \/ Caller(c) \/ Leave(c)
  \/ \E p \in Procs, n \in Attempts : Crawl(p, n)
  \/ \E n \in Messages : Forward(n) \/ DropDelayed(n)
  \/ \E p \in Procs : HandleAgain(p) \/ EndSession(p) \/ Die(p)
  \/ \E p \in Procs, n \in Messages : HandleRetryMessage(p, n)
  \/ IntervalElapses

RefreshSpec == RefreshInit /\ [][RefreshNext]_refreshVars

(* As long as requests, crawls, the forwarder or the consumers can go on,  *)
(* one of them does.                                                       *)
RefreshWork ==
  \/ \E c \in Callers : Caller(c)
  \/ \E p \in Procs, n \in Attempts : Crawl(p, n)
  \/ \E n \in Messages : Forward(n)
  \/ \E p \in Procs : HandleAgain(p) \/ \E n \in Messages : HandleRetryMessage(p, n)

RefreshFairness == WF_refreshVars(RefreshWork)

RefreshFairSpec == RefreshSpec /\ RefreshFairness

-----------------------------------------------------------------------------
(* Properties *)

(* A row is ready only when the classes crawled after it was inserted are  *)
(* saved, and no added class that was found to meet them is left: whoever  *)
(* stops waiting on the row, or finds it recent, may use the tables.  Added *)
(* classes that could not be read may still meet official ones.            *)
ReadyMeansStored == \A l \in LogIds : refreshLog[l] = "ready" => l \in stored

(* No retry is forgotten.  A message is acknowledged only when its refresh *)
(* succeeded, failed for good, was the last one, or when the message of    *)
(* the next attempt is on the topic; requests and messages that join the   *)
(* same crawl do not lose it or begin the count again.                     *)
NoRetryForgotten ==
  [][\A n \in Messages : due'[n] < due[n] =>
       \/ n = MaxRefreshRetryAttempts
       \/ delayed'[n + 1] > 0
       \/ \E p \in Procs : \/ flight[p][n].pc = "publish" /\ ~flight[p][n].retryable
                           \/ flight[p][n].pc = "ready" /\ newest' = flight[p][n].log
                                /\ refreshLog'[newest'] = "ready"]_refreshVars

(* Every request is answered, also when it waits on a row whose process    *)
(* has died.                                                               *)
RequestsAnswered == \A c \in Callers : call[c].pc # "idle" ~> call[c].pc = "idle"

=============================================================================
