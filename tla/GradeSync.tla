------------------------------ MODULE GradeSync ------------------------------
(* be-grade: the grades of one student.  Requests and the tiered refresh   *)
(* fetch all grades from the school system, at most one fetch at a time in *)
(* a process, and bring the table up to date; what changed is told to the  *)
(* tiered refresh, which has it pushed.  The details of a grade come from  *)
(* another page: a fetch that finds grades without them publishes a        *)
(* message, whose consumer writes them into the rows it finds unchanged.   *)
EXTENDS Integers, FiniteSets

CONSTANTS
  Courses,
  Hosts,      \* processes
  Workers,    \* consumers of the detail topic
  MaxScore,   \* bound: scores a course gets, one after the other
  MaxErrors   \* bound: failures, crashes and lost answers

ASSUME GradeSyncAssumption == MaxScore \in Nat /\ MaxErrors \in Nat

VARIABLES
  school,   \* the score of each course at the school, 0 if it has none
  shown,    \* the courses whose page at the school shows details of that score
  row,      \* the table: score, score the details belong to, change_version
  fetch,    \* sf: the fetch that runs in each process
  details,  \* the detail topic: the messages that are not acknowledged
  worker,   \* UpdateDetailScore
  pushed,   \* observation: the changes whose message was published
  errors,
  alone     \* observation: no two processes ever fetched at the same time

gradeTable == <<school, shown, row>>
gradeVars == <<gradeTable, fetch, details, worker, pushed, errors, alone>>

-----------------------------------------------------------------------------
Score == 0 .. MaxScore
Row == [cj : Score, det : Score, ver : Nat]   \* det = 0: the placeholder
Change == [cou : Courses, cj : Score, ver : Nat]

NoGrade == [cj |-> 0, det |-> 0, ver |-> 0]
NoFetch == [pc |-> "none", told |-> FALSE, remote |-> [c \in Courses |-> 0], update |-> {}]
NoWork == [pc |-> "idle", msg |-> {}, read |-> [c \in Courses |-> 0], todo |-> {},
           cou |-> {}, detail |-> 0, failed |-> "no"]

GradeTypeOK ==
  /\ school \in [Courses -> Score] /\ shown \subseteq {c \in Courses : school[c] > 0}
  /\ row \in [Courses -> Row]
  /\ \A c \in Courses : (row[c].ver > 0) <=> (row[c].cj > 0)
  /\ fetch \in [Hosts -> [pc : {"none", "crawl", "sync", "send"}, told : BOOLEAN,
                          remote : [Courses -> Score], update : SUBSET Change]]
  /\ details \subseteq SUBSET Courses
  /\ worker \in [Workers -> [pc : {"idle", "fetch", "save"}, msg : SUBSET Courses, read : [Courses -> Nat],
                             todo : SUBSET Courses, cou : SUBSET Courses, detail : Score,
                             failed : {"no", "permanent", "retryable"}]]
  /\ pushed \subseteq Change
  /\ errors \in 0 .. MaxErrors /\ alone \in BOOLEAN

GradeInit ==
  /\ school = [c \in Courses |-> 0] /\ shown = {} /\ row = [c \in Courses |-> NoGrade]
  /\ fetch = [h \in Hosts |-> NoFetch]
  /\ details = {} /\ worker = [w \in Workers |-> NoWork]
  /\ pushed = {} /\ errors = 0 /\ alone = TRUE

Err == errors < MaxErrors /\ errors' = errors + 1

-----------------------------------------------------------------------------
(* fetchGradesWithSingleFlight *)

(* sf.Do: a fetch that runs is joined. *)
Do(h, tick) ==
  /\ fetch' = [fetch EXCEPT ![h] = IF @.pc = "none" THEN [NoFetch EXCEPT !.pc = "crawl", !.told = tick]
                                                   ELSE [fetch[h] EXCEPT !.told = @ \/ tick]]
  /\ alone' = (alone /\ \A i \in Hosts \ {h} : fetch[i].pc = "none")
  /\ UNCHANGED <<gradeTable, details, worker, pushed, errors>>

GetUpdateScore(h) == Do(h, TRUE)

(* GetGradeByTerm and GetGradeScore, when asked to fetch, when there are no *)
(* grades, or in the background.                                           *)
GetGrades(h) == Do(h, FALSE)

Abort(h) ==
  /\ fetch[h].pc # "none" /\ Err
  /\ fetch' = [fetch EXCEPT ![h] = NoFetch]
  /\ UNCHANGED <<gradeTable, details, worker, pushed, alone>>

GetRemoteGrades(h) ==
  /\ fetch[h].pc = "crawl"
  /\ fetch' = [fetch EXCEPT ![h].pc = "sync", ![h].remote = school]
  /\ UNCHANGED <<gradeTable, details, worker, pushed, errors, alone>>

Differs_Details(c, remote) == remote[c] > 0 /\ (row[c].cj # remote[c] \/ row[c].det # remote[c])

(* BatchInsertOrUpdate of base grades: a row is written if it is new or    *)
(* its score differs, its details are left alone.  The score stands for    *)
(* the whole base record: a change of any of the ten fields isGradeEqual   *)
(* compares (name, term, credit, nature, points, ...) is a new one.        *)
Differs(c, remote) == remote[c] > 0 /\ row[c].cj # remote[c]

Synced(c, remote) ==
  IF Differs(c, remote) THEN [row[c] EXCEPT !.cj = remote[c], !.ver = @ + 1] ELSE row[c]

BatchInsertOrUpdate(h) ==
  /\ fetch[h].pc = "sync"
  /\ LET remote == fetch[h].remote
     IN /\ row' = [c \in Courses |-> Synced(c, remote)]
        /\ fetch' = [fetch EXCEPT ![h] = [NoFetch EXCEPT !.pc = "send", !.told = fetch[h].told, !.update =
             {[cou |-> c, cj |-> row'[c].cj, ver |-> row'[c].ver] : c \in {d \in Courses : Differs(d, remote)}}]]
  /\ UNCHANGED <<school, shown, details, worker, pushed, errors, alone>>

(* Any grade without details is asked for again.  A message that cannot be *)
(* sent does not hide what changed.                                        *)
NeedDetail == {c \in Courses : row[c].ver > 0 /\ row[c].det = 0}

(* The tiered refresh, gradeRefresh in the bff, has the changes pushed     *)
(* after it has looked up and boosted the fellow students; one is given up *)
(* when any of its calls fails.                                            *)
Told(h) == IF fetch[h].told THEN SUBSET fetch[h].update ELSE {{}}


SendMessage(h) ==
  /\ fetch[h].pc = "send"
  /\ \/ details' = details \cup ({NeedDetail} \ {{}}) /\ UNCHANGED errors
     \/ details' = details /\ Err
  /\ fetch' = [fetch EXCEPT ![h] = NoFetch]
  /\ \E X \in Told(h) : pushed' = pushed \cup X
  /\ UNCHANGED <<gradeTable, worker, alone>>

-----------------------------------------------------------------------------
(* The consumer of the detail topic.  A message that is not acknowledged   *)
(* is delivered again.                                                     *)

(* UpdateDetailScore takes from the message which courses, and reads their *)
(* grades as they are now.                                                 *)
UpdateDetailScore(w) ==
  /\ worker[w].pc = "idle"
  /\ \E m \in details :
       worker' = [worker EXCEPT ![w] = [NoWork EXCEPT
         !.pc = "fetch", !.msg = m, !.todo = m \cap NeedDetail,
         !.read = [c \in Courses |-> IF c \in m \cap NeedDetail THEN row[c].ver ELSE 0]]]
  /\ UNCHANGED <<gradeTable, fetch, details, pushed, errors, alone>>

(* A course whose details cannot be had is passed over, the next one is    *)
(* tried.                                                                  *)
PassOver(w, c, failed) ==
  worker' = [worker EXCEPT ![w].todo = @ \ {c}, ![w].read[c] = 0, ![w].failed = failed]

(* A permanent failure does not hide one that is worth a retry. *)
Permanently(failed) == IF failed = "no" THEN "permanent" ELSE failed

(* GetDetail.  Details that are not shown read as all zero, which is no    *)
(* failure, or the page has none to parse; some courses never have any.    *)
GetDetail(w) ==
  /\ worker[w].pc = "fetch"
  /\ \E c \in worker[w].todo :
       \/ /\ c \in shown
          /\ worker' = [worker EXCEPT ![w].pc = "save", ![w].cou = {c}, ![w].detail = school[c]]
          /\ UNCHANGED errors
       \/ /\ c \notin shown
          /\ PassOver(w, c, worker[w].failed) \/ PassOver(w, c, Permanently(worker[w].failed))
          /\ UNCHANGED errors
       \/ /\ Err
          /\ PassOver(w, c, Permanently(worker[w].failed)) \/ PassOver(w, c, "retryable")
  /\ UNCHANGED <<gradeTable, fetch, details, pushed, alone>>

(* BatchInsertOrUpdate of details: not over a grade that changed since it  *)
(* was read, ErrGradeVersionChanged has the message handled again.         *)
Keep(w) == worker' = [worker EXCEPT ![w] = NoWork]

Changed(w, c) == row[c].ver # worker[w].read[c]

SaveDetail(w) ==
  /\ worker[w].pc = "save"
  /\ \E c \in worker[w].cou :
       LET detail == worker[w].detail
       IN \/ row[c].det # detail /\ Changed(w, c) /\ Keep(w) /\ UNCHANGED row
          \/ /\ row[c].det = detail \/ ~Changed(w, c)
             /\ row' = IF row[c].det = detail THEN row
                       ELSE [row EXCEPT ![c].det = detail, ![c].ver = @ + 1]
             /\ worker' = [worker EXCEPT ![w] = [worker[w] EXCEPT !.pc = "fetch", !.cou = {}, !.detail = 0,
                                    !.todo = @ \ {c}, !.read[c] = 0]]
  /\ UNCHANGED <<school, shown, fetch, details, pushed, errors, alone>>

(* Acknowledged when all went well.  Failures that are permanent keep the  *)
(* message until the consumer skips it.                                    *)
Acknowledge(w) ==
  /\ worker[w].pc = "fetch" /\ worker[w].todo = {}
  /\ \/ worker[w].failed # "retryable" /\ details' = details \ {worker[w].msg}
     \/ worker[w].failed # "no" /\ UNCHANGED details
  /\ Keep(w)
  /\ UNCHANGED <<gradeTable, fetch, pushed, errors, alone>>

Interrupt(w) ==
  /\ worker[w].pc # "idle" /\ Err /\ Keep(w)
  /\ UNCHANGED <<gradeTable, fetch, details, pushed, alone>>

-----------------------------------------------------------------------------
(* A new score comes without details, which follow or not. *)
Publish(c) ==
  /\ school[c] < MaxScore /\ school' = [school EXCEPT ![c] = @ + 1] /\ shown' = shown \ {c}
  /\ UNCHANGED <<row, fetch, details, worker, pushed, errors, alone>>

ShowDetails(c) ==
  /\ school[c] > 0 /\ c \notin shown /\ shown' = shown \cup {c}
  /\ UNCHANGED <<school, row, fetch, details, worker, pushed, errors, alone>>

FetchStep(h) == GetRemoteGrades(h) \/ BatchInsertOrUpdate(h) \/ SendMessage(h)
WorkerStep(w) == UpdateDetailScore(w) \/ GetDetail(w) \/ SaveDetail(w) \/ Acknowledge(w)

GradeNext ==
  \/ \E h \in Hosts : GetUpdateScore(h) \/ GetGrades(h) \/ FetchStep(h) \/ Abort(h)
  \/ \E w \in Workers : WorkerStep(w) \/ Interrupt(w)
  \/ \E c \in Courses : Publish(c) \/ ShowDetails(c)

GradeSpec == GradeInit /\ [][GradeNext]_gradeVars

(* The tiered refresh comes around again and again; fetches and consumers  *)
(* go on.                                                                  *)
GradeFairness ==
  /\ WF_gradeVars(\E h \in Hosts : fetch[h].pc = "none" /\ GetUpdateScore(h))
  /\ \A h \in Hosts : WF_gradeVars(FetchStep(h))
  /\ \A w \in Workers : WF_gradeVars(WorkerStep(w))

GradeFairSpec == GradeSpec /\ GradeFairness

-----------------------------------------------------------------------------
(* Properties *)

(* Details written into a row are those of its score or of a newer one,    *)
(* however long the message waited and whatever was fetched meanwhile.     *)
DetailsFitTheScore ==
  [][\A c \in Courses : row'[c].det # row[c].det => row'[c].det >= row[c].cj]_gradeVars

(* As long as no two processes fetch at the same time, a score is pushed   *)
(* at most once: neither the details that are added to it nor refreshes    *)
(* that overlap in a process make it a change again.  Of two processes the *)
(* slower one may write an older score back, which then changes again.     *)
ScorePushedOnce ==
  alone => \A x, y \in pushed : x.cou = y.cou /\ x.cj = y.cj => x = y

(* and under the same condition the scores in the table do not go back.    *)
ScoresNeverGoBack ==
  [][alone' => \A c \in Courses : row'[c].cj >= row[c].cj]_gradeVars

=============================================================================
