------------------------- MODULE BackgroundWork_proof -------------------------
(* Proofs about the grades (GradeSync), the announcements of be-feed       *)
(* (FeedAnnouncements) and the timetable refreshes (ClassRefresh).         *)
EXTENDS ClassRefresh, GradeSync, FeedAnnouncements, WellFoundedInduction, FiniteSetTheorems, TLAPS

(* Grades.  The state has its type, scores come from the school, and a     *)
(* worker has read no version that is not there yet.                       *)
Fetch ==
  [pc : {"none", "crawl", "sync", "send"}, told : BOOLEAN, remote : [Courses -> Score],
   update : SUBSET Change]
Work ==
  [pc : {"idle", "fetch", "save"}, msg : SUBSET Courses, read : [Courses -> Nat],
   todo : SUBSET Courses, cou : SUBSET Courses, detail : Score,
   failed : {"no", "permanent", "retryable"}]

GradeShape ==
  /\ school \in [Courses -> Score]
  /\ row \in [Courses -> Row]
  /\ fetch \in [Hosts -> Fetch]
  /\ details \subseteq SUBSET Courses
  /\ worker \in [Workers -> Work]
  /\ pushed \subseteq Change
  /\ errors \in 0 .. MaxErrors /\ alone \in BOOLEAN

RowOK(c) ==
  /\ (row[c].ver > 0) <=> (row[c].cj > 0)
  /\ row[c].cj <= school[c]
FetchFits(f) ==
  /\ \A c \in Courses : f.remote[c] <= school[c]
  /\ f.pc # "send" => f.update = {}

(* What is about to be saved still fits the row, or the row has changed.   *)
WorkFits(r) ==
  /\ r.pc # "save" => r.cou = {}
  /\ \A c \in Courses :
       /\ r.read[c] <= row[c].ver
       /\ c \in r.cou \cup r.todo => r.read[c] > 0
       /\ c \in r.cou => (r.read[c] = row[c].ver => row[c].cj <= r.detail)

GradeInv ==
  /\ GradeShape
  /\ \A c \in Courses : RowOK(c)
  /\ \A h \in Hosts : FetchFits(fetch[h])
  /\ \A w \in Workers : WorkFits(worker[w])

(* With one fetch at a time its scores are not behind the table, and every *)
(* change that was found is the only one of its score.                     *)
Found == pushed \cup UNION {fetch[h].update : h \in Hosts}
OneAtATime ==
  alone =>
    /\ \A h, i \in Hosts : fetch[h].pc # "none" /\ fetch[i].pc # "none" => h = i
    /\ \A h \in Hosts : fetch[h].pc = "sync" => \A c \in Courses : row[c].cj <= fetch[h].remote[c]
    /\ \A x \in Found : x.cj <= row[x.cou].cj
    /\ \A x, y \in Found : x.cou = y.cou /\ x.cj = y.cj => x = y

(* There are no grades at the beginning.                                   *)
LEMMA GradeInvInit == GradeInit => GradeInv /\ OneAtATime
<1> SUFFICES ASSUME GradeInit PROVE GradeInv /\ OneAtATime
  OBVIOUS
<1> USE GradeSyncAssumption DEF GradeSyncAssumption, GradeInit
<1>1. NoGrade \in Row /\ NoGrade.cj = 0 /\ NoGrade.ver = 0
  BY DEF NoGrade, Row, Score
<1>2. NoFetch \in Fetch /\ NoFetch.update = {} /\ NoFetch.pc = "none" /\ \A c \in Courses : NoFetch.remote[c] = 0
  BY DEF NoFetch, Fetch, Score
<1>3. NoWork \in Work /\ NoWork.cou = {} /\ NoWork.todo = {} /\ \A c \in Courses : NoWork.read[c] = 0
  BY DEF NoWork, Work, Score
<1>4. GradeShape
  BY <1>1, <1>2, <1>3 DEF GradeShape, Score
<1>5. \A c \in Courses : RowOK(c)
  BY <1>1 DEF RowOK
<1>6. \A h \in Hosts : FetchFits(fetch[h])
  BY <1>2 DEF FetchFits
<1>7. \A w \in Workers : WorkFits(worker[w])
  BY <1>1, <1>3 DEF WorkFits
<1>8. OneAtATime
  BY <1>2 DEF OneAtATime, Found
<1> QED BY <1>4, <1>5, <1>6, <1>7, <1>8 DEF GradeInv

(* A consumer that moves to a state that fits, and nothing else that       *)
(* matters, keeps the invariant; so does a process that fetches.           *)
LEMMA WorkerMoves ==
  ASSUME GradeInv, NEW w \in Workers, NEW r \in Work, WorkFits(r),
         worker' = [worker EXCEPT ![w] = r],
         UNCHANGED <<school, row, fetch, pushed, alone>>,
         details' \subseteq SUBSET Courses, errors' \in 0 .. MaxErrors
  PROVE  GradeInv'
<1>0. Fetch' = Fetch /\ Work' = Work /\ Score' = Score /\ Row' = Row /\ Change' = Change
  BY DEF Fetch, Work, Score, Row, Change
<1>1. GradeShape'
  BY <1>0 DEF GradeInv, GradeShape
<1>2. \A v \in Workers : worker'[v] = IF v = w THEN r ELSE worker[v]
  BY DEF GradeInv, GradeShape
<1>3. \A v \in Workers : WorkFits(worker[v])'
  BY <1>2 DEF GradeInv, WorkFits
<1>4. (\A c \in Courses : RowOK(c)') /\ \A h \in Hosts : FetchFits(fetch[h])'
  BY DEF GradeInv, RowOK, FetchFits
<1> QED BY <1>1, <1>3, <1>4 DEF GradeInv

LEMMA HostMoves ==
  ASSUME GradeInv, NEW h \in Hosts, NEW f \in Fetch, FetchFits(f),
         fetch' = [fetch EXCEPT ![h] = f],
         UNCHANGED <<school, row, worker>>,
         details' \subseteq SUBSET Courses, pushed' \subseteq Change,
         errors' \in 0 .. MaxErrors, alone' \in BOOLEAN
  PROVE  GradeInv'
<1>0. Fetch' = Fetch /\ Work' = Work /\ Score' = Score /\ Row' = Row /\ Change' = Change
  BY DEF Fetch, Work, Score, Row, Change
<1>1. GradeShape'
  BY <1>0 DEF GradeInv, GradeShape
<1>2. \A i \in Hosts : fetch'[i] = IF i = h THEN f ELSE fetch[i]
  BY DEF GradeInv, GradeShape
<1>3. \A i \in Hosts : FetchFits(fetch[i])'
  BY <1>2 DEF GradeInv, FetchFits
<1>4. (\A c \in Courses : RowOK(c)') /\ \A w \in Workers : WorkFits(worker[w])'
  BY DEF GradeInv, RowOK, WorkFits
<1> QED BY <1>1, <1>3, <1>4 DEF GradeInv

(* No fetch and no work fit whatever the state is.                         *)
LEMMA NothingFits ==
  ASSUME GradeInv
  PROVE  /\ NoFetch \in Fetch /\ FetchFits(NoFetch) /\ NoWork \in Work /\ WorkFits(NoWork)
         /\ NoFetch.pc = "none" /\ NoFetch.update = {} /\ 0 \in Score
<1> USE GradeSyncAssumption DEF GradeSyncAssumption
<1>1. 0 \in Score /\ NoFetch \in Fetch /\ NoWork \in Work
  BY DEF NoFetch, Fetch, NoWork, Work, Score
<1>2. FetchFits(NoFetch)
  BY DEF FetchFits, NoFetch, GradeInv, GradeShape, Score
<1>3. WorkFits(NoWork)
  BY DEF WorkFits, NoWork, GradeInv, GradeShape, Row
<1> QED BY <1>1, <1>2, <1>3 DEF NoFetch

(* A row that is written gets a new version: work that was begun before    *)
(* no longer matches it.                                                   *)
LEMMA RowsMove ==
  ASSUME GradeInv,
         row' \in [Courses -> Row],
         \A c \in Courses :
           /\ row'[c].ver > 0 <=> row'[c].cj > 0
           /\ row'[c].cj <= school[c]
           /\ \/ row'[c].ver = row[c].ver /\ row'[c].cj = row[c].cj
              \/ row'[c].ver > row[c].ver
  PROVE  \A r \in Work : WorkFits(r) => WorkFits(r)'
<1> SUFFICES ASSUME NEW r \in Work, WorkFits(r), NEW c \in Courses
             PROVE  /\ c \in r.cou \cup r.todo => r.read[c] > 0
                    /\ r.read[c] <= row'[c].ver
                    /\ c \in r.cou => (r.read[c] = row'[c].ver => row'[c].cj <= r.detail)
  BY DEF WorkFits
<1>1. row[c].ver \in Nat /\ row'[c].ver \in Nat /\ r.read[c] \in Nat
  BY DEF GradeInv, GradeShape, Row, Work
<1>2. (c \in r.cou \cup r.todo => r.read[c] > 0) /\ r.read[c] <= row[c].ver /\ (c \in r.cou => (r.read[c] = row[c].ver => row[c].cj <= r.detail))
  BY DEF WorkFits
<1> QED BY <1>1, <1>2

(* The steps of a process that fetches.                                    *)
LEMMA HostSteps ==
  ASSUME GradeInv, NEW h \in Hosts,
         GetUpdateScore(h) \/ GetGrades(h) \/ FetchStep(h) \/ Abort(h)
  PROVE  GradeInv'
<1> USE GradeSyncAssumption DEF GradeSyncAssumption
<1>c. PICK f : f = fetch[h]
  OBVIOUS
<1>f. f \in Fetch /\ FetchFits(f)
  BY <1>c DEF GradeInv, GradeShape
<1>n. NoFetch \in Fetch /\ FetchFits(NoFetch) /\ NoFetch.pc = "none" /\ NoFetch.update = {} /\ 0 \in Score
  BY NothingFits
<1>s. GradeShape
  BY DEF GradeInv
<1>1. ASSUME NEW tick \in BOOLEAN, Do(h, tick) PROVE GradeInv'
  <2>1. PICK g : g = fetch'[h]
    OBVIOUS
  <2>d. h \in DOMAIN fetch
    BY <1>s DEF GradeShape
  <2>2. g \in Fetch /\ FetchFits(g)
    <3>1. CASE f.pc = "none"
      <4>1. g = [NoFetch EXCEPT !.pc = "crawl", !.told = tick]
        BY <1>1, <1>c, <2>1, <2>d, <3>1 DEF Do
      <4> QED BY <4>1, <1>n DEF Fetch, FetchFits, NoFetch
    <3>2. CASE f.pc # "none"
      <4>b. PICK b \in BOOLEAN : b = (f.told \/ tick)
        OBVIOUS
      <4>1. g = [f EXCEPT !.told = b]
        BY <1>1, <1>c, <2>1, <2>d, <3>2, <4>b DEF Do
      <4> QED BY <4>1, <1>f DEF Fetch, FetchFits
    <3> QED BY <3>1, <3>2
  <2>3. fetch' = [fetch EXCEPT ![h] = g]
    BY <1>1, <2>1, <2>d DEF Do
  <2>4. alone' \in BOOLEAN
    BY <1>1, <1>s DEF Do, GradeShape
  <2>5. /\ UNCHANGED <<school, row, worker>>
        /\ details' \subseteq SUBSET Courses /\ pushed' \subseteq Change /\ errors' \in 0 .. MaxErrors
    BY <1>1, <1>s DEF Do, gradeTable, GradeShape
  <2> HIDE DEF Do
  <2> QED BY <2>2, <2>3, <2>4, <2>5, HostMoves
<1>2. CASE Abort(h)
  <2>1. errors' \in 0 .. MaxErrors
    BY <1>2, <1>s DEF Abort, Err, GradeShape
  <2>2. /\ UNCHANGED <<school, row, worker>> /\ alone' \in BOOLEAN
        /\ details' \subseteq SUBSET Courses /\ pushed' \subseteq Change
    BY <1>2, <1>s DEF Abort, gradeTable, GradeShape
  <2>3. fetch' = [fetch EXCEPT ![h] = NoFetch]
    BY <1>2 DEF Abort
  <2> QED BY <2>1, <2>2, <2>3, <1>n, HostMoves
<1>3. CASE GetRemoteGrades(h)
  <2>1. PICK g : g = [f EXCEPT !.pc = "sync", !.remote = school]
    OBVIOUS
  <2>2. g \in Fetch /\ g.pc = "sync" /\ g.remote = school /\ g.update = f.update
    BY <2>1, <1>f, <1>s DEF Fetch, GradeShape
  <2>3. FetchFits(g)
    <3>1. f.update = {}
      BY <1>3, <1>c, <1>f DEF GetRemoteGrades, FetchFits
    <3>2. \A c \in Courses : school[c] \in Nat
      BY <1>s DEF GradeShape, Score
    <3> QED BY <2>2, <3>1, <3>2 DEF FetchFits
  <2>4. fetch' = [fetch EXCEPT ![h] = g]
    BY <1>3, <1>c, <2>1 DEF GetRemoteGrades
  <2> QED BY <1>3, <1>s, <2>2, <2>3, <2>4, HostMoves DEF GetRemoteGrades, gradeTable, GradeShape
<1>4. CASE BatchInsertOrUpdate(h)
  <2>c. PICK remote : remote = f.remote
    OBVIOUS
  <2>1. /\ row' = [c \in Courses |-> Synced(c, remote)]
        /\ UNCHANGED <<school, details, worker, pushed, errors, alone>>
    BY <1>4, <1>c, <2>c DEF BatchInsertOrUpdate
  <2>2. remote \in [Courses -> Score] /\ \A c \in Courses : remote[c] <= school[c] /\ remote[c] \in Nat
    BY <1>f, <2>c DEF Fetch, FetchFits, Score
  <2>3. ASSUME NEW c \in Courses
        PROVE  /\ row'[c] \in Row
               /\ row'[c].ver > 0 <=> row'[c].cj > 0
               /\ row'[c].cj <= school[c]
               /\ \/ row'[c].ver = row[c].ver /\ row'[c].cj = row[c].cj
                  \/ row'[c].ver > row[c].ver
    <3>1. row[c] \in Row /\ RowOK(c)
      BY <1>s DEF GradeInv, GradeShape
    <3>2. CASE Differs(c, remote)
      <4>1. row'[c] = [row[c] EXCEPT !.cj = remote[c], !.ver = @ + 1]
        BY <2>1, <3>2 DEF Synced
      <4>2. row'[c] \in Row /\ row'[c].cj = remote[c] /\ row'[c].ver = row[c].ver + 1
        <5>1. row[c].ver + 1 \in Nat /\ remote[c] \in Score
          BY <3>1, <2>2 DEF Row
        <5> HIDE DEF Score
        <5> QED BY <4>1, <5>1, <3>1 DEF Row
      <4>3. row[c].ver \in Nat
        BY <3>1 DEF Row
      <4>5. remote[c] > 0 /\ remote[c] <= school[c] /\ remote[c] \in Nat
        BY <3>2, <2>2 DEF Differs
      <4>4. row'[c].ver > row[c].ver /\ row'[c].ver > 0
        BY <4>2, <4>3
      <4>6. row'[c].cj > 0 /\ row'[c].cj <= school[c]
        BY <4>2, <4>5
      <4> QED BY <4>2, <4>4, <4>6
    <3>3. CASE ~Differs(c, remote)
      BY <2>1, <3>1, <3>3 DEF Synced, RowOK
    <3> QED BY <3>2, <3>3
  <2>4. row' \in [Courses -> Row]
    BY <2>1, <2>3
  <2>5. \A r \in Work : WorkFits(r) => WorkFits(r)'
    BY <2>3, <2>4, RowsMove
  <2>6. PICK X : X = {[cou |-> c, cj |-> row'[c].cj, ver |-> row'[c].ver] :
                        c \in {d \in Courses : Differs(d, remote)}}
    OBVIOUS
  <2>7. X \subseteq Change
    BY <2>3, <2>6 DEF Row, Change
  <2>8. PICK g : g = [NoFetch EXCEPT !.pc = "send", !.told = f.told, !.update = X]
    OBVIOUS
  <2>9. g \in Fetch /\ g.pc = "send" /\ g.remote = NoFetch.remote
    BY <2>7, <2>8, <1>f, <1>n DEF Fetch
  <2>10. fetch' = [fetch EXCEPT ![h] = g]
    BY <1>4, <1>c, <2>c, <2>6, <2>8 DEF BatchInsertOrUpdate
  <2>11. Fetch' = Fetch /\ Work' = Work /\ Score' = Score /\ Row' = Row /\ Change' = Change
    BY DEF Fetch, Work, Score, Row, Change
  <2>12. GradeShape'
    BY <2>1, <2>4, <2>9, <2>10, <2>11, <1>s DEF GradeShape
  <2>13. \A i \in Hosts : FetchFits(fetch[i])'
    BY <2>1, <2>9, <2>10, <1>n, <1>s DEF GradeInv, GradeShape, FetchFits
  <2>14. \A w \in Workers : WorkFits(worker[w])'
    BY <2>1, <2>5, <1>s DEF GradeInv, GradeShape, WorkFits
  <2>15. \A c \in Courses : RowOK(c)'
    BY <2>1, <2>3 DEF RowOK
  <2> QED BY <2>12, <2>13, <2>14, <2>15 DEF GradeInv
<1>5. CASE SendMessage(h)
  <2>1. details' \subseteq SUBSET Courses /\ errors' \in 0 .. MaxErrors
    BY <1>5, <1>s DEF SendMessage, NeedDetail, Err, GradeShape
  <2>2. pushed' \subseteq Change
    BY <1>5, <1>c, <1>f, <1>s DEF SendMessage, Told, Fetch, GradeShape
  <2> QED BY <1>5, <2>1, <2>2, <1>n, <1>s, HostMoves DEF SendMessage, gradeTable, GradeShape
<1> QED BY <1>1, <1>2, <1>3, <1>4, <1>5 DEF GetUpdateScore, GetGrades, FetchStep

(* The steps of a consumer of the detail topic.                            *)
LEMMA WorkerSteps ==
  ASSUME GradeInv, NEW w \in Workers, WorkerStep(w) \/ Interrupt(w)
  PROVE  GradeInv'
<1> USE GradeSyncAssumption DEF GradeSyncAssumption
<1>c. PICK r : r = worker[w]
  OBVIOUS
<1>s. GradeShape /\ \A c \in Courses : RowOK(c) /\ row[c] \in Row
  BY DEF GradeInv, GradeShape
<1>r. r \in Work /\ WorkFits(r)
  BY <1>c DEF GradeInv, GradeShape
<1>n. NoWork \in Work /\ WorkFits(NoWork)
  BY NothingFits
<1>v. \A c \in Courses : row[c].ver \in Nat /\ row[c].cj \in Nat /\ school[c] \in Score
  BY <1>s DEF Row, Score, GradeShape
<1>1. CASE UpdateDetailScore(w)
  <2>1. PICK m \in details :
          worker' = [worker EXCEPT ![w] = [NoWork EXCEPT
            !.pc = "fetch", !.msg = m, !.todo = m \cap NeedDetail,
            !.read = [c \in Courses |-> IF c \in m \cap NeedDetail THEN row[c].ver ELSE 0]]]
    BY <1>1 DEF UpdateDetailScore
  <2>2. PICK read : read = [c \in Courses |-> IF c \in m \cap NeedDetail THEN row[c].ver ELSE 0]
    OBVIOUS
  <2>3. /\ read \in [Courses -> Nat]
        /\ \A c \in Courses : read[c] <= row[c].ver /\ (c \in m \cap NeedDetail => read[c] > 0)
    BY <2>2, <1>v DEF NeedDetail
  <2>4. PICK g : g = [NoWork EXCEPT !.pc = "fetch", !.msg = m, !.todo = m \cap NeedDetail, !.read = read]
    OBVIOUS
  <2>5. m \subseteq Courses
    BY <1>s DEF GradeShape
  <2>6. g \in Work /\ g.read = read /\ g.cou = {} /\ g.todo = m \cap NeedDetail
    BY <2>3, <2>4, <2>5, <1>n DEF Work, NoWork
  <2>7. WorkFits(g)
    BY <2>3, <2>6 DEF WorkFits
  <2>8. worker' = [worker EXCEPT ![w] = g]
    BY <2>1, <2>2, <2>4
  <2>9. UNCHANGED <<school, row, fetch, pushed, alone, details, errors>>
    BY <1>1 DEF UpdateDetailScore, gradeTable
  <2>10. details' \subseteq SUBSET Courses /\ errors' \in 0 .. MaxErrors
    BY <1>s, <2>9 DEF GradeShape
  <2> QED BY <2>6, <2>7, <2>8, <2>9, <2>10, WorkerMoves
<1>2. CASE GetDetail(w)
  <2>1. /\ UNCHANGED <<school, row, fetch, pushed, alone, details>>
        /\ errors' \in 0 .. MaxErrors /\ r.pc = "fetch" /\ r.cou = {}
    BY <1>2, <1>c, <1>r, <1>s DEF WorkFits, GetDetail, Err, gradeTable, GradeShape
  <2>2. PICK c \in r.todo :
          \/ worker' = [worker EXCEPT ![w].pc = "save", ![w].cou = {c}, ![w].detail = school[c]]
          \/ \E failed \in {r.failed, "retryable"} \cup (IF r.failed = "no" THEN {"permanent"} ELSE {}) :
               worker' = [worker EXCEPT ![w].todo = @ \ {c}, ![w].read[c] = 0, ![w].failed = failed]
    BY <1>2, <1>c DEF GetDetail, PassOver, Permanently
  <2>3. c \in Courses
    BY <1>r DEF Work
  <2>4. PICK g : g = worker'[w]
    OBVIOUS
  <2>5. worker' = [worker EXCEPT ![w] = g]
    BY <2>2, <2>4, <1>s DEF GradeShape
  <2>6. CASE worker' = [worker EXCEPT ![w].pc = "save", ![w].cou = {c}, ![w].detail = school[c]]
    <3>1. g = [r EXCEPT !.pc = "save", !.cou = {c}, !.detail = school[c]]
      BY <2>4, <2>6, <1>c, <1>s DEF GradeShape
    <3>2. g \in Work /\ g.pc = "save" /\ g.read = r.read /\ g.cou = {c} /\ g.todo = r.todo /\ g.detail = school[c]
      BY <3>1, <2>3, <1>r, <1>v DEF Work
    <3>3. WorkFits(g)
      BY <3>2, <2>3, <1>r, <1>s DEF WorkFits, RowOK
    <3> QED BY <2>1, <2>5, <3>2, <3>3, <1>s, WorkerMoves DEF GradeShape
  <2>7. ASSUME NEW failed \in {r.failed, "retryable"} \cup (IF r.failed = "no" THEN {"permanent"} ELSE {}),
               worker' = [worker EXCEPT ![w].todo = @ \ {c}, ![w].read[c] = 0, ![w].failed = failed]
        PROVE  GradeInv'
    <3>1. g = [r EXCEPT !.todo = @ \ {c}, !.read = [r.read EXCEPT ![c] = 0], !.failed = failed]
      BY <2>4, <2>7, <1>c, <1>s DEF GradeShape
    <3>2. failed \in {"no", "permanent", "retryable"}
      BY <1>r DEF Work
    <3>3. PICK read : read = [r.read EXCEPT ![c] = 0]
      OBVIOUS
    <3>4. r.read \in [Courses -> Nat]
      BY <1>r DEF Work
    <3>5. read \in [Courses -> Nat] /\ \A d \in Courses : read[d] = IF d = c THEN 0 ELSE r.read[d]
      BY <3>3, <3>4
    <3>6. g \in Work /\ g.read = read /\ g.cou = r.cou /\ g.todo = r.todo \ {c}
      BY <3>1, <3>2, <3>3, <3>5, <1>r DEF Work
    <3>7. WorkFits(g)
      BY <3>4, <3>5, <3>6, <2>1, <1>r, <1>v DEF WorkFits
    <3> QED BY <2>1, <2>5, <3>6, <3>7, <1>s, WorkerMoves DEF GradeShape
  <2> QED BY <2>2, <2>6, <2>7
<1>4. CASE Acknowledge(w) \/ Interrupt(w)
  <2>1. worker' = [worker EXCEPT ![w] = NoWork] /\ UNCHANGED <<school, row, fetch, pushed, alone>>
    BY <1>4 DEF Acknowledge, Interrupt, Keep, gradeTable
  <2>2. details' \subseteq SUBSET Courses /\ errors' \in 0 .. MaxErrors
    BY <1>4, <1>s DEF Acknowledge, Interrupt, Err, GradeShape
  <2> QED BY <2>1, <2>2, <1>n, WorkerMoves
<1>3. CASE SaveDetail(w)
  <2>1. PICK c \in r.cou :
          \/ Keep(w) /\ UNCHANGED row
          \/ /\ row[c].det = r.detail \/ ~Changed(w, c)
             /\ row' = IF row[c].det = r.detail THEN row
                       ELSE [row EXCEPT ![c].det = r.detail, ![c].ver = @ + 1]
             /\ worker' = [worker EXCEPT ![w] = [worker[w] EXCEPT !.pc = "fetch", !.cou = {}, !.detail = 0,
                                                          !.todo = @ \ {c}, !.read[c] = 0]]
    BY <1>3, <1>c DEF SaveDetail
  <2>2. UNCHANGED <<school, fetch, details, pushed, errors, alone>>
    BY <1>3 DEF SaveDetail
  <2>3. CASE Keep(w) /\ UNCHANGED row
    BY <2>2, <2>3, <1>n, <1>s, WorkerMoves DEF Keep, GradeShape
  <2>4. CASE /\ row[c].det = r.detail \/ ~Changed(w, c)
             /\ row' = IF row[c].det = r.detail THEN row
                       ELSE [row EXCEPT ![c].det = r.detail, ![c].ver = @ + 1]
             /\ worker' = [worker EXCEPT ![w] = [worker[w] EXCEPT !.pc = "fetch", !.cou = {}, !.detail = 0,
                                                          !.todo = @ \ {c}, !.read[c] = 0]]
    <3>c. c \in Courses
      BY <1>r DEF Work
    <3>1. PICK read : read = [r.read EXCEPT ![c] = 0]
      OBVIOUS
    <3>2. r.read \in [Courses -> Nat]
      BY <1>r DEF Work
    <3>3. read \in [Courses -> Nat] /\ \A d \in Courses : read[d] = IF d = c THEN 0 ELSE r.read[d]
      BY <3>1, <3>2
    <3>4. PICK g : g = [r EXCEPT !.pc = "fetch", !.cou = {}, !.detail = 0, !.todo = @ \ {c}, !.read = read]
      OBVIOUS
    <3>5. worker' = [worker EXCEPT ![w] = g]
      BY <2>4, <3>1, <3>4, <1>c, <1>s DEF GradeShape
    <3>6. g \in Work /\ g.read = read /\ g.cou = {} /\ g.todo = r.todo \ {c}
      BY <3>3, <3>4, <1>r, <1>n DEF Work, NoWork
    <3>7. ASSUME NEW d \in Courses
          PROVE  /\ row'[d] \in Row /\ row'[d].cj = row[d].cj
                 /\ row'[d].ver = row[d].ver \/ row'[d].ver > row[d].ver
                 /\ row'[d].ver > 0 <=> row'[d].cj > 0
      <4>1. CASE row' = row
        BY <4>1, <1>s DEF RowOK
      <4>2. CASE d # c /\ row' = [row EXCEPT ![c].det = r.detail, ![c].ver = @ + 1]
        <5>1. row'[d] = row[d]
          BY <4>2, <1>s DEF GradeShape
        <5> QED BY <5>1, <1>s DEF RowOK
      <4>3. CASE d = c /\ ~Changed(w, c) /\ row' = [row EXCEPT ![c].det = r.detail, ![c].ver = @ + 1]
        <5>1. row'[c] = [row[c] EXCEPT !.det = r.detail, !.ver = @ + 1]
          BY <4>3, <3>c, <1>s DEF GradeShape
        <5>2. row[c].ver + 1 \in Nat /\ r.detail \in Score
          BY <3>c, <1>r, <1>v DEF Work
        <5>3. row'[c] \in Row /\ row'[c].cj = row[c].cj /\ row'[c].ver = row[c].ver + 1
          BY <5>1, <5>2, <3>c, <1>s DEF Row
        <5>4. row[c].ver > 0 /\ row[c].cj > 0 /\ row'[c].ver > row[c].ver
          <6>1. r.read[c] = row[c].ver /\ r.read[c] > 0
            BY <4>3, <3>c, <1>c, <1>r DEF Changed, WorkFits
          <6> QED BY <6>1, <5>3, <3>c, <1>s, <1>v DEF RowOK
        <5> QED BY <5>3, <5>4, <4>3, <3>c, <1>v
      <4> QED BY <4>1, <4>2, <4>3, <2>4
    <3>8. row' \in [Courses -> Row]
      BY <3>7, <2>4, <1>s DEF GradeShape
    <3>9. \A x \in Work : WorkFits(x) => WorkFits(x)'
      <4>1. \A d \in Courses : row[d].cj <= school[d]
        BY <1>s DEF RowOK
      <4> QED BY <3>7, <3>8, <4>1, RowsMove
    <3>10. WorkFits(g)
      BY <3>3, <3>6, <3>2, <1>r, <1>v DEF WorkFits
    <3>11. \A v \in Workers : WorkFits(worker[v])'
      <4>1. ASSUME NEW v \in Workers PROVE WorkFits(worker[v])'
        <5>1. PICK x : x = worker'[v]
          OBVIOUS
        <5>2. x \in Work /\ WorkFits(x)
          BY <5>1, <3>5, <3>6, <3>10, <1>s DEF GradeInv, GradeShape
        <5>3. WorkFits(x)'
          BY <5>2, <3>9
        <5> QED BY <5>1, <5>3 DEF WorkFits
      <4> QED BY <4>1
    <3>12. (\A d \in Courses : RowOK(d)') /\ \A h \in Hosts : FetchFits(fetch[h])'
      BY <3>7, <2>2, <1>s DEF GradeInv, RowOK, FetchFits
    <3>13. Fetch' = Fetch /\ Work' = Work /\ Score' = Score /\ Row' = Row /\ Change' = Change
      BY DEF Fetch, Work, Score, Row, Change
    <3>14. GradeShape'
      BY <3>5, <3>6, <3>8, <3>13, <2>2, <1>s DEF GradeShape
    <3> QED BY <3>11, <3>12, <3>14 DEF GradeInv
  <2> QED BY <2>1, <2>3, <2>4
<1> QED BY <1>1, <1>2, <1>3, <1>4 DEF WorkerStep

(* GradeInv holds throughout.                                              *)
LEMMA GradeInvStep == GradeInv /\ [GradeNext]_gradeVars => GradeInv'
<1> SUFFICES ASSUME GradeInv, [GradeNext]_gradeVars PROVE GradeInv'
  OBVIOUS
<1> USE GradeSyncAssumption DEF GradeSyncAssumption
<1>0. Fetch' = Fetch /\ Work' = Work /\ Score' = Score /\ Row' = Row /\ Change' = Change
  BY DEF Fetch, Work, Score, Row, Change
<1>1. ASSUME NEW h \in Hosts, GetUpdateScore(h) \/ GetGrades(h) \/ FetchStep(h) \/ Abort(h) PROVE GradeInv'
  BY <1>1, HostSteps
<1>2. ASSUME NEW w \in Workers, WorkerStep(w) \/ Interrupt(w) PROVE GradeInv'
  BY <1>2, WorkerSteps
<1>3. ASSUME NEW c \in Courses, Publish(c) PROVE GradeInv'
  <2>1. /\ school[c] < MaxScore /\ school' = [school EXCEPT ![c] = @ + 1]
        /\ UNCHANGED <<row, fetch, details, worker, pushed, errors, alone>>
    BY <1>3 DEF Publish
  <2>2. school \in [Courses -> Score]
    BY DEF GradeInv, GradeShape
  <2>3. school' \in [Courses -> Score]
    BY <2>1, <2>2 DEF Score
  <2>4. \A d \in Courses : school[d] \in Nat /\ school'[d] \in Nat /\ school[d] <= school'[d]
    BY <2>1, <2>2 DEF Score
  <2>5. GradeShape'
    BY <2>1, <2>3, <1>0 DEF GradeInv, GradeShape
  <2>6. \A w \in Workers : WorkFits(worker[w])'
    BY <2>1 DEF GradeInv, WorkFits
  <2>7. \A d \in Courses : RowOK(d)'
    BY <2>1, <2>4 DEF GradeInv, GradeShape, RowOK, Row, Score
  <2>8. \A h \in Hosts : FetchFits(fetch[h])'
    BY <2>1, <2>4 DEF GradeInv, GradeShape, FetchFits, Fetch, Score
  <2> QED BY <2>5, <2>6, <2>7, <2>8 DEF GradeInv
<1>4. CASE (\E c \in Courses : ShowDetails(c)) \/ UNCHANGED gradeVars
  BY <1>4, <1>0 DEF ShowDetails, gradeVars, gradeTable, GradeInv, GradeShape, RowOK, FetchFits, WorkFits
<1> QED BY <1>1, <1>2, <1>3, <1>4 DEF GradeNext

LEMMA GradeInvAlways == GradeSpec => []GradeInv
<1> QED BY GradeInvInit, GradeInvStep, PTL DEF GradeSpec

(* The school shows details of scores there are.                           *)
ShownFits == shown \subseteq {c \in Courses : school[c] > 0}

LEMMA ShownFitsStep == GradeInv /\ ShownFits /\ [GradeNext]_gradeVars => ShownFits'
<1> SUFFICES ASSUME GradeInv, ShownFits, [GradeNext]_gradeVars PROVE ShownFits'
  OBVIOUS
<1>s. \A c \in Courses : school[c] \in Nat /\ school \in [Courses -> Score]
  BY GradeSyncAssumption DEF GradeSyncAssumption, GradeInv, GradeShape, Score
<1>1. ASSUME UNCHANGED <<school, shown>> PROVE ShownFits'
  BY <1>1 DEF ShownFits
<1>2. CASE \E h \in Hosts : GetUpdateScore(h) \/ GetGrades(h) \/ FetchStep(h) \/ Abort(h)
  BY <1>1, <1>2 DEF GetUpdateScore, GetGrades, Do, FetchStep, GetRemoteGrades, BatchInsertOrUpdate,
                    SendMessage, Abort, gradeTable
<1>3. CASE \E w \in Workers : WorkerStep(w) \/ Interrupt(w)
  BY <1>1, <1>3 DEF WorkerStep, UpdateDetailScore, GetDetail, SaveDetail, Acknowledge, Interrupt, gradeTable
<1>4. ASSUME NEW c \in Courses, Publish(c) PROVE ShownFits'
  <2>1. \A d \in Courses : school'[d] >= school[d]
    BY <1>4, <1>s DEF Publish
  <2> QED BY <1>4, <1>s, <2>1 DEF Publish, ShownFits
<1>5. ASSUME NEW c \in Courses, ShowDetails(c) PROVE ShownFits'
  BY <1>5 DEF ShowDetails, ShownFits
<1> QED BY <1>1, <1>2, <1>3, <1>4, <1>5 DEF GradeNext, gradeVars, gradeTable

(* The table, the fetches and the consumers keep their types, a grade has  *)
(* a version when and only when it has a score, and details are shown only *)
(* of a score there is.                                                    *)
THEOREM GradesTyped == GradeSpec => []GradeTypeOK
<1>1. GradeInv /\ ShownFits => GradeTypeOK
  BY DEF GradeInv, GradeShape, GradeTypeOK, RowOK, Fetch, Work, ShownFits
<1>2. GradeInit => ShownFits
  BY DEF GradeInit, ShownFits
<1> QED BY <1>1, <1>2, ShownFitsStep, GradeInvAlways, PTL DEF GradeSpec

(* No details of an older score are written to a grade, whatever was       *)
(* fetched between the reading and the writing.                            *)
THEOREM DetailsFit == GradeSpec => DetailsFitTheScore
<1> DEFINE Fits == \A c \in Courses : row'[c].det # row[c].det => row'[c].det >= row[c].cj
<1>1. GradeInv /\ [GradeNext]_gradeVars => Fits
  <2> SUFFICES ASSUME GradeInv, [GradeNext]_gradeVars, NEW c \in Courses, row'[c].det # row[c].det
               PROVE  row'[c].det >= row[c].cj
    OBVIOUS
  <2>s. row \in [Courses -> Row] /\ \A d \in Courses : row[d] \in Row
    BY DEF GradeInv, GradeShape
  <2>1. row' # row
    OBVIOUS
  <2>2. ASSUME NEW h \in Hosts, BatchInsertOrUpdate(h) PROVE FALSE
    <3>1. row'[c] = Synced(c, fetch[h].remote)
      BY <2>2 DEF BatchInsertOrUpdate
    <3>2. row'[c].det = row[c].det
      <4>1. CASE Differs(c, fetch[h].remote)
        BY <3>1, <4>1, <2>s DEF Synced, Row
      <4>2. CASE ~Differs(c, fetch[h].remote)
        BY <3>1, <4>2 DEF Synced
      <4> QED BY <4>1, <4>2
    <3> QED BY <3>2
  <2>3. ASSUME NEW w \in Workers, SaveDetail(w) PROVE row'[c].det >= row[c].cj
    <3>1. PICK d \in worker[w].cou :
            /\ ~Changed(w, d)
            /\ row' = [row EXCEPT ![d].det = worker[w].detail, ![d].ver = @ + 1]
      BY <2>1, <2>3 DEF SaveDetail
    <3>2. d = c
      BY <3>1, <2>s
    <3>3. row'[c].det = worker[w].detail
      BY <3>1, <3>2, <2>s DEF Row
    <3>4. worker[w] \in Work /\ WorkFits(worker[w])
      BY DEF GradeInv, GradeShape
    <3>5. row[c].cj <= worker[w].detail
      BY <3>1, <3>2, <3>4 DEF WorkFits, Changed
    <3>6. row[c].cj \in Nat /\ worker[w].detail \in Nat
      BY <3>4, <2>s, GradeSyncAssumption DEF GradeSyncAssumption, Work, Row, Score
    <3> QED BY <3>3, <3>5, <3>6
  <2>4. CASE \E h \in Hosts : GetUpdateScore(h) \/ GetGrades(h) \/ GetRemoteGrades(h) \/ SendMessage(h) \/ Abort(h)
    BY <2>1, <2>4 DEF GetUpdateScore, GetGrades, Do, GetRemoteGrades, SendMessage, Abort, gradeTable
  <2>5. CASE \E w \in Workers : UpdateDetailScore(w) \/ GetDetail(w) \/ Acknowledge(w) \/ Interrupt(w)
    BY <2>1, <2>5 DEF UpdateDetailScore, GetDetail, Acknowledge, Interrupt, gradeTable
  <2>6. CASE (\E d \in Courses : Publish(d) \/ ShowDetails(d)) \/ UNCHANGED gradeVars
    BY <2>1, <2>6 DEF Publish, ShowDetails, gradeVars, gradeTable
  <2> QED BY <2>2, <2>3, <2>4, <2>5, <2>6 DEF GradeNext, FetchStep, WorkerStep
<1> QED BY <1>1, GradeInvAlways, PTL DEF GradeSpec, DetailsFitTheScore

(* A step that finds no new change and leaves the scores and the fetches    *)
(* that are about to write alone keeps the changes apart.                  *)
LEMMA QuietSteps ==
  ASSUME OneAtATime, alone' => alone, Found' \subseteq Found,
         \A c \in Courses : row'[c].cj = row[c].cj, Found \subseteq Change,
         alone' => \A h, i \in Hosts : fetch'[h].pc # "none" /\ fetch'[i].pc # "none" => h = i,
         alone' => \A h \in Hosts : fetch'[h].pc = "sync" => \A c \in Courses : row[c].cj <= fetch'[h].remote[c]
  PROVE  OneAtATime'
<1>1. \A x \in Found : x.cou \in Courses
  BY DEF Change
<1> QED BY <1>1 DEF OneAtATime

LEMMA OneAtATimeStep == GradeInv /\ OneAtATime /\ [GradeNext]_gradeVars => OneAtATime'
<1> SUFFICES ASSUME GradeInv, OneAtATime, [GradeNext]_gradeVars PROVE OneAtATime'
  OBVIOUS
<1>s. GradeShape /\ \A h \in Hosts : FetchFits(fetch[h]) /\ fetch[h] \in Fetch
  BY DEF GradeInv, GradeShape
<1>f. Found \subseteq Change
  BY <1>s DEF Found, Fetch, GradeShape
<1>n. NoFetch.pc = "none" /\ NoFetch.update = {}
  BY DEF NoFetch
<1>1. ASSUME NEW h \in Hosts, NEW tick \in BOOLEAN, Do(h, tick) PROVE OneAtATime'
  <2>1. /\ UNCHANGED <<school, row, pushed>>
        /\ alone' = (alone /\ \A i \in Hosts \ {h} : fetch[i].pc = "none")
        /\ \A i \in Hosts \ {h} : fetch'[i] = fetch[i]
        /\ fetch'[h] = IF fetch[h].pc = "none" THEN [NoFetch EXCEPT !.pc = "crawl", !.told = tick]
                                               ELSE [fetch[h] EXCEPT !.told = @ \/ tick]
    BY <1>1, <1>s DEF Do, gradeTable, GradeShape
  <2>2. /\ fetch'[h].update = fetch[h].update
        /\ fetch'[h].pc = "sync" => fetch[h].pc = "sync" /\ fetch'[h].remote = fetch[h].remote
    <3>1. CASE fetch[h].pc = "none"
      <4>1. fetch'[h].update = {} /\ fetch'[h].pc = "crawl"
        BY <2>1, <3>1 DEF NoFetch
      <4>2. fetch[h].update = {}
        BY <3>1, <1>s DEF FetchFits
      <4> QED BY <4>1, <4>2
    <3>2. CASE fetch[h].pc # "none"
      BY <2>1, <3>2, <1>s DEF Fetch
    <3> QED BY <3>1, <3>2
  <2>3. \A i \in Hosts : fetch'[i].update = fetch[i].update
    BY <2>1, <2>2
  <2>4. Found' = Found
    BY <2>1, <2>3 DEF Found
  <2>5. alone' => \A i, k \in Hosts : fetch'[i].pc # "none" /\ fetch'[k].pc # "none" => i = k
    <3>1. alone' => \A i \in Hosts \ {h} : fetch'[i].pc = "none"
      BY <2>1
    <3> QED BY <3>1
  <2>6. alone' => \A i \in Hosts : fetch'[i].pc = "sync" => \A c \in Courses : row[c].cj <= fetch'[i].remote[c]
    BY <2>1, <2>2 DEF OneAtATime
  <2> QED BY <2>1, <2>4, <2>5, <2>6, <1>f, QuietSteps
<1>2. ASSUME NEW h \in Hosts, GetRemoteGrades(h) PROVE OneAtATime'
  <2>1. /\ UNCHANGED <<school, row, pushed, alone>> /\ fetch[h].pc = "crawl"
        /\ \A i \in Hosts \ {h} : fetch'[i] = fetch[i]
        /\ fetch'[h].pc = "sync" /\ fetch'[h].remote = school /\ fetch'[h].update = fetch[h].update
    BY <1>2, <1>s DEF GetRemoteGrades, gradeTable, GradeShape, Fetch
  <2>2. Found' = Found
    <3>1. \A i \in Hosts : fetch'[i].update = fetch[i].update
      BY <2>1
    <3> QED BY <2>1, <3>1 DEF Found
  <2>3. alone' => \A i, k \in Hosts : fetch'[i].pc # "none" /\ fetch'[k].pc # "none" => i = k
    BY <2>1 DEF OneAtATime
  <2>4. alone' => \A i \in Hosts : fetch'[i].pc = "sync" => \A c \in Courses : row[c].cj <= fetch'[i].remote[c]
    BY <2>1 DEF OneAtATime, GradeInv, RowOK
  <2> QED BY <2>1, <2>2, <2>3, <2>4, <1>f, QuietSteps
<1>3. ASSUME NEW h \in Hosts, Abort(h) \/ SendMessage(h) PROVE OneAtATime'
  <2>1. /\ UNCHANGED <<school, row, alone>>
        /\ \A i \in Hosts \ {h} : fetch'[i] = fetch[i]
        /\ fetch'[h] = NoFetch
    BY <1>3, <1>s DEF Abort, SendMessage, gradeTable, GradeShape
  <2>2. pushed' \subseteq pushed \cup fetch[h].update
    BY <1>3 DEF Abort, SendMessage, Told
  <2>3. Found' \subseteq Found
    <3>1. \A i \in Hosts : fetch'[i].update \subseteq fetch[i].update
      BY <2>1, <1>n
    <3> QED BY <2>2, <3>1 DEF Found
  <2>4. alone' => \A i, k \in Hosts : fetch'[i].pc # "none" /\ fetch'[k].pc # "none" => i = k
    BY <2>1, <1>n DEF OneAtATime
  <2>5. alone' => \A i \in Hosts : fetch'[i].pc = "sync" => \A c \in Courses : row[c].cj <= fetch'[i].remote[c]
    BY <2>1, <1>n DEF OneAtATime
  <2> QED BY <2>1, <2>3, <2>4, <2>5, <1>f, QuietSteps
<1>4. ASSUME NEW h \in Hosts, BatchInsertOrUpdate(h) PROVE OneAtATime'
  <2> SUFFICES ASSUME alone' PROVE OneAtATime'
    BY DEF OneAtATime
  <2>c. PICK remote, X : /\ remote = fetch[h].remote
                         /\ X = {[cou |-> c, cj |-> row'[c].cj, ver |-> row'[c].ver] :
                                   c \in {d \in Courses : Differs(d, remote)}}
    OBVIOUS
  <2>1. /\ UNCHANGED <<school, pushed, alone>> /\ fetch[h].pc = "sync"
        /\ row' = [c \in Courses |-> Synced(c, remote)]
        /\ \A i \in Hosts \ {h} : fetch'[i] = fetch[i]
        /\ fetch'[h].pc = "send" /\ fetch'[h].update = X
    BY <1>4, <2>c, <1>s DEF BatchInsertOrUpdate, GradeShape, NoFetch
  <2>2. alone /\ \A i \in Hosts \ {h} : fetch[i].pc = "none" /\ fetch'[i].pc = "none"
    BY <2>1 DEF OneAtATime
  <2>3. \A c \in Courses : row[c].cj \in Nat /\ remote[c] \in Nat /\ row[c].cj <= remote[c]
    BY <2>1, <2>2, <2>c, <1>s, GradeSyncAssumption DEF GradeSyncAssumption, OneAtATime, Fetch, GradeShape, Row, Score
  <2>4. ASSUME NEW c \in Courses
        PROVE  row'[c].cj = IF Differs(c, remote) THEN remote[c] ELSE row[c].cj
    <3>1. row[c] \in Row
      BY <1>s DEF GradeShape
    <3>2. CASE Differs(c, remote)
      BY <2>1, <3>1, <3>2 DEF Synced, Row
    <3>3. CASE ~Differs(c, remote)
      BY <2>1, <3>3 DEF Synced
    <3> QED BY <3>2, <3>3
  <2>5. \A c \in Courses :
          /\ row'[c].cj \in Nat /\ row[c].cj <= row'[c].cj
          /\ Differs(c, remote) => row[c].cj < row'[c].cj
    BY <2>3, <2>4 DEF Differs
  <2>6. Found' \subseteq Found \cup X
    <3>1. \A i \in Hosts : fetch'[i].update \subseteq fetch[i].update \cup X
      BY <2>1
    <3> QED BY <2>1, <3>1 DEF Found
  <2>7. \A x \in Found : x.cou \in Courses /\ x.cj \in Nat /\ x.cj <= row[x.cou].cj
    BY <2>2, <1>f, GradeSyncAssumption DEF GradeSyncAssumption, OneAtATime, Change, Score
  <2>8. \A x \in X : x.cou \in Courses /\ x.cj = row'[x.cou].cj /\ x.ver = row'[x.cou].ver
                     /\ row[x.cou].cj < row'[x.cou].cj
    <3>1. ASSUME NEW x \in X
          PROVE  \E c \in Courses : /\ Differs(c, remote)
                                    /\ x = [cou |-> c, cj |-> row'[c].cj, ver |-> row'[c].ver]
      BY <2>c
    <3>2. ASSUME NEW x \in X
          PROVE  /\ x.cou \in Courses /\ x.cj = row'[x.cou].cj /\ x.ver = row'[x.cou].ver
                 /\ row[x.cou].cj < row'[x.cou].cj
      <4>1. PICK c \in Courses : /\ Differs(c, remote)
                                 /\ x = [cou |-> c, cj |-> row'[c].cj, ver |-> row'[c].ver]
        BY <3>1
      <4>2. x.cou = c /\ x.cj = row'[c].cj /\ x.ver = row'[c].ver
        BY <4>1
      <4>3. row[c].cj < row'[c].cj
        BY <4>1, <2>5
      <4> QED BY <4>2, <4>3
    <3> QED BY <3>2
  <2>9. \A x \in Found' : x.cj <= row'[x.cou].cj
    <3>1. ASSUME NEW x \in Found PROVE x.cj <= row'[x.cou].cj
      <4>1. x.cou \in Courses /\ x.cj \in Nat /\ x.cj <= row[x.cou].cj
        BY <2>7
      <4>2. PICK c \in Courses : c = x.cou
        BY <4>1
      <4>3. row[c].cj \in Nat /\ row'[c].cj \in Nat /\ row[c].cj <= row'[c].cj
        BY <2>3, <2>5
      <4> QED BY <4>1, <4>2, <4>3
    <3>2. ASSUME NEW x \in X PROVE x.cj <= row'[x.cou].cj
      <4>1. x.cou \in Courses /\ x.cj = row'[x.cou].cj
        BY <2>8
      <4>2. PICK c \in Courses : c = x.cou
        BY <4>1
      <4>3. row'[c].cj \in Nat
        BY <2>5
      <4> QED BY <4>1, <4>2, <4>3
    <3> QED BY <3>1, <3>2, <2>6
  <2>10. ASSUME NEW x \in Found', NEW y \in Found', x.cou = y.cou, x.cj = y.cj PROVE x = y
    <3>1. CASE x \in Found /\ y \in Found
      BY <2>10, <2>2, <3>1 DEF OneAtATime
    <3>2. CASE x \in X /\ y \in X
      BY <2>10, <2>c, <3>2
    <3>3. ~(x \in X /\ y \in Found) /\ ~(x \in Found /\ y \in X)
      BY <2>10, <2>3, <2>5, <2>7, <2>8
    <3> QED BY <2>6, <3>1, <3>2, <3>3
  <2>11. \A i, k \in Hosts : fetch'[i].pc # "none" /\ fetch'[k].pc # "none" => i = k
    BY <2>2
  <2>12. \A i \in Hosts : fetch'[i].pc # "sync"
    BY <2>1, <2>2
  <2> QED BY <2>9, <2>10, <2>11, <2>12 DEF OneAtATime
<1>5. ASSUME UNCHANGED <<fetch, pushed, alone>>, \A c \in Courses : row'[c].cj = row[c].cj PROVE OneAtATime'
  <2>1. Found' = Found
    BY <1>5 DEF Found
  <2> QED BY <1>5, <2>1, <1>f, QuietSteps DEF OneAtATime
<1>6. ASSUME NEW w \in Workers, WorkerStep(w) \/ Interrupt(w) PROVE OneAtATime'
  <2>1. UNCHANGED <<fetch, pushed, alone>>
    BY <1>6 DEF WorkerStep, UpdateDetailScore, GetDetail, SaveDetail, Acknowledge, Interrupt
  <2>2. \A c \in Courses : row'[c].cj = row[c].cj
    <3>1. CASE SaveDetail(w)
      <4>1. PICK d \in worker[w].cou :
              \/ UNCHANGED row
              \/ row' = [row EXCEPT ![d].det = worker[w].detail, ![d].ver = @ + 1]
        BY <3>1 DEF SaveDetail
      <4>2. row \in [Courses -> Row] /\ \A c \in Courses : row[c] \in Row
        BY <1>s DEF GradeShape
      <4> QED BY <4>1, <4>2 DEF Row
    <3>2. CASE ~SaveDetail(w)
      BY <1>6, <3>2 DEF WorkerStep, UpdateDetailScore, GetDetail, Acknowledge, Interrupt, gradeTable
    <3> QED BY <3>1, <3>2
  <2> QED BY <2>1, <2>2, <1>5
<1>7. CASE (\E c \in Courses : Publish(c) \/ ShowDetails(c)) \/ UNCHANGED gradeVars
  BY <1>7, <1>5 DEF Publish, ShowDetails, gradeVars, gradeTable
<1> QED BY <1>1, <1>2, <1>3, <1>4, <1>6, <1>7 DEF GradeNext, FetchStep, GetUpdateScore, GetGrades

LEMMA OneAtATimeAlways == GradeSpec => []OneAtATime
<1> QED BY GradeInvInit, OneAtATimeStep, GradeInvAlways, PTL DEF GradeSpec

(* While no two processes fetch at the same time, a score is told to the   *)
(* tiered refresh once, however fetches, details and refreshes overlap.    *)
THEOREM PushedOnce == GradeSpec => []ScorePushedOnce
<1>1. OneAtATime => ScorePushedOnce
  BY DEF OneAtATime, ScorePushedOnce, Found
<1> QED BY <1>1, OneAtATimeAlways, PTL

(* Under the same condition no score in the table is replaced by an older  *)
(* one.                                                                    *)
THEOREM NeverBack == GradeSpec => ScoresNeverGoBack
<1> DEFINE Up == alone' => \A c \in Courses : row'[c].cj >= row[c].cj
<1>1. GradeInv /\ OneAtATime /\ [GradeNext]_gradeVars => Up
  <2> SUFFICES ASSUME GradeInv, OneAtATime, [GradeNext]_gradeVars, alone', NEW c \in Courses
               PROVE  row'[c].cj >= row[c].cj
    OBVIOUS
  <2>s. GradeShape /\ row[c] \in Row
    BY DEF GradeInv, GradeShape
  <2>n. row[c].cj \in Nat
    BY <2>s, GradeSyncAssumption DEF GradeSyncAssumption, Row, Score
  <2>1. CASE row' = row
    BY <2>1, <2>n
  <2>2. ASSUME NEW h \in Hosts, BatchInsertOrUpdate(h) PROVE row'[c].cj >= row[c].cj
    <3>1. alone /\ fetch[h].pc = "sync" /\ row'[c] = Synced(c, fetch[h].remote)
      BY <2>2 DEF BatchInsertOrUpdate
    <3>2. row[c].cj <= fetch[h].remote[c] /\ fetch[h].remote[c] \in Nat
      BY <3>1, <2>s, GradeSyncAssumption DEF GradeSyncAssumption, OneAtATime, GradeShape, Fetch, Score
    <3>3. CASE Differs(c, fetch[h].remote)
      <4>1. row'[c].cj = fetch[h].remote[c]
        BY <3>1, <3>3, <2>s DEF Synced, Row
      <4> QED BY <4>1, <3>2, <2>n
    <3>4. CASE ~Differs(c, fetch[h].remote)
      BY <3>1, <3>4, <2>n DEF Synced
    <3> QED BY <3>3, <3>4
  <2>3. ASSUME NEW w \in Workers, SaveDetail(w) PROVE row'[c].cj >= row[c].cj
    <3>1. PICK d \in worker[w].cou :
            \/ UNCHANGED row
            \/ row' = [row EXCEPT ![d].det = worker[w].detail, ![d].ver = @ + 1]
      BY <2>3 DEF SaveDetail
    <3>2. row'[c].cj = row[c].cj
      BY <3>1, <2>s DEF GradeShape, Row
    <3> QED BY <3>2, <2>n
  <2>4. CASE \E h \in Hosts : GetUpdateScore(h) \/ GetGrades(h) \/ GetRemoteGrades(h) \/ SendMessage(h) \/ Abort(h)
    BY <2>1, <2>4 DEF GetUpdateScore, GetGrades, Do, GetRemoteGrades, SendMessage, Abort, gradeTable
  <2>5. CASE \E w \in Workers : UpdateDetailScore(w) \/ GetDetail(w) \/ Acknowledge(w) \/ Interrupt(w)
    BY <2>1, <2>5 DEF UpdateDetailScore, GetDetail, Acknowledge, Interrupt, gradeTable
  <2>6. CASE (\E d \in Courses : Publish(d) \/ ShowDetails(d)) \/ UNCHANGED gradeVars
    BY <2>1, <2>6 DEF Publish, ShowDetails, gradeVars, gradeTable
  <2> QED BY <2>2, <2>3, <2>4, <2>5, <2>6 DEF GradeNext, FetchStep, WorkerStep
<1> QED BY <1>1, GradeInvAlways, OneAtATimeAlways, PTL DEF GradeSpec, ScoresNeverGoBack

-----------------------------------------------------------------------------
(* Announcements.  The next student of a job is one of those it has to do, *)
(* and the cursor of a broadcast moves to the last of its page.            *)
LEMMA MinIsOne ==
  ASSUME NEW T, T \subseteq Nat, T # {}
  PROVE  Min(T) \in T
<1> DEFINE R == OpToRel(<, Nat)
<1>1. PICK x \in T : \A y \in T : ~ (<<y, x>> \in R)
  <2>1. IsWellFoundedOn(R, Nat)
    BY NatLessThanWellFounded
  <2> HIDE DEF R
  <2> QED BY <2>1, WFMin
<1>2. \A y \in T : x <= y
  <2> SUFFICES ASSUME NEW y \in T PROVE x <= y
    OBVIOUS
  <2>1. <<y, x>> \notin R
    BY <1>1
  <2>2. ~ (y < x)
    BY <2>1 DEF OpToRel
  <2> QED BY <2>2
<1> QED BY <1>1, <1>2 DEF Min

LEMMA MaxIsLast ==
  ASSUME NEW n \in Nat, NEW T, T \subseteq 1 .. n, T # {}
  PROVE  Max(T) \in T /\ \A y \in T : y <= Max(T)
<1> DEFINE D == {k \in Nat : \E y \in T : k = n - y}
<1>1. D \subseteq Nat /\ D # {}
  <2>1. PICK y \in T : TRUE
    OBVIOUS
  <2>2. n - y \in Nat
    OBVIOUS
  <2> QED BY <2>1, <2>2
<1> DEFINE R == OpToRel(<, Nat)
<1>2. PICK x \in D : \A y \in D : ~ (<<y, x>> \in R)
  <2>1. IsWellFoundedOn(R, Nat)
    BY NatLessThanWellFounded
  <2> HIDE DEF R, D
  <2> QED BY <1>1, <2>1, WFMin
<1>3. PICK z \in T : x = n - z
  OBVIOUS
<1>4. \A y \in T : y <= z
  <2> SUFFICES ASSUME NEW y \in T PROVE y <= z
    OBVIOUS
  <2>0. n - y \in D
    BY <1>1
  <2>1. <<n - y, n - z>> \notin R
    <3> HIDE DEF D, R
    <3> QED BY <2>0, <1>2, <1>3
  <2>2. ~ (n - y < n - z)
    BY <2>1, <1>1 DEF OpToRel
  <2> QED BY <2>2
<1>5. Max(T) \in T /\ \A y \in T : Max(T) >= y
  <2>1. \A y \in T : z >= y
    BY <1>4
  <2> QED BY <2>1, Zenon DEF Max
<1> QED BY <1>5

(* The types, jobs in one piece, and what a job has behind it: whom it     *)
(* passed over has the message already or is not to get it.                *)
Job ==
  [pc : {"idle", "page", "send", "push"}, batch : SUBSET Plans, key : SUBSET Keys,
   todo : SUBSET Students, cursor : 0 .. Members, base : 0 .. Members]
Plan == [state : {"none", "planned", "due", "done", "stopped"}, to : SUBSET Students, all : BOOLEAN]
Event == [Students -> {"none", "shown", "cleared"}]

FeedShape ==
  /\ registered \in 0 .. Members /\ graduated \subseteq Students
  /\ whiteList \in [to : SUBSET Students, all : BOOLEAN]
  /\ plans \in [Plans -> Plan]
  /\ jobs \in [Jobs -> Job]
  /\ queued \in [Keys -> SUBSET Students]
  /\ rows \in [Keys -> Event]
  /\ inserts \in [Keys -> [Students -> 0 .. 2]]
  /\ promised \in [Keys -> SUBSET Students]
  /\ failures \in 0 .. MaxFailures

Reached(k, s) == s \in queued[k] \/ rows[k][s] # "none"
Excused(m, s) == plans[m].all /\ s \in graduated

JobFits(r) ==
  /\ r.pc = "idle" <=> r.key = {}
  /\ r.batch \cap r.key = {}
  /\ \A m \in r.batch : plans[m].state # "none"
  /\ \A k, l \in r.key : k = l
  /\ \A m \in r.key \cap Plans :
       /\ r.pc \in {"send", "push"} /\ plans[m].state # "none"
       /\ r.todo \subseteq plans[m].to
       /\ \A s \in plans[m].to \ r.todo : Reached(m, s) \/ Excused(m, s)
  /\ \A k \in r.key \cap Holidays :
       /\ r.pc \in {"page", "send"} /\ r.base <= registered
       /\ r.pc = "page" => r.todo = {}
       /\ \A s \in Students : s <= r.cursor /\ s \notin r.todo => Reached(k, s)
  /\ r.pc = "push" => r.todo # {}

EventsFit ==
  /\ \A m \in Plans :
       /\ plans[m].state = "none" => plans[m].to = {}
       /\ \A s \in Students : Reached(m, s) => s \in plans[m].to
  /\ \A k \in Keys, s \in Students :
       inserts[k][s] = IF rows[k][s] = "none" THEN 0 ELSE 1
  /\ \A k \in Keys : \A s \in promised[k] : Reached(k, s)

FeedInv == FeedShape /\ EventsFit /\ \A j \in Jobs : JobFits(jobs[j])

(* Nothing is planned or sent at the beginning.                            *)
LEMMA FeedInvInit == AnnouncementInit => FeedInv
<1> SUFFICES ASSUME AnnouncementInit PROVE FeedInv
  OBVIOUS
<1> USE AnnouncementAssumption DEF AnnouncementAssumption, AnnouncementInit
<1>1. NoPlan \in Plan /\ NoPlan.state = "none" /\ NoPlan.to = {}
  BY DEF NoPlan, Plan
<1>2. NoJob \in Job /\ NoJob.pc = "idle" /\ NoJob.key = {} /\ NoJob.batch = {}
  BY DEF NoJob, Job
<1>3. FeedShape
  BY <1>1, <1>2 DEF FeedShape, NoList, Event
<1>4. EventsFit
  <2>1. \A k \in Keys, s \in Students :
          ~Reached(k, s) /\ inserts[k][s] = 0 /\ rows[k][s] = "none" /\ promised[k] = {}
    BY DEF Reached
  <2>2. \A m \in Plans : m \in Keys /\ plans[m].to = {}
    BY <1>1 DEF Keys
  <2>3. \A k \in Keys : promised[k] = {}
    OBVIOUS
  <2> QED BY <2>1, <2>2, <2>3 DEF EventsFit
<1>5. \A j \in Jobs : JobFits(jobs[j])
  BY <1>2 DEF JobFits
<1> QED BY <1>3, <1>4, <1>5 DEF FeedInv

(* Whom a message has reached it has reached for good, and a plan keeps    *)
(* its recipients: jobs that fit go on fitting.                            *)
LEMMA FeedMoves ==
  ASSUME FeedInv, FeedShape', EventsFit',
         \A i \in Jobs : JobFits(jobs'[i]) \/ JobFits(jobs[i])',
         \A k \in Keys, s \in Students : Reached(k, s) => Reached(k, s)',
         \A m \in Plans : plans[m].state # "none" =>
           plans'[m].state # "none" /\ plans'[m].to = plans[m].to /\ plans'[m].all = plans[m].all,
         graduated \subseteq graduated', registered <= registered'
  PROVE  FeedInv'
<1>1. ASSUME NEW r \in Job, JobFits(r) PROVE JobFits(r)'
  <2>1. registered \in Nat /\ registered' \in Nat /\ r.base \in Nat
    BY AnnouncementAssumption DEF AnnouncementAssumption, FeedInv, FeedShape, Job
  <2>2. r.batch \subseteq Plans /\ r.key \subseteq Keys
    BY DEF Job
  <2>3. ASSUME NEW m \in r.key \cap Plans
        PROVE  /\ r.pc \in {"send", "push"} /\ plans'[m].state # "none"
               /\ r.todo \subseteq plans'[m].to
               /\ \A s \in plans'[m].to \ r.todo : Reached(m, s)' \/ Excused(m, s)'
    <3>1. /\ r.pc \in {"send", "push"} /\ plans[m].state # "none" /\ r.todo \subseteq plans[m].to
          /\ \A s \in plans[m].to \ r.todo : Reached(m, s) \/ Excused(m, s)
      BY <1>1 DEF JobFits
    <3>2. plans[m].to \subseteq Students
      BY DEF FeedInv, FeedShape, Plan
    <3>3. m \in Keys
      BY DEF Keys
    <3>4. \A s : Excused(m, s) => Excused(m, s)'
      BY <3>1 DEF Excused
    <3> QED BY <3>1, <3>2, <3>3, <3>4
  <2>4. ASSUME NEW k \in r.key \cap Holidays
        PROVE  /\ r.pc \in {"page", "send"} /\ r.base <= registered'
               /\ r.pc = "page" => r.todo = {}
               /\ \A s \in Students : s <= r.cursor /\ s \notin r.todo => Reached(k, s)'
    BY <1>1, <2>1 DEF JobFits, Keys
  <2>5. \A m \in r.batch : plans'[m].state # "none"
    BY <1>1, <2>2 DEF JobFits
  <2>6. /\ r.pc = "idle" <=> r.key = {}
        /\ r.batch \cap r.key = {}
        /\ \A k, l \in r.key : k = l
        /\ r.pc = "push" => r.todo # {}
    BY <1>1 DEF JobFits
  <2> QED BY <2>3, <2>4, <2>5, <2>6 DEF JobFits
<1>2. \A i \in Jobs : JobFits(jobs[i])'
  <2> SUFFICES ASSUME NEW i \in Jobs, JobFits(jobs'[i]) PROVE JobFits(jobs[i])'
    OBVIOUS
  <2>1. PICK r : r = jobs'[i]
    OBVIOUS
  <2>2. r \in Job
    <3>1. Job' = Job
      BY DEF Job, Keys, Students
    <3> QED BY <2>1, <3>1 DEF FeedShape
  <2>3. JobFits(r)'
    BY <1>1, <2>1, <2>2
  <2> QED BY <2>1, <2>3 DEF JobFits
<1> QED BY <1>2 DEF FeedInv

(* A step that only moves a job.                                           *)
LEMMA JobMoves ==
  ASSUME FeedInv, NEW j \in Jobs, NEW r \in Job, JobFits(r), JobGoes(j, r),
         UNCHANGED <<worldVars, plans, storeVars>>,
         promised' \in [Keys -> SUBSET Students],
         \A k \in Keys : \A s \in promised'[k] : Reached(k, s),
         failures' \in 0 .. MaxFailures
  PROVE  FeedInv'
<1> USE DEF worldVars, storeVars
<1>0. Job' = Job /\ Plan' = Plan /\ Event' = Event /\ Keys' = Keys /\ Students' = Students
  BY DEF Job, Plan, Event, Keys, Students
<1>1. FeedShape'
  BY <1>0 DEF FeedInv, FeedShape, JobGoes
<1>2. \A k, s : Reached(k, s)' = Reached(k, s)
  BY DEF Reached
<1>3. EventsFit'
  BY <1>0, <1>2 DEF FeedInv, EventsFit
<1>4. \A i \in Jobs : JobFits(jobs'[i])
  BY DEF FeedInv, FeedShape, JobGoes
<1>5. registered <= registered'
  BY AnnouncementAssumption DEF AnnouncementAssumption, FeedInv, FeedShape
<1> QED BY <1>1, <1>2, <1>3, <1>4, <1>5, FeedMoves

(* The student a job goes on with, and the job once that student is done.  *)
LEMMA NextIsOne ==
  ASSUME FeedInv, NEW j \in Jobs, jobs[j].pc # "idle"
  PROVE  /\ KeyOf(j) \in Keys /\ jobs[j].key = {KeyOf(j)}
         /\ jobs[j].todo # {} => NextOf(j) \in jobs[j].todo /\ NextOf(j) \in Students
<1>1. jobs[j] \in Job /\ JobFits(jobs[j])
  BY DEF FeedInv, FeedShape
<1>2. jobs[j].key # {} /\ jobs[j].key \subseteq Keys /\ \A k, l \in jobs[j].key : k = l
  BY <1>1 DEF JobFits, Job
<1>3. KeyOf(j) \in jobs[j].key
  BY <1>2, Zenon DEF KeyOf
<1>4. jobs[j].todo \subseteq Students /\ Students \subseteq Nat
  BY <1>1, AnnouncementAssumption DEF AnnouncementAssumption, Job, Students
<1>5. jobs[j].todo # {} => NextOf(j) \in jobs[j].todo
  BY <1>4, MinIsOne DEF NextOf
<1> QED BY <1>2, <1>3, <1>4, <1>5

LEMMA TickedFits ==
  ASSUME FeedInv, NEW j \in Jobs, jobs[j].pc \in {"send", "push"}, jobs[j].todo # {},
         NEW k, k = KeyOf(j), NEW n, n = NextOf(j), NEW t, t = Ticked(j),
         UNCHANGED <<registered, graduated, plans>>,
         \A l \in Keys, s \in Students : Reached(l, s) => Reached(l, s)',
         Reached(k, n)' \/ (k \in Plans /\ Excused(k, n))
  PROVE  t \in Job /\ JobFits(t)'
<1>c. PICK r : r = jobs[j]
  OBVIOUS
<1>1. r \in Job /\ JobFits(r)
  BY <1>c DEF FeedInv, FeedShape
<1>2. r.key = {k} /\ k \in Keys /\ n \in r.todo /\ r.pc \in {"send", "push"}
  BY <1>c, NextIsOne
<1>3. plans' = plans /\ registered' = registered /\ \A m, s : Excused(m, s) => Excused(m, s)'
  BY DEF Excused
<1>4. /\ t \in Job /\ t.pc = "send" /\ t.batch = r.batch /\ t.key = r.key /\ t.todo = r.todo \ {n}
      /\ t.cursor = r.cursor /\ t.base = r.base
  BY <1>1, <1>c DEF Ticked, Job
<1>5. JobFits(t)'
  <2>1. ASSUME NEW m \in t.key \cap Plans
        PROVE  /\ plans'[m].state # "none" /\ t.todo \subseteq plans'[m].to
               /\ \A s \in plans'[m].to \ t.todo : Reached(m, s)' \/ Excused(m, s)'
    <3>1. m = k
      BY <1>2, <1>4
    <3>2. /\ plans[m].state # "none" /\ r.todo \subseteq plans[m].to
          /\ \A s \in plans[m].to \ r.todo : Reached(m, s) \/ Excused(m, s)
      BY <3>1, <1>1, <1>2 DEF JobFits
    <3>3. plans[m].to \subseteq Students
      BY DEF FeedInv, FeedShape, Plan
    <3> QED BY <3>1, <3>2, <3>3, <1>2, <1>3, <1>4
  <2>2. ASSUME NEW m \in t.key \cap Holidays
        PROVE  /\ t.base <= registered'
               /\ \A s \in Students : s <= t.cursor /\ s \notin t.todo => Reached(m, s)'
    <3>1. m = k /\ m \notin Plans
      BY <1>2, <1>4, AnnouncementAssumption DEF AnnouncementAssumption
    <3>2. /\ r.base <= registered
          /\ \A s \in Students : s <= r.cursor /\ s \notin r.todo => Reached(m, s)
      BY <3>1, <1>1, <1>2 DEF JobFits
    <3> QED BY <3>1, <3>2, <1>2, <1>3, <1>4
  <2>3. \A m \in t.batch : plans'[m].state # "none"
    BY <1>1, <1>3, <1>4 DEF JobFits
  <2> QED BY <2>1, <2>2, <2>3, <1>1, <1>2, <1>4 DEF JobFits
<1> QED BY <1>4, <1>5

(* The steps of operators and students, of Kafka and of the store.         *)
LEMMA WorldSteps ==
  ASSUME FeedInv,
         \/ Register \/ Graduate \/ SetOfficialWhiteList \/ ExpireWhiteList
         \/ \E m \in Plans : PublicMuxiOfficialMSG(m) \/ PlanFallsDue(m) \/ StopPlan(m)
  PROVE  FeedInv'
<1> USE AnnouncementAssumption DEF AnnouncementAssumption
<1>0. Job' = Job /\ Plan' = Plan /\ Event' = Event /\ Keys' = Keys /\ Students' = Students
  BY DEF Job, Plan, Event, Keys, Students
<1>s. FeedShape /\ EventsFit /\ (\A i \in Jobs : JobFits(jobs[i])) /\ registered \in Nat
  BY DEF FeedInv, FeedShape
<1>1. UNCHANGED <<jobs, storeVars, promised, failures>>
  BY DEF Register, Graduate, SetOfficialWhiteList, ExpireWhiteList, PublicMuxiOfficialMSG, PlanFallsDue, StopPlan
<1>2. /\ registered' \in 0 .. Members /\ registered <= registered'
      /\ graduated' \subseteq Students /\ graduated \subseteq graduated'
  <2>1. CASE Register
    BY <2>1, <1>s DEF Register, FeedShape
  <2>2. CASE Graduate
    BY <2>2, <1>s DEF Graduate, FeedShape, Students
  <2>3. CASE ~Register /\ ~Graduate
    BY <2>3, <1>s DEF SetOfficialWhiteList, ExpireWhiteList, PublicMuxiOfficialMSG, PlanFallsDue,
                      StopPlan, FeedShape
  <2> QED BY <2>1, <2>2, <2>3
<1>3. whiteList' \in [to : SUBSET Students, all : BOOLEAN]
  <2>1. CASE SetOfficialWhiteList
    <3>1. PICK to \in SUBSET (1 .. registered), all \in BOOLEAN : whiteList' = [to |-> to, all |-> all]
      BY <2>1 DEF SetOfficialWhiteList
    <3>2. to \subseteq Students
      BY <1>s DEF FeedShape, Students
    <3> QED BY <3>1, <3>2
  <2>2. CASE ExpireWhiteList
    BY <2>2 DEF ExpireWhiteList, NoList
  <2>3. CASE ~SetOfficialWhiteList /\ ~ExpireWhiteList
    BY <2>3, <1>s DEF Register, Graduate, PublicMuxiOfficialMSG, PlanFallsDue, StopPlan, FeedShape
  <2> QED BY <2>1, <2>2, <2>3
<1>4. /\ plans' \in [Plans -> Plan]
      /\ \A m \in Plans :
           /\ plans[m].state # "none" =>
                plans'[m].state # "none" /\ plans'[m].to = plans[m].to /\ plans'[m].all = plans[m].all
           /\ plans'[m].state = "none" => plans'[m].to = {}
  <2>t. ASSUME NEW m \in Plans PROVE plans[m] \in Plan /\ (plans[m].state = "none" => plans[m].to = {})
    BY <1>s DEF FeedShape, EventsFit
  <2>1. ASSUME NEW m \in Plans, PublicMuxiOfficialMSG(m)
        PROVE  /\ plans' \in [Plans -> Plan]
               /\ \A d \in Plans \ {m} : plans'[d] = plans[d]
               /\ plans[m].state = "none" /\ plans'[m].state # "none"
    <3>1. PICK to : /\ to \subseteq Students /\ plans[m].state = "none"
                    /\ plans' = [plans EXCEPT ![m] = [state |-> "planned", to |-> to, all |-> whiteList.all]]
      <4>1. PICK gone \in SUBSET Students : plans' = [plans EXCEPT ![m] =
              [state |-> "planned", to |-> Frozen(gone), all |-> whiteList.all]]
        BY <2>1 DEF PublicMuxiOfficialMSG
      <4>2. Frozen(gone) \subseteq Students
        BY <1>s DEF FeedShape, Frozen
      <4> QED BY <4>1, <4>2, <2>1 DEF PublicMuxiOfficialMSG
    <3>2. [state |-> "planned", to |-> to, all |-> whiteList.all] \in Plan
      BY <3>1, <1>s DEF FeedShape, Plan
    <3> QED BY <3>1, <3>2, <1>s DEF FeedShape
  <2>2. ASSUME NEW m \in Plans, NEW st \in {"due", "stopped"},
               plans[m].state # "none", plans' = [plans EXCEPT ![m].state = st]
        PROVE  /\ plans' \in [Plans -> Plan]
               /\ \A d \in Plans \ {m} : plans'[d] = plans[d]
               /\ plans'[m].state # "none" /\ plans'[m].to = plans[m].to /\ plans'[m].all = plans[m].all
    <3>1. plans'[m] = [plans[m] EXCEPT !.state = st] /\ \A d \in Plans \ {m} : plans'[d] = plans[d]
      BY <2>2, <1>s DEF FeedShape
    <3>2. plans'[m] \in Plan /\ plans'[m].state = st /\ plans'[m].to = plans[m].to /\ plans'[m].all = plans[m].all
      BY <3>1, <2>t DEF Plan
    <3> QED BY <2>2, <3>1, <3>2, <1>s DEF FeedShape
  <2>3. CASE \E m \in Plans : PublicMuxiOfficialMSG(m)
    <3>1. PICK m \in Plans : PublicMuxiOfficialMSG(m)
      BY <2>3
    <3> QED BY <3>1, <2>1, <2>t
  <2>4. CASE \E m \in Plans : PlanFallsDue(m) \/ StopPlan(m)
    <3>1. PICK m \in Plans, st \in {"due", "stopped"} :
            plans[m].state # "none" /\ plans' = [plans EXCEPT ![m].state = st]
      BY <2>4 DEF PlanFallsDue, StopPlan
    <3> QED BY <3>1, <2>2, <2>t
  <2>5. CASE UNCHANGED plans
    BY <2>5, <1>s, <2>t DEF FeedShape
  <2> QED BY <2>3, <2>4, <2>5 DEF Register, Graduate, SetOfficialWhiteList, ExpireWhiteList
<1>5. \A k, s : Reached(k, s)' = Reached(k, s)
  BY <1>1 DEF storeVars, Reached
<1>6. FeedShape'
  BY <1>0, <1>1, <1>2, <1>3, <1>4, <1>s DEF FeedShape, storeVars
<1>7. EventsFit'
  <2>1. ASSUME NEW m \in Plans, NEW s \in Students, Reached(m, s)' PROVE s \in plans'[m].to
    <3>1. s \in plans[m].to
      BY <2>1, <1>5, <1>s DEF EventsFit
    <3>2. plans[m].state # "none"
      BY <3>1, <1>s DEF EventsFit
    <3> QED BY <3>1, <3>2, <1>4
  <2> QED BY <2>1, <1>0, <1>1, <1>4, <1>5, <1>s DEF EventsFit, storeVars
<1> QED BY <1>1, <1>2, <1>4, <1>5, <1>6, <1>7, <1>s, FeedMoves

LEMMA EventSteps ==
  ASSUME FeedInv, NEW k \in Keys, NEW s \in Students,
         ConsumeEvent(k, s) \/ ConsumeAgain(k, s) \/ ClearFeedEvent(k, s)
  PROVE  FeedInv'
<1> USE AnnouncementAssumption DEF AnnouncementAssumption
<1>0. Job' = Job /\ Plan' = Plan /\ Event' = Event /\ Keys' = Keys /\ Students' = Students
  BY DEF Job, Plan, Event, Keys, Students
<1>s. FeedShape /\ EventsFit /\ (\A i \in Jobs : JobFits(jobs[i])) /\ registered \in Nat
  BY DEF FeedInv, FeedShape
<1>1. UNCHANGED <<worldVars, plans, jobs, promised, failures>>
  BY DEF ConsumeEvent, ConsumeAgain, ClearFeedEvent
<1>2. /\ queued' \in [Keys -> SUBSET Students]
      /\ \A l \in Keys : \A d \in Students : d \in queued'[l] => d \in queued[l]
      /\ \A l \in Keys : \A d \in Students :
           d \in queued[l] => d \in queued'[l] \/ (l = k /\ d = s /\ rows'[k][s] # "none")
  <2>r. rows \in [Keys -> Event] /\ rows[k] \in [Students -> {"none", "shown", "cleared"}]
    BY <1>s DEF FeedShape, Event
  <2>1. CASE ConsumeEvent(k, s)
    <3>1. queued' = [queued EXCEPT ![k] = @ \ {s}]
      BY <2>1 DEF ConsumeEvent
    <3>2. rows'[k][s] # "none"
      <4>1. CASE rows[k][s] = "none"
        <5>1. rows' = [rows EXCEPT ![k][s] = "shown"]
          BY <2>1, <4>1 DEF ConsumeEvent, Inserted
        <5> QED BY <5>1, <2>r
      <4>2. CASE rows[k][s] # "none"
        BY <2>1, <4>2 DEF ConsumeEvent, Inserted
      <4> QED BY <4>1, <4>2
    <3> QED BY <3>1, <3>2, <1>s DEF FeedShape
  <2>2. CASE queued' = queued
    BY <2>2, <1>s DEF FeedShape
  <2> QED BY <2>1, <2>2 DEF ConsumeAgain, ClearFeedEvent
<1>3. /\ rows' \in [Keys -> Event] /\ inserts' \in [Keys -> [Students -> 0 .. 2]]
      /\ \A l \in Keys, d \in Students : inserts'[l][d] = IF rows'[l][d] = "none" THEN 0 ELSE 1
      /\ \A l \in Keys, d \in Students : rows[l][d] # "none" => rows'[l][d] # "none"
      /\ \A l \in Keys, d \in Students :
           rows'[l][d] # "none" => rows[l][d] # "none" \/ (l = k /\ d = s /\ Reached(k, s))
  <2>r. /\ rows \in [Keys -> Event] /\ inserts \in [Keys -> [Students -> 0 .. 2]]
        /\ \A l \in Keys, d \in Students : inserts[l][d] = IF rows[l][d] = "none" THEN 0 ELSE 1
    BY <1>s DEF FeedShape, EventsFit
  <2>1. CASE /\ rows[k][s] = "none" /\ s \in queued[k]
             /\ rows' = [rows EXCEPT ![k][s] = "shown"]
             /\ inserts' = [inserts EXCEPT ![k][s] = IF @ < 2 THEN @ + 1 ELSE @]
    <3>1. inserts[k][s] = 0
      BY <2>1, <2>r
    <3>2. /\ rows' \in [Keys -> Event]
          /\ \A l \in Keys, d \in Students : rows'[l][d] = IF l = k /\ d = s THEN "shown" ELSE rows[l][d]
      BY <2>1, <2>r DEF Event
    <3>3. /\ inserts' \in [Keys -> [Students -> 0 .. 2]]
          /\ \A l \in Keys, d \in Students : inserts'[l][d] = IF l = k /\ d = s THEN 1 ELSE inserts[l][d]
      BY <2>1, <2>r, <3>1
    <3> QED BY <3>2, <3>3, <2>1, <2>r DEF Reached
  <2>2. CASE rows[k][s] = "shown" /\ rows' = [rows EXCEPT ![k][s] = "cleared"] /\ inserts' = inserts
    <3>1. /\ rows' \in [Keys -> Event]
          /\ \A l \in Keys, d \in Students : rows'[l][d] = IF l = k /\ d = s THEN "cleared" ELSE rows[l][d]
      BY <2>2, <2>r DEF Event
    <3> QED BY <3>1, <2>2, <2>r
  <2>3. CASE rows' = rows /\ inserts' = inserts
    BY <2>3, <2>r
  <2> QED BY <2>1, <2>2, <2>3 DEF ConsumeEvent, ConsumeAgain, ClearFeedEvent, Inserted
<1>4. \A l \in Keys, d \in Students : Reached(l, d) <=> Reached(l, d)'
  BY <1>2, <1>3 DEF Reached
<1>5. FeedShape'
  BY <1>0, <1>1, <1>2, <1>3, <1>s DEF FeedShape, worldVars
<1>6. EventsFit'
  <2>1. \A m \in Plans : m \in Keys
    BY DEF Keys
  <2>2. \A l \in Keys : promised[l] \subseteq Students
    BY <1>s DEF FeedShape
  <2> QED BY <2>1, <2>2, <1>0, <1>1, <1>3, <1>4, <1>s DEF EventsFit
<1>7. registered <= registered' /\ graduated \subseteq graduated'
  BY <1>1, <1>s DEF worldVars
<1> QED BY <1>1, <1>4, <1>5, <1>6, <1>7, <1>s, FeedMoves

(* Who a job is about to serve has the message in Kafka from then on.      *)
LEMMA SendSteps ==
  ASSUME FeedInv, NEW j \in Jobs, SendEvent(j) \/ SendEventFails(j)
  PROVE  FeedInv'
<1> USE AnnouncementAssumption DEF AnnouncementAssumption
<1>0. Job' = Job /\ Plan' = Plan /\ Event' = Event /\ Keys' = Keys /\ Students' = Students
  BY DEF Job, Plan, Event, Keys, Students
<1>s. FeedShape /\ EventsFit /\ (\A i \in Jobs : JobFits(jobs[i])) /\ registered \in Nat
  BY DEF FeedInv, FeedShape
<1>c. PICK r, k, n, t : r = jobs[j] /\ k = KeyOf(j) /\ n = NextOf(j) /\ t = Ticked(j)
  OBVIOUS
<1>1. r \in Job /\ JobFits(r)
  BY <1>c, <1>s DEF FeedShape
<1>2. r.pc \in {"send", "push"} /\ r.todo # {}
  BY <1>1, <1>c DEF SendEvent, SendEventFails, PushesNow, JobFits
<1>3. k \in Keys /\ r.key = {k} /\ n \in r.todo /\ n \in Students
  BY <1>2, <1>c, NextIsOne
<1>4. UNCHANGED <<worldVars, plans, rows, inserts, promised>> /\ failures' \in 0 .. MaxFailures
  BY <1>s DEF SendEvent, SendEventFails, FeedShape
<1>5. queued' = [queued EXCEPT ![k] = @ \cup {n}] \/ queued' = queued
  BY <1>c DEF SendEvent, SendEventFails, Queue
<1>6. /\ queued' \in [Keys -> SUBSET Students]
      /\ \A l \in Keys, d \in Students : Reached(l, d) => Reached(l, d)'
      /\ \A l \in Keys, d \in Students : Reached(l, d)' => Reached(l, d) \/ (l = k /\ d = n)
  <2>1. queued \in [Keys -> SUBSET Students]
    BY <1>s DEF FeedShape
  <2>2. \A l \in Keys : /\ queued'[l] \subseteq Students
                        /\ queued[l] \subseteq queued'[l]
                        /\ \A d \in queued'[l] : d \in queued[l] \/ (l = k /\ d = n)
    BY <2>1, <1>3, <1>5
  <2>3. queued' \in [Keys -> SUBSET Students]
    BY <2>1, <2>2, <1>5
  <2> QED BY <2>2, <2>3, <1>4 DEF Reached
<1>7. k \in Plans => n \in plans[k].to
  BY <1>1, <1>3 DEF JobFits
<1>8. EventsFit'
  <2>1. \A m \in Plans : m \in Keys
    BY DEF Keys
  <2>2. ASSUME NEW m \in Plans, NEW d \in Students, Reached(m, d)' PROVE d \in plans'[m].to
    <3>1. CASE Reached(m, d)
      BY <3>1, <1>4, <1>s DEF EventsFit
    <3>2. CASE m = k /\ d = n
      BY <3>2, <1>4, <1>7
    <3> QED BY <2>1, <2>2, <3>1, <3>2, <1>6
  <2>3. \A l \in Keys : promised[l] \subseteq Students
    BY <1>s DEF FeedShape
  <2> QED BY <2>2, <2>3, <1>0, <1>4, <1>6, <1>s DEF EventsFit
<1>9. PICK g : g = jobs'[j]
  OBVIOUS
<1>j. jobs \in [Jobs -> Job]
  BY <1>s DEF FeedShape
<1>q. queued \in [Keys -> SUBSET Students]
  BY <1>s DEF FeedShape
<1>10. /\ g \in Job /\ jobs' = [jobs EXCEPT ![j] = g]
       /\ JobFits(g) \/ JobFits(g)'
  <2>1. CASE SendEvent(j)
    <3>1. jobs' = [jobs EXCEPT ![j] = t] /\ queued' = [queued EXCEPT ![k] = @ \cup {n}]
      BY <2>1, <1>c DEF SendEvent, JobGoes, Queue
    <3>2. g = t
      BY <3>1, <1>9, <1>j
    <3>3. Reached(k, n)'
      BY <3>1, <1>3, <1>q DEF Reached
    <3>4. UNCHANGED <<registered, graduated, plans>>
      BY <1>4 DEF worldVars
    <3>5. t \in Job /\ JobFits(t)'
      BY <3>3, <3>4, <1>2, <1>6, <1>c, TickedFits
    <3> QED BY <3>1, <3>2, <3>5
  <2>2. CASE SendEventFails(j)
    <3>1. jobs' = [jobs EXCEPT ![j] = NoJob]
      BY <2>2 DEF SendEventFails, JobGoes
    <3>2. g = NoJob
      BY <3>1, <1>9, <1>j
    <3>3. NoJob \in Job /\ JobFits(NoJob)
      BY DEF NoJob, Job, JobFits
    <3> QED BY <3>1, <3>2, <3>3
  <2> QED BY <2>1, <2>2
<1>11. FeedShape'
  BY <1>0, <1>4, <1>6, <1>10, <1>s DEF FeedShape, worldVars
<1>m. jobs' = [jobs EXCEPT ![j] = g]
  BY <1>10
<1>12. \A i \in Jobs : JobFits(jobs'[i]) \/ JobFits(jobs[i])'
  <2>1. ASSUME NEW i \in Jobs, i # j PROVE JobFits(jobs'[i])
    <3>1. jobs'[i] = jobs[i]
      BY <2>1, <1>m, <1>j, Zenon
    <3> QED BY <3>1, <1>s
  <2>2. JobFits(jobs'[j]) \/ JobFits(jobs[j])'
    BY <1>9, <1>10 DEF JobFits
  <2> QED BY <2>1, <2>2
<1>13. registered <= registered' /\ graduated \subseteq graduated'
  BY <1>4, <1>s DEF worldVars
<1> QED BY <1>4, <1>6, <1>8, <1>11, <1>12, <1>13, FeedMoves

(* A job that begins with a planned message has all its recipients to do.  *)
LEMMA TakingFits ==
  ASSUME FeedInv, NEW batch \in SUBSET Plans, NEW m \in batch, \A l \in batch : plans[l].state # "none"
  PROVE  Taking(batch, m) \in Job /\ JobFits(Taking(batch, m))
<1>c. PICK t : t = Taking(batch, m)
  OBVIOUS
<1>1. m \in Keys /\ m \notin Holidays /\ plans[m].to \subseteq Students
  BY AnnouncementAssumption DEF AnnouncementAssumption, Keys, FeedInv, FeedShape, Plan
<1>2. 0 \in 0 .. Members
  BY AnnouncementAssumption DEF AnnouncementAssumption
<1>3. /\ t \in Job /\ t.pc = "send" /\ t.batch = batch \ {m} /\ t.key = {m} /\ t.todo = plans[m].to
  BY <1>c, <1>1, <1>2 DEF Taking, NoJob, Job
<1>4. JobFits(t)
  BY <1>1, <1>3 DEF JobFits
<1> QED BY <1>c, <1>3, <1>4

(* A plan is done once its recipients have the message.                    *)
LEMMA FinishSteps ==
  ASSUME FeedInv, NEW j \in Jobs, FinishPlan(j)
  PROVE  FeedInv'
<1> USE AnnouncementAssumption DEF AnnouncementAssumption
<1>0. Job' = Job /\ Plan' = Plan /\ Event' = Event /\ Keys' = Keys /\ Students' = Students
  BY DEF Job, Plan, Event, Keys, Students
<1>s. FeedShape /\ EventsFit /\ (\A i \in Jobs : JobFits(jobs[i])) /\ registered \in Nat
  BY DEF FeedInv, FeedShape
<1>c. PICK r, m, batch, st : /\ r = jobs[j] /\ m = KeyOf(j) /\ batch = r.batch
                             /\ st = IF plans[m].state = "due" THEN "done" ELSE plans[m].state
  OBVIOUS
<1>1. /\ r.pc = "send" /\ r.todo = {} /\ m \in Plans
      /\ UNCHANGED <<worldVars, storeVars, failures>>
      /\ plans' = [plans EXCEPT ![m].state = st]
      /\ promised' = [promised EXCEPT
           ![m] = @ \cup (plans[m].to \ (IF plans[m].all THEN graduated ELSE {}))]
  BY <1>c DEF FinishPlan
<1>2. r \in Job /\ JobFits(r) /\ r.key = {m} /\ m \in Keys
  BY <1>1, <1>c, <1>s, NextIsOne DEF FeedShape
<1>3. /\ plans[m].state # "none" /\ batch \subseteq Plans
      /\ \A s \in plans[m].to : Reached(m, s) \/ Excused(m, s)
      /\ \A l \in batch : plans[l].state # "none"
  BY <1>1, <1>2, <1>c DEF JobFits, Job
<1>4. /\ plans' \in [Plans -> Plan] /\ \A l \in Plans \ {m} : plans'[l] = plans[l]
      /\ plans'[m].state # "none" /\ plans'[m].to = plans[m].to /\ plans'[m].all = plans[m].all
  <2>1. plans \in [Plans -> Plan] /\ plans[m] \in Plan
    BY <1>1, <1>s DEF FeedShape
  <2>2. plans'[m] = [plans[m] EXCEPT !.state = st] /\ \A l \in Plans \ {m} : plans'[l] = plans[l]
    BY <1>1, <2>1
  <2>3. st \in {"planned", "due", "done", "stopped"}
    BY <1>c, <1>3, <2>1 DEF Plan
  <2>4. plans'[m] \in Plan /\ plans'[m].state = st /\ plans'[m].to = plans[m].to /\ plans'[m].all = plans[m].all
    BY <2>1, <2>2, <2>3 DEF Plan
  <2> QED BY <1>1, <2>1, <2>2, <2>3, <2>4
<1>5. /\ promised' \in [Keys -> SUBSET Students]
      /\ \A k \in Keys : \A s \in promised'[k] : Reached(k, s)
  <2>1. /\ promised \in [Keys -> SUBSET Students] /\ plans[m].to \subseteq Students
        /\ \A k \in Keys : \A s \in promised[k] : Reached(k, s)
    BY <1>1, <1>s DEF FeedShape, EventsFit, Plan
  <2>2. PICK new : new = plans[m].to \ (IF plans[m].all THEN graduated ELSE {})
    OBVIOUS
  <2>3. \A s \in new : s \in Students /\ Reached(m, s)
    BY <1>3, <2>1, <2>2 DEF Excused
  <2>4. promised' = [promised EXCEPT ![m] = @ \cup new]
    BY <1>1, <2>2
  <2> QED BY <1>2, <2>1, <2>3, <2>4
<1>6. PICK g : g = jobs'[j]
  OBVIOUS
<1>7. g \in Job /\ jobs' = [jobs EXCEPT ![j] = g] /\ JobFits(g)
  <2>1. CASE JobGoes(j, NoJob)
    <3>1. NoJob \in Job /\ JobFits(NoJob)
      BY DEF NoJob, Job, JobFits
    <3> QED BY <2>1, <3>1, <1>6, <1>s DEF JobGoes, FeedShape
  <2>2. ASSUME NEW n \in batch, JobGoes(j, Taking(batch, n)) PROVE g \in Job /\ jobs' = [jobs EXCEPT ![j] = g] /\ JobFits(g)
    <3>1. Taking(batch, n) \in Job /\ JobFits(Taking(batch, n))
      BY <1>3, TakingFits
    <3> QED BY <2>2, <3>1, <1>6, <1>s DEF JobGoes, FeedShape
  <2> QED BY <2>1, <2>2, <1>c DEF FinishPlan
<1>8. \A k, s : Reached(k, s)' = Reached(k, s)
  BY <1>1 DEF storeVars, Reached
<1>9. FeedShape'
  BY <1>0, <1>1, <1>4, <1>5, <1>7, <1>s DEF FeedShape, worldVars, storeVars
<1>10. EventsFit'
  <2>1. \A l \in Plans : plans'[l].to = plans[l].to /\ (plans'[l].state = "none" => plans[l].state = "none")
    BY <1>4
  <2> QED BY <2>1, <1>0, <1>1, <1>5, <1>8, <1>s DEF EventsFit, storeVars
<1>11. \A i \in Jobs : JobFits(jobs'[i])
  BY <1>6, <1>7, <1>s DEF FeedShape
<1>12. registered <= registered' /\ graduated \subseteq graduated'
  BY <1>1, <1>s DEF worldVars
<1> QED BY <1>4, <1>8, <1>9, <1>10, <1>11, <1>12, FeedMoves

(* The other steps of a job.                                               *)
LEMMA JobSteps ==
  ASSUME FeedInv, NEW j \in Jobs,
         \/ StartMuxi(j) \/ LookUp(j) \/ JobEnds(j)
         \/ StartHoliday(j) \/ ReadPage(j) \/ EndPage(j)
  PROVE  FeedInv'
<1> USE AnnouncementAssumption DEF AnnouncementAssumption
<1>s. FeedShape /\ EventsFit /\ registered \in Nat
  BY DEF FeedInv, FeedShape
<1>c. PICK r : r = jobs[j]
  OBVIOUS
<1>r. r \in Job /\ JobFits(r)
  BY <1>c DEF FeedInv, FeedShape
<1>n. NoJob \in Job /\ JobFits(NoJob)
  BY DEF NoJob, Job, JobFits
<1>m. ASSUME NEW g \in Job, JobFits(g), JobGoes(j, g), UNCHANGED <<worldVars, plans, storeVars, promised>>,
             failures' \in 0 .. MaxFailures
      PROVE  FeedInv'
  <2>1. promised' \in [Keys -> SUBSET Students] /\ \A k \in Keys : \A s \in promised'[k] : Reached(k, s)
    BY <1>m, <1>s DEF FeedShape, EventsFit
  <2> QED BY <2>1, <1>m, JobMoves
<1>1. CASE StartMuxi(j)
  <2>1. PICK m \in Due : JobGoes(j, Taking(Due, m))
    BY <1>1 DEF StartMuxi
  <2>2. Due \subseteq Plans /\ \A l \in Due : plans[l].state # "none"
    BY DEF Due
  <2>3. Taking(Due, m) \in Job /\ JobFits(Taking(Due, m))
    BY <2>2, TakingFits
  <2> QED BY <1>1, <2>1, <2>3, <1>s, <1>m DEF StartMuxi, FeedShape
<1>2. CASE LookUp(j)
  <2>c. PICK k, n, t : k = KeyOf(j) /\ n = NextOf(j) /\ t = Ticked(j)
    OBVIOUS
  <2>1. /\ r.pc = "send" /\ r.todo # {} /\ k \in Plans
        /\ UNCHANGED <<worldVars, plans, storeVars, promised, failures>>
        /\ \/ JobGoes(j, t) /\ ((plans[k].all /\ n \in graduated) \/ rows[k][n] # "none")
           \/ JobGoes(j, [r EXCEPT !.pc = "push"])
    BY <1>2, <1>c, <2>c DEF LookUp
  <2>2. failures' \in 0 .. MaxFailures
    BY <2>1, <1>s DEF FeedShape
  <2>3. CASE JobGoes(j, t) /\ ((plans[k].all /\ n \in graduated) \/ rows[k][n] # "none")
    <3>1. UNCHANGED <<registered, graduated, plans, queued, rows>>
      BY <2>1 DEF worldVars, storeVars
    <3>2. \A l, s : Reached(l, s)' = Reached(l, s) /\ Excused(l, s)' = Excused(l, s)
      BY <3>1 DEF Reached, Excused
    <3>3. Reached(k, n)' \/ (k \in Plans /\ Excused(k, n))
      BY <2>1, <2>3, <3>2 DEF Reached, Excused
    <3>4. t \in Job /\ JobFits(t)'
      BY <2>1, <2>c, <3>1, <3>2, <3>3, <1>c, TickedFits
    <3>5. JobFits(t)
      BY <3>1, <3>2, <3>4 DEF JobFits
    <3> QED BY <2>1, <2>2, <2>3, <3>4, <3>5, <1>m
  <2>4. CASE JobGoes(j, [r EXCEPT !.pc = "push"])
    <3>1. PICK g : g = [r EXCEPT !.pc = "push"]
      OBVIOUS
    <3>2. /\ g \in Job /\ g.pc = "push" /\ g.batch = r.batch /\ g.key = r.key /\ g.todo = r.todo
          /\ g.cursor = r.cursor /\ g.base = r.base
      BY <3>1, <1>r DEF Job
    <3>3. g.key = {k} /\ k \notin Holidays
      BY <2>1, <2>c, <3>2, <1>c, NextIsOne DEF AnnouncementAssumption
    <3>4. JobFits(g)
      BY <2>1, <3>2, <3>3, <1>r DEF JobFits
    <3> QED BY <2>1, <2>2, <2>4, <3>1, <3>2, <3>4, <1>m
  <2> QED BY <2>1, <2>3, <2>4
<1>3. CASE JobEnds(j)
  BY <1>3, <1>n, <1>s, <1>m DEF JobEnds, FeedShape
<1>4. CASE StartHoliday(j)
  <2>1. PICK k \in Holidays : JobGoes(j, [NoJob EXCEPT !.pc = "page", !.key = {k}, !.base = registered])
    BY <1>4 DEF StartHoliday
  <2>2. PICK g : g = [NoJob EXCEPT !.pc = "page", !.key = {k}, !.base = registered]
    OBVIOUS
  <2>3. k \in Keys /\ k \notin Plans
    BY DEF Keys
  <2>4. /\ g \in Job /\ g.pc = "page" /\ g.batch = {} /\ g.key = {k} /\ g.todo = {}
        /\ g.cursor = 0 /\ g.base = registered
    <3>1. registered \in 0 .. Members /\ {k} \in SUBSET Keys
      BY <2>3, <1>s DEF FeedShape
    <3>2. NoJob.batch = {} /\ NoJob.todo = {} /\ NoJob.cursor = 0
      BY DEF NoJob
    <3>3. g \in Job
      BY <2>2, <3>1, <1>n DEF Job
    <3> QED BY <2>2, <3>2, <3>3 DEF NoJob
  <2>5. \A s \in Students : ~(s <= 0)
    BY DEF Students
  <2>6. JobFits(g)
    BY <2>3, <2>4, <2>5, <1>s DEF JobFits
  <2> QED BY <1>4, <2>1, <2>2, <2>4, <2>6, <1>s, <1>m DEF StartHoliday, FeedShape
<1>5. CASE EndPage(j)
  <2>1. PICK g : g = [r EXCEPT !.pc = "page"]
    OBVIOUS
  <2>2. /\ r.pc = "send" /\ r.todo = {} /\ KeyOf(j) \in Holidays /\ JobGoes(j, g)
        /\ UNCHANGED <<worldVars, plans, storeVars, promised, failures>>
    BY <1>5, <1>c, <2>1 DEF EndPage
  <2>3. /\ g \in Job /\ g.pc = "page" /\ g.batch = r.batch /\ g.key = r.key /\ g.todo = r.todo
        /\ g.cursor = r.cursor /\ g.base = r.base
    BY <2>1, <1>r DEF Job
  <2>4. g.key \cap Plans = {}
    BY <2>2, <2>3, <1>c, NextIsOne DEF AnnouncementAssumption
  <2>5. JobFits(g)
    BY <2>2, <2>3, <2>4, <1>r DEF JobFits
  <2> QED BY <2>2, <2>3, <2>5, <1>s, <1>m DEF FeedShape
<1>6. CASE ReadPage(j)
  <2>c. PICK k, page : k = KeyOf(j) /\ page = PageAfter(r.cursor)
    OBVIOUS
  <2>1. /\ r.pc = "page"
        /\ \/ /\ page = {} /\ JobGoes(j, NoJob)
              /\ promised' = [promised EXCEPT ![k] = @ \cup 1 .. r.base]
           \/ /\ page # {} /\ UNCHANGED promised
              /\ JobGoes(j, [r EXCEPT !.pc = "send", !.cursor = Max(page),
                               !.todo = {s \in page : rows[k][s] = "none"}])
        /\ UNCHANGED <<worldVars, plans, storeVars, failures>>
    BY <1>6, <1>c, <2>c DEF ReadPage
  <2>2. r.key = {k} /\ k \in Keys /\ k \in Holidays /\ k \notin Plans
    BY <2>1, <2>c, <1>c, <1>r, NextIsOne DEF AnnouncementAssumption, JobFits, Keys
  <2>3. /\ r.base \in Nat /\ r.cursor \in Nat /\ r.base <= registered /\ registered <= Members /\ r.todo = {}
        /\ \A s \in Students : s <= r.cursor => Reached(k, s)
    BY <2>1, <2>2, <1>r, <1>s DEF JobFits, Job, FeedShape
  <2>4. page = {s \in 1 .. registered : r.cursor < s /\ s <= r.cursor + PageSize}
    BY <2>c DEF PageAfter
  <2>5. failures' \in 0 .. MaxFailures
    BY <2>1, <1>s DEF FeedShape
  <2>6. CASE /\ page = {} /\ JobGoes(j, NoJob)
             /\ promised' = [promised EXCEPT ![k] = @ \cup 1 .. r.base]
    <3>1. registered <= r.cursor
      <4>1. ASSUME r.cursor < registered PROVE FALSE
        <5>1. r.cursor + 1 \in page
          BY <4>1, <2>3, <2>4, <1>s
        <5> QED BY <5>1, <2>6
      <4> QED BY <4>1, <2>3, <1>s
    <3>2. \A s \in 1 .. r.base : s \in Students /\ Reached(k, s)
      BY <3>1, <2>3, <1>s DEF Students
    <3>3. /\ promised' \in [Keys -> SUBSET Students]
          /\ \A l \in Keys : \A s \in promised'[l] : Reached(l, s)
      <4>1. promised \in [Keys -> SUBSET Students] /\ \A l \in Keys : \A s \in promised[l] : Reached(l, s)
        BY <1>s DEF FeedShape, EventsFit
      <4>2. PICK new : new = 1 .. r.base
        OBVIOUS
      <4>3. promised' = [promised EXCEPT ![k] = @ \cup new] /\ \A s \in new : s \in Students /\ Reached(k, s)
        BY <2>6, <3>2, <4>2
      <4> QED BY <4>1, <4>3, <2>2
    <3> QED BY <2>1, <2>5, <2>6, <3>3, <1>n, JobMoves
  <2>7. CASE /\ page # {} /\ UNCHANGED promised
             /\ JobGoes(j, [r EXCEPT !.pc = "send", !.cursor = Max(page),
                              !.todo = {s \in page : rows[k][s] = "none"}])
    <3>1. PICK last, todo, g : /\ last = Max(page) /\ todo = {s \in page : rows[k][s] = "none"}
                              /\ g = [r EXCEPT !.pc = "send", !.cursor = last, !.todo = todo]
      OBVIOUS
    <3>2. page \subseteq 1 .. registered /\ page \subseteq Students
      BY <2>3, <2>4, <1>s DEF Students
    <3>3. last \in page /\ \A s \in page : s <= last
      BY <3>1, <3>2, <2>7, <1>s, MaxIsLast
    <3>4. last \in Nat /\ last <= registered /\ last \in 0 .. Members /\ last <= r.cursor + PageSize
      BY <3>2, <3>3, <2>3, <2>4, <1>s
    <3>5. /\ g \in Job /\ g.pc = "send" /\ g.batch = r.batch /\ g.key = {k} /\ g.todo = todo
          /\ g.cursor = last /\ g.base = r.base
      BY <3>1, <3>2, <3>4, <2>2, <1>r DEF Job
    <3>6. ASSUME NEW s \in Students, s <= last, s \notin todo PROVE Reached(k, s)
      <4>1. CASE s <= r.cursor
        BY <4>1, <2>3
      <4>2. CASE r.cursor < s
        <5>1. s \in Nat /\ 1 <= s
          BY DEF Students
        <5>2. s \in page
          BY <5>1, <3>4, <3>6, <4>2, <2>3, <2>4, <1>s
        <5> QED BY <5>2, <3>1, <3>6 DEF Reached
      <4>3. s \in Nat
        BY DEF Students
      <4> QED BY <4>1, <4>2, <4>3, <2>3
    <3>7. JobFits(g)
      BY <3>5, <3>6, <2>2, <2>3, <1>r DEF JobFits
    <3>8. JobGoes(j, g) /\ UNCHANGED <<worldVars, plans, storeVars, promised>>
      BY <2>1, <2>7, <3>1
    <3> QED BY <2>5, <3>5, <3>7, <3>8, <1>m
  <2> QED BY <2>1, <2>6, <2>7
<1> QED BY <1>1, <1>2, <1>3, <1>4, <1>5, <1>6

LEMMA FeedInvAlways == AnnouncementSpec => []FeedInv
<1>1. FeedInv /\ [AnnouncementNext]_announcementVars => FeedInv'
  <2> SUFFICES ASSUME FeedInv, [AnnouncementNext]_announcementVars PROVE FeedInv'
    OBVIOUS
  <2>1. CASE \/ Register \/ Graduate \/ SetOfficialWhiteList \/ ExpireWhiteList
             \/ \E m \in Plans : PublicMuxiOfficialMSG(m) \/ PlanFallsDue(m) \/ StopPlan(m)
    BY <2>1, WorldSteps
  <2>2. ASSUME NEW k \in Keys, NEW s \in Students, ConsumeEvent(k, s) \/ ConsumeAgain(k, s) \/ ClearFeedEvent(k, s)
        PROVE  FeedInv'
    BY <2>2, EventSteps
  <2>3. ASSUME NEW j \in Jobs, SendEvent(j) \/ SendEventFails(j) PROVE FeedInv'
    BY <2>3, SendSteps
  <2>4. ASSUME NEW j \in Jobs, FinishPlan(j) PROVE FeedInv'
    BY <2>4, FinishSteps
  <2>5. ASSUME NEW j \in Jobs, \/ StartMuxi(j) \/ LookUp(j) \/ JobEnds(j)
                               \/ StartHoliday(j) \/ ReadPage(j) \/ EndPage(j)
        PROVE  FeedInv'
    BY <2>5, JobSteps
  <2>6. CASE UNCHANGED announcementVars
    <3>1. Job' = Job /\ Plan' = Plan /\ Event' = Event /\ Keys' = Keys /\ Students' = Students
      BY DEF Job, Plan, Event, Keys, Students
    <3>2. \A k, s : Reached(k, s)' = Reached(k, s) /\ Excused(k, s)' = Excused(k, s)
      BY <2>6 DEF announcementVars, Reached, Excused
    <3>3. FeedShape' /\ EventsFit'
      BY <2>6, <3>1, <3>2 DEF announcementVars, FeedInv, FeedShape, EventsFit
    <3>4. \A j \in Jobs : JobFits(jobs[j])'
      BY <2>6, <3>2 DEF announcementVars, FeedInv, JobFits
    <3> QED BY <3>3, <3>4 DEF FeedInv
  <2> QED BY <2>1, <2>2, <2>3, <2>4, <2>5, <2>6 DEF AnnouncementNext, CommonNext, PlanNext, HolidayNext
<1> QED BY <1>1, FeedInvInit, PTL DEF AnnouncementSpec

(* Plans, jobs and events keep their types, and a job works on one message *)
(* that is not among those it has yet to take up.                          *)
THEOREM AnnouncementsTyped == AnnouncementSpec => []AnnouncementTypeOK
<1>1. FeedInv => AnnouncementTypeOK
  <2> SUFFICES ASSUME FeedInv PROVE AnnouncementTypeOK
    OBVIOUS
  <2>1. \A m \in Plans : plans[m] \in Plan
    BY DEF FeedInv, FeedShape
  <2>2. \A j \in Jobs : jobs[j] \in Job /\ JobFits(jobs[j])
    BY DEF FeedInv, FeedShape
  <2> QED BY <2>1, <2>2 DEF FeedInv, FeedShape, AnnouncementTypeOK, Plan, Job, JobFits, Event
<1> QED BY <1>1, FeedInvAlways, PTL

(* No student gets an announcement twice.                                  *)
THEOREM OnlyOnce == AnnouncementSpec => []AnnouncedOnce
<1>1. FeedInv => AnnouncedOnce
  BY DEF FeedInv, EventsFit, AnnouncedOnce
<1> QED BY <1>1, FeedInvAlways, PTL

(* A run that reports success has reached everybody it had to reach.       *)
THEOREM NobodyLeftOut == AnnouncementSpec => []SuccessLeavesNobodyOut
<1>1. FeedInv => SuccessLeavesNobodyOut
  BY DEF FeedInv, EventsFit, SuccessLeavesNobodyOut, Reached
<1> QED BY <1>1, FeedInvAlways, PTL

(* An official message goes to those of the list it was planned with.      *)
THEOREM FrozenRecipients == AnnouncementSpec => []OnlyFrozenRecipients
<1>1. FeedInv => OnlyFrozenRecipients
  BY DEF FeedInv, EventsFit, OnlyFrozenRecipients, Reached
<1> QED BY <1>1, FeedInvAlways, PTL

(* So a message reaches exactly those it is for.                            *)
THEOREM RecipientsRight == AnnouncementSpec => []RightRecipients
BY NobodyLeftOut, FrozenRecipients, PTL DEF RightRecipients

-----------------------------------------------------------------------------
(* Timetable refreshes.  A crawl that has inserted its row keeps it to its  *)
(* end and marks it ready only after the classes were stored; and every     *)
(* message that a process handles is still on the topic, once for each      *)
(* process that handles it.                                                 *)

Status == {"none", "pending", "ready", "failed"}
Stages == {"none", "insert", "crawl", "save", "merge", "ready", "failed", "publish"}
Logs == LogIds \cup {NoLog}
Calls == [pc : {"idle", "decide", "wait", "crawl", "join"}, fetch : BOOLEAN, log : Logs]
Flights == [pc : Stages, log : Logs, retryable : BOOLEAN]

LogShape ==
  /\ refreshLog \in [LogIds -> Status]
  /\ newest \in Logs /\ recent \in BOOLEAN
  /\ stored \subseteq LogIds
CallShape == call \in [Callers -> Calls]
FlightShape == flight \in [Procs -> [Attempts -> Flights]]
QueueShape ==
  /\ delayed \in [Messages -> 0 .. MaxCopies] /\ due \in [Messages -> 0 .. MaxCopies]
  /\ handler \in [Procs -> [n : Attempts, joined : BOOLEAN]]
BoundShape == calls \in 0 .. MaxCalls /\ outages \in 0 .. MaxOutages

HasRow(f) == f.pc \in {"crawl", "save", "merge", "ready", "failed"} => f.log \in LogIds
Saved(f) == f.pc \in {"merge", "ready"} => f.log \in stored
Unmarked(f, log) == f.pc \in {"crawl", "save", "merge"} => log[f.log] # "ready"
FlightsFit ==
  \A p \in Procs, n \in Attempts :
    /\ HasRow(flight[p][n]) /\ Saved(flight[p][n])
    /\ Unmarked(flight[p][n], refreshLog)

(* Nobody else's row is that of a flight.                                   *)
Apart(p, n, l) ==
  l # NoLog => \A q \in Procs, m \in Attempts : flight[q][m].log = l => q = p /\ m = n
RowsApart == \A p \in Procs, n \in Attempts : Apart(p, n, flight[p][n].log)

Holders(n) == {p \in Procs : handler[p].n = n}
MessagesHeld ==
  /\ \A p \in Procs : handler[p].joined => handler[p].n # 0
  /\ \A n \in Messages : Cardinality(Holders(n)) <= due[n]

RowsFit == LogShape /\ FlightShape /\ ReadyMeansStored /\ FlightsFit /\ RowsApart
QueueFits == QueueShape /\ MessagesHeld
RefreshInv == RowsFit /\ CallShape /\ QueueFits /\ BoundShape

LEMMA RefreshConstants ==
  /\ MaxRefreshRetryAttempts \in Nat \ {0} /\ MaxCopies \in Nat \ {0}
  /\ MaxCalls \in Nat /\ MaxOutages \in Nat
  /\ LogIds \subseteq Nat \ {0} /\ IsFiniteSet(Procs)
  /\ Home \in [Callers -> Procs]
  /\ 0 \in Attempts /\ Messages \subseteq Attempts /\ Attempts \subseteq Nat
BY ClassRefreshAssumption DEF ClassRefreshAssumption, Attempts, Messages

LEMMA RefreshInvInit == RefreshInit => RefreshInv
<1> SUFFICES ASSUME RefreshInit PROVE RefreshInv
  OBVIOUS
<1> USE RefreshConstants
<1>1. LogShape /\ CallShape /\ FlightShape
  BY DEF RefreshInit, LogShape, CallShape, FlightShape, Status, Stages, Logs, Calls, Flights,
         NoCall, NoFlight, NoLog
<1>2. QueueShape /\ BoundShape
  BY DEF RefreshInit, QueueShape, BoundShape, NoMessage
<1>3. ReadyMeansStored /\ FlightsFit /\ RowsApart
  BY DEF RefreshInit, ReadyMeansStored, FlightsFit, HasRow, Saved, Unmarked, NoFlight, RowsApart, Apart
<1>4. MessagesHeld
  <2>1. ASSUME NEW n \in Messages PROVE Cardinality(Holders(n)) <= due[n]
    <3>1. Holders(n) = {}
      BY DEF RefreshInit, Holders, NoMessage, Messages
    <3> QED BY <3>1, FS_EmptySet DEF RefreshInit
  <2> QED BY <2>1 DEF MessagesHeld, RefreshInit, NoMessage
<1> QED BY <1>1, <1>2, <1>3, <1>4 DEF RefreshInv, RowsFit, QueueFits

(* What is written is what was kept of the rows.                            *)
LEMMA RowsKept ==
  ASSUME NEW log \in [LogIds -> Status], NEW save \in SUBSET LogIds,
         \A l \in LogIds : log[l] = "ready" => l \in save,
         newest' \in Logs, recent' \in BOOLEAN, FlightShape', RowsApart',
         \A p \in Procs, n \in Attempts :
           /\ HasRow(flight'[p][n]) /\ Unmarked(flight'[p][n], log)
           /\ flight'[p][n].pc \in {"merge", "ready"} => flight'[p][n].log \in save,
         Write(log, save)
  PROVE  RowsFit'
<1> DEFINE kept == Referred(newest', call', flight')
<1>1. /\ refreshLog' = [l \in LogIds |-> IF l \in kept THEN log[l] ELSE "none"]
      /\ stored' = save \cap kept
  BY DEF Write
<1>2. \A p \in Procs, n \in Attempts : flight'[p][n].log \in kept
  BY DEF Referred
<1> HIDE DEF kept
<1>3. LogShape'
  <2>1. Status' = Status /\ Logs' = Logs
    BY DEF Status, Logs, NoLog
  <2>2. refreshLog' \in [LogIds -> Status]
    BY <1>1 DEF Status
  <2> QED BY <1>1, <2>1, <2>2 DEF LogShape
<1>4. ReadyMeansStored'
  BY <1>1 DEF ReadyMeansStored
<1>5. FlightsFit'
  <2>1. ASSUME NEW p \in Procs, NEW n \in Attempts
        PROVE  HasRow(flight'[p][n]) /\ Saved(flight[p][n])' /\ Unmarked(flight'[p][n], refreshLog')
    BY <1>1, <1>2 DEF HasRow, Saved, Unmarked
  <2> QED BY <2>1 DEF FlightsFit, HasRow, Unmarked
<1> QED BY <1>3, <1>4, <1>5 DEF RowsFit

(* The flights after a step fit the rows there were before it.              *)
FlightsGoOn ==
  /\ FlightShape' /\ RowsApart'
  /\ \A p \in Procs, n \in Attempts :
       HasRow(flight'[p][n]) /\ Saved(flight'[p][n]) /\ Unmarked(flight'[p][n], refreshLog)

(* Rows are left alone, or one is updated; marked ready only if stored.     *)
LEMMA RowsStay ==
  ASSUME RowsFit, FlightsGoOn, LogsStay
  PROVE  RowsFit'
BY RowsKept DEF FlightsGoOn, LogsStay, RowsFit, LogShape, ReadyMeansStored, Saved

LEMMA RowUpdated ==
  ASSUME RowsFit, FlightsGoOn, NEW l \in LogIds, NEW status \in Status, Update(l, status),
         status = "ready" => /\ l \in stored
                             /\ \A p \in Procs, n \in Attempts :
                                  flight'[p][n].pc \in {"crawl", "save", "merge"} => flight'[p][n].log # l
  PROVE  RowsFit'
<1>l. l \in Logs /\ refreshLog \in [LogIds -> Status]
  BY DEF Logs, RowsFit, LogShape
<1>0. PICK log : log = [refreshLog EXCEPT ![l] = status]
  OBVIOUS
<1>1. /\ log \in [LogIds -> Status]
      /\ \A k \in LogIds : log[k] = IF k = l THEN status ELSE refreshLog[k]
  BY <1>0, <1>l
<1>2. \A k \in LogIds : log[k] = "ready" => k \in stored
  BY <1>1 DEF RowsFit, ReadyMeansStored
<1>3. ASSUME NEW p \in Procs, NEW n \in Attempts PROVE Unmarked(flight'[p][n], log)
  <2>1. Unmarked(flight'[p][n], refreshLog) /\ HasRow(flight'[p][n])
    BY DEF FlightsGoOn
  <2> QED BY <1>1, <2>1 DEF Unmarked, HasRow
<1>4. /\ newest' \in Logs /\ recent' \in BOOLEAN /\ Write(log, stored) /\ stored \in SUBSET LogIds
  BY <1>0, <1>l DEF Update, RowsFit, LogShape
<1>5. \A p \in Procs, n \in Attempts :
        HasRow(flight'[p][n]) /\ (flight'[p][n].pc \in {"merge", "ready"} => flight'[p][n].log \in stored)
  BY DEF FlightsGoOn, Saved
<1>6. FlightShape' /\ RowsApart'
  BY DEF FlightsGoOn
<1> QED BY <1>1, <1>2, <1>3, <1>4, <1>5, <1>6, RowsKept

(* The same if the update may have failed.                                  *)
LEMMA RowMayBeUpdated ==
  ASSUME RowsFit, FlightsGoOn, NEW l \in LogIds, NEW status \in Status, UpdateOrNot(l, status),
         status = "ready" => /\ l \in stored
                             /\ \A p \in Procs, n \in Attempts :
                                  flight'[p][n].pc \in {"crawl", "save", "merge"} => flight'[p][n].log # l
  PROVE  RowsFit'
<1>1. CASE Update(l, status)
  BY <1>1, RowUpdated
<1>2. CASE LogsStay
  BY <1>2, RowsStay
<1> QED BY <1>1, <1>2 DEF UpdateOrNot

(* One flight is changed, the others are not.                               *)
LEMMA FlightMoves ==
  ASSUME FlightShape, NEW p \in Procs, NEW n \in Attempts, NEW g \in Flights,
         flight' = [flight EXCEPT ![p][n] = g]
  PROVE  /\ FlightShape'
         /\ \A q \in Procs, m \in Attempts :
              flight'[q][m] = IF q = p /\ m = n THEN g ELSE flight[q][m]
<1>1. /\ flight' \in [Procs -> [Attempts -> Flights]]
      /\ \A q \in Procs, m \in Attempts :
           flight'[q][m] = IF q = p /\ m = n THEN g ELSE flight[q][m]
  BY DEF FlightShape
<1>2. Flights' = Flights /\ Attempts' = Attempts
  BY DEF Flights, Attempts, Stages, Logs, NoLog
<1> QED BY <1>1, <1>2 DEF FlightShape

LEMMA Staged ==
  ASSUME FlightShape, NEW p \in Procs, NEW n \in Attempts, NEW pc \in Stages
  PROVE  /\ [flight[p][n] EXCEPT !.pc = pc] \in Flights
         /\ [flight[p][n] EXCEPT !.pc = pc].pc = pc
         /\ [flight[p][n] EXCEPT !.pc = pc].log = flight[p][n].log
<1>1. flight[p][n] \in Flights
  BY DEF FlightShape
<1> QED BY <1>1 DEF Flights

(* What keeps the rows when one flight goes on.                             *)
LEMMA ApartFlights ==
  ASSUME FlightShape, RowsApart, NEW p \in Procs, NEW n \in Attempts, NEW g \in Flights,
         flight' = [flight EXCEPT ![p][n] = g], Apart(p, n, g.log)
  PROVE  RowsApart'
<1>1. \A q \in Procs, m \in Attempts : flight'[q][m] = IF q = p /\ m = n THEN g ELSE flight[q][m]
  BY DEF FlightShape
<1>2. ASSUME NEW q \in Procs, NEW m \in Attempts, NEW r \in Procs, NEW k \in Attempts,
             flight'[q][m].log # NoLog, flight'[r][k].log = flight'[q][m].log
      PROVE  r = q /\ k = m
  <2>1. CASE q = p /\ m = n
    BY <1>1, <1>2, <2>1 DEF Apart
  <2>2. CASE ~(q = p /\ m = n)
    <3>1. flight'[q][m] = flight[q][m]
      BY <1>1, <2>2
    <3>2. CASE r = p /\ k = n
      <4>1. g.log # NoLog /\ flight[q][m].log = g.log
        BY <1>1, <1>2, <3>1, <3>2
      <4> QED BY <4>1, <2>2 DEF Apart
    <3>3. CASE ~(r = p /\ k = n)
      BY <1>1, <1>2, <3>1, <3>3 DEF RowsApart, Apart
    <3> QED BY <3>2, <3>3
  <2> QED BY <2>1, <2>2
<1>3. Attempts' = Attempts /\ NoLog' = NoLog
  BY DEF Attempts, NoLog
<1> QED BY <1>2, <1>3 DEF RowsApart, Apart

LEMMA FlightGoes ==
  ASSUME RowsFit, NEW p \in Procs, NEW n \in Attempts, NEW g \in Flights,
         flight' = [flight EXCEPT ![p][n] = g],
         HasRow(g), Saved(g), Unmarked(g, refreshLog), g.log \in {NoLog, flight[p][n].log}
  PROVE  FlightsGoOn
<1>s. FlightShape /\ RowsApart
  BY DEF RowsFit
<1>1. FlightShape'
  BY <1>s, FlightMoves
<1>2. \A q \in Procs, m \in Attempts : flight'[q][m] \in {g, flight[q][m]}
  BY <1>s DEF FlightShape
<1>3. \A q \in Procs, m \in Attempts :
        HasRow(flight[q][m]) /\ Saved(flight[q][m]) /\ Unmarked(flight[q][m], refreshLog)
  BY DEF RowsFit, FlightsFit
<1>4. Apart(p, n, g.log)
  BY <1>s DEF RowsApart, Apart
<1>5. RowsApart'
  BY <1>s, <1>4, ApartFlights
<1> QED BY <1>1, <1>2, <1>3, <1>5 DEF FlightsGoOn

LEMMA UnwrittenRows ==
  ASSUME RowsFit, FlightsGoOn, UNCHANGED logVars
  PROVE  RowsFit'
<1>1. LogShape' /\ ReadyMeansStored'
  <2>1. Status' = Status /\ Logs' = Logs
    BY DEF Status, Logs, NoLog
  <2> QED BY <2>1 DEF logVars, RowsFit, LogShape, ReadyMeansStored
<1>2. FlightsFit'
  BY DEF FlightsGoOn, FlightsFit, HasRow, Saved, Unmarked, logVars
<1> QED BY <1>1, <1>2 DEF RowsFit, FlightsGoOn

(* Flights that nothing touches, or that are gone.                          *)
LEMMA FlightsStay ==
  ASSUME RowsFit, FlightShape',
         \A p \in Procs, n \in Attempts : flight'[p][n] = NoFlight \/ flight'[p][n] = flight[p][n]
  PROVE  FlightsGoOn
<1>1. RowsApart'
  <2>1. NoFlight.log = NoLog /\ Attempts' = Attempts /\ NoLog' = NoLog
    BY DEF NoFlight, Attempts, NoLog
  <2> QED BY <2>1 DEF RowsFit, RowsApart, Apart
<1>2. ASSUME NEW p \in Procs, NEW n \in Attempts
      PROVE  HasRow(flight'[p][n]) /\ Saved(flight'[p][n]) /\ Unmarked(flight'[p][n], refreshLog)
  <2>1. CASE flight'[p][n] = NoFlight
    BY <2>1 DEF NoFlight, HasRow, Saved, Unmarked
  <2>2. CASE flight'[p][n] = flight[p][n]
    BY <2>2 DEF RowsFit, FlightsFit
  <2> QED BY <2>1, <2>2
<1> QED BY <1>1, <1>2 DEF FlightsGoOn

(* The row of a flight, not marked yet, counts as stored or no longer does. *)
LEMMA StoredMoves ==
  ASSUME RowsFit, NEW p \in Procs, NEW n \in Attempts, NEW g \in Flights,
         flight' = [flight EXCEPT ![p][n] = g], g.log = flight[p][n].log, g.log \in LogIds,
         UNCHANGED <<refreshLog, newest, recent>>, refreshLog[g.log] # "ready",
         stored' \subseteq stored \cup {g.log}, stored \ {g.log} \subseteq stored',
         g.pc \in {"merge", "ready"} => g.log \in stored'
  PROVE  RowsFit'
<1>s. RowsApart /\ g.log # NoLog
  BY RefreshConstants DEF RowsFit, NoLog
<1>shape. FlightShape
  BY DEF RowsFit
<1>g. g \in Flights
  OBVIOUS
<1>0. FlightShape'
  BY <1>g, <1>shape, FlightMoves
<1>1. \A q \in Procs, m \in Attempts : flight'[q][m] = IF q = p /\ m = n THEN g ELSE flight[q][m]
  BY <1>shape DEF FlightShape
<1>2. RowsApart'
  <2>1. Apart(p, n, g.log)
    BY <1>s DEF RowsApart
  <2> QED BY <1>s, <1>shape, <2>1, ApartFlights
<1>3. LogShape' /\ ReadyMeansStored'
  <2>1. Status' = Status /\ Logs' = Logs
    BY DEF Status, Logs, NoLog
  <2> QED BY <2>1 DEF RowsFit, LogShape, ReadyMeansStored
<1>4. ASSUME NEW q \in Procs, NEW m \in Attempts
      PROVE  HasRow(flight[q][m])' /\ Saved(flight[q][m])' /\ Unmarked(flight[q][m], refreshLog)'
  <2>1. CASE q = p /\ m = n
    BY <1>1, <2>1 DEF HasRow, Saved, Unmarked
  <2>2. CASE ~(q = p /\ m = n)
    <3>1. flight'[q][m] = flight[q][m] /\ flight[q][m].log # g.log
      BY <1>1, <1>s, <2>2 DEF RowsApart, Apart
    <3>2. HasRow(flight[q][m]) /\ Saved(flight[q][m]) /\ Unmarked(flight[q][m], refreshLog)
      BY DEF RowsFit, FlightsFit
    <3> QED BY <3>1, <3>2 DEF HasRow, Saved, Unmarked
  <2> QED BY <2>1, <2>2
<1>5. FlightsFit'
  <2>1. Attempts' = Attempts
    BY DEF Attempts
  <2> QED BY <1>4, <2>1 DEF FlightsFit
<1> QED BY <1>0, <1>2, <1>3, <1>5 DEF RowsFit

(* The crawl of a flight.                                                   *)
LEMMA CrawlRows ==
  ASSUME RowsFit, NEW p \in Procs, NEW n \in Attempts, Crawl(p, n)
  PROVE  RowsFit'
<1> USE RefreshConstants
<1>fit. /\ HasRow(flight[p][n]) /\ Saved(flight[p][n]) /\ Unmarked(flight[p][n], refreshLog)
        /\ flight[p][n] \in Flights /\ flight[p][n].log \in Logs
  BY DEF RowsFit, FlightsFit, FlightShape, Flights
<1>shape. FlightShape
  BY DEF RowsFit
<1>apart. RowsApart
  BY DEF RowsFit
<1>goes. ASSUME NEW pc \in Stages, Goes(p, n, pc)
         PROVE  /\ [flight[p][n] EXCEPT !.pc = pc] \in Flights
                /\ flight' = [flight EXCEPT ![p][n] = [flight[p][n] EXCEPT !.pc = pc]]
                /\ [flight[p][n] EXCEPT !.pc = pc].pc = pc
                /\ [flight[p][n] EXCEPT !.pc = pc].log = flight[p][n].log
  BY <1>goes, <1>shape, Staged DEF Goes
<1>fails. ASSUME NEW pc \in Stages, Fails(p, n, pc)
          PROVE  \E g \in Flights : /\ flight' = [flight EXCEPT ![p][n] = g]
                                    /\ g.pc = pc /\ g.log = flight[p][n].log
  <2>r. PICK r \in BOOLEAN : flight' = [flight EXCEPT ![p][n].pc = pc, ![p][n].retryable = r]
    BY <1>fails DEF Fails
  <2>1. PICK g : g = [flight[p][n] EXCEPT !.pc = pc, !.retryable = r]
    OBVIOUS
  <2>2. g \in Flights /\ g.pc = pc /\ g.log = flight[p][n].log
    BY <2>1, <1>fit DEF Flights
  <2>3. flight' = [flight EXCEPT ![p][n] = g]
    BY <2>r, <2>1, <1>shape DEF FlightShape
  <2> QED BY <2>2, <2>3
<1>moves. ASSUME NEW pc \in {"save", "failed", "publish"}, Goes(p, n, pc) \/ Fails(p, n, pc)
          PROVE  \E g \in Flights : /\ flight' = [flight EXCEPT ![p][n] = g]
                                    /\ g.pc = pc /\ g.log = flight[p][n].log
  <2>1. pc \in Stages
    BY DEF Stages
  <2> QED BY <2>1, <1>moves, <1>goes, <1>fails
<1>quiet. ASSUME NEW g \in Flights, flight' = [flight EXCEPT ![p][n] = g], g.log = flight[p][n].log,
                 g.pc \in {"save", "failed", "publish"}, g.pc # "publish" => g.log \in LogIds,
                 g.pc = "save" => refreshLog[g.log] # "ready"
          PROVE  FlightsGoOn
  BY <1>quiet, FlightGoes DEF HasRow, Saved, Unmarked
<1>ends. ASSUME NEW handoff \in BOOLEAN, EndFlight(p, n, handoff) PROVE FlightsGoOn
  <2>1. /\ NoFlight \in Flights /\ NoFlight.log = NoLog /\ HasRow(NoFlight)
        /\ Saved(NoFlight) /\ Unmarked(NoFlight, refreshLog)
    BY DEF NoFlight, Flights, Stages, Logs, HasRow, Saved, Unmarked
  <2> QED BY <1>ends, <2>1, FlightGoes DEF EndFlight
<1>1. CASE InsertRefreshLog(p, n)
  <2>2. CASE Fails(p, n, "publish") /\ UNCHANGED <<logVars, call>>
    <3>1. FlightsGoOn
      BY <2>2, <1>moves, <1>quiet
    <3> QED BY <2>2, <3>1, UnwrittenRows
  <2>3. ASSUME NEW l \in FreshLogs,
               flight' = [flight EXCEPT ![p][n].pc = "crawl", ![p][n].log = l],
               Update(l, "pending")
        PROVE  RowsFit'
    <3>1. l \in LogIds /\ l \in Logs /\ \A q \in Procs, m \in Attempts : flight[q][m].log # l
      <4>1. l \in LogIds /\ l \notin Referred(newest, call, flight)
        BY DEF FreshLogs
      <4>2. \A q \in Procs, m \in Attempts : flight[q][m].log \in Referred(newest, call, flight)
        BY DEF Referred
      <4> QED BY <4>1, <4>2 DEF Logs
    <3>2. PICK g : g = [flight[p][n] EXCEPT !.pc = "crawl", !.log = l]
      OBVIOUS
    <3>3. g.pc = "crawl" /\ g.log = l
      BY <3>2, <1>fit DEF Flights
    <3>g. g \in Flights
      BY <3>1, <3>2, <1>fit DEF Flights, Stages
    <3>4. flight' = [flight EXCEPT ![p][n] = g]
      BY <2>3, <3>2, <1>shape DEF FlightShape
    <3>s. FlightShape'
      BY <1>shape, <3>g, <3>4, FlightMoves
    <3>5. \A q \in Procs, m \in Attempts :
            flight'[q][m] = IF q = p /\ m = n THEN g ELSE flight[q][m]
      BY <1>shape, <3>4 DEF FlightShape
    <3>6. RowsApart'
      <4>1. Apart(p, n, g.log)
        BY <3>1, <3>3 DEF Apart
      <4> QED BY <1>shape, <1>apart, <3>g, <3>4, <4>1, ApartFlights
    <3>7. PICK log : log = [refreshLog EXCEPT ![l] = "pending"]
      OBVIOUS
    <3>8. /\ log \in [LogIds -> Status] /\ log[l] = "pending"
          /\ \A k \in LogIds : log[k] = "ready" => refreshLog[k] = "ready" /\ k \in stored
      BY <3>1, <3>7 DEF RowsFit, LogShape, Status, ReadyMeansStored
    <3>9. ASSUME NEW q \in Procs, NEW m \in Attempts
          PROVE  /\ HasRow(flight'[q][m]) /\ Unmarked(flight'[q][m], log)
                 /\ flight'[q][m].pc \in {"merge", "ready"} => flight'[q][m].log \in stored
      <4>1. CASE q = p /\ m = n
        <5>1. flight'[q][m] = g
          BY <3>5, <4>1
        <5> QED BY <5>1, <3>1, <3>3, <3>8 DEF HasRow, Unmarked
      <4>2. CASE ~(q = p /\ m = n)
        <5>1. flight'[q][m] = flight[q][m]
          BY <3>5, <4>2
        <5>2. HasRow(flight[q][m]) /\ Saved(flight[q][m]) /\ Unmarked(flight[q][m], refreshLog)
          BY DEF RowsFit, FlightsFit
        <5> QED BY <5>1, <5>2, <3>8 DEF HasRow, Saved, Unmarked
      <4> QED BY <4>1, <4>2
    <3>10. newest' \in Logs /\ recent' \in BOOLEAN /\ Write(log, stored) /\ stored \in SUBSET LogIds
      BY <2>3, <3>1, <3>7 DEF Update, RowsFit, LogShape
    <3> QED BY <3>s, <3>6, <3>8, <3>9, <3>10, RowsKept
  <2> QED BY <1>1, <2>2, <2>3 DEF InsertRefreshLog
<1>2. CASE GetCourseFromCrawler(p, n)
  <2>1. flight[p][n].log \in LogIds /\ refreshLog[flight[p][n].log] # "ready"
    BY <1>2, <1>fit DEF GetCourseFromCrawler, HasRow, Unmarked
  <2>2. Goes(p, n, "save") \/ Fails(p, n, "failed")
    BY <1>2 DEF GetCourseFromCrawler
  <2>3. FlightsGoOn
    BY <2>1, <2>2, <1>moves, <1>quiet
  <2>4. UNCHANGED logVars
    BY <1>2 DEF GetCourseFromCrawler
  <2> QED BY <2>3, <2>4, UnwrittenRows
<1>3. CASE SaveSnapshot(p, n)
  <2>1. /\ flight[p][n].log \in LogIds /\ refreshLog[flight[p][n].log] # "ready"
        /\ UNCHANGED <<refreshLog, newest, recent>>
    BY <1>3, <1>fit DEF SaveSnapshot, HasRow, Unmarked
  <2>2. CASE Goes(p, n, "merge") /\ stored' = stored \cup {flight[p][n].log}
    <3>1. "merge" \in Stages
      BY DEF Stages
    <3>2. PICK g \in Flights : /\ flight' = [flight EXCEPT ![p][n] = g]
                               /\ g.pc = "merge" /\ g.log = flight[p][n].log
      BY <2>2, <3>1, <1>goes
    <3> QED BY <2>1, <2>2, <3>2, StoredMoves
  <2>3. CASE Fails(p, n, "failed") /\ UNCHANGED stored
    <3>1. PICK g \in Flights : /\ flight' = [flight EXCEPT ![p][n] = g]
                               /\ g.pc = "failed" /\ g.log = flight[p][n].log
      BY <2>3, <1>moves
    <3> QED BY <2>1, <2>3, <3>1, StoredMoves
  <2> QED BY <1>3, <2>2, <2>3 DEF SaveSnapshot
<1>4. CASE DeleteConflicting(p, n)
  <2>1. /\ flight[p][n].log \in stored \cap LogIds /\ refreshLog[flight[p][n].log] # "ready"
        /\ UNCHANGED <<refreshLog, newest, recent>>
    BY <1>4, <1>fit DEF DeleteConflicting, HasRow, Saved, Unmarked
  <2>2. CASE Goes(p, n, "ready") /\ UNCHANGED stored
    <3>1. "ready" \in Stages
      BY DEF Stages
    <3>2. PICK g \in Flights : /\ flight' = [flight EXCEPT ![p][n] = g]
                               /\ g.pc = "ready" /\ g.log = flight[p][n].log
      BY <2>2, <3>1, <1>goes
    <3> QED BY <2>1, <2>2, <3>2, StoredMoves
  <2>3. CASE Fails(p, n, "failed") /\ stored' = stored \ {flight[p][n].log}
    <3>1. PICK g \in Flights : /\ flight' = [flight EXCEPT ![p][n] = g]
                               /\ g.pc = "failed" /\ g.log = flight[p][n].log
      BY <2>3, <1>moves
    <3> QED BY <2>1, <2>3, <3>1, StoredMoves
  <2> QED BY <1>4, <2>2, <2>3 DEF DeleteConflicting
<1>5. CASE MarkReady(p, n)
  <2>1. flight[p][n].log \in stored \cap LogIds /\ flight[p][n].log # NoLog /\ "ready" \in Status
    BY <1>5, <1>fit DEF MarkReady, HasRow, Saved, NoLog, Status
  <2>2. ASSUME NEW g \in Flights, flight' = [flight EXCEPT ![p][n] = g],
               g.pc \in {"none", "publish"}, NEW q \in Procs, NEW m \in Attempts,
               flight'[q][m].pc \in {"crawl", "save", "merge"}
        PROVE  flight'[q][m].log # flight[p][n].log
    <3>1. ~(q = p /\ m = n) /\ flight'[q][m] = flight[q][m]
      BY <2>2, <1>shape DEF FlightShape
    <3>2. Apart(p, n, flight[p][n].log)
      BY <1>apart DEF RowsApart
    <3> QED BY <3>1, <3>2, <2>1 DEF Apart
  <2>3. CASE EndFlight(p, n, FALSE) /\ Update(flight[p][n].log, "ready")
    <3>1. FlightsGoOn
      BY <2>3, <1>ends
    <3>2. flight' = [flight EXCEPT ![p][n] = NoFlight]
      BY <2>3 DEF EndFlight
    <3>3. NoFlight \in Flights /\ NoFlight.pc = "none"
      BY DEF NoFlight, Flights, Stages, Logs
    <3>4. \A q \in Procs, m \in Attempts :
            flight'[q][m].pc \in {"crawl", "save", "merge"} => flight'[q][m].log # flight[p][n].log
      BY <3>2, <3>3, <2>2
    <3> QED BY <3>1, <3>4, <2>1, <2>3, RowUpdated
  <2>4. CASE Fails(p, n, "publish") /\ UpdateOrNot(flight[p][n].log, "ready")
    <3>1. PICK g \in Flights : /\ flight' = [flight EXCEPT ![p][n] = g]
                               /\ g.pc = "publish" /\ g.log = flight[p][n].log
      BY <2>4, <1>moves
    <3>2. FlightsGoOn
      BY <3>1, <1>quiet
    <3> QED BY <3>1, <3>2, <2>1, <2>2, <2>4, RowMayBeUpdated
  <2> QED BY <1>5, <2>3, <2>4 DEF MarkReady
<1>6. CASE MarkFailed(p, n)
  <2>1. Goes(p, n, "publish") \/ Fails(p, n, "publish")
    <3>1. flight[p][n].retryable \in BOOLEAN
      BY <1>fit DEF Flights
    <3> QED BY <3>1, <1>6 DEF MarkFailed, Fails
  <2>2. FlightsGoOn
    BY <2>1, <1>moves, <1>quiet
  <2>3. UpdateOrNot(flight[p][n].log, "failed") /\ flight[p][n].log \in LogIds /\ "failed" \in Status
    BY <1>6, <1>fit DEF MarkFailed, UpdateOrNot, HasRow, Status
  <2> QED BY <2>2, <2>3, RowMayBeUpdated
<1>7. CASE CoordinateRefreshRetry(p, n)
  <2>1. PICK handoff \in BOOLEAN : LogsStay /\ EndFlight(p, n, handoff)
    BY <1>7 DEF CoordinateRefreshRetry
  <2>2. FlightsGoOn
    BY <2>1, <1>ends
  <2> QED BY <2>1, <2>2, RowsStay
<1> QED BY <1>1, <1>2, <1>3, <1>4, <1>5, <1>6, <1>7 DEF Crawl

(* The messages that are handled.                                           *)
LEMMA HoldersCounted ==
  ASSUME NEW n
  PROVE  IsFiniteSet(Holders(n)) /\ Cardinality(Holders(n)) \in Nat
<1>1. Holders(n) \in SUBSET Procs
  BY DEF Holders
<1> QED BY <1>1, RefreshConstants, FS_Subset, FS_CardinalityType

(* Handlers that let go of their message leave no more than there were.     *)
KeepsOrLeaves(p) ==
  \/ handler'[p] = handler[p]
  \/ handler'[p] = NoMessage
  \/ handler'[p].n = handler[p].n /\ handler'[p].joined = FALSE
  \/ handler'[p].n = handler[p].n /\ handler[p].n # 0

LEMMA FewerHolders ==
  ASSUME QueueFits, QueueShape',
         \A p \in Procs : KeepsOrLeaves(p),
         \A n \in Messages : due'[n] >= due[n]
  PROVE  QueueFits'
<1> USE RefreshConstants
<1>1. ASSUME NEW n \in Messages PROVE Cardinality(Holders(n)') <= due'[n]
  <2>1. Holders(n)' \in SUBSET Holders(n)
    BY DEF Holders, NoMessage, Messages, KeepsOrLeaves
  <2>2. Cardinality(Holders(n)') <= Cardinality(Holders(n))
    BY <2>1, HoldersCounted, FS_Subset
  <2>3. Cardinality(Holders(n)') \in Nat
    BY <2>1, HoldersCounted, FS_Subset, FS_CardinalityType
  <2>4. due[n] \in Nat /\ due'[n] \in Nat /\ Cardinality(Holders(n)) <= due[n]
    BY DEF QueueFits, QueueShape, MessagesHeld, Messages, Attempts
  <2> QED BY <2>2, <2>3, <2>4, HoldersCounted
<1>2. \A p \in Procs : handler'[p].joined => handler'[p].n # 0
  BY DEF QueueFits, MessagesHeld, NoMessage, KeepsOrLeaves
<1>3. Messages' = Messages
  BY DEF Messages, Attempts
<1>4. \A n \in Messages : Cardinality(Holders(n))' <= due'[n]
  BY <1>1
<1> QED BY <1>2, <1>3, <1>4 DEF QueueFits, MessagesHeld

LEMMA QueueTyped ==
  ASSUME delayed' \in [Messages -> 0 .. MaxCopies], due' \in [Messages -> 0 .. MaxCopies],
         handler' \in [Procs -> [n : Attempts, joined : BOOLEAN]]
  PROVE  QueueShape'
<1>1. Messages' = Messages /\ Attempts' = Attempts
  BY DEF Messages, Attempts
<1> QED BY <1>1 DEF QueueShape

LEMMA QueueRests ==
  ASSUME QueueFits, UNCHANGED queueVars
  PROVE  QueueFits'
<1>1. QueueShape'
  BY QueueTyped DEF queueVars, QueueFits, QueueShape
<1>2. \A n \in Messages : due'[n] >= due[n]
  BY RefreshConstants DEF QueueFits, QueueShape, queueVars
<1>3. \A p \in Procs : KeepsOrLeaves(p)
  BY DEF queueVars, KeepsOrLeaves
<1> QED BY <1>1, <1>2, <1>3, FewerHolders

(* The end of a flight acknowledges the message of its process only.        *)
LEMMA QueueAtEnd ==
  ASSUME QueueFits, NEW p \in Procs, NEW n \in Attempts, NEW handoff \in BOOLEAN,
         EndFlight(p, n, handoff), delayed' \in [Messages -> 0 .. MaxCopies]
  PROVE  QueueFits'
<1> USE RefreshConstants
<1> DEFINE waiting == handler[p].n = n /\ handler[p].joined
<1>0. /\ handler \in [Procs -> [n : Attempts, joined : BOOLEAN]]
      /\ due \in [Messages -> 0 .. MaxCopies]
  BY DEF QueueFits, QueueShape
<1>nat. \A m \in Messages : due[m] \in Nat
  BY <1>0
<1>no. NoMessage \in [n : Attempts, joined : BOOLEAN]
  BY DEF NoMessage
<1>1. CASE ~waiting
  <2>1. handler' = handler /\ due' = due
    BY <1>1 DEF EndFlight
  <2>2. QueueShape'
    BY <2>1, <1>0, QueueTyped
  <2>3. /\ \A m \in Messages : due'[m] >= due[m]
        /\ \A q \in Procs : KeepsOrLeaves(q)
    BY <2>1, <1>nat DEF KeepsOrLeaves
  <2> QED BY <2>2, <2>3, FewerHolders
<1>2. CASE waiting /\ handoff
  <2>1. handler' = [handler EXCEPT ![p] = [handler[p] EXCEPT !.joined = FALSE]] /\ due' = due
    BY <1>2, <1>0 DEF EndFlight
  <2>2. [handler[p] EXCEPT !.joined = FALSE] \in [n : Attempts, joined : BOOLEAN]
    BY <1>0
  <2>3. QueueShape'
    BY <2>1, <2>2, <1>0, QueueTyped
  <2>4. \A q \in Procs : KeepsOrLeaves(q)
    BY <2>1, <1>0 DEF KeepsOrLeaves
  <2>5. \A m \in Messages : due'[m] >= due[m]
    BY <2>1, <1>nat
  <2> QED BY <2>3, <2>4, <2>5, FewerHolders
<1>3. CASE waiting /\ ~handoff
  <2>1. handler' = [handler EXCEPT ![p] = NoMessage] /\ due' = [due EXCEPT ![n] = @ - 1]
    BY <1>3 DEF EndFlight
  <2>2. n \in Messages /\ p \in Holders(n)
    BY <1>3, <1>0 DEF QueueFits, MessagesHeld, Messages, Holders
  <2>3. Cardinality(Holders(n)) <= due[n] /\ \A m \in Messages : Cardinality(Holders(m)) <= due[m]
    BY <2>2 DEF QueueFits, MessagesHeld
  <2>4. \A m \in Messages : Holders(m)' = Holders(m) \ {p}
    BY <2>1, <1>0 DEF Holders, NoMessage, Messages
  <2>5. \A m \in Messages :
          /\ Cardinality(Holders(m) \ {p}) \in Nat /\ Cardinality(Holders(m)) \in Nat
          /\ Cardinality(Holders(m) \ {p}) <= Cardinality(Holders(m))
    <3> TAKE m \in Messages
    <3>1. IsFiniteSet(Holders(m)) /\ Cardinality(Holders(m)) \in Nat
      BY HoldersCounted
    <3>2. Holders(m) \ {p} \in SUBSET Holders(m)
      OBVIOUS
    <3>3. IsFiniteSet(Holders(m) \ {p}) /\ Cardinality(Holders(m) \ {p}) <= Cardinality(Holders(m))
      BY <3>1, <3>2, FS_Subset
    <3> QED BY <3>1, <3>3, FS_CardinalityType
  <2>6. Cardinality(Holders(n) \ {p}) = Cardinality(Holders(n)) - 1
    BY <2>2, HoldersCounted, FS_RemoveElement
  <2>7. due[n] \in 1 .. MaxCopies
    BY <2>2, <2>3, <2>5, <2>6, <1>0
  <2>8. QueueShape'
    BY <2>1, <2>2, <2>7, <1>0, <1>no, QueueTyped
  <2>9. ASSUME NEW m \in Messages PROVE Cardinality(Holders(m) \ {p}) <= due'[m]
    <3>1. CASE m = n
      BY <3>1, <2>1, <2>2, <2>3, <2>6, <2>5, <2>7, <1>0
    <3>2. CASE m # n
      BY <3>2, <2>1, <2>3, <2>5, <1>0, <1>nat
    <3> QED BY <3>1, <3>2
  <2>10. \A m \in Messages : Cardinality(Holders(m)') <= due'[m]
    BY <2>4, <2>9
  <2>11. Messages' = Messages
    BY DEF Messages, Attempts
  <2>12. \A q \in Procs : handler'[q].joined => handler'[q].n # 0
    BY <2>1, <1>0 DEF NoMessage, QueueFits, MessagesHeld
  <2> QED BY <2>8, <2>10, <2>11, <2>12 DEF QueueFits, MessagesHeld
<1> QED BY <1>1, <1>2, <1>3

(* A message is sent, or not.                                               *)
LEMMA SendTyped ==
  ASSUME QueueFits, NEW n \in Messages, Send(n) \/ UNCHANGED delayed
  PROVE  delayed' \in [Messages -> 0 .. MaxCopies]
BY RefreshConstants DEF Send, More, QueueFits, QueueShape

(* What a request does leaves messages and flights alone, apart from the    *)
(* crawl it joins; a row is at most forgotten.                              *)
LEMMA AnswerSteps ==
  ASSUME RefreshInv, NEW c \in Callers, Answer(c) \/ GoCrawl(c)
  PROVE  RowsFit' /\ CallShape'
<1>1. CallShape'
  <2>1. NoCall \in Calls /\ [NoCall EXCEPT !.pc = "crawl"] \in Calls
    BY DEF NoCall, Calls, Logs
  <2>2. Calls' = Calls
    BY DEF Calls, Logs, NoLog
  <2>3. call' \in [Callers -> Calls]
    BY <2>1 DEF Answer, GoCrawl, RefreshInv, CallShape
  <2> QED BY <2>2, <2>3 DEF CallShape
<1>2. FlightShape' /\ flight' = flight /\ LogsStay
  <2>1. Flights' = Flights /\ Attempts' = Attempts
    BY DEF Flights, Attempts, Stages, Logs, NoLog
  <2> QED BY <2>1 DEF Answer, GoCrawl, RefreshInv, RowsFit, FlightShape
<1>3. RowsFit
  BY DEF RefreshInv
<1>4. FlightsGoOn
  BY <1>2, <1>3, FlightsStay
<1> QED BY <1>1, <1>2, <1>3, <1>4, RowsStay

(* Rows and flights that nothing touches.                                   *)
LEMMA RowsRest ==
  ASSUME RowsFit, UNCHANGED <<logVars, flight>>
  PROVE  RowsFit'
<1>1. Flights' = Flights /\ Attempts' = Attempts
  BY DEF Flights, Attempts, Stages, Logs, NoLog
<1>2. FlightShape'
  BY <1>1 DEF RowsFit, FlightShape
<1>3. FlightsGoOn
  BY <1>2, FlightsStay
<1> QED BY <1>3, UnwrittenRows

LEMMA CallsTyped == ASSUME call' \in [Callers -> Calls] PROVE CallShape'
<1>1. Calls' = Calls
  BY DEF Calls, Logs, NoLog
<1> QED BY <1>1 DEF CallShape

LEMMA BoundsTyped ==
  ASSUME BoundShape, Outage \/ UNCHANGED outages,
         UNCHANGED calls \/ (calls < MaxCalls /\ calls' = calls + 1)
  PROVE  BoundShape'
BY RefreshConstants DEF BoundShape, Outage

(* A flight is begun or joined.                                             *)
LEMMA ChannelSteps ==
  ASSUME RowsFit, NEW p \in Procs, NEW n \in Attempts, DoChan(p, n), UNCHANGED logVars
  PROVE  RowsFit'
<1>1. /\ Joined(p, n) \in Flights /\ Joined(p, n).log \in {NoLog, flight[p][n].log}
      /\ HasRow(Joined(p, n)) /\ Saved(Joined(p, n)) /\ Unmarked(Joined(p, n), refreshLog)
  <2>1. CASE flight[p][n].pc = "none"
    <3>1. Joined(p, n) = [NoFlight EXCEPT !.pc = "insert"]
      BY <2>1 DEF Joined
    <3> QED BY <3>1 DEF NoFlight, Flights, Stages, Logs, HasRow, Saved, Unmarked
  <2>2. CASE flight[p][n].pc # "none"
    <3>1. Joined(p, n) = flight[p][n]
      BY <2>2 DEF Joined
    <3> QED BY <3>1 DEF RowsFit, FlightShape, FlightsFit
  <2> QED BY <2>1, <2>2
<1>2. flight' = [flight EXCEPT ![p][n] = Joined(p, n)]
  BY DEF DoChan
<1>3. FlightsGoOn
  BY <1>1, <1>2, FlightGoes
<1> QED BY <1>3, UnwrittenRows

LEMMA CallerSteps ==
  ASSUME RefreshInv, NEW c \in Callers, GetClasses(c) \/ Caller(c) \/ Leave(c)
  PROVE  RefreshInv'
<1> USE RefreshConstants
<1>inv. RowsFit /\ CallShape /\ QueueFits /\ BoundShape
  BY DEF RefreshInv
<1>typed. call \in [Callers -> Calls] /\ newest \in Logs
  BY <1>inv DEF CallShape, RowsFit, LogShape
<1>1. CASE GetClasses(c)
  <2>1. \A b \in BOOLEAN : [NoCall EXCEPT !.pc = "decide", !.fetch = b] \in Calls
    BY DEF NoCall, Calls, Logs
  <2>2. CallShape'
    BY <1>1, <2>1, <1>typed, CallsTyped DEF GetClasses
  <2> QED BY <1>1, <2>2, <1>inv, RowsRest, QueueRests, BoundsTyped DEF GetClasses, RefreshInv
<1>2. CASE (Answer(c) \/ GoCrawl(c)) /\ ~GetClasses(c)
  <2>1. RowsFit' /\ CallShape'
    BY <1>2, AnswerSteps
  <2>2. UNCHANGED queueVars /\ UNCHANGED calls /\ (Outage \/ UNCHANGED outages)
    BY <1>2 DEF GetClasses, Caller, DecideRefreshAction, Polled, WaitTimeout, DoCrawl, Leave
  <2> QED BY <2>1, <2>2, <1>inv, QueueRests, BoundsTyped DEF RefreshInv
<1>3. CASE DecideRefreshAction(c) /\ ~(Answer(c) \/ GoCrawl(c))
  <2>1. /\ call' = [call EXCEPT ![c] = [NoCall EXCEPT !.pc = "wait", !.log = newest]]
        /\ UNCHANGED <<logVars, flight, outages, queueVars, calls>>
    BY <1>3 DEF DecideRefreshAction
  <2>2. [NoCall EXCEPT !.pc = "wait", !.log = newest] \in Calls
    BY <1>typed DEF NoCall, Calls
  <2>3. CallShape'
    BY <2>1, <2>2, <1>typed, CallsTyped
  <2> QED BY <2>1, <2>3, <1>inv, RowsRest, QueueRests, BoundsTyped DEF RefreshInv
<1>4. CASE DoCrawl(c)
  <2>1. Home[c] \in Procs
    OBVIOUS
  <2>2. [call[c] EXCEPT !.pc = "join"] \in Calls
    BY <1>typed DEF Calls
  <2>3. CallShape'
    BY <1>4, <2>2, <1>typed, CallsTyped DEF DoCrawl
  <2>4. RowsFit'
    BY <1>4, <2>1, <1>inv, ChannelSteps DEF DoCrawl
  <2> QED BY <1>4, <2>3, <2>4, <1>inv, QueueRests, BoundsTyped DEF DoCrawl, RefreshInv
<1> QED BY <1>1, <1>2, <1>3, <1>4 DEF Caller, Polled, WaitTimeout, Leave, DecideRefreshAction

LEMMA FlightSteps ==
  ASSUME RefreshInv, NEW p \in Procs, NEW n \in Attempts, Crawl(p, n)
  PROVE  RefreshInv'
<1> USE RefreshConstants
<1>inv. RowsFit /\ CallShape /\ QueueFits /\ BoundShape
  BY DEF RefreshInv
<1>rows. RowsFit'
  BY <1>inv, CrawlRows
<1>typed. call \in [Callers -> Calls] /\ delayed \in [Messages -> 0 .. MaxCopies]
  BY <1>inv DEF CallShape, QueueFits, QueueShape
<1>bounds. BoundShape'
  <2>1. UNCHANGED calls /\ (Outage \/ UNCHANGED outages)
    BY DEF Crawl, InsertRefreshLog, GetCourseFromCrawler, SaveSnapshot, DeleteConflicting, MarkReady,
           MarkFailed, CoordinateRefreshRetry
  <2> QED BY <2>1, <1>inv, BoundsTyped
<1>ends. ASSUME NEW handoff \in BOOLEAN, EndFlight(p, n, handoff),
                delayed' \in [Messages -> 0 .. MaxCopies]
         PROVE  RefreshInv'
  <2>1. CallShape'
    <3>1. NoCall \in Calls
      BY DEF NoCall, Calls, Logs
    <3> QED BY <3>1, <1>ends, <1>typed, CallsTyped DEF EndFlight
  <2>2. QueueFits'
    BY <1>ends, <1>inv, QueueAtEnd
  <2> QED BY <2>1, <2>2, <1>rows, <1>bounds DEF RefreshInv
<1>1. CASE UNCHANGED <<call, queueVars>>
  <2>1. CallShape'
    BY <1>1, <1>typed, CallsTyped
  <2> QED BY <1>1, <2>1, <1>inv, <1>rows, <1>bounds, QueueRests DEF RefreshInv
<1>2. CASE InsertRefreshLog(p, n) \/ GetCourseFromCrawler(p, n) \/ SaveSnapshot(p, n)
             \/ DeleteConflicting(p, n) \/ MarkFailed(p, n)
  BY <1>1, <1>2 DEF InsertRefreshLog, GetCourseFromCrawler, SaveSnapshot, DeleteConflicting, MarkFailed
<1>3. CASE MarkReady(p, n)
  BY <1>3, <1>1, <1>ends, <1>typed DEF MarkReady, queueVars
<1>4. CASE CoordinateRefreshRetry(p, n)
  <2>1. CASE EndFlight(p, n, FALSE) /\ UNCHANGED delayed
    BY <2>1, <1>ends, <1>typed
  <2>2. ASSUME n < MaxRefreshRetryAttempts, NEW handoff \in BOOLEAN, EndFlight(p, n, handoff),
               Send(n + 1) \/ UNCHANGED delayed
        PROVE  RefreshInv'
    <3>1. n + 1 \in Messages
      BY <2>2 DEF Messages, Attempts
    <3>2. delayed' \in [Messages -> 0 .. MaxCopies]
      BY <2>2, <3>1, <1>inv, SendTyped
    <3> QED BY <2>2, <3>2, <1>ends
  <2> QED BY <1>4, <2>1, <2>2 DEF CoordinateRefreshRetry
<1> QED BY <1>2, <1>3, <1>4 DEF Crawl

(* The topics and the consumers.                                            *)
LEMMA MessageSteps ==
  ASSUME RefreshInv, NEW n \in Messages, Forward(n) \/ DropDelayed(n)
  PROVE  RefreshInv'
<1> USE RefreshConstants
<1>inv. RowsFit /\ CallShape /\ QueueFits /\ BoundShape
  BY DEF RefreshInv
<1>typed. /\ call \in [Callers -> Calls] /\ delayed \in [Messages -> 0 .. MaxCopies]
          /\ due \in [Messages -> 0 .. MaxCopies]
          /\ handler \in [Procs -> [n : Attempts, joined : BOOLEAN]]
  BY <1>inv DEF CallShape, QueueFits, QueueShape
<1>1. RowsFit' /\ CallShape' /\ BoundShape'
  BY <1>inv, <1>typed, RowsRest, CallsTyped, BoundsTyped DEF Forward, DropDelayed
<1>2. \A k \in 0 .. MaxCopies : More(k) \in 0 .. MaxCopies /\ More(k) >= k
  BY DEF More
<1>3. delayed[n] > 0 /\ delayed[n] - 1 \in 0 .. MaxCopies
  BY <1>typed DEF Forward, DropDelayed
<1>4. /\ delayed' \in [Messages -> 0 .. MaxCopies] /\ due' \in [Messages -> 0 .. MaxCopies]
      /\ handler' = handler
  BY <1>typed, <1>2, <1>3 DEF Forward, DropDelayed
<1>5. QueueShape'
  BY <1>4, <1>typed, QueueTyped
<1>6. \A m \in Messages : due'[m] >= due[m]
  BY <1>typed, <1>2 DEF Forward, DropDelayed
<1>7. \A p \in Procs : KeepsOrLeaves(p)
  BY <1>4 DEF KeepsOrLeaves
<1>8. QueueFits'
  BY <1>5, <1>6, <1>7, <1>inv, FewerHolders
<1> QED BY <1>1, <1>8 DEF RefreshInv

LEMMA ConsumerSteps ==
  ASSUME RefreshInv, NEW p \in Procs,
         HandleAgain(p) \/ EndSession(p) \/ Die(p) \/ \E n \in Messages : HandleRetryMessage(p, n)
  PROVE  RefreshInv'
<1> USE RefreshConstants
<1>inv. RowsFit /\ CallShape /\ QueueFits /\ BoundShape
  BY DEF RefreshInv
<1>typed. /\ call \in [Callers -> Calls] /\ delayed \in [Messages -> 0 .. MaxCopies]
          /\ due \in [Messages -> 0 .. MaxCopies]
          /\ handler \in [Procs -> [n : Attempts, joined : BOOLEAN]]
  BY <1>inv DEF CallShape, QueueFits, QueueShape
<1>nat. \A m \in Messages : due[m] \in Nat
  BY <1>typed
<1>no. NoMessage \in [n : Attempts, joined : BOOLEAN] /\ NoCall \in Calls
  BY DEF NoMessage, NoCall, Calls, Logs
<1>1. CASE HandleAgain(p)
  <2>1. handler[p].n \in Attempts /\ handler[p].n # 0
    BY <1>1, <1>typed DEF HandleAgain
  <2>2. RowsFit'
    BY <1>1, <2>1, <1>inv, ChannelSteps DEF HandleAgain
  <2>3. CallShape' /\ BoundShape'
    BY <1>1, <1>inv, <1>typed, CallsTyped, BoundsTyped DEF HandleAgain
  <2>4. QueueShape' /\ \A m \in Messages : due'[m] >= due[m]
    <3>1. [handler[p] EXCEPT !.joined = TRUE] \in [n : Attempts, joined : BOOLEAN]
      BY <1>typed
    <3>2. /\ handler' = [handler EXCEPT ![p] = [handler[p] EXCEPT !.joined = TRUE]]
          /\ delayed' = delayed /\ due' = due
      BY <1>1, <1>typed DEF HandleAgain
    <3>3. handler' \in [Procs -> [n : Attempts, joined : BOOLEAN]]
      BY <3>1, <3>2, <1>typed
    <3> QED BY <3>2, <3>3, <1>typed, <1>nat, QueueTyped
  <2>5. \A q \in Procs : KeepsOrLeaves(q)
    BY <1>1, <1>typed DEF HandleAgain, KeepsOrLeaves
  <2> QED BY <2>2, <2>3, <2>4, <2>5, <1>inv, FewerHolders DEF RefreshInv
<1>2. CASE EndSession(p)
  <2>1. RowsFit' /\ CallShape' /\ BoundShape'
    BY <1>2, <1>inv, <1>typed, RowsRest, CallsTyped, BoundsTyped DEF EndSession
  <2>2. QueueShape' /\ \A m \in Messages : due'[m] >= due[m]
    BY <1>2, <1>typed, <1>no, <1>nat, QueueTyped DEF EndSession
  <2>3. \A q \in Procs : KeepsOrLeaves(q)
    BY <1>2, <1>typed DEF EndSession, KeepsOrLeaves
  <2> QED BY <2>1, <2>2, <2>3, <1>inv, FewerHolders DEF RefreshInv
<1>3. CASE Die(p)
  <2>1. CallShape' /\ BoundShape'
    BY <1>3, <1>inv, <1>typed, <1>no, CallsTyped, BoundsTyped DEF Die
  <2>2. QueueShape' /\ \A m \in Messages : due'[m] >= due[m]
    BY <1>3, <1>typed, <1>no, <1>nat, QueueTyped DEF Die
  <2>3. \A q \in Procs : KeepsOrLeaves(q)
    BY <1>3, <1>typed DEF Die, KeepsOrLeaves
  <2>4. NoFlight \in Flights /\ NoFlight.pc = "none"
    BY DEF NoFlight, Flights, Stages, Logs
  <2>5. flight \in [Procs -> [Attempts -> Flights]]
    BY <1>inv DEF RowsFit, FlightShape
  <2>6. flight' \in [Procs -> [Attempts -> Flights]]
    BY <1>3, <2>4, <2>5 DEF Die
  <2>7. FlightShape'
    <3>1. Flights' = Flights /\ Attempts' = Attempts
      BY DEF Flights, Attempts, Stages, Logs, NoLog
    <3> QED BY <3>1, <2>6 DEF FlightShape
  <2>8. \A q \in Procs, m \in Attempts : flight'[q][m] = NoFlight \/ flight'[q][m] = flight[q][m]
    BY <1>3, <2>5 DEF Die
  <2>9. RowsFit'
    BY <1>3, <2>7, <2>8, <1>inv, FlightsStay, RowsStay DEF Die
  <2> QED BY <2>1, <2>2, <2>3, <2>9, <1>inv, FewerHolders DEF RefreshInv
<1>4. ASSUME NEW n \in Messages, HandleRetryMessage(p, n) PROVE RefreshInv'
  <2>1. RowsFit'
    BY <1>4, <1>inv, ChannelSteps DEF HandleRetryMessage
  <2>2. CallShape' /\ BoundShape'
    BY <1>4, <1>inv, <1>typed, CallsTyped, BoundsTyped DEF HandleRetryMessage
  <2>3. [n |-> n, joined |-> TRUE] \in [n : Attempts, joined : BOOLEAN]
    OBVIOUS
  <2>4. QueueShape' /\ due' = due
    BY <1>4, <2>3, <1>typed, QueueTyped DEF HandleRetryMessage
  <2>5. handler' = [handler EXCEPT ![p] = [n |-> n, joined |-> TRUE]] /\ handler[p] = NoMessage
    BY <1>4 DEF HandleRetryMessage
  <2>6. \A q \in Procs : handler'[q].joined => handler'[q].n # 0
    BY <2>5, <1>typed, <1>inv DEF QueueFits, MessagesHeld, Messages
  <2>7. Cardinality(Holders(n)) < due[n]
    BY <1>4 DEF HandleRetryMessage, Holders
  <2>8. ASSUME NEW m \in Messages PROVE Cardinality(Holders(m)') <= due'[m]
    <3>1. CASE m = n
      <4>1. Holders(m)' = Holders(n) \cup {p}
        BY <3>1, <2>5, <1>typed DEF Holders
      <4>2. Cardinality(Holders(n) \cup {p}) <= Cardinality(Holders(n)) + 1
        <5>1. IsFiniteSet(Holders(n)) /\ Cardinality(Holders(n)) \in Nat
          BY HoldersCounted
        <5>2. Cardinality(Holders(n) \cup {p})
                = IF p \in Holders(n) THEN Cardinality(Holders(n)) ELSE Cardinality(Holders(n)) + 1
          BY <5>1, FS_AddElement, Zenon
        <5> QED BY <5>1, <5>2
      <4>3. Cardinality(Holders(n) \cup {p}) \in Nat
        BY HoldersCounted, FS_AddElement, FS_CardinalityType
      <4> QED BY <3>1, <4>1, <4>2, <4>3, <2>4, <2>7, <1>nat, HoldersCounted
    <3>2. CASE m # n
      <4>1. Holders(m)' = Holders(m)
        BY <3>2, <2>5, <1>typed DEF Holders, NoMessage, Messages
      <4> QED BY <4>1, <2>4, <1>inv DEF QueueFits, MessagesHeld
    <3> QED BY <3>1, <3>2
  <2>9. MessagesHeld'
    <3>1. Messages' = Messages
      BY DEF Messages, Attempts
    <3>2. \A m \in Messages : Cardinality(Holders(m)') <= due'[m]
      BY <2>8
    <3> QED BY <3>1, <3>2, <2>6 DEF MessagesHeld
  <2> QED BY <2>1, <2>2, <2>4, <2>9 DEF RefreshInv, QueueFits
<1> QED BY <1>1, <1>2, <1>3, <1>4

LEMMA RefreshInvStep == RefreshInv /\ [RefreshNext]_refreshVars => RefreshInv'
<1> SUFFICES ASSUME RefreshInv, [RefreshNext]_refreshVars PROVE RefreshInv'
  OBVIOUS
<1>inv. RowsFit /\ CallShape /\ QueueFits /\ BoundShape
  BY DEF RefreshInv
<1>typed. call \in [Callers -> Calls]
  BY <1>inv DEF CallShape
<1>1. CASE IntervalElapses
  <2>1. CallShape' /\ BoundShape'
    BY <1>1, <1>inv, <1>typed, CallsTyped, BoundsTyped DEF IntervalElapses
  <2>2. FlightShape' /\ LogShape' /\ ReadyMeansStored'
    <3>1. Flights' = Flights /\ Attempts' = Attempts /\ Status' = Status /\ Logs' = Logs
      BY DEF Flights, Attempts, Stages, Logs, NoLog, Status
    <3> QED BY <3>1, <1>1, <1>inv DEF IntervalElapses, RowsFit, FlightShape, ReadyMeansStored, LogShape
  <2>3. FlightsGoOn
    BY <2>2, <1>1, <1>inv, FlightsStay DEF IntervalElapses
  <2>4. FlightsFit' /\ RowsApart'
    BY <2>3, <1>1 DEF IntervalElapses, FlightsGoOn, FlightsFit, HasRow, Saved, Unmarked
  <2> QED BY <2>1, <2>2, <2>4, <1>1, <1>inv, QueueRests DEF IntervalElapses, RefreshInv, RowsFit
<1>2. CASE UNCHANGED refreshVars
  BY <1>2, <1>inv, <1>typed, RowsRest, CallsTyped, BoundsTyped, QueueRests
     DEF refreshVars, RefreshInv
<1> QED BY <1>1, <1>2, CallerSteps, FlightSteps, MessageSteps, ConsumerSteps DEF RefreshNext

LEMMA RefreshInvAlways == RefreshSpec => []RefreshInv
BY RefreshInvInit, RefreshInvStep, PTL DEF RefreshSpec

(* Rows, requests, crawls and messages have their types, and no message is  *)
(* acknowledged that is not there, for any number of processes, requests,   *)
(* attempts and outages.                                                    *)
THEOREM RefreshTyped == RefreshSpec => []RefreshTypeOK
<1>1. RefreshInv => RefreshTypeOK
  BY DEF RefreshInv, RowsFit, QueueFits, LogShape, CallShape, FlightShape, QueueShape, BoundShape,
         Status, Stages, Logs, Calls, Flights, RefreshTypeOK
<1> QED BY <1>1, RefreshInvAlways, PTL

(* Whoever finds a row ready finds its classes saved and no conflict left   *)
(* that was known, through retries, crawls that are shared, crashes and ids *)
(* that are used again.                                                     *)
THEOREM ReadyIsStored == RefreshSpec => []ReadyMeansStored
<1>1. RefreshInv => ReadyMeansStored
  BY DEF RefreshInv, RowsFit
<1> QED BY <1>1, RefreshInvAlways, PTL

(* Acknowledging a message.                                                 *)
Acknowledged(n) ==
  \/ n = MaxRefreshRetryAttempts
  \/ delayed'[n + 1] > 0
  \/ \E p \in Procs : \/ flight[p][n].pc = "publish" /\ ~flight[p][n].retryable
                      \/ flight[p][n].pc = "ready" /\ newest' = flight[p][n].log
                           /\ refreshLog'[newest'] = "ready"

(* Only the end of a crawl of its own attempt acknowledges a message.       *)
LEMMA OnlyItsCrawlAcknowledges ==
  ASSUME RefreshInv, [RefreshNext]_refreshVars, NEW n \in Messages, due'[n] < due[n]
  PROVE  \E p \in Procs :
           \/ MarkReady(p, n) /\ EndFlight(p, n, FALSE)
           \/ CoordinateRefreshRetry(p, n) /\ EndFlight(p, n, FALSE)
<1>typed. due \in [Messages -> 0 .. MaxCopies]
  BY DEF RefreshInv, QueueFits, QueueShape
<1>nat. due[n] \in Nat /\ MaxCopies \in Nat
  BY <1>typed, RefreshConstants
<1>more. \A k \in 0 .. MaxCopies : More(k) \in Nat /\ More(k) >= k
  BY RefreshConstants DEF More
<1>moved. due' # due
  BY <1>nat
<1>1. ASSUME NEW c \in Callers, GetClasses(c) \/ Caller(c) \/ Leave(c) PROVE FALSE
  BY <1>1, <1>moved
     DEF GetClasses, Caller, DecideRefreshAction, Polled, WaitTimeout, DoCrawl, Leave, queueVars
<1>2. ASSUME NEW m \in Messages, Forward(m) \/ DropDelayed(m) PROVE FALSE
  <2>1. Forward(m)
    BY <1>2, <1>moved DEF DropDelayed
  <2>2. due' = [due EXCEPT ![m] = More(due[m])]
    BY <2>1 DEF Forward
  <2>3. due'[n] = due[n] \/ (n = m /\ due'[n] = More(due[n]))
    BY <2>2, <1>typed
  <2>4. More(due[n]) \in Nat /\ More(due[n]) >= due[n]
    BY <1>more, <1>typed
  <2> QED BY <2>3, <2>4, <1>nat
<1>3. ASSUME NEW p \in Procs,
             HandleAgain(p) \/ EndSession(p) \/ Die(p) \/ \E m \in Messages : HandleRetryMessage(p, m)
      PROVE  FALSE
  BY <1>3, <1>moved DEF HandleAgain, EndSession, Die, HandleRetryMessage
<1>4. ~IntervalElapses /\ ~UNCHANGED refreshVars
  BY <1>moved DEF IntervalElapses, refreshVars, queueVars
<1>5. PICK p \in Procs, m \in Attempts : Crawl(p, m)
  BY <1>1, <1>2, <1>3, <1>4 DEF RefreshNext
<1>6. ASSUME NEW handoff \in BOOLEAN, EndFlight(p, m, handoff) PROVE m = n /\ handoff = FALSE
  <2>1. due' = [due EXCEPT ![m] = due[m] - 1] /\ ~handoff
    BY <1>6, <1>moved, <1>typed DEF EndFlight
  <2>2. m = n
    BY <2>1, <1>typed, <1>nat
  <2> QED BY <2>1, <2>2
<1>7. MarkReady(p, m) \/ CoordinateRefreshRetry(p, m)
  BY <1>5, <1>moved
     DEF Crawl, InsertRefreshLog, GetCourseFromCrawler, SaveSnapshot, DeleteConflicting, MarkFailed, queueVars
<1>8. \E handoff \in BOOLEAN : EndFlight(p, m, handoff)
  BY <1>7, <1>moved DEF MarkReady, CoordinateRefreshRetry
<1>9. m = n /\ EndFlight(p, n, FALSE)
  BY <1>6, <1>8
<1> QED BY <1>7, <1>9

(* When it does, the retry was successful, useless, the last one, or sent.  *)
LEMMA AcknowledgedForGood ==
  ASSUME RefreshInv, NEW n \in Messages, NEW p \in Procs, due'[n] < due[n],
         EndFlight(p, n, FALSE), MarkReady(p, n) \/ CoordinateRefreshRetry(p, n)
  PROVE  Acknowledged(n)
<1>inv. RowsFit /\ delayed \in [Messages -> 0 .. MaxCopies] /\ due \in [Messages -> 0 .. MaxCopies]
  BY DEF RefreshInv, QueueFits, QueueShape
<1>at. n \in Attempts /\ n \in Nat /\ n <= MaxRefreshRetryAttempts /\ MaxRefreshRetryAttempts \in Nat
  BY RefreshConstants DEF Messages, Attempts
<1>typed. flight \in [Procs -> [Attempts -> Flights]]
  BY <1>inv DEF RowsFit, FlightShape
<1>gone. flight'[p][n] = NoFlight
  BY <1>at, <1>typed DEF EndFlight
<1>1. CASE MarkReady(p, n)
  <2>1. flight[p][n].pc = "ready" /\ flight[p][n].log \in LogIds
    BY <1>1, <1>at, <1>inv DEF MarkReady, RowsFit, FlightsFit, HasRow
  <2>2. Update(flight[p][n].log, "ready")
    <3>1. ~Fails(p, n, "publish")
      <4>1. SUFFICES ASSUME NEW r \in BOOLEAN,
                            flight' = [flight EXCEPT ![p][n].pc = "publish", ![p][n].retryable = r]
                     PROVE  FALSE
        BY DEF Fails
      <4>2. flight'[p][n].pc = "publish"
        BY <4>1, <1>at, <1>typed DEF Flights
      <4> QED BY <4>2, <1>gone DEF NoFlight
    <3> QED BY <1>1, <3>1 DEF MarkReady
  <2>3. newest' = flight[p][n].log /\ newest' \in Referred(newest', call', flight')
    BY <2>2 DEF Update, Referred
  <2>4. refreshLog \in [LogIds -> Status]
    BY <1>inv DEF RowsFit, LogShape
  <2>5. refreshLog'[newest'] = "ready"
    BY <2>1, <2>2, <2>3, <2>4 DEF Update, Write
  <2> QED BY <2>1, <2>3, <2>5 DEF Acknowledged
<1>2. CASE CoordinateRefreshRetry(p, n) /\ ~UNCHANGED due
  <2>1. flight[p][n].pc = "publish"
    BY <1>2 DEF CoordinateRefreshRetry
  <2>2. CASE ~flight[p][n].retryable \/ n = MaxRefreshRetryAttempts
    BY <2>1, <2>2 DEF Acknowledged
  <2>3. CASE flight[p][n].retryable /\ n < MaxRefreshRetryAttempts
    <3>1. n + 1 \in Messages
      BY <2>3, <1>at DEF Messages, Attempts
    <3>2. ~EndFlight(p, n, TRUE)
      BY <1>2 DEF EndFlight
    <3>3. Send(n + 1)
      <4>1. n # MaxRefreshRetryAttempts
        BY <2>3, <1>at
      <4> QED BY <1>2, <2>3, <3>2, <4>1, Zenon DEF CoordinateRefreshRetry
    <3>4. delayed'[n + 1] = More(delayed[n + 1])
      BY <3>1, <3>3, <1>inv DEF Send
    <3>5. delayed'[n + 1] > 0
      BY <3>1, <3>4, <1>inv, RefreshConstants DEF More
    <3> QED BY <3>5 DEF Acknowledged
  <2> QED BY <2>2, <2>3, <1>2 DEF CoordinateRefreshRetry
<1>3. ~UNCHANGED due
  BY <1>inv, RefreshConstants
<1> QED BY <1>1, <1>2, <1>3

(* No retry is forgotten, however requests and messages share a crawl,      *)
(* offsets are lost and processes die: a message goes only once its refresh *)
(* is over for good or its successor is on the delay topic.                 *)
THEOREM RetriesRemembered == RefreshSpec => NoRetryForgotten
<1>1. ASSUME RefreshInv, [RefreshNext]_refreshVars
      PROVE  [\A n \in Messages : due'[n] < due[n] => Acknowledged(n)]_refreshVars
  <2>1. ASSUME NEW n \in Messages, due'[n] < due[n] PROVE Acknowledged(n)
    BY <1>1, <2>1, OnlyItsCrawlAcknowledges, AcknowledgedForGood
  <2> QED BY <2>1
<1>2. RefreshInv /\ [RefreshNext]_refreshVars
        => [\A n \in Messages : due'[n] < due[n] =>
              \/ n = MaxRefreshRetryAttempts
              \/ delayed'[n + 1] > 0
              \/ \E p \in Procs : \/ flight[p][n].pc = "publish" /\ ~flight[p][n].retryable
                                  \/ flight[p][n].pc = "ready" /\ newest' = flight[p][n].log
                                       /\ refreshLog'[newest'] = "ready"]_refreshVars
  BY <1>1 DEF Acknowledged
<1> QED BY <1>2, RefreshInvAlways, PTL DEF RefreshSpec, NoRetryForgotten

(* Whoever has joined a crawl, be it requests or the message of a retry,    *)
(* has one in the same process that is not over.                            *)
Flying(p, n) == flight[p][n].pc # "none"
NobodyWaitsInVain ==
  /\ \A c \in Callers : call[c].pc = "join" => Flying(Home[c], 0)
  /\ \A p \in Procs : handler[p].joined => Flying(p, handler[p].n)

(* A crawl that is joined is there, and no other goes away.                 *)
LEMMA JoinsGoOn ==
  ASSUME FlightShape, NEW p \in Procs, NEW n \in Attempts, DoChan(p, n)
  PROVE  /\ Flying(p, n)'
         /\ \A q \in Procs, m \in Attempts : Flying(q, m) => Flying(q, m)'
<1>1. Joined(p, n).pc # "none"
  BY DEF Joined, NoFlight
<1>2. flight'[p][n] = Joined(p, n)
  BY DEF DoChan, FlightShape
<1>3. \A q \in Procs, m \in Attempts : (q = p /\ m = n) \/ flight'[q][m] = flight[q][m]
  BY DEF DoChan, FlightShape
<1> QED BY <1>1, <1>2, <1>3 DEF Flying

LEMMA ServedByCallers ==
  ASSUME RefreshInv, NobodyWaitsInVain, NEW c \in Callers, GetClasses(c) \/ Caller(c) \/ Leave(c)
  PROVE  NobodyWaitsInVain'
<1>typed. call \in [Callers -> Calls] /\ FlightShape /\ Home[c] \in Procs /\ 0 \in Attempts
          /\ handler \in [Procs -> [n : Attempts, joined : BOOLEAN]]
          /\ \A d \in Callers : Home[d] \in Procs
  BY RefreshConstants DEF RefreshInv, CallShape, RowsFit, QueueFits, QueueShape
<1>rest. UNCHANGED handler
  BY DEF GetClasses, Caller, DecideRefreshAction, Polled, WaitTimeout, DoCrawl, Leave, queueVars
<1>1. CASE DoCrawl(c)
  <2>1. DoChan(Home[c], 0) /\ \A d \in Callers \ {c} : call'[d] = call[d]
    BY <1>1, <1>typed DEF DoCrawl
  <2>2. Flying(Home[c], 0)' /\ \A q \in Procs, m \in Attempts : Flying(q, m) => Flying(q, m)'
    BY <2>1, <1>typed, JoinsGoOn
  <2>3. ASSUME NEW d \in Callers, call'[d].pc = "join" PROVE Flying(Home[d], 0)'
    BY <2>1, <2>2, <2>3, <1>typed DEF NobodyWaitsInVain
  <2>4. ASSUME NEW q \in Procs, handler'[q].joined PROVE Flying(q, handler[q].n)'
    BY <2>2, <2>4, <1>typed, <1>rest DEF NobodyWaitsInVain
  <2> QED BY <2>3, <2>4 DEF NobodyWaitsInVain
<1>2. CASE ~DoCrawl(c)
  <2>1. UNCHANGED flight
    BY <1>2 DEF GetClasses, Caller, DecideRefreshAction, Polled, WaitTimeout, Leave, Answer, GoCrawl
  <2>2. \A d \in Callers : call'[d].pc = "join" => call[d].pc = "join"
    <3>1. ASSUME NEW e, e.pc # "join", call' = [call EXCEPT ![c] = e]
          PROVE  \A d \in Callers : call'[d].pc = "join" => call[d].pc = "join"
      BY <3>1, <1>typed
    <3>2. NoCall.pc # "join" /\ [NoCall EXCEPT !.pc = "crawl"].pc # "join"
          /\ [NoCall EXCEPT !.pc = "wait", !.log = newest].pc # "join"
          /\ \A b \in BOOLEAN : [NoCall EXCEPT !.pc = "decide", !.fetch = b].pc # "join"
      BY DEF NoCall
    <3>3. CASE Answer(c) \/ GoCrawl(c)
      BY <3>1, <3>2, <3>3 DEF Answer, GoCrawl
    <3>4. CASE GetClasses(c)
      BY <3>1, <3>2, <3>4 DEF GetClasses
    <3>5. CASE DecideRefreshAction(c) /\ ~(Answer(c) \/ GoCrawl(c))
      BY <3>1, <3>2, <3>5 DEF DecideRefreshAction
    <3> QED BY <3>3, <3>4, <3>5, <1>2 DEF Caller, Polled, WaitTimeout, Leave
  <2> QED BY <2>1, <2>2, <1>rest DEF NobodyWaitsInVain, Flying
<1> QED BY <1>1, <1>2

(* The end of a crawl answers all that joined it: none is left behind.      *)
LEMMA ServedAtEnd ==
  ASSUME RefreshInv, NobodyWaitsInVain, NEW p \in Procs, NEW n \in Attempts, NEW handoff \in BOOLEAN,
         EndFlight(p, n, handoff)
  PROVE  NobodyWaitsInVain'
<1>typed. call \in [Callers -> Calls] /\ flight \in [Procs -> [Attempts -> Flights]]
          /\ handler \in [Procs -> [n : Attempts, joined : BOOLEAN]]
  BY DEF RefreshInv, CallShape, RowsFit, FlightShape, QueueFits, QueueShape
<1>1. \A q \in Procs, m \in Attempts : (q = p /\ m = n) \/ flight'[q][m] = flight[q][m]
  BY <1>typed DEF EndFlight
<1>2. ASSUME NEW c \in Callers, call'[c].pc = "join" PROVE Flying(Home[c], 0)'
  <2>1. call[c].pc = "join" /\ ~(n = 0 /\ Home[c] = p)
    BY <1>2 DEF EndFlight, NoCall
  <2>2. Flying(Home[c], 0) /\ Home[c] \in Procs /\ 0 \in Attempts
    BY <2>1, RefreshConstants DEF NobodyWaitsInVain
  <2> QED BY <2>1, <2>2, <1>1 DEF Flying
<1>3. ASSUME NEW q \in Procs, handler'[q].joined PROVE Flying(q, handler[q].n)'
  <2>1. handler'[q] = handler[q] /\ ~(q = p /\ handler[q].n = n)
    <3>1. CASE handler[p].n = n /\ handler[p].joined
      <4>1. handler' = [handler EXCEPT ![p] = IF handoff THEN [handler[p] EXCEPT !.joined = FALSE]
                                                         ELSE NoMessage]
        BY <3>1, <1>typed DEF EndFlight
      <4>2. ~handler'[p].joined
        BY <4>1, <1>typed DEF NoMessage
      <4> QED BY <4>1, <4>2, <1>3, <1>typed
    <3>2. CASE ~(handler[p].n = n /\ handler[p].joined)
      BY <3>2, <1>3 DEF EndFlight
    <3> QED BY <3>1, <3>2
  <2>2. Flying(q, handler[q].n) /\ handler[q].n \in Attempts
    BY <2>1, <1>3, <1>typed DEF NobodyWaitsInVain
  <2> QED BY <2>1, <2>2, <1>1 DEF Flying
<1> QED BY <1>2, <1>3 DEF NobodyWaitsInVain

(* A crawl in progress keeps whoever joined it.                             *)
LEMMA ServedByCrawls ==
  ASSUME RefreshInv, NobodyWaitsInVain, NEW p \in Procs, NEW n \in Attempts, Crawl(p, n)
  PROVE  NobodyWaitsInVain'
<1>typed. flight \in [Procs -> [Attempts -> Flights]]
  BY DEF RefreshInv, RowsFit, FlightShape
<1>1. CASE \E handoff \in BOOLEAN : EndFlight(p, n, handoff)
  BY <1>1, ServedAtEnd
<1>2. CASE ~\E handoff \in BOOLEAN : EndFlight(p, n, handoff)
  <2>1. UNCHANGED <<call, handler>>
    BY <1>2 DEF Crawl, InsertRefreshLog, GetCourseFromCrawler, SaveSnapshot, DeleteConflicting,
                MarkReady, MarkFailed, CoordinateRefreshRetry, queueVars
  <2>2. \E f \in Flights : f.pc # "none" /\ flight' = [flight EXCEPT ![p][n] = f]
    <3>2. flight[p][n] \in Flights
      BY <1>typed
    <3>3. CASE InsertRefreshLog(p, n)
      BY <3>3, <3>2 DEF InsertRefreshLog, Fails, Flights, FreshLogs, Stages, Logs
    <3>4. CASE GetCourseFromCrawler(p, n) \/ SaveSnapshot(p, n) \/ DeleteConflicting(p, n)
      BY <3>4, <3>2 DEF GetCourseFromCrawler, SaveSnapshot, DeleteConflicting, Goes, Fails, Flights, Stages
    <3>5. CASE MarkReady(p, n)
      <4>1. Fails(p, n, "publish")
        BY <3>5, <1>2 DEF MarkReady
      <4>2. PICK r \in BOOLEAN :
              flight' = [flight EXCEPT ![p][n].pc = "publish", ![p][n].retryable = r]
        BY <4>1 DEF Fails
      <4>3. flight' = [flight EXCEPT ![p][n] = [flight[p][n] EXCEPT !.pc = "publish", !.retryable = r]]
        BY <4>2, <1>typed
      <4>4. [flight[p][n] EXCEPT !.pc = "publish", !.retryable = r] \in Flights
        BY <3>2 DEF Flights, Stages
      <4> QED BY <4>3, <4>4, <3>2 DEF Flights
    <3>6. CASE MarkFailed(p, n)
      BY <3>6, <3>2 DEF MarkFailed, Goes, Flights, Stages
    <3>7. ~CoordinateRefreshRetry(p, n)
      BY <1>2 DEF CoordinateRefreshRetry
    <3> QED BY <3>3, <3>4, <3>5, <3>6, <3>7 DEF Crawl
  <2>3. /\ flight'[p][n].pc # "none"
        /\ \A q \in Procs, m \in Attempts : (q = p /\ m = n) \/ flight'[q][m] = flight[q][m]
    BY <2>2, <1>typed
  <2>4. \A q \in Procs, m \in Attempts : Flying(q, m) => Flying(q, m)'
    BY <2>3 DEF Flying
  <2>5. \A c \in Callers : Home[c] \in Procs /\ 0 \in Attempts
    BY RefreshConstants
  <2>6. \A q \in Procs : handler[q].n \in Attempts
    BY DEF RefreshInv, QueueFits, QueueShape
  <2> QED BY <2>1, <2>4, <2>5, <2>6 DEF NobodyWaitsInVain
<1> QED BY <1>1, <1>2

LEMMA ServedByConsumers ==
  ASSUME RefreshInv, NobodyWaitsInVain, NEW p \in Procs,
         HandleAgain(p) \/ EndSession(p) \/ Die(p) \/ \E n \in Messages : HandleRetryMessage(p, n)
  PROVE  NobodyWaitsInVain'
<1>typed. /\ flight \in [Procs -> [Attempts -> Flights]] /\ FlightShape
          /\ handler \in [Procs -> [n : Attempts, joined : BOOLEAN]]
          /\ \A d \in Callers : Home[d] \in Procs
          /\ 0 \in Attempts
  BY RefreshConstants DEF RefreshInv, RowsFit, FlightShape, QueueFits, QueueShape
<1>1. ASSUME NEW n \in Attempts, DoChan(p, n), UNCHANGED call, handler'[p].n = n,
             \A q \in Procs \ {p} : handler'[q] = handler[q]
      PROVE  NobodyWaitsInVain'
  <2>1. Flying(p, n)' /\ \A q \in Procs, m \in Attempts : Flying(q, m) => Flying(q, m)'
    BY <1>1, <1>typed, JoinsGoOn
  <2>2. ASSUME NEW q \in Procs, handler'[q].joined PROVE Flying(q, handler[q].n)'
    <3>1. CASE q = p
      BY <3>1, <2>1, <1>1
    <3>2. CASE q # p
      BY <3>2, <2>1, <2>2, <1>1, <1>typed DEF NobodyWaitsInVain
    <3> QED BY <3>1, <3>2
  <2>3. ASSUME NEW c \in Callers, call'[c].pc = "join" PROVE Flying(Home[c], 0)'
    BY <2>1, <2>3, <1>1, <1>typed DEF NobodyWaitsInVain
  <2> QED BY <2>2, <2>3 DEF NobodyWaitsInVain
<1>2. CASE HandleAgain(p)
  <2>1. handler'[p].n = handler[p].n /\ \A q \in Procs \ {p} : handler'[q] = handler[q]
    BY <1>2, <1>typed DEF HandleAgain
  <2>2. handler[p].n \in Attempts /\ DoChan(p, handler[p].n) /\ UNCHANGED call
    BY <1>2, <1>typed DEF HandleAgain
  <2> QED BY <2>1, <2>2, <1>1
<1>3. ASSUME NEW n \in Messages, HandleRetryMessage(p, n) PROVE NobodyWaitsInVain'
  <2>1. handler'[p].n = n /\ \A q \in Procs \ {p} : handler'[q] = handler[q]
    BY <1>3, <1>typed DEF HandleRetryMessage
  <2>2. n \in Attempts /\ DoChan(p, n) /\ UNCHANGED call
    BY <1>3 DEF HandleRetryMessage, Messages
  <2> QED BY <2>1, <2>2, <1>1
<1>4. CASE EndSession(p)
  <2>1. UNCHANGED <<call, flight>> /\ \A q \in Procs : handler'[q].joined => handler'[q] = handler[q]
    BY <1>4, <1>typed DEF EndSession, NoMessage
  <2> QED BY <2>1 DEF NobodyWaitsInVain, Flying
<1>5. CASE Die(p)
  <2>1. \A q \in Procs \ {p} : handler'[q] = handler[q] /\ flight'[q] = flight[q]
    BY <1>5, <1>typed DEF Die
  <2>2. ~handler'[p].joined
    BY <1>5, <1>typed DEF Die, NoMessage
  <2>3. \A c \in Callers : call'[c].pc = "join" => call[c].pc = "join" /\ Home[c] # p
    BY <1>5 DEF Die, NoCall
  <2> QED BY <2>1, <2>2, <2>3, <1>typed DEF NobodyWaitsInVain, Flying
<1> QED BY <1>2, <1>3, <1>4, <1>5

(* No request and no message waits for a crawl that is not there, however   *)
(* crawls are shared and whichever process dies: with the fairness of       *)
(* crawls this is why every request is answered.                            *)
THEOREM WaitersAreServed == RefreshSpec => []NobodyWaitsInVain
<1>1. RefreshInit => NobodyWaitsInVain
  BY DEF RefreshInit, NobodyWaitsInVain, NoCall, NoMessage
<1>2. RefreshInv /\ NobodyWaitsInVain /\ [RefreshNext]_refreshVars => NobodyWaitsInVain'
  <2> SUFFICES ASSUME RefreshInv, NobodyWaitsInVain, [RefreshNext]_refreshVars PROVE NobodyWaitsInVain'
    OBVIOUS
  <2>1. ASSUME UNCHANGED <<call, flight, handler>> PROVE NobodyWaitsInVain'
    BY <2>1 DEF NobodyWaitsInVain, Flying
  <2>2. CASE \/ \E n \in Messages : Forward(n) \/ DropDelayed(n)
             \/ IntervalElapses \/ UNCHANGED refreshVars
    BY <2>1, <2>2 DEF Forward, DropDelayed, IntervalElapses, refreshVars, queueVars
  <2> QED BY <2>2, ServedByCallers, ServedByCrawls, ServedByConsumers DEF RefreshNext
<1> QED BY <1>1, <1>2, RefreshInvAlways, PTL DEF RefreshSpec
=============================================================================
