------------------------------ MODULE ClassTable ------------------------------
(* be-classlist: the timetables of one semester.  class_info holds the     *)
(* classes, shared by all students and keyed by their content;             *)
(* student_course says which student has which class, officially or added  *)
(* by hand, with a note.  Both tables are read through two cache keys per  *)
(* student, which are invalidated after a commit.  Refreshes, edits and    *)
(* queries run at the same time, in several processes.                     *)
EXTENDS Integers, FiniteSets

CONSTANTS
  Students, Classes, Actors,
  SlotsOf,       \* the day, weeks and sections of a class; none if its sections do not parse
  MaxNum,        \* added classes per semester
  MaxNotes,      \* bound: notes ever written
  MaxRequests,   \* bound: requests ever started
  MaxFaults      \* bound: failing queries that do not end the request

ASSUME ClassTableAssumption ==
  /\ Students # {} /\ Classes # {} /\ IsFiniteSet(Actors)
  /\ MaxNum \in Nat /\ MaxNotes \in Nat /\ MaxRequests \in Nat /\ MaxFaults \in Nat
  /\ DOMAIN SlotsOf = Classes

VARIABLES
  info,       \* class_info: the classes with a row
  official,   \* student_course, is_manually_added = false: the note of a row, or NoRow
  added,      \* student_course, is_manually_added = true
  listCache,  \* ClassInfos:<student>: the cached list, as a set of at most one value
  metaCache,  \* ClassMetaData:<student>: the cached fields
  school,     \* the classes the school system has for a student
  act,        \* the request each actor works on
  notes, requests, faults,   \* what is used up of the bounds
  calm        \* observation: the requests of the student never overlapped, broke off or met a
              \* fault, and no class the student has was taken from class_info

tableVars == <<info, official, added>>
cacheVars == <<listCache, metaCache>>
boundVars == <<notes, requests, faults>>
classVars == <<tableVars, cacheVars, school, act, boundVars, calm>>

-----------------------------------------------------------------------------
(* A note is known by the number of the write that made it, 0 is none. *)
NoRow == -1
Note == 0 .. MaxNotes
Entry == [cla : Classes, official : BOOLEAN, note : Note]

Rows(t) == {c \in Classes : t[c] # NoRow}

Ops == {"view", "add", "delete", "update", "note", "refresh", "merge"}
Pcs == {"load", "fill", "meta", "metafill", "act", "commit", "dellist", "delmeta", "idle"}

Idle == [op |-> "view", stu |-> CHOOSE s \in Students : TRUE,
         cla |-> CHOOSE c \in Classes : TRUE, new |-> CHOOSE c \in Classes : TRUE,
         pc |-> "idle", ids |-> {}, view |-> {}, crawled |-> {}]

Busy(s) == {a \in Actors : act[a].pc # "idle" /\ act[a].stu = s}

TableTypeOK ==
  /\ info \subseteq Classes
  /\ official \in [Students -> [Classes -> Note \cup {NoRow}]]
  /\ added \in [Students -> [Classes -> Note \cup {NoRow}]]
  /\ \A s \in Students : /\ listCache[s] \subseteq SUBSET Classes
                         /\ Cardinality(listCache[s]) <= 1
                         /\ metaCache[s] \subseteq Entry
                         /\ \A e, f \in metaCache[s] : e.cla = f.cla => e = f
  /\ school \in [Students -> SUBSET Classes]
  /\ act \in [Actors -> [op : Ops, stu : Students, cla : Classes, new : Classes, pc : Pcs,
                         ids : SUBSET Classes, view : SUBSET Entry, crawled : SUBSET Classes]]
  /\ notes \in Note /\ requests \in 0 .. MaxRequests /\ faults \in 0 .. MaxFaults
  /\ calm \in [Students -> BOOLEAN]

-----------------------------------------------------------------------------
(* What the queries answer *)

Exists(s, c) == official[s][c] # NoRow \/ added[s][c] # NoRow
ListedIn(s) == {c \in info : Exists(s, c)}
AddedIn(s) == {c \in info : added[s][c] # NoRow}

(* The metadata of a class: of one of its rows, should it have two. *)
MetaOf(s, c) ==
  {[cla |-> c, official |-> TRUE, note |-> n] : n \in {official[s][c]} \cap Note}
    \cup {[cla |-> c, official |-> FALSE, note |-> n] : n \in {added[s][c]} \cap Note}

(* The ways to look up the metadata of classes, one entry for each that has a row. *)
Lookups(s, ids) ==
  {E \in SUBSET (UNION {MetaOf(s, c) : c \in ids}) :
     \A c \in ids : MetaOf(s, c) # {} => \E e \in E : E \cap MetaOf(s, c) = {e}}

(* Classes without metadata keep the zero value: not official, no note. *)
Complete(ids, E) ==
  E \cup {[cla |-> c, official |-> FALSE, note |-> 0] : c \in ids \ {e.cla : e \in E}}

Parses(c) == SlotsOf[c] # {}
Overlaps(c, d) == SlotsOf[c] \cap SlotsOf[d] # {}
Conflicts(c, ids) == \E d \in ids : Overlaps(c, d)

(* What refreshes and additions one after the other leave behind: official *)
(* rows as crawled, and added ones that meet no other class.               *)
Settled(s) ==
  /\ Rows(official[s]) \in {{}, school[s]}
  /\ Cardinality(Rows(added[s])) <= MaxNum
  /\ \A c \in Rows(added[s]) :
       Parses(c) /\ ~Conflicts(c, Rows(official[s]) \cup (Rows(added[s]) \ {c}))

TableInit ==
  /\ school \in [Students -> SUBSET Classes]
  /\ official \in [Students -> [Classes -> {0, NoRow}]]
  /\ added \in [Students -> [Classes -> {0, NoRow}]]
  /\ \A s \in Students : Settled(s)
  /\ info = {c \in Classes : \E s \in Students : Exists(s, c)}
  /\ listCache = [s \in Students |-> {}] /\ metaCache = [s \in Students |-> {}]
  /\ act = [a \in Actors |-> Idle]
  /\ notes = 0 /\ requests = 0 /\ faults = 0
  /\ calm = [s \in Students |-> TRUE]

Continue(a, pc) == act' = [act EXCEPT ![a].pc = pc, ![a].ids = {}]
(* After the commit only the invalidation, and of a refresh the merge, are left. *)
Committed(a, pc) ==
  act' = [act EXCEPT ![a] = [Idle EXCEPT !.op = act[a].op, !.stu = act[a].stu, !.pc = pc,
                                         !.crawled = act[a].crawled]]
End(a) == act' = [act EXCEPT ![a] = Idle]
Disturb(s) == calm' = [calm EXCEPT ![s] = FALSE]

-----------------------------------------------------------------------------
(* A request begins; whoever is free takes it, the actors are alike.       *)
(* AddClass first counts the rows of the class; a count that fails passes  *)
(* for none.                                                               *)
Start(a, op, s, c, d) ==
  /\ act[a].pc = "idle" /\ a = CHOOSE b \in Actors : act[b].pc = "idle"
  /\ requests < MaxRequests
  /\ op = "note" => notes + Cardinality({b \in Actors : act[b].op = "note"}) < MaxNotes
  /\ requests' = requests + 1
  /\ act' = [act EXCEPT ![a] = [Idle EXCEPT !.op = op, !.stu = s, !.cla = c, !.new = d, !.pc = "load"]]
  /\ IF op = "add" /\ Exists(s, c)
       THEN faults < MaxFaults /\ faults' = faults + 1 /\ Disturb(s)
       ELSE /\ UNCHANGED faults
            /\ IF Busy(s) = {} THEN UNCHANGED calm ELSE Disturb(s)
  /\ UNCHANGED <<tableVars, cacheVars, school, notes>>

(* ErrClassNotFound: AddClass and a refresh go on, the others give up. *)
Found(a, ids) ==
  IF ids # {} THEN act' = [act EXCEPT ![a].pc = "meta", ![a].ids = ids]
  ELSE IF act[a].op \in {"add", "refresh"} THEN Continue(a, "act") ELSE End(a)

(* GetClassesFromLocal: a cached list is used; a miss, or a cache that does *)
(* not answer, reads the table.                                            *)
LoadCached(a) ==
  /\ act[a].pc = "load" /\ act[a].op # "merge"
  /\ \E ids \in listCache[act[a].stu] : Found(a, ids)
  /\ UNCHANGED <<tableVars, cacheVars, school, boundVars, calm>>

LoadTable(a) ==
  /\ act[a].pc = "load" /\ act[a].op # "merge"
  /\ act' = [act EXCEPT ![a].pc = "fill", ![a].ids = ListedIn(act[a].stu)]
  /\ UNCHANGED <<tableVars, cacheVars, school, boundVars, calm>>

(* The list read before is written to the cache, whatever was committed in *)
(* between; an empty list as the null value.                               *)
Populate(a) ==
  /\ act[a].pc = "fill"
  /\ listCache' = [listCache EXCEPT ![act[a].stu] = {act[a].ids}]
  /\ Found(a, act[a].ids)
  /\ UNCHANGED <<tableVars, metaCache, school, boundVars, calm>>

(* A refresh goes on without the local list when it cannot be read. *)
LoadFails(a) ==
  /\ act[a].pc = "load" /\ act[a].op = "refresh"
  /\ faults < MaxFaults /\ faults' = faults + 1 /\ Disturb(act[a].stu)
  /\ Continue(a, "act")
  /\ UNCHANGED <<tableVars, cacheVars, school, notes, requests>>

(* GetAddedClasses reads the table. *)
LoadAdded(a) ==
  /\ act[a].pc = "load" /\ act[a].op = "merge"
  /\ LET ids == AddedIn(act[a].stu)
     IN IF ids = {} THEN End(a) ELSE act' = [act EXCEPT ![a].pc = "meta", ![a].ids = ids]
  /\ UNCHANGED <<tableVars, cacheVars, school, boundVars, calm>>

(* fillClassMetaData: only a cache that has all classes is used. *)
MetaCached(a) ==
  /\ act[a].pc = "meta"
  /\ LET E == {e \in metaCache[act[a].stu] : e.cla \in act[a].ids}
     IN /\ {e.cla : e \in E} = act[a].ids
        /\ act' = [act EXCEPT ![a].pc = "act", ![a].ids = {}, ![a].view = E]
  /\ UNCHANGED <<tableVars, cacheVars, school, boundVars, calm>>

MetaTable(a) ==
  /\ act[a].pc = "meta"
  /\ \E E \in Lookups(act[a].stu, act[a].ids) :
       act' = [act EXCEPT ![a].pc = IF E = {} THEN "act" ELSE "metafill",
                          ![a].ids = {e.cla : e \in E}, ![a].view = Complete(act[a].ids, E)]
  /\ UNCHANGED <<tableVars, cacheVars, school, boundVars, calm>>

MetaFails(a) ==
  /\ act[a].pc = "meta"
  /\ faults < MaxFaults /\ faults' = faults + 1 /\ Disturb(act[a].stu)
  /\ act' = [act EXCEPT ![a].pc = "act", ![a].ids = {}, ![a].view = Complete(act[a].ids, {})]
  /\ UNCHANGED <<tableVars, cacheVars, school, notes, requests>>

(* What was found is written to the cache, beside the other fields. *)
MetaFill(a) ==
  /\ act[a].pc = "metafill"
  /\ metaCache' = [metaCache EXCEPT ![act[a].stu] =
       {e \in @ : e.cla \notin act[a].ids} \cup {e \in act[a].view : e.cla \in act[a].ids}]
  /\ Continue(a, "act")
  /\ UNCHANGED <<tableVars, listCache, school, boundVars, calm>>

(* Writing to a cache is best effort. *)
FillFails(a) ==
  /\ \/ act[a].pc = "fill" /\ Found(a, act[a].ids)
     \/ act[a].pc = "metafill" /\ Continue(a, "act")
  /\ UNCHANGED <<tableVars, cacheVars, school, boundVars, calm>>

-----------------------------------------------------------------------------
(* What a request decides on the list it has read *)

Seen(a) == {e.cla : e \in act[a].view}
SeenAs(a, c) == CHOOSE e \in act[a].view : e.cla = c
Editable(a, c) == c \in Seen(a) /\ ~SeenAs(a, c).official

(* hasScheduleConflict: a class whose sections do not parse is refused. *)
MayAdd(a) == Parses(act[a].cla) /\ ~Conflicts(act[a].cla, Seen(a))

(* UpdateClass: the new class may meet no class but the old one, and may   *)
(* not be there already.                                                   *)
MayUpdate(a) ==
  LET c == act[a].cla  d == act[a].new
  IN /\ Editable(a, c) /\ Parses(d)
     /\ ~Conflicts(d, Seen(a) \ {c})
     /\ c = d \/ ~Exists(act[a].stu, d)

(* filterAddedClassesConflictingWithOfficial, against what was crawled. *)
Conflicting(a) == {c \in Seen(a) : Conflicts(c, act[a].crawled)}

Accepts(a) ==
  CASE act[a].op = "view"    -> FALSE
    [] act[a].op = "add"     -> MayAdd(a)
    [] act[a].op = "delete"  -> Editable(a, act[a].cla)
    [] act[a].op = "update"  -> MayUpdate(a)
    [] act[a].op = "note"    -> act[a].cla \in Seen(a)
    [] act[a].op = "refresh" -> TRUE
    [] act[a].op = "merge"   -> Conflicting(a) # {}

(* The transaction of AddClass counts the rows before it commits. *)
WithinLimit(a) ==
  act[a].op = "add" => Cardinality(Rows(added[act[a].stu]) \cup {act[a].cla}) <= MaxNum

(* A refresh asks the school system now; the other requests are answered   *)
(* or go on to their transaction.                                          *)
Decide(a) ==
  /\ act[a].pc = "act"
  /\ IF Accepts(a) /\ WithinLimit(a)
       THEN act' = [act EXCEPT ![a].pc = "commit",
                               ![a].crawled = IF act[a].op = "refresh" THEN school[act[a].stu] ELSE @]
       ELSE End(a)
  /\ UNCHANGED <<tableVars, cacheVars, school, boundVars, calm>>

-----------------------------------------------------------------------------
(* The transactions *)

Insert(row, n) == IF row = NoRow THEN n ELSE row

(* AddClass: rows that are there already are left calm. *)
AddClass(a, s) ==
  LET c == act[a].cla
  IN /\ info' = info \cup {c}
     /\ added' = [added EXCEPT ![s][c] = Insert(@, 0)]
     /\ Committed(a, "dellist")
     /\ UNCHANGED <<official, notes, calm>>

(* DeleteAddedClasses: the rows of the student, and the classes themselves, *)
(* whoever else has them.                                                  *)
Orphaned(C) ==
  calm' = [s \in Students |-> calm[s] /\ \A c \in C : official'[s][c] = NoRow /\ added'[s][c] = NoRow]

DeleteAddedClasses(a, s, C) ==
  /\ added' = [added EXCEPT ![s] = [c \in Classes |-> IF c \in C THEN NoRow ELSE @[c]]]
  /\ info' = info \ C
  /\ Committed(a, "dellist")
  /\ UNCHANGED <<official, notes>> /\ Orphaned(C)

(* UpdateAddedClass: the new class takes the note read with the old one. *)
UpdateAddedClass(a, s) ==
  LET c == act[a].cla  d == act[a].new
      left == [added[s] EXCEPT ![c] = NoRow]
  IN /\ added' = [added EXCEPT ![s] = [left EXCEPT ![d] = Insert(@, SeenAs(a, c).note)]]
     /\ info' = (info \cup {d}) \ ({c} \ {d})
     /\ Committed(a, "dellist")
     /\ UNCHANGED <<official, notes>> /\ Orphaned({c} \ {d})

(* UpdateClassNote: every row of the class, the list is not invalidated. *)
UpdateClassNote(a, s) ==
  LET c == act[a].cla
      Noted(row) == IF row = NoRow THEN NoRow ELSE notes + 1
  IN /\ notes' = notes + 1
     /\ official' = [official EXCEPT ![s][c] = Noted(@)]
     /\ added' = [added EXCEPT ![s][c] = Noted(@)]
     /\ Committed(a, "delmeta")
     /\ UNCHANGED <<info, calm>>

KeptNote_None(a, c) == 0

(* SaveClass: the official rows are replaced by the crawled ones, with the *)
(* notes read before the crawl; the added rows stay.                       *)
KeptNote(a, c) == IF c \in Seen(a) THEN SeenAs(a, c).note ELSE 0

SaveClass(a, s) ==
  /\ official' = [official EXCEPT ![s] =
       [c \in Classes |-> IF c \in act[a].crawled THEN KeptNote(a, c) ELSE NoRow]]
  /\ info' = info \cup act[a].crawled
  /\ Committed(a, "dellist")
  /\ UNCHANGED <<added, notes, calm>>

Commit(a) ==
  /\ act[a].pc = "commit"
  /\ LET s == act[a].stu
     IN \/ act[a].op = "add" /\ AddClass(a, s)
        \/ act[a].op = "delete" /\ DeleteAddedClasses(a, s, {act[a].cla})
        \/ act[a].op = "update" /\ UpdateAddedClass(a, s)
        \/ act[a].op = "note" /\ UpdateClassNote(a, s)
        \/ act[a].op = "refresh" /\ SaveClass(a, s)
        \/ act[a].op = "merge" /\ DeleteAddedClasses(a, s, Conflicting(a))
  /\ UNCHANGED <<cacheVars, school, requests, faults>>

(* The keys are deleted after the commit; AddClass leaves the metadata.  A *)
(* refresh then merges the added classes.                                  *)
Finished(a) ==
  IF act[a].op = "refresh"
    THEN act' = [act EXCEPT ![a].op = "merge", ![a].pc = "load", ![a].ids = {}, ![a].view = {}]
    ELSE End(a)

DeleteClassInfoFromCache_Only(a) ==
  /\ act[a].pc = "dellist"
  /\ listCache' = [listCache EXCEPT ![act[a].stu] = {}]
  /\ IF act[a].op \in {"add", "delete"} THEN Finished(a) ELSE Continue(a, "delmeta")
  /\ UNCHANGED <<tableVars, metaCache, school, boundVars, calm>>

DeleteClassInfoFromCache(a) ==
  /\ act[a].pc = "dellist"
  /\ listCache' = [listCache EXCEPT ![act[a].stu] = {}]
  /\ IF act[a].op = "add" THEN Finished(a) ELSE Continue(a, "delmeta")
  /\ UNCHANGED <<tableVars, metaCache, school, boundVars, calm>>

DeleteAllClassMetaData(a) ==
  /\ act[a].pc = "delmeta"
  /\ metaCache' = [metaCache EXCEPT ![act[a].stu] = {}]
  /\ Finished(a)
  /\ UNCHANGED <<tableVars, listCache, school, boundVars, calm>>

(* A query, a transaction or the process fails and the request is given up *)
(* at any step; what it committed stays, a key may not be deleted.         *)
Abandon(a) ==
  /\ act[a].pc # "idle"
  /\ End(a) /\ Disturb(act[a].stu)
  /\ UNCHANGED <<tableVars, cacheVars, school, boundVars>>

-----------------------------------------------------------------------------
(* The environment *)

Expire_ListOnly(s) ==
  /\ listCache[s] # {} /\ listCache' = [listCache EXCEPT ![s] = {}]
  /\ UNCHANGED <<metaCache, tableVars, school, act, boundVars, calm>>

Expire(s) ==
  /\ \/ listCache[s] # {} /\ listCache' = [listCache EXCEPT ![s] = {}] /\ UNCHANGED metaCache
     \/ metaCache[s] # {} /\ metaCache' = [metaCache EXCEPT ![s] = {}] /\ UNCHANGED listCache
  /\ UNCHANGED <<tableVars, school, act, boundVars, calm>>

(* The school system changes the classes of a student before a request. *)
Enrol(s) ==
  /\ requests < MaxRequests /\ Busy(s) = {}
  /\ \E C \in SUBSET Classes : school' = [school EXCEPT ![s] = C]
  /\ UNCHANGED <<tableVars, cacheVars, act, boundVars, calm>>

-----------------------------------------------------------------------------
Request(a) ==
  \E op \in Ops \ {"merge"}, s \in Students, c, d \in Classes :
    /\ op \in {"view", "refresh"} => c = Idle.cla
    /\ op # "update" => d = Idle.new
    /\ Start(a, op, s, c, d)

Step(a) ==
  LoadCached(a) \/ LoadTable(a) \/ Populate(a) \/ LoadFails(a) \/ LoadAdded(a) \/ MetaCached(a)
    \/ MetaTable(a) \/ MetaFails(a) \/ MetaFill(a) \/ FillFails(a) \/ Decide(a) \/ Commit(a)
    \/ DeleteClassInfoFromCache(a) \/ DeleteAllClassMetaData(a) \/ Abandon(a)

TableNext == (\E a \in Actors : Request(a) \/ Step(a)) \/ (\E s \in Students : Expire(s) \/ Enrol(s))

TableSpec == TableInit /\ [][TableNext]_classVars

(* As long as requests can be carried on or keys expire, one of them does. *)
TableFairness ==
  WF_classVars((\E a \in Actors : Step(a)) \/ (\E s \in Students : Expire(s)))

TableFairSpec == TableSpec /\ TableFairness

-----------------------------------------------------------------------------
(* Properties *)

(* Notes do not go back.  As long as the requests of a student follow each *)
(* other and meet no fault, no refresh or edit writes an older note over a *)
(* newer one.  A note written beside a refresh, or after a cached one was  *)
(* put back by a reader, can be lost for good, also much later.            *)
NotesNeverGoBack ==
  [][\A s \in Students, c \in Classes : calm'[s] =>
       /\ official[s][c] # NoRow /\ official'[s][c] # NoRow => official'[s][c] >= official[s][c]
       /\ added[s][c] # NoRow /\ added'[s][c] # NoRow => added'[s][c] >= added[s][c]]_classVars

(* Under the same condition the caches of an idle student say what the     *)
(* tables say; tables and caches keep their types.                         *)
CachesAgree ==
  /\ TableTypeOK
  /\ \A s \in Students : calm[s] /\ Busy(s) = {} =>
       /\ \A ids \in listCache[s] : ids = ListedIn(s)
       /\ \A e \in metaCache[s] : e \in MetaOf(s, e.cla)

(* Whatever the requests do to the caches, the tables show in the end.     *)
(* A list read before a commit and cached after it lives until it expires.*)
CachesHeal ==
  \A s \in Students : <>[](/\ \A ids \in listCache[s] : ids = ListedIn(s)
                           /\ \A e \in metaCache[s] : e \in MetaOf(s, e.cla))
(* Where an added class meets an official one the added one is deleted,    *)
(* and the official one stays on the timetable.  (Not so: a class that is  *)
(* both goes from class_info.)                                             *)
OfficialListed == \A s \in Students : Busy(s) = {} => Rows(official[s]) \subseteq info
=============================================================================
