-------------------------- MODULE ClassTable_proof ---------------------------
(* Proofs about the timetables of be-classlist, for any number of students, *)
(* classes and requests at the same time, and any bounds.                   *)
(*                                                                          *)
(* As long as the requests of a student follow each other, one request at   *)
(* most is under way for the student, what it has read is what the tables   *)
(* say, and so are the caches, except between a commit and the deletion of  *)
(* its keys.  The requests of other students touch the classes only.        *)
EXTENDS ClassTable, FiniteSetTheorems, TLAPS

Row == Note \cup {NoRow}
Work == [op : Ops, stu : Students, cla : Classes, new : Classes, pc : Pcs,
         ids : SUBSET Classes, view : SUBSET Entry, crawled : SUBSET Classes]

Single(C) == \A x, y \in C : x = y
Functional(E) == \A e, f \in E : e.cla = f.cla => e = f

(* An update commits what it found to be editable. *)
Ready ==
  \A a \in Actors : act[a].op = "update" /\ act[a].pc = "commit" => Editable(a, act[a].cla)

(* The types of the variables, in full. *)
Shape ==
  /\ info \subseteq Classes
  /\ official \in [Students -> [Classes -> Row]]
  /\ added \in [Students -> [Classes -> Row]]
  /\ listCache \in [Students -> SUBSET SUBSET Classes]
  /\ \A s \in Students : Single(listCache[s])
  /\ metaCache \in [Students -> SUBSET Entry]
  /\ \A s \in Students : Functional(metaCache[s])
  /\ school \in [Students -> SUBSET Classes]
  /\ act \in [Actors -> Work]
  /\ \A a \in Actors : Functional(act[a].view)
  /\ Ready
  /\ notes \in Nat /\ requests \in 0 .. MaxRequests /\ faults \in 0 .. MaxFaults
  /\ calm \in [Students -> BOOLEAN]

(* The requests that may still write a note. *)
After == {"idle", "dellist", "delmeta"}
Pending == {a \in Actors : act[a].op = "note" /\ act[a].pc \notin After}
NotesLeft == notes + Cardinality(Pending) <= MaxNotes

-----------------------------------------------------------------------------
(* What holds of a student whose requests followed each other *)

Rowed(s) == {c \in Classes : Exists(s, c)}
Handmade(s) == {c \in Classes : added[s][c] # NoRow}

(* The classes of the student are in class_info, and two rows of a class    *)
(* have one note.                                                           *)
RowsAgree(s) ==
  /\ Rowed(s) \subseteq info
  /\ \A c \in Classes : official[s][c] # NoRow /\ added[s][c] # NoRow => official[s][c] = added[s][c]

ListAgrees(s) == \A ids \in listCache[s] : ids = Rowed(s)
MetaAgrees(s) == \A e \in metaCache[s] : e \in MetaOf(s, e.cla)

(* What a request has read is what the tables say, and nobody else has      *)
(* written the rows that it is about to write.                              *)
ReadsWell(s, w) ==
  /\ w.pc \in {"load", "fill", "meta"} => w.view = {}
  /\ w.pc = "fill" => w.ids = Rowed(s) /\ w.op # "merge"
  /\ w.pc = "meta" => w.ids = IF w.op = "merge" THEN Handmade(s) ELSE Rowed(s)
  /\ w.pc \in {"metafill", "act", "commit"} =>
       /\ \A e \in w.view : e \in MetaOf(s, e.cla)
       /\ w.op # "merge" => {e.cla : e \in w.view} = Rowed(s)
  /\ w.op = "add" /\ w.pc # "dellist" => ~Exists(s, w.cla)
  /\ w.op = "update" /\ w.pc = "commit" => w.cla = w.new \/ ~Exists(s, w.new)
  /\ w.op = "add" => w.pc # "delmeta"

ReadsAgree(s, a) == ReadsWell(s, act[a])

(* The caches agree, but between a commit and the deletion of their keys. *)
CachesFit(s, a) ==
  /\ act[a].pc # "dellist" => ListAgrees(s)
  /\ act[a].pc \notin {"dellist", "delmeta"} \/ act[a].op = "add" => MetaAgrees(s)

Quiet(s) == Busy(s) = {} /\ ListAgrees(s) /\ MetaAgrees(s)
Served(s, a) == Busy(s) = {a} /\ ReadsAgree(s, a) /\ CachesFit(s, a)

CalmOf(s) == RowsAgree(s) /\ (Quiet(s) \/ \E a \in Actors : Served(s, a))

-----------------------------------------------------------------------------
(* How a request goes on *)

(* The values of a row: a note that was written, or none. *)
LEMMA Consts == /\ MaxNotes \in Nat /\ 0 \in Note /\ NoRow \in Row /\ NoRow \notin Note
                /\ Note \subseteq Nat /\ Note \subseteq Row /\ Row \subseteq Int
BY ClassTableAssumption DEF Note, Row, NoRow

(* An idle actor is a request like the others, of nobody in particular. *)
LEMMA Idles ==
  /\ Idle \in Work /\ Idle.pc = "idle" /\ Idle.op = "view" /\ Idle.view = {}
  /\ Idle.stu \in Students /\ Idle.cla \in Classes /\ Idle.new \in Classes
<1>1. /\ (CHOOSE s \in Students : TRUE) \in Students
      /\ (CHOOSE c \in Classes : TRUE) \in Classes
  BY ClassTableAssumption
<1>2. QED BY <1>1 DEF Idle, Work, Ops, Pcs

(* The actor works on request v from now on. *)
Goes(a, v) == act' = [act EXCEPT ![a] = v]

(* It is the same request. *)
Same(w, v) == v.op = w.op /\ v.stu = w.stu /\ v.cla = w.cla /\ v.new = w.new

(* What a step makes of the request of its actor. *)
Tame(a, v) ==
  /\ Goes(a, v) /\ v \in Work /\ Functional(v.view)
  /\ v.op = "note" /\ v.pc \notin After => a \in Pending
  /\ v.pc = "commit" => Accepts(a) /\ Same(act[a], v) /\ v.view = act[a].view
  /\ v.pc = "idle" \/ v.stu = act[a].stu

(* The other actors keep theirs. *)
LEMMA GoesFacts ==
  ASSUME Shape, NEW a \in Actors, NEW v, Goes(a, v)
  PROVE  act'[a] = v /\ \A b \in Actors \ {a} : act'[b] = act[b]
BY DEF Shape, Goes

(* A request that ends leaves its actor idle. *)
LEMMA EndFacts ==
  ASSUME NEW a \in Actors, End(a)
  PROVE  Tame(a, Idle)
BY Idles DEF End, Tame, Goes, Functional, After

(* The parts of a request. *)
LEMMA WorkFacts ==
  ASSUME Shape, NEW a \in Actors
  PROVE  /\ act[a].op \in Ops /\ act[a].stu \in Students /\ act[a].cla \in Classes
         /\ act[a].new \in Classes /\ act[a].pc \in Pcs /\ act[a].ids \in SUBSET Classes
         /\ act[a].view \in SUBSET Entry /\ act[a].crawled \in SUBSET Classes
         /\ act[a] \in Work /\ Functional(act[a].view)
BY DEF Shape, Work

(* A request that goes on keeps what it is about and what it has read. *)
LEMMA ContinueFacts ==
  ASSUME Shape, NEW a \in Actors, NEW pc \in {"act", "delmeta"}, Continue(a, pc),
         act[a].pc \notin After \/ pc = "delmeta"
  PROVE  \E v \in Work :
           /\ Tame(a, v) /\ Same(act[a], v) /\ v.pc = pc /\ v.ids = {}
           /\ v.view = act[a].view /\ v.crawled = act[a].crawled
<1>1. PICK v : v = [act[a] EXCEPT !.pc = pc, !.ids = {}]
  OBVIOUS
<1>2. v \in Work /\ Same(act[a], v) /\ v.pc = pc /\ v.ids = {}
        /\ v.view = act[a].view /\ v.crawled = act[a].crawled
  BY <1>1, WorkFacts DEF Work, Pcs, Same
<1>3. Goes(a, v)
  BY <1>1 DEF Continue, Goes, Shape
<1>4. v.op = "note" /\ v.pc \notin After => a \in Pending
  BY <1>2 DEF Pending, Same, After
<1>5. QED BY <1>2, <1>3, <1>4, WorkFacts DEF Tame, Same

(* With the list, a request asks for the metadata, decides, or ends. *)
LEMMA FoundFacts ==
  ASSUME Shape, NEW a \in Actors, NEW ids \in SUBSET Classes, Found(a, ids),
         act[a].pc \in {"load", "fill"}
  PROVE  \/ Tame(a, Idle)
         \/ \E v \in Work :
              /\ Tame(a, v) /\ Same(act[a], v) /\ v.view = act[a].view
              /\ \/ v.pc = "meta" /\ v.ids = ids
                 \/ v.pc = "act" /\ ids = {}
<1>1. CASE ids # {}
  <2>1. PICK v : v = [act[a] EXCEPT !.pc = "meta", !.ids = ids]
    OBVIOUS
  <2>2. v \in Work /\ Same(act[a], v) /\ v.view = act[a].view /\ v.pc = "meta" /\ v.ids = ids
    BY <2>1, WorkFacts DEF Work, Pcs, Same
  <2>3. Goes(a, v)
    BY <1>1, <2>1 DEF Found, Goes, Shape
  <2>4. Tame(a, v)
    BY <2>2, <2>3, WorkFacts DEF Tame, Same, Pending, After
  <2>5. QED BY <2>2, <2>4
<1>2. CASE ids = {} /\ act[a].op \in {"add", "refresh"}
  <2>1. Continue(a, "act")
    BY <1>2 DEF Found
  <2>2. act[a].pc \notin After
    BY DEF After
  <2>3. PICK v \in Work : Tame(a, v) /\ Same(act[a], v) /\ v.pc = "act" /\ v.view = act[a].view
    BY <2>1, <2>2, ContinueFacts
  <2>4. QED BY <1>2, <2>3
<1>3. CASE ids = {} /\ act[a].op \notin {"add", "refresh"}
  BY <1>3, EndFacts DEF Found
<1>4. QED BY <1>1, <1>2, <1>3

(* After its commit. *)
LEMMA CommittedFacts ==
  ASSUME Shape, NEW a \in Actors, NEW pc \in {"dellist", "delmeta"}, Committed(a, pc)
  PROVE  \E v \in Work :
           Tame(a, v) /\ v.op = act[a].op /\ v.stu = act[a].stu /\ v.pc = pc /\ v.view = {}
<1>1. PICK v : v = [Idle EXCEPT !.op = act[a].op, !.stu = act[a].stu, !.pc = pc,
                                !.crawled = act[a].crawled]
  OBVIOUS
<1>2. v \in Work /\ v.op = act[a].op /\ v.stu = act[a].stu /\ v.pc = pc /\ v.view = {}
  BY <1>1, Idles, WorkFacts DEF Work, Pcs
<1>3. Goes(a, v)
  BY <1>1 DEF Committed, Goes
<1>4. QED BY <1>2, <1>3 DEF Tame, After, Functional

(* After the keys are deleted, a refresh goes on with its merge. *)
LEMMA FinishedFacts ==
  ASSUME Shape, NEW a \in Actors, Finished(a)
  PROVE  \/ Tame(a, Idle)
         \/ \E v \in Work : /\ Tame(a, v) /\ v.op = "merge" /\ v.stu = act[a].stu
                            /\ v.pc = "load" /\ v.view = {}
<1>1. CASE act[a].op = "refresh"
  <2>1. PICK v : v = [act[a] EXCEPT !.op = "merge", !.pc = "load", !.ids = {}, !.view = {}]
    OBVIOUS
  <2>2. v \in Work /\ v.op = "merge" /\ v.stu = act[a].stu /\ v.pc = "load" /\ v.view = {}
    BY <2>1, WorkFacts DEF Work, Pcs, Ops
  <2>3. Goes(a, v)
    BY <1>1, <2>1 DEF Finished, Goes, Shape
  <2>4. QED BY <2>2, <2>3 DEF Tame, Functional
<1>2. CASE act[a].op # "refresh"
  BY <1>2, EndFacts DEF Finished
<1>3. QED BY <1>1, <1>2

-----------------------------------------------------------------------------
(* The metadata of classes *)

(* A class has metadata when it has a row, and they are the note of one.    *)
LEMMA MetaFacts ==
  ASSUME Shape, NEW s \in Students, NEW c \in Classes
  PROVE  /\ MetaOf(s, c) # {} <=> Exists(s, c)
         /\ \A e \in MetaOf(s, c) :
              /\ e \in Entry /\ e.cla = c
              /\ e.official => e.note = official[s][c] /\ official[s][c] # NoRow
              /\ ~e.official => e.note = added[s][c] /\ added[s][c] # NoRow
<1>1. official[s][c] \in Row /\ added[s][c] \in Row
  BY DEF Shape
<1>2. official[s][c] # NoRow <=> official[s][c] \in Note
  BY <1>1, Consts DEF Row
<1>3. added[s][c] # NoRow <=> added[s][c] \in Note
  BY <1>1, Consts DEF Row
<1>4. ASSUME Exists(s, c) PROVE MetaOf(s, c) # {}
  <2>1. CASE official[s][c] # NoRow
    <3>1. [cla |-> c, official |-> TRUE, note |-> official[s][c]] \in MetaOf(s, c)
      BY <1>2, <2>1 DEF MetaOf
    <3>2. QED BY <3>1
  <2>2. CASE added[s][c] # NoRow
    <3>1. [cla |-> c, official |-> FALSE, note |-> added[s][c]] \in MetaOf(s, c)
      BY <1>3, <2>2 DEF MetaOf
    <3>2. QED BY <3>1
  <2>3. QED BY <1>4, <2>1, <2>2 DEF Exists
<1>5. ASSUME NEW e \in MetaOf(s, c)
      PROVE  /\ e \in Entry /\ e.cla = c
             /\ e.official => e.note = official[s][c] /\ official[s][c] # NoRow
             /\ ~e.official => e.note = added[s][c] /\ added[s][c] # NoRow
  <2>1. CASE \E n \in {official[s][c]} \cap Note : e = [cla |-> c, official |-> TRUE, note |-> n]
    BY <1>2, <2>1 DEF Entry
  <2>2. CASE \E n \in {added[s][c]} \cap Note : e = [cla |-> c, official |-> FALSE, note |-> n]
    BY <1>3, <2>2 DEF Entry
  <2>3. QED BY <1>5, <2>1, <2>2 DEF MetaOf
<1>6. ASSUME MetaOf(s, c) # {} PROVE Exists(s, c)
  <2>1. PICK e : e \in MetaOf(s, c)
    BY <1>6
  <2>2. e.official \in BOOLEAN
    BY <1>5, <2>1 DEF Entry
  <2>3. QED BY <1>5, <2>1, <2>2 DEF Exists
<1>7. QED BY <1>4, <1>5, <1>6

(* What a lookup finds, and what it makes of the classes without a row.     *)
LEMMA LookupFacts ==
  ASSUME Shape, NEW s \in Students, NEW ids \in SUBSET Classes, NEW E \in Lookups(s, ids)
  PROVE  /\ E \in SUBSET Entry
         /\ \A e \in E : e.cla \in ids /\ e \in MetaOf(s, e.cla)
         /\ Complete(ids, E) \in SUBSET Entry /\ Functional(Complete(ids, E))
         /\ {e.cla : e \in Complete(ids, E)} = ids
         /\ (\A c \in ids : Exists(s, c)) => Complete(ids, E) = E
<1>1. ASSUME NEW e \in E PROVE e \in Entry /\ e.cla \in ids /\ e \in MetaOf(s, e.cla)
  <2>1. PICK c \in ids : e \in MetaOf(s, c)
    BY DEF Lookups
  <2>2. QED BY <2>1, MetaFacts
<1>2. \A c \in ids : MetaOf(s, c) # {} => \E e \in E : E \cap MetaOf(s, c) = {e}
  BY DEF Lookups
<1>3. Functional(E)
  <2>1. ASSUME NEW e \in E, NEW f \in E, e.cla = f.cla PROVE e = f
    <3>1. e \in MetaOf(s, e.cla) /\ f \in MetaOf(s, e.cla) /\ e.cla \in ids
      BY <1>1, <2>1
    <3>2. PICK g \in E : E \cap MetaOf(s, e.cla) = {g}
      BY <1>2, <3>1
    <3>3. QED BY <3>1, <3>2
  <2>2. QED BY <2>1 DEF Functional
<1> DEFINE Z(c) == [cla |-> c, official |-> FALSE, note |-> 0]
<1>4. \A c \in Classes : Z(c) \in Entry /\ Z(c).cla = c
  BY Consts DEF Entry
<1>5. Complete(ids, E) = E \cup {Z(c) : c \in ids \ {e.cla : e \in E}}
  BY DEF Complete
<1> HIDE DEF Z
<1>6. Complete(ids, E) \in SUBSET Entry
  BY <1>1, <1>4, <1>5
<1>7. Functional(Complete(ids, E))
  <2>1. ASSUME NEW e \in Complete(ids, E), NEW f \in Complete(ids, E), e.cla = f.cla PROVE e = f
    <3>1. e \in E \/ \E c \in ids : e = Z(c) /\ c \notin {g.cla : g \in E}
      BY <1>5
    <3>2. f \in E \/ \E c \in ids : f = Z(c) /\ c \notin {g.cla : g \in E}
      BY <1>5
    <3>3. QED BY <1>3, <1>4, <2>1, <3>1, <3>2 DEF Functional
  <2>2. QED BY <2>1 DEF Functional
<1>8. {e.cla : e \in Complete(ids, E)} = ids
  <2>1. ASSUME NEW e \in Complete(ids, E) PROVE e.cla \in ids
    BY <1>1, <1>4, <1>5
  <2>2. ASSUME NEW c \in ids PROVE \E e \in Complete(ids, E) : e.cla = c
    <3>1. CASE c \in {e.cla : e \in E}
      BY <1>5, <3>1
    <3>2. CASE c \notin {e.cla : e \in E}
      <4>1. Z(c) \in Complete(ids, E)
        BY <1>5, <3>2
      <4>2. QED BY <1>4, <4>1
    <3>3. QED BY <3>1, <3>2
  <2>3. QED BY <2>1, <2>2
<1>9. ASSUME \A c \in ids : Exists(s, c) PROVE Complete(ids, E) = E
  <2>1. ASSUME NEW c \in ids PROVE c \in {e.cla : e \in E}
    <3>1. PICK e \in E : E \cap MetaOf(s, c) = {e}
      BY <1>2, <1>9, MetaFacts
    <3>2. e.cla = c
      BY <3>1, MetaFacts
    <3>3. QED BY <3>2
  <2>2. QED BY <1>5, <2>1
<1>10. QED BY <1>1, <1>6, <1>7, <1>8, <1>9

(* With every class read, a lookup that finds nothing completes them all.   *)
LEMMA NoneFacts ==
  ASSUME NEW ids \in SUBSET Classes
  PROVE  Complete(ids, {}) \in SUBSET Entry /\ Functional(Complete(ids, {}))
<1> DEFINE Z(c) == [cla |-> c, official |-> FALSE, note |-> 0]
<1>1. \A c \in Classes : Z(c) \in Entry /\ Z(c).cla = c
  BY Consts DEF Entry
<1>2. Complete(ids, {}) = {Z(c) : c \in ids}
  BY DEF Complete
<1> HIDE DEF Z
<1>3. QED BY <1>1, <1>2 DEF Functional

(* What was seen of a class. *)
LEMMA SeenFacts ==
  ASSUME Shape, NEW a \in Actors, NEW c \in Seen(a)
  PROVE  /\ SeenAs(a, c) \in act[a].view /\ SeenAs(a, c).cla = c
         /\ SeenAs(a, c) \in Entry /\ SeenAs(a, c).note \in Note /\ c \in Classes
<1>1. \E e \in act[a].view : e.cla = c
  BY DEF Seen
<1>2. SeenAs(a, c) \in act[a].view /\ SeenAs(a, c).cla = c
  BY <1>1 DEF SeenAs
<1>3. SeenAs(a, c) \in Entry
  BY <1>2, WorkFacts
<1>4. QED BY <1>2, <1>3 DEF Entry

-----------------------------------------------------------------------------
(* The steps of a request before its commit *)

(* The list of classes is read from the table. *)
LEMMA LoadTableFacts ==
  ASSUME Shape, NEW a \in Actors, LoadTable(a)
  PROVE  \E v \in Work :
           /\ Tame(a, v) /\ Same(act[a], v) /\ v.pc = "fill" /\ v.ids = ListedIn(act[a].stu)
           /\ v.view = act[a].view
<1>1. PICK ids \in SUBSET Classes : ids = ListedIn(act[a].stu)
  BY DEF ListedIn, Shape
<1>2. PICK v : v = [act[a] EXCEPT !.pc = "fill", !.ids = ids]
  OBVIOUS
<1>3. v \in Work /\ Same(act[a], v) /\ v.pc = "fill" /\ v.ids = ids /\ v.view = act[a].view
  BY <1>2, WorkFacts DEF Work, Pcs, Same
<1>4. Goes(a, v)
  BY <1>1, <1>2 DEF LoadTable, Goes, Shape
<1>5. act[a].pc \notin After
  BY DEF LoadTable, After
<1>6. QED BY <1>1, <1>3, <1>4, <1>5, WorkFacts DEF Tame, Same, Pending

(* A merge reads the classes added by hand. *)
LEMMA LoadAddedFacts ==
  ASSUME Shape, NEW a \in Actors, LoadAdded(a)
  PROVE  \/ Tame(a, Idle)
         \/ \E v \in Work :
              /\ Tame(a, v) /\ Same(act[a], v) /\ v.pc = "meta" /\ v.ids = AddedIn(act[a].stu)
              /\ v.view = act[a].view
<1>1. PICK ids \in SUBSET Classes : ids = AddedIn(act[a].stu)
  BY DEF AddedIn, Shape
<1>2. CASE ids = {}
  BY <1>1, <1>2, EndFacts DEF LoadAdded
<1>3. CASE ids # {}
  <2>2. PICK v : v = [act[a] EXCEPT !.pc = "meta", !.ids = ids]
    OBVIOUS
  <2>3. v \in Work /\ Same(act[a], v) /\ v.pc = "meta" /\ v.ids = ids /\ v.view = act[a].view
    BY <2>2, WorkFacts DEF Work, Pcs, Same
  <2>4. Goes(a, v)
    BY <1>1, <1>3, <2>2 DEF LoadAdded, Goes, Shape
  <2>5. act[a].pc \notin After
    BY DEF LoadAdded, After
  <2>6. QED BY <1>1, <2>3, <2>4, <2>5, WorkFacts DEF Tame, Same, Pending
<1>4. QED BY <1>2, <1>3

(* The metadata is read from the cache. *)
LEMMA MetaCachedFacts ==
  ASSUME Shape, NEW a \in Actors, MetaCached(a)
  PROVE  \E v \in Work :
           /\ Tame(a, v) /\ Same(act[a], v) /\ v.pc = "act" /\ v.view \subseteq metaCache[act[a].stu]
           /\ {e.cla : e \in v.view} = act[a].ids
<1> DEFINE E == {e \in metaCache[act[a].stu] : e.cla \in act[a].ids}
<1>1. E \in SUBSET Entry /\ Functional(E)
  BY WorkFacts DEF Shape, Functional
<1>2. {e.cla : e \in E} = act[a].ids
        /\ act' = [act EXCEPT ![a].pc = "act", ![a].ids = {}, ![a].view = E]
        /\ act[a].pc \notin After
  BY DEF MetaCached, After
<1>3. E \subseteq metaCache[act[a].stu]
  OBVIOUS
<1> HIDE DEF E
<1>4. PICK v : v = [act[a] EXCEPT !.pc = "act", !.ids = {}, !.view = E]
  OBVIOUS
<1>5. v \in Work /\ Same(act[a], v) /\ v.pc = "act" /\ v.view = E
  BY <1>1, <1>4, WorkFacts DEF Work, Pcs, Same
<1>6. Goes(a, v)
  BY <1>2, <1>4 DEF Goes, Shape
<1>7. QED BY <1>1, <1>2, <1>3, <1>5, <1>6 DEF Tame, Same, Pending

(* The metadata is read from the table. *)
LEMMA MetaTableFacts ==
  ASSUME Shape, NEW a \in Actors, MetaTable(a)
  PROVE  \E E \in Lookups(act[a].stu, act[a].ids) : \E v \in Work :
           /\ Tame(a, v) /\ Same(act[a], v) /\ v.pc \in {"act", "metafill"}
           /\ v.view = Complete(act[a].ids, E) /\ v.ids = {e.cla : e \in E}
<1>1. PICK E \in Lookups(act[a].stu, act[a].ids) :
        act' = [act EXCEPT ![a].pc = IF E = {} THEN "act" ELSE "metafill",
                           ![a].ids = {e.cla : e \in E}, ![a].view = Complete(act[a].ids, E)]
  BY DEF MetaTable
<1>2. /\ Complete(act[a].ids, E) \in SUBSET Entry /\ Functional(Complete(act[a].ids, E))
      /\ {e.cla : e \in E} \in SUBSET Classes
  <2>1. act[a].stu \in Students /\ act[a].ids \in SUBSET Classes
    BY WorkFacts
  <2>2. PICK s \in Students, ids \in SUBSET Classes : s = act[a].stu /\ ids = act[a].ids
    BY <2>1
  <2>3. E \in Lookups(s, ids)
    BY <1>1, <2>2
  <2>4. /\ Complete(ids, E) \in SUBSET Entry /\ Functional(Complete(ids, E))
        /\ \A e \in E : e.cla \in ids
    BY <2>3, LookupFacts
  <2>5. QED BY <2>2, <2>4
<1>3. PICK p \in {"act", "metafill"} : p = IF E = {} THEN "act" ELSE "metafill"
  OBVIOUS
<1>4. PICK C \in SUBSET Entry : C = Complete(act[a].ids, E)
  BY <1>2
<1>5. PICK I \in SUBSET Classes : I = {e.cla : e \in E}
  BY <1>2
<1>6. PICK v : v = [act[a] EXCEPT !.pc = p, !.ids = I, !.view = C]
  OBVIOUS
<1>7. v \in Work /\ Same(act[a], v) /\ v.pc = p /\ v.view = C /\ v.ids = I
  BY <1>3, <1>4, <1>5, <1>6, WorkFacts DEF Work, Pcs, Same
<1>8. act' = [act EXCEPT ![a].pc = p, ![a].ids = I, ![a].view = C]
  BY <1>1, <1>3, <1>4, <1>5
<1>9. Goes(a, v)
  BY <1>6, <1>8 DEF Goes, Shape
<1>10. act[a].pc \notin After
  BY DEF MetaTable, After
<1>11. Tame(a, v)
  BY <1>2, <1>4, <1>7, <1>9, <1>10 DEF Tame, Same, Pending
<1>12. QED BY <1>1, <1>3, <1>4, <1>5, <1>7, <1>11

(* Without the metadata a request goes on with zero values. *)
LEMMA MetaFailsFacts ==
  ASSUME Shape, NEW a \in Actors, MetaFails(a)
  PROVE  \E v \in Work : Tame(a, v)
<1>1. PICK C \in SUBSET Entry : C = Complete(act[a].ids, {}) /\ Functional(C)
  BY NoneFacts, WorkFacts
<1>2. PICK v : v = [act[a] EXCEPT !.pc = "act", !.ids = {}, !.view = C]
  OBVIOUS
<1>3. v \in Work /\ Same(act[a], v) /\ v.pc = "act" /\ v.view = C
  BY <1>1, <1>2, WorkFacts DEF Work, Pcs, Same
<1>4. act' = [act EXCEPT ![a].pc = "act", ![a].ids = {}, ![a].view = C] /\ act[a].pc \notin After
  BY <1>1 DEF MetaFails, After
<1>5. Goes(a, v)
  BY <1>2, <1>4 DEF Goes, Shape
<1>6. QED BY <1>1, <1>3, <1>4, <1>5 DEF Tame, Same, Pending

(* A request is answered, or goes on to its transaction. *)
LEMMA DecideFacts ==
  ASSUME Shape, NEW a \in Actors, Decide(a)
  PROVE  \/ Tame(a, Idle)
         \/ /\ Accepts(a)
            /\ \E v \in Work :
                 Tame(a, v) /\ Same(act[a], v) /\ v.pc = "commit" /\ v.view = act[a].view
<1>1. CASE Accepts(a) /\ WithinLimit(a)
  <2>1. PICK C \in SUBSET Classes :
          C = IF act[a].op = "refresh" THEN school[act[a].stu] ELSE act[a].crawled
    BY WorkFacts DEF Shape
  <2>2. act' = [act EXCEPT ![a].pc = "commit", ![a].crawled = C] /\ act[a].pc \notin After
    <3>1. act' = [act EXCEPT ![a].pc = "commit",
                             ![a].crawled = IF act[a].op = "refresh" THEN school[act[a].stu]
                                            ELSE act[a].crawled]
      BY <1>1 DEF Decide, Shape
    <3>2. act[a].pc \notin After
      BY DEF Decide, After
    <3>3. QED BY <2>1, <3>1, <3>2
  <2>3. PICK v : v = [act[a] EXCEPT !.pc = "commit", !.crawled = C]
    OBVIOUS
  <2>4. v \in Work /\ Same(act[a], v) /\ v.pc = "commit" /\ v.view = act[a].view
    BY <2>1, <2>3, WorkFacts DEF Work, Pcs, Same
  <2>5. Goes(a, v)
    BY <2>2, <2>3 DEF Goes, Shape
  <2>6. Tame(a, v)
    BY <1>1, <2>2, <2>4, <2>5, WorkFacts DEF Tame, Same, Pending
  <2>7. QED BY <1>1, <2>4, <2>6
<1>2. CASE ~(Accepts(a) /\ WithinLimit(a))
  BY <1>2, EndFacts DEF Decide
<1>3. QED BY <1>1, <1>2

(* A request begins by reading. *)
LEMMA StartFacts ==
  ASSUME Shape, NEW a \in Actors, NEW op \in Ops, NEW s \in Students,
         NEW c \in Classes, NEW d \in Classes, Start(a, op, s, c, d)
  PROVE  \E v \in Work :
           /\ Goes(a, v) /\ v.op = op /\ v.stu = s /\ v.cla = c /\ v.new = d
           /\ v.pc = "load" /\ v.view = {}
<1>1. PICK v : v = [Idle EXCEPT !.op = op, !.stu = s, !.cla = c, !.new = d, !.pc = "load"]
  OBVIOUS
<1>2. /\ v \in Work /\ v.op = op /\ v.stu = s /\ v.cla = c /\ v.new = d
      /\ v.pc = "load" /\ v.view = {}
  BY <1>1, Idles DEF Work, Pcs
<1>3. Goes(a, v)
  BY <1>1 DEF Start, Goes
<1>4. QED BY <1>2, <1>3

-----------------------------------------------------------------------------
(* The commits: the rows of one student change, and classes are taken from  *)
(* class_info only when no calm student has them.                           *)

CommitsTo(a, o, r) ==
  /\ o \in [Classes -> Row] /\ r \in [Classes -> Row]
  /\ official' = [official EXCEPT ![act[a].stu] = o]
  /\ added' = [added EXCEPT ![act[a].stu] = r]
  /\ info' \subseteq Classes
  /\ calm' \in [Students -> BOOLEAN]
  /\ \A t \in Students : calm'[t] =>
       calm[t] /\ \A c \in info \ info' : official'[t][c] = NoRow /\ added'[t][c] = NoRow

(* The rows of a student. *)
LEMMA RowsTyped ==
  ASSUME Shape, NEW s \in Students
  PROVE  /\ official[s] \in [Classes -> Row] /\ added[s] \in [Classes -> Row]
         /\ official = [official EXCEPT ![s] = official[s]]
         /\ added = [added EXCEPT ![s] = added[s]]
         /\ calm \in [Students -> BOOLEAN] /\ info \subseteq Classes
BY DEF Shape

(* Whoever loses a class to another request is not calm. *)
LEMMA OrphanedFacts ==
  ASSUME Shape, NEW C, Orphaned(C)
  PROVE  /\ calm' \in [Students -> BOOLEAN]
         /\ \A t \in Students : calm'[t] =>
              calm[t] /\ \A c \in C : official'[t][c] = NoRow /\ added'[t][c] = NoRow
BY DEF Orphaned, Shape

(* An addition writes one row, if there is none. *)
LEMMA AddCommits ==
  ASSUME Shape, NEW a \in Actors, NEW s \in Students, s = act[a].stu, AddClass(a, s)
  PROVE  \E r :
           /\ CommitsTo(a, official[s], r) /\ info' = info \cup {act[a].cla}
           /\ \A c \in Classes :
                r[c] = IF c = act[a].cla /\ added[s][c] = NoRow THEN 0 ELSE added[s][c]
<1>1. PICK c \in Classes : c = act[a].cla
  BY WorkFacts
<1>2. PICK n \in Row : n = IF added[s][c] = NoRow THEN 0 ELSE added[s][c]
  BY RowsTyped, Consts
<1>3. PICK r \in [Classes -> Row] : r = [added[s] EXCEPT ![c] = n]
  BY RowsTyped
<1>4. added' = [added EXCEPT ![s][c] = n] /\ UNCHANGED <<official, calm>> /\ info' = info \cup {c}
  BY <1>1, <1>2 DEF AddClass, Insert, Shape
<1>5. added' = [added EXCEPT ![s] = r]
  BY <1>3, <1>4 DEF Shape
<1>6. \A x \in Classes : r[x] = IF x = c /\ added[s][x] = NoRow THEN 0 ELSE added[s][x]
  BY <1>2, <1>3, RowsTyped
<1>7. CommitsTo(a, official[s], r)
  BY <1>1, <1>3, <1>4, <1>5, RowsTyped DEF CommitsTo
<1>8. QED BY <1>1, <1>4, <1>6, <1>7

(* A deletion takes the rows and the classes themselves. *)
LEMMA DeleteCommits ==
  ASSUME Shape, NEW a \in Actors, NEW s \in Students, s = act[a].stu, NEW C,
         DeleteAddedClasses(a, s, C)
  PROVE  \E r :
           /\ CommitsTo(a, official[s], r) /\ info' = info \ C
           /\ \A c \in Classes : r[c] = IF c \in C THEN NoRow ELSE added[s][c]
<1>1. PICK r : r = [c \in Classes |-> IF c \in C THEN NoRow ELSE added[s][c]]
  OBVIOUS
<1>2. r \in [Classes -> Row] /\ \A c \in Classes : r[c] = IF c \in C THEN NoRow ELSE added[s][c]
  BY <1>1, RowsTyped, Consts
<1>3. added' = [added EXCEPT ![s] = r] /\ UNCHANGED official /\ info' = info \ C /\ Orphaned(C)
  BY <1>1 DEF DeleteAddedClasses, Shape
<1>4. CommitsTo(a, official[s], r)
  BY <1>2, <1>3, RowsTyped, OrphanedFacts DEF CommitsTo
<1>5. QED BY <1>2, <1>3, <1>4

(* An update moves the row of one class to another. *)
LEMMA UpdateCommits ==
  ASSUME Shape, NEW a \in Actors, NEW s \in Students, s = act[a].stu, UpdateAddedClass(a, s),
         Editable(a, act[a].cla)
  PROVE  \E r :
           /\ CommitsTo(a, official[s], r)
           /\ info' = (info \cup {act[a].new}) \ ({act[a].cla} \ {act[a].new})
           /\ \A c \in Classes :
                r[c] = IF c = act[a].new
                       THEN IF c # act[a].cla /\ added[s][c] # NoRow
                            THEN added[s][c] ELSE SeenAs(a, act[a].cla).note
                       ELSE IF c = act[a].cla THEN NoRow ELSE added[s][c]
<1>1. PICK c \in Classes, d \in Classes : c = act[a].cla /\ d = act[a].new
  BY WorkFacts
<1>2. PICK n \in Note : n = SeenAs(a, act[a].cla).note
  BY SeenFacts DEF Editable
<1>3. PICK left \in [Classes -> Row] : left = [added[s] EXCEPT ![c] = NoRow]
  BY RowsTyped, Consts
<1>4. PICK m \in Row : m = IF left[d] = NoRow THEN n ELSE left[d]
  BY <1>2, <1>3, Consts
<1>5. PICK r \in [Classes -> Row] : r = [left EXCEPT ![d] = m]
  BY <1>3, <1>4
<1>6. added' = [added EXCEPT ![s] = r]
  BY <1>1, <1>2, <1>3, <1>4, <1>5 DEF UpdateAddedClass, Insert
<1>7. UNCHANGED official /\ info' = (info \cup {d}) \ ({c} \ {d}) /\ Orphaned({c} \ {d})
  BY <1>1 DEF UpdateAddedClass
<1>8. ASSUME NEW x \in Classes
      PROVE  r[x] = IF x = d THEN IF x # c /\ added[s][x] # NoRow THEN added[s][x] ELSE n
                    ELSE IF x = c THEN NoRow ELSE added[s][x]
  BY <1>3, <1>4, <1>5, RowsTyped
<1>9. info' \subseteq Classes /\ info \ info' \subseteq {c} \ {d}
  BY <1>7, RowsTyped
<1>10. CommitsTo(a, official[s], r)
  BY <1>5, <1>6, <1>7, <1>9, RowsTyped, OrphanedFacts DEF CommitsTo
<1>11. QED BY <1>1, <1>2, <1>7, <1>8, <1>10

(* A note is written to each row of the class. *)
LEMMA NoteCommits ==
  ASSUME Shape, NEW a \in Actors, NEW s \in Students, s = act[a].stu, UpdateClassNote(a, s),
         notes + 1 \in Note
  PROVE  \E o, r :
           /\ CommitsTo(a, o, r) /\ info' = info
           /\ \A c \in Classes :
                /\ o[c] = IF c = act[a].cla /\ official[s][c] # NoRow
                          THEN notes + 1 ELSE official[s][c]
                /\ r[c] = IF c = act[a].cla /\ added[s][c] # NoRow
                          THEN notes + 1 ELSE added[s][c]
<1>1. PICK c \in Classes, n \in Row : c = act[a].cla /\ n = notes + 1
  BY WorkFacts, Consts
<1>2. PICK x \in Row, y \in Row :
        /\ x = IF official[s][c] = NoRow THEN NoRow ELSE n
        /\ y = IF added[s][c] = NoRow THEN NoRow ELSE n
  BY Consts
<1>3. PICK o \in [Classes -> Row], r \in [Classes -> Row] :
        o = [official[s] EXCEPT ![c] = x] /\ r = [added[s] EXCEPT ![c] = y]
  BY RowsTyped
<1>4. official' = [official EXCEPT ![s][c] = x] /\ added' = [added EXCEPT ![s][c] = y]
        /\ UNCHANGED <<info, calm>>
  BY <1>1, <1>2 DEF UpdateClassNote, Shape
<1>5. official' = [official EXCEPT ![s] = o] /\ added' = [added EXCEPT ![s] = r]
  BY <1>3, <1>4 DEF Shape
<1>6. CommitsTo(a, o, r)
  BY <1>3, <1>4, <1>5, RowsTyped DEF CommitsTo
<1>7. ASSUME NEW z \in Classes
      PROVE  /\ o[z] = IF z = c /\ official[s][z] # NoRow THEN n ELSE official[s][z]
             /\ r[z] = IF z = c /\ added[s][z] # NoRow THEN n ELSE added[s][z]
  BY <1>2, <1>3, RowsTyped
<1>8. QED BY <1>1, <1>4, <1>6, <1>7

(* A refresh rewrites the official rows. *)
LEMMA SaveCommits ==
  ASSUME Shape, NEW a \in Actors, NEW s \in Students, s = act[a].stu, SaveClass(a, s)
  PROVE  \E o :
           /\ CommitsTo(a, o, added[s]) /\ info' = info \cup act[a].crawled
           /\ \A c \in Classes :
                o[c] = IF c \in act[a].crawled THEN KeptNote(a, c) ELSE NoRow
<1>1. PICK o : o = [c \in Classes |-> IF c \in act[a].crawled THEN KeptNote(a, c) ELSE NoRow]
  OBVIOUS
<1>2. \A c \in Classes : KeptNote(a, c) \in Note
  BY SeenFacts, Consts DEF KeptNote
<1>3. o \in [Classes -> Row]
         /\ \A c \in Classes : o[c] = IF c \in act[a].crawled THEN KeptNote(a, c) ELSE NoRow
  BY <1>1, <1>2, Consts
<1>4. official' = [official EXCEPT ![s] = o] /\ UNCHANGED <<added, calm>>
        /\ info' = info \cup act[a].crawled
  BY <1>1 DEF SaveClass
<1>5. CommitsTo(a, o, added[s])
  BY <1>3, <1>4, RowsTyped, WorkFacts DEF CommitsTo
<1>6. QED BY <1>3, <1>4, <1>5

-----------------------------------------------------------------------------
(* The types hold *)

RowsTypes ==
  /\ info \subseteq Classes
  /\ official \in [Students -> [Classes -> Row]]
  /\ added \in [Students -> [Classes -> Row]]
  /\ calm \in [Students -> BOOLEAN]

CacheTypes ==
  /\ listCache \in [Students -> SUBSET SUBSET Classes]
  /\ \A s \in Students : Single(listCache[s])
  /\ metaCache \in [Students -> SUBSET Entry]
  /\ \A s \in Students : Functional(metaCache[s])

WorkTypes ==
  /\ act \in [Actors -> Work]
  /\ \A a \in Actors : Functional(act[a].view)
  /\ Ready

BoundTypes ==
  /\ school \in [Students -> SUBSET Classes]
  /\ notes \in Nat /\ requests \in 0 .. MaxRequests /\ faults \in 0 .. MaxFaults

(* The types, by who writes them. *)
LEMMA ShapeParts == Shape => RowsTypes /\ CacheTypes /\ WorkTypes /\ BoundTypes
BY DEF Shape, RowsTypes, CacheTypes, WorkTypes, BoundTypes

(* The same after a step. *)
LEMMA ShapeAfter == RowsTypes' /\ CacheTypes' /\ WorkTypes' /\ BoundTypes' => Shape'
BY DEF Shape, RowsTypes, CacheTypes, WorkTypes, BoundTypes

(* Whoever's request does not change is as ready as before. *)
LEMMA ReadyKept ==
  ASSUME NEW b \in Actors, act'[b] = act[b], Ready
  PROVE  (act[b].op = "update" /\ act[b].pc = "commit" => Editable(b, act[b].cla))'
BY DEF Ready, Editable, Seen, SeenAs

(* What a step makes of its request has the type of one. *)
LEMMA TameTyped ==
  ASSUME Shape, NEW a \in Actors, NEW v, Tame(a, v)
  PROVE  WorkTypes'
<1>1. act'[a] = v /\ (\A b \in Actors \ {a} : act'[b] = act[b]) /\ v \in Work /\ Functional(v.view)
  BY GoesFacts DEF Tame
<1>2. act' \in [Actors -> Work]
  BY <1>1 DEF Tame, Goes, Shape
<1>3. \A b \in Actors : Functional(act'[b].view)
  BY <1>1 DEF Shape
<1>4. ASSUME v.op = "update", v.pc = "commit"
      PROVE  Editable(a, act[a].cla) /\ v.cla = act[a].cla /\ v.view = act[a].view
  <2>1. Accepts(a) /\ Same(act[a], v) /\ v.view = act[a].view
    BY <1>4 DEF Tame
  <2>2. act[a].op = "update" /\ v.cla = act[a].cla
    BY <1>4, <2>1 DEF Same
  <2>3. MayUpdate(a)
    BY <2>1, <2>2 DEF Accepts
  <2>4. QED BY <2>1, <2>2, <2>3 DEF MayUpdate
<1>5. (act[a].op = "update" /\ act[a].pc = "commit" => Editable(a, act[a].cla))'
  BY <1>1, <1>4 DEF Editable, Seen, SeenAs
<1>6. Ready'
  <2>1. ASSUME NEW b \in Actors
        PROVE  (act[b].op = "update" /\ act[b].pc = "commit" => Editable(b, act[b].cla))'
    <3>1. CASE b = a
      BY <1>5, <3>1
    <3>2. CASE b # a
      BY <1>1, <3>2, ReadyKept DEF Shape
    <3>3. QED BY <3>1, <3>2
  <2>2. QED BY <2>1 DEF Ready
<1>7. QED BY <1>2, <1>3, <1>6 DEF WorkTypes

(* The actors that may still write a note can be counted. *)
LEMMA PendingCounted ==
  ASSUME NEW S \in SUBSET Actors
  PROVE  IsFiniteSet(S) /\ Cardinality(S) \in Nat
BY ClassTableAssumption, FS_Subset, FS_CardinalityType

(* A step that writes no note leaves as many to write, or more. *)
LEMMA TameNotes ==
  ASSUME Shape, NotesLeft, NEW a \in Actors, NEW v, Tame(a, v), notes' = notes
  PROVE  NotesLeft'
<1>1. Pending' \subseteq Pending
  BY GoesFacts DEF Tame, Pending
<1>2. Pending \in SUBSET Actors /\ Pending' \in SUBSET Actors
  BY DEF Pending
<1>3. Cardinality(Pending') <= Cardinality(Pending)
  BY <1>1, <1>2, PendingCounted, FS_Subset
<1>4. notes \in Nat /\ MaxNotes \in Nat /\ Cardinality(Pending) \in Nat /\ Cardinality(Pending') \in Nat
  BY <1>2, PendingCounted, Consts DEF Shape
<1>5. QED BY <1>3, <1>4 DEF NotesLeft

(* A note that is about to be written is within the bound. *)
LEMMA NoteFits ==
  ASSUME Shape, NotesLeft, NEW a \in Pending
  PROVE  notes + 1 \in Note
<1>1. Pending \in SUBSET Actors
  BY DEF Pending
<1>2. Cardinality(Pending) # 0 /\ Cardinality(Pending) \in Nat
  BY <1>1, PendingCounted, FS_EmptySet
<1>3. notes \in Nat /\ MaxNotes \in Nat /\ notes + Cardinality(Pending) <= MaxNotes
  BY Consts DEF NotesLeft, Shape
<1>4. notes + 1 \in Nat /\ notes + 1 <= MaxNotes
  BY <1>2, <1>3
<1>5. QED BY <1>3, <1>4 DEF Note

(* Once it is written, the actor no longer counts. *)
LEMMA NoteWritten ==
  ASSUME Shape, NotesLeft, NEW a \in Pending, NEW v, Tame(a, v), v.pc \in After, notes' = notes + 1
  PROVE  NotesLeft'
<1>1. Pending \in SUBSET Actors /\ a \in Actors
  BY DEF Pending
<1>2. Pending' = Pending \ {a}
  BY <1>1, GoesFacts DEF Tame, Pending
<1>3. Cardinality(Pending \ {a}) = Cardinality(Pending) - 1 /\ Cardinality(Pending) \in Nat
  BY <1>1, PendingCounted, FS_RemoveElement
<1>4. QED BY <1>2, <1>3, Consts DEF NotesLeft, Shape

(* A new request for a note is counted when it begins. *)
LEMMA NoteStarts ==
  ASSUME Shape, NotesLeft, NEW a \in Actors, NEW op \in Ops, NEW s \in Students,
         NEW c \in Classes, NEW d \in Classes, Start(a, op, s, c, d)
  PROVE  NotesLeft'
<1> DEFINE N == {b \in Actors : act[b].op = "note"}
<1>1. PICK v \in Work : Goes(a, v) /\ v.op = op /\ v.pc = "load"
  BY StartFacts
<1>2. act'[a] = v /\ \A b \in Actors \ {a} : act'[b] = act[b]
  BY <1>1, GoesFacts
<1>3. a \notin Pending /\ notes' = notes
  BY DEF Start, Pending, After
<1>4. Pending \in SUBSET Actors /\ Pending' \in SUBSET Actors /\ N \in SUBSET Actors
  BY DEF Pending
<1>5. /\ Cardinality(Pending) \in Nat /\ Cardinality(Pending') \in Nat /\ Cardinality(N) \in Nat
      /\ IsFiniteSet(Pending) /\ IsFiniteSet(N)
  BY <1>4, PendingCounted
<1>n. notes \in Nat /\ MaxNotes \in Nat
  BY Consts DEF Shape
<1>6. CASE op # "note"
  <2>1. Pending' = Pending
    BY <1>1, <1>2, <1>3, <1>6 DEF Pending
  <2>2. QED BY <1>3, <2>1 DEF NotesLeft
<1>7. CASE op = "note"
  <2>1. notes + Cardinality(N) < MaxNotes
    BY <1>7 DEF Start
  <2>2. Pending \subseteq N
    BY DEF Pending
  <2>3. Cardinality(Pending) <= Cardinality(N)
    BY <1>5, <2>2, FS_Subset
  <2>4. Pending' = Pending \cup {a}
    BY <1>1, <1>2, <1>3, <1>7 DEF Pending, After
  <2>5. Cardinality(Pending \cup {a}) = Cardinality(Pending) + 1
    BY <1>3, <1>5, FS_AddElement
  <2> HIDE DEF N
  <2>6. QED BY <1>3, <1>5, <1>n, <2>1, <2>3, <2>4, <2>5 DEF NotesLeft
<1>8. QED BY <1>6, <1>7

(* What each commit does. *)
LEMMA CommitFacts ==
  ASSUME Shape, NotesLeft, NEW a \in Actors, Commit(a)
  PROVE  /\ \E o, r : CommitsTo(a, o, r)
         /\ \E v \in Work :
              /\ Tame(a, v) /\ v.op = act[a].op /\ v.stu = act[a].stu /\ v.view = {}
              /\ v.pc = IF act[a].op = "note" THEN "delmeta" ELSE "dellist"
         /\ notes' = IF act[a].op = "note" THEN notes + 1 ELSE notes
         /\ act[a].pc = "commit" /\ UNCHANGED <<cacheVars, school, requests, faults>>
<1>1. PICK s \in Students : s = act[a].stu
  BY WorkFacts
<1>2. act[a].pc = "commit" /\ UNCHANGED <<cacheVars, school, requests, faults>>
  BY DEF Commit
<1>3. CASE act[a].op = "add" /\ AddClass(a, s)
  <2>1. Committed(a, "dellist") /\ notes' = notes
    BY <1>3 DEF AddClass
  <2>2. QED BY <1>1, <1>2, <1>3, <2>1, AddCommits, CommittedFacts
<1>4. ASSUME NEW C, DeleteAddedClasses(a, s, C), act[a].op \in {"delete", "merge"}
      PROVE  /\ \E o, r : CommitsTo(a, o, r)
             /\ Committed(a, "dellist") /\ notes' = notes
  <2>1. Committed(a, "dellist") /\ notes' = notes
    BY <1>4 DEF DeleteAddedClasses
  <2>2. QED BY <1>1, <1>4, <2>1, DeleteCommits
<1>5. CASE act[a].op \in {"delete", "merge"} /\ \E C : DeleteAddedClasses(a, s, C)
  BY <1>2, <1>4, <1>5, CommittedFacts
<1>6. CASE act[a].op = "update" /\ UpdateAddedClass(a, s)
  <2>1. Committed(a, "dellist") /\ notes' = notes
    BY <1>6 DEF UpdateAddedClass
  <2>2. Editable(a, act[a].cla)
    BY <1>2, <1>6 DEF Shape, Ready
  <2>3. QED BY <1>1, <1>2, <1>6, <2>1, <2>2, UpdateCommits, CommittedFacts
<1>7. CASE act[a].op = "note" /\ UpdateClassNote(a, s)
  <2>1. Committed(a, "delmeta") /\ notes' = notes + 1
    BY <1>7 DEF UpdateClassNote
  <2>2. notes + 1 \in Note
    BY <1>2, <1>7, NoteFits DEF Pending, After
  <2>3. QED BY <1>1, <1>2, <1>7, <2>1, <2>2, NoteCommits, CommittedFacts
<1>8. CASE act[a].op = "refresh" /\ SaveClass(a, s)
  <2>1. Committed(a, "dellist") /\ notes' = notes
    BY <1>8 DEF SaveClass
  <2>2. QED BY <1>1, <1>2, <1>8, <2>1, SaveCommits, CommittedFacts
<1>9. QED BY <1>1, <1>3, <1>5, <1>6, <1>7, <1>8 DEF Commit

(* The other steps, by what they leave alone. *)
LEMMA StepFacts ==
  ASSUME Shape, NEW a \in Actors, Step(a), ~Commit(a)
  PROVE  /\ \E v : Tame(a, v)
         /\ act[a].pc # "idle" /\ UNCHANGED <<tableVars, school, notes, requests>>
         /\ faults' \in 0 .. MaxFaults
         /\ calm' = calm \/ Disturb(act[a].stu)
         /\ \/ UNCHANGED cacheVars
            \/ Populate(a) \/ MetaFill(a)
            \/ DeleteClassInfoFromCache(a) \/ DeleteAllClassMetaData(a)
<1> USE ClassTableAssumption
<1>0. faults \in 0 .. MaxFaults /\ act[a].stu \in Students /\ act[a].ids \in SUBSET Classes
  BY WorkFacts DEF Shape
<1>f. faults < MaxFaults /\ faults' = faults + 1 => faults' \in 0 .. MaxFaults
  BY <1>0
<1>1. CASE LoadCached(a)
  <2>1. \A ids \in listCache[act[a].stu] : ids \in SUBSET Classes
    BY <1>0 DEF Shape
  <2>2. PICK ids \in SUBSET Classes : Found(a, ids)
    BY <1>1, <2>1 DEF LoadCached
  <2>3. act[a].pc = "load"
    BY <1>1 DEF LoadCached
  <2>4. \E v : Tame(a, v)
    BY <2>2, <2>3, FoundFacts
  <2>5. QED BY <1>0, <1>1, <2>3, <2>4 DEF LoadCached, boundVars
<1>2. CASE LoadTable(a)
  BY <1>0, <1>2, LoadTableFacts DEF LoadTable, boundVars
<1>3. CASE Populate(a)
  <2>1. act[a].pc = "fill" /\ Found(a, act[a].ids)
    BY <1>3 DEF Populate
  <2>2. \E v : Tame(a, v)
    BY <1>0, <2>1, FoundFacts
  <2>3. QED BY <1>0, <1>3, <2>1, <2>2 DEF Populate, boundVars
<1>4. CASE LoadFails(a)
  <2>1. act[a].pc \notin After /\ Continue(a, "act")
    BY <1>4 DEF LoadFails, After
  <2>2. \E v : Tame(a, v)
    BY <2>1, ContinueFacts
  <2>3. QED BY <1>f, <1>4, <2>2 DEF LoadFails
<1>5. CASE LoadAdded(a)
  <2>1. act[a].pc = "load" /\ UNCHANGED <<notes, requests, faults>>
    BY <1>5 DEF LoadAdded, boundVars
  <2>2. \E v : Tame(a, v)
    BY <1>5, LoadAddedFacts, Zenon
  <2>3. QED BY <1>0, <1>5, <2>1, <2>2 DEF LoadAdded
<1>6. CASE MetaCached(a)
  BY <1>0, <1>6, MetaCachedFacts DEF MetaCached, boundVars
<1>7. CASE MetaTable(a)
  BY <1>0, <1>7, MetaTableFacts DEF MetaTable, boundVars
<1>8. CASE MetaFails(a)
  <2>1. \E v : Tame(a, v)
    BY <1>8, MetaFailsFacts
  <2>2. QED BY <1>f, <1>8, <2>1 DEF MetaFails
<1>9. CASE MetaFill(a)
  <2>1. act[a].pc \notin After /\ Continue(a, "act") /\ act[a].pc = "metafill"
    BY <1>9 DEF MetaFill, After
  <2>2. \E v : Tame(a, v)
    BY <2>1, ContinueFacts
  <2>3. QED BY <1>0, <1>9, <2>1, <2>2 DEF MetaFill, boundVars
<1>10. CASE FillFails(a)
  <2>1. \E v : Tame(a, v)
    <3>1. CASE act[a].pc = "fill" /\ Found(a, act[a].ids)
      BY <1>0, <3>1, FoundFacts
    <3>2. CASE act[a].pc = "metafill" /\ Continue(a, "act")
      BY <3>2, ContinueFacts DEF After
    <3>3. QED BY <1>10, <3>1, <3>2 DEF FillFails
  <2>2. act[a].pc # "idle" /\ UNCHANGED <<tableVars, cacheVars, school, boundVars, calm>>
    BY <1>10 DEF FillFails
  <2>3. QED BY <1>0, <2>1, <2>2 DEF boundVars
<1>11. CASE Decide(a)
  <2>1. \E v : Tame(a, v)
    BY <1>11, DecideFacts
  <2>2. QED BY <1>0, <1>11, <2>1 DEF Decide, boundVars
<1>12. CASE DeleteClassInfoFromCache(a)
  <2>1. Finished(a) \/ Continue(a, "delmeta")
    BY <1>12 DEF DeleteClassInfoFromCache
  <2>2. \E v : Tame(a, v)
    BY <2>1, FinishedFacts, ContinueFacts
  <2>3. QED BY <1>0, <1>12, <2>2 DEF DeleteClassInfoFromCache, boundVars
<1>13. CASE DeleteAllClassMetaData(a)
  <2>1. \E v : Tame(a, v)
    BY <1>13, FinishedFacts DEF DeleteAllClassMetaData
  <2>2. QED BY <1>0, <1>13, <2>1 DEF DeleteAllClassMetaData, boundVars
<1>14. CASE Abandon(a)
  <2>1. \E v : Tame(a, v)
    BY <1>14, EndFacts DEF Abandon
  <2>2. QED BY <1>0, <1>14, <2>1 DEF Abandon, boundVars
<1>15. QED BY <1>1, <1>2, <1>3, <1>4, <1>5, <1>6, <1>7, <1>8, <1>9, <1>10, <1>11, <1>12,
              <1>13, <1>14 DEF Step

(* What the steps and the calendar make of the caches. *)
LEMMA CachesTyped ==
  ASSUME Shape,
         \/ UNCHANGED cacheVars
         \/ \E a \in Actors : \/ Populate(a) \/ MetaFill(a)
                              \/ DeleteClassInfoFromCache(a) \/ DeleteAllClassMetaData(a)
         \/ \E s \in Students : Expire(s)
  PROVE  CacheTypes'
<1>1. CASE UNCHANGED cacheVars
  BY <1>1, ShapeParts DEF CacheTypes, cacheVars
<1>2. ASSUME NEW s \in Students, NEW L \in SUBSET SUBSET Classes, Single(L),
             listCache' = [listCache EXCEPT ![s] = L], UNCHANGED metaCache
      PROVE  CacheTypes'
  BY <1>2, ShapeParts DEF CacheTypes
<1>3. ASSUME NEW s \in Students, NEW M \in SUBSET Entry, Functional(M),
             metaCache' = [metaCache EXCEPT ![s] = M], UNCHANGED listCache
      PROVE  CacheTypes'
  BY <1>3, ShapeParts DEF CacheTypes
<1>4. ASSUME NEW s \in Students, \/ listCache' = [listCache EXCEPT ![s] = {}] /\ UNCHANGED metaCache
                                 \/ metaCache' = [metaCache EXCEPT ![s] = {}] /\ UNCHANGED listCache
      PROVE  CacheTypes'
  BY <1>2, <1>3, <1>4 DEF Single, Functional
<1>5. ASSUME NEW a \in Actors, Populate(a) PROVE CacheTypes'
  <2>1. act[a].stu \in Students /\ {act[a].ids} \in SUBSET SUBSET Classes /\ Single({act[a].ids})
    BY WorkFacts DEF Single
  <2>2. QED BY <1>2, <1>5, <2>1 DEF Populate
<1>6. ASSUME NEW a \in Actors, MetaFill(a) PROVE CacheTypes'
  <2>1. PICK s \in Students : s = act[a].stu
    BY WorkFacts
  <2>2. PICK M : M = {e \in metaCache[s] : e.cla \notin act[a].ids}
                       \cup {e \in act[a].view : e.cla \in act[a].ids}
    OBVIOUS
  <2>3. M \in SUBSET Entry
    BY <2>2, WorkFacts DEF Shape
  <2>4. Functional(M)
    BY <2>2, WorkFacts DEF Shape, Functional
  <2>5. metaCache' = [metaCache EXCEPT ![s] = M] /\ UNCHANGED listCache
    BY <1>6, <2>1, <2>2 DEF MetaFill, Shape
  <2>6. QED BY <1>3, <2>3, <2>4, <2>5
<1>7. ASSUME NEW a \in Actors, DeleteClassInfoFromCache(a) \/ DeleteAllClassMetaData(a)
      PROVE  CacheTypes'
  BY <1>4, <1>7, WorkFacts DEF DeleteClassInfoFromCache, DeleteAllClassMetaData
<1>8. ASSUME NEW s \in Students, Expire(s) PROVE CacheTypes'
  BY <1>4, <1>8 DEF Expire
<1>9. QED BY <1>1, <1>5, <1>6, <1>7, <1>8

(* The types hold at first. *)
LEMMA ShapeInit == ASSUME TableInit PROVE Shape /\ NotesLeft
<1>1. \A s \in Students : Single(listCache[s]) /\ Functional(metaCache[s])
  BY DEF TableInit, Single, Functional
<1>2. act \in [Actors -> Work] /\ \A a \in Actors : act[a].pc = "idle" /\ Functional(act[a].view)
  BY Idles DEF TableInit, Functional
<1>3. Ready
  BY <1>2 DEF Ready
<1>4. {0, NoRow} \subseteq Row
  BY Consts
<1>5. official \in [Students -> [Classes -> Row]] /\ added \in [Students -> [Classes -> Row]]
  <2>1. [Classes -> {0, NoRow}] \subseteq [Classes -> Row]
    BY <1>4
  <2>2. QED BY <2>1 DEF TableInit
<1>6. /\ notes = 0 /\ notes \in Nat /\ requests \in 0 .. MaxRequests /\ faults \in 0 .. MaxFaults
      /\ calm \in [Students -> BOOLEAN] /\ info \subseteq Classes
  BY ClassTableAssumption DEF TableInit
<1>7. /\ listCache \in [Students -> SUBSET SUBSET Classes]
      /\ metaCache \in [Students -> SUBSET Entry]
      /\ school \in [Students -> SUBSET Classes]
  BY DEF TableInit
<1>8. Shape
  BY <1>1, <1>2, <1>3, <1>5, <1>6, <1>7 DEF Shape
<1>9. Pending = {}
  BY <1>2 DEF Pending, After
<1>10. NotesLeft
  BY <1>6, <1>9, Consts, FS_EmptySet DEF NotesLeft
<1>11. QED BY <1>8, <1>10

(* Every step keeps the types and the bound on the notes. *)
LEMMA ShapeStep ==
  ASSUME Shape, NotesLeft, [TableNext]_classVars
  PROVE  Shape' /\ NotesLeft'
<1>1. RowsTypes /\ CacheTypes /\ WorkTypes /\ BoundTypes
  BY ShapeParts
<1>n. notes \in Nat /\ requests \in 0 .. MaxRequests /\ faults \in 0 .. MaxFaults
        /\ MaxRequests \in Nat /\ MaxFaults \in Nat
  BY ClassTableAssumption DEF Shape
<1>c. ASSUME NEW s \in Students, Disturb(s) PROVE calm' \in [Students -> BOOLEAN]
  BY <1>c DEF Disturb, Shape
<1>2. ASSUME NEW a \in Actors, Commit(a)
      PROVE  Shape' /\ NotesLeft'
  <2>1. PICK o, r : CommitsTo(a, o, r)
    BY <1>2, CommitFacts
  <2>2. PICK v \in Work : /\ Tame(a, v) /\ v.op = act[a].op
                          /\ v.pc = IF act[a].op = "note" THEN "delmeta" ELSE "dellist"
    BY <1>2, CommitFacts
  <2>3. /\ notes' = IF act[a].op = "note" THEN notes + 1 ELSE notes
        /\ act[a].pc = "commit" /\ UNCHANGED <<cacheVars, school, requests, faults>>
    BY <1>2, CommitFacts
  <2>4. RowsTypes'
    <3>1. act[a].stu \in Students
      BY WorkFacts
    <3>2. QED BY <1>1, <2>1, <3>1 DEF CommitsTo, RowsTypes
  <2>5. WorkTypes' /\ CacheTypes' /\ BoundTypes'
    BY <1>1, <1>n, <2>2, <2>3, TameTyped, CachesTyped DEF BoundTypes
  <2>6. NotesLeft'
    <3>1. CASE act[a].op = "note"
      <4>1. a \in Pending
        BY <2>3, <3>1 DEF Pending, After
      <4>2. QED BY <2>2, <2>3, <3>1, <4>1, NoteWritten DEF After
    <3>2. CASE act[a].op # "note"
      BY <2>2, <2>3, <3>2, TameNotes
    <3>3. QED BY <3>1, <3>2
  <2>7. QED BY <2>4, <2>5, <2>6, ShapeAfter
<1>3. ASSUME NEW a \in Actors, Step(a), ~Commit(a)
      PROVE  Shape' /\ NotesLeft'
  <2>1. /\ \E v : Tame(a, v)
        /\ UNCHANGED <<tableVars, school, notes, requests>>
        /\ faults' \in 0 .. MaxFaults
        /\ calm' = calm \/ Disturb(act[a].stu)
        /\ \/ UNCHANGED cacheVars
           \/ Populate(a) \/ MetaFill(a)
           \/ DeleteClassInfoFromCache(a) \/ DeleteAllClassMetaData(a)
    BY <1>3, StepFacts
  <2>2. WorkTypes' /\ NotesLeft'
    BY <2>1, TameTyped, TameNotes
  <2>3. CacheTypes'
    BY <2>1, CachesTyped
  <2>4. calm' \in [Students -> BOOLEAN]
    BY <1>c, <2>1, WorkFacts DEF Shape
  <2>5. RowsTypes' /\ BoundTypes'
    BY <1>1, <2>1, <2>4 DEF RowsTypes, BoundTypes, tableVars
  <2>6. QED BY <2>2, <2>3, <2>5, ShapeAfter
<1>4. ASSUME NEW a \in Actors, NEW op \in Ops, NEW s \in Students, NEW c \in Classes,
             NEW d \in Classes, Start(a, op, s, c, d)
      PROVE  Shape' /\ NotesLeft'
  <2>1. PICK v \in Work : Goes(a, v) /\ v.pc = "load" /\ v.view = {}
    BY <1>4, StartFacts
  <2>2. act'[a] = v /\ \A b \in Actors \ {a} : act'[b] = act[b]
    BY <2>1, GoesFacts
  <2>3. Ready'
    <3>1. ASSUME NEW b \in Actors
          PROVE  (act[b].op = "update" /\ act[b].pc = "commit" => Editable(b, act[b].cla))'
      <4>1. CASE b = a
        BY <2>1, <2>2, <4>1
      <4>2. CASE b # a
        BY <2>2, <4>2, ReadyKept DEF Shape
      <4>3. QED BY <4>1, <4>2
    <3>2. QED BY <3>1 DEF Ready
  <2>4. WorkTypes'
    <3>1. act' \in [Actors -> Work]
      BY <2>1 DEF Goes, Shape
    <3>2. \A b \in Actors : Functional(act'[b].view)
      BY <2>1, <2>2 DEF Shape, Functional
    <3>3. QED BY <2>3, <3>1, <3>2 DEF WorkTypes
  <2>5. /\ UNCHANGED <<tableVars, cacheVars, school, notes>> /\ requests' = requests + 1
        /\ requests < MaxRequests
        /\ faults' = faults \/ (faults' = faults + 1 /\ faults < MaxFaults)
        /\ calm' = calm \/ Disturb(s)
    BY <1>4 DEF Start
  <2>6. calm' \in [Students -> BOOLEAN]
    BY <1>c, <2>5 DEF Shape
  <2>7. requests' \in 0 .. MaxRequests /\ faults' \in 0 .. MaxFaults
    BY <1>n, <2>5
  <2>8. RowsTypes' /\ BoundTypes' /\ CacheTypes'
    BY <1>1, <2>5, <2>6, <2>7, CachesTyped DEF RowsTypes, BoundTypes, tableVars
  <2>9. QED BY <1>4, <2>4, <2>8, ShapeAfter, NoteStarts
<1>5. ASSUME NEW s \in Students, Expire(s) PROVE Shape' /\ NotesLeft'
  <2>1. UNCHANGED <<tableVars, school, act, boundVars, calm>>
    BY <1>5 DEF Expire
  <2>2. RowsTypes' /\ BoundTypes' /\ WorkTypes' /\ NotesLeft'
    BY <1>1, <2>1 DEF RowsTypes, BoundTypes, WorkTypes, Ready, Editable, Seen, SeenAs, NotesLeft,
                      Pending, tableVars, boundVars
  <2>3. QED BY <1>5, <2>2, CachesTyped, ShapeAfter
<1>6. ASSUME NEW s \in Students, Enrol(s) PROVE Shape' /\ NotesLeft'
  <2>1. /\ UNCHANGED <<tableVars, cacheVars, act, boundVars, calm>>
        /\ school' \in [Students -> SUBSET Classes]
    BY <1>6 DEF Enrol, Shape
  <2>2. RowsTypes' /\ BoundTypes' /\ WorkTypes' /\ NotesLeft'
    BY <1>1, <2>1 DEF RowsTypes, BoundTypes, WorkTypes, Ready, Editable, Seen, SeenAs, NotesLeft,
                      Pending, tableVars, boundVars
  <2>3. QED BY <2>1, <2>2, CachesTyped, ShapeAfter
<1>7. CASE UNCHANGED classVars
  <2>1. RowsTypes' /\ BoundTypes' /\ WorkTypes' /\ NotesLeft' /\ UNCHANGED cacheVars
    BY <1>1, <1>7 DEF RowsTypes, BoundTypes, WorkTypes, Ready, Editable, Seen, SeenAs, NotesLeft,
                      Pending, tableVars, boundVars, classVars
  <2>2. QED BY <2>1, CachesTyped, ShapeAfter
<1>8. ASSUME NEW a \in Actors, Request(a) PROVE Shape' /\ NotesLeft'
  BY <1>4, <1>8 DEF Request
<1>9. QED BY <1>2, <1>3, <1>5, <1>6, <1>7, <1>8 DEF TableNext

(* The types hold whatever happens. *)
LEMMA ShapeHolds == TableSpec => [](Shape /\ NotesLeft)
BY ShapeInit, ShapeStep, PTL DEF TableSpec

-----------------------------------------------------------------------------
(* Requests of a calm student *)

(* Nothing of the student changes, but for keys that expire. *)
Frame(s) ==
  /\ official'[s] = official[s] /\ added'[s] = added[s]
  /\ listCache'[s] \subseteq listCache[s] /\ metaCache'[s] \subseteq metaCache[s]
  /\ Busy(s)' = Busy(s) /\ \A b \in Busy(s) : act'[b] = act[b]
  /\ \A c \in info \ info' : ~Exists(s, c)

(* With the rows, all that is told of them stays. *)
LEMMA RowsSame ==
  ASSUME NEW s, official'[s] = official[s], added'[s] = added[s]
  PROVE  /\ \A c : Exists(s, c)' <=> Exists(s, c)
         /\ Rowed(s)' = Rowed(s) /\ Handmade(s)' = Handmade(s)
         /\ \A c : MetaOf(s, c)' = MetaOf(s, c)
<1>1. \A c : Exists(s, c)' <=> Exists(s, c)
  BY DEF Exists
<1>2. Rowed(s)' = Rowed(s)
  BY <1>1 DEF Rowed
<1>3. Handmade(s)' = Handmade(s)
  BY DEF Handmade
<1>4. \A c : MetaOf(s, c)' = MetaOf(s, c)
  BY DEF MetaOf
<1>5. QED BY <1>1, <1>2, <1>3, <1>4

(* With the rows, all that agrees with them does so after the step. *)
LEMMA AgreeSame ==
  ASSUME NEW s, official'[s] = official[s], added'[s] = added[s]
  PROVE  /\ listCache'[s] \subseteq listCache[s] /\ ListAgrees(s) => ListAgrees(s)'
         /\ metaCache'[s] \subseteq metaCache[s] /\ MetaAgrees(s) => MetaAgrees(s)'
         /\ (\A c \in info \ info' : ~Exists(s, c)) /\ RowsAgree(s) => RowsAgree(s)'
         /\ \A a : ReadsWell(s, act'[a]) => ReadsAgree(s, a)'
<1>1. /\ \A c : Exists(s, c)' <=> Exists(s, c)
      /\ Rowed(s)' = Rowed(s) /\ Handmade(s)' = Handmade(s)
      /\ \A c : MetaOf(s, c)' = MetaOf(s, c)
  BY RowsSame
<1>2. listCache'[s] \subseteq listCache[s] /\ ListAgrees(s) => ListAgrees(s)'
  BY <1>1 DEF ListAgrees
<1>3. metaCache'[s] \subseteq metaCache[s] /\ MetaAgrees(s) => MetaAgrees(s)'
  BY <1>1 DEF MetaAgrees
<1>4. ASSUME \A c \in info \ info' : ~Exists(s, c), RowsAgree(s) PROVE RowsAgree(s)'
  <2>1. \A c \in Rowed(s) : Exists(s, c)
    BY DEF Rowed
  <2>2. QED BY <1>1, <1>4, <2>1 DEF RowsAgree
<1>5. ASSUME NEW a, ReadsWell(s, act'[a]) PROVE ReadsAgree(s, a)'
  BY <1>1, <1>5 DEF ReadsAgree, ReadsWell
<1>6. QED BY <1>2, <1>3, <1>4, <1>5

(* A student nothing happens to stays as it is. *)
LEMMA FrameKeeps ==
  ASSUME NEW s, Frame(s), CalmOf(s)
  PROVE  CalmOf(s)'
<1>1. RowsAgree(s)'
  BY AgreeSame DEF Frame, CalmOf
<1>2. CASE Quiet(s)
  <2>1. Quiet(s)'
    BY <1>2, AgreeSame DEF Frame, Quiet
  <2>2. QED BY <1>1, <2>1 DEF CalmOf
<1>3. ASSUME NEW a \in Actors, Served(s, a) PROVE CalmOf(s)'
  <2>1. Busy(s)' = {a} /\ act'[a] = act[a]
    BY <1>3 DEF Frame, Served
  <2>2. ReadsAgree(s, a)'
    BY <1>3, <2>1, AgreeSame DEF Frame, Served, ReadsAgree
  <2>3. CachesFit(s, a)'
    BY <1>3, <2>1, AgreeSame DEF Frame, Served, CachesFit
  <2>4. Served(s, a)'
    BY <2>1, <2>2, <2>3 DEF Served
  <2>5. QED BY <1>1, <2>4 DEF CalmOf
<1>4. QED BY <1>2, <1>3 DEF CalmOf

(* Actors come and go with their student only. *)
LEMMA OthersBusy ==
  ASSUME Shape, NEW a \in Actors, NEW v, Goes(a, v), NEW t \in Students,
         v.pc = "idle" \/ v.stu # t, act[a].pc = "idle" \/ act[a].stu # t
  PROVE  Busy(t)' = Busy(t) /\ \A b \in Busy(t) : act'[b] = act[b]
BY GoesFacts DEF Busy

(* The only request of a calm student is the one that goes on. *)
LEMMA MineServed ==
  ASSUME Shape, NEW a \in Actors, NEW s \in Students, s = act[a].stu, act[a].pc # "idle", CalmOf(s)
  PROVE  RowsAgree(s) /\ Served(s, a)
<1>1. a \in Busy(s)
  BY DEF Busy
<1>2. QED BY <1>1 DEF CalmOf, Quiet, Served

(* What a step of this request has to keep. *)
LEMMA MineGoesOn ==
  ASSUME Shape, NEW a \in Actors, NEW v, Tame(a, v), NEW s \in Students, s = act[a].stu,
         Served(s, a), RowsAgree(s)',
         v.pc = "idle" => ListAgrees(s)' /\ MetaAgrees(s)',
         v.pc # "idle" => ReadsAgree(s, a)' /\ CachesFit(s, a)'
  PROVE  CalmOf(s)'
<1>1. act'[a] = v /\ (\A b \in Actors \ {a} : act'[b] = act[b]) /\ (v.pc = "idle" \/ v.stu = s)
  BY GoesFacts DEF Tame
<1>2. Busy(s)' = IF v.pc = "idle" THEN {} ELSE {a}
  BY <1>1 DEF Busy, Served
<1>3. QED BY <1>2 DEF CalmOf, Quiet, Served

(* A student whose rows and classes agree is listed with all classes.       *)
LEMMA AllListed ==
  ASSUME Shape, NEW s \in Students, RowsAgree(s)
  PROVE  ListedIn(s) = Rowed(s) /\ AddedIn(s) = Handmade(s)
BY DEF Shape, RowsAgree, ListedIn, AddedIn, Rowed, Handmade, Exists

(* A request that has the list of the classes goes on with it.              *)
LEMMA FoundReads ==
  ASSUME Shape, NEW a \in Actors, NEW s \in Students, ReadsAgree(s, a),
         NEW ids \in SUBSET Classes, Found(a, ids), ids = Rowed(s),
         act[a].pc \in {"load", "fill"}, act[a].op # "merge"
  PROVE  \E v : Tame(a, v) /\ (v.pc # "idle" => ReadsWell(s, v))
<1>1. act[a].view = {} /\ (act[a].op = "add" => ~Exists(s, act[a].cla))
  BY DEF ReadsAgree, ReadsWell
<1>2. CASE Tame(a, Idle)
  BY <1>2, Idles
<1>3. ASSUME NEW v, Tame(a, v), Same(act[a], v), v.view = act[a].view,
             \/ v.pc = "meta" /\ v.ids = ids
             \/ v.pc = "act" /\ ids = {}
      PROVE  ReadsWell(s, v)
  BY <1>1, <1>3 DEF ReadsWell, Same
<1>4. QED BY <1>2, <1>3, FoundFacts

(* The lookup of the metadata finds all of them, for each class has a row.  *)
LEMMA MetaReads ==
  ASSUME Shape, NEW a \in Actors, NEW s \in Students, s = act[a].stu, ReadsAgree(s, a), MetaTable(a)
  PROVE  \E v : Tame(a, v) /\ ReadsWell(s, v)
<1>1. PICK ids \in SUBSET Classes : ids = act[a].ids
  BY WorkFacts
<1>2. PICK E \in Lookups(s, ids), v \in Work :
        /\ Tame(a, v) /\ Same(act[a], v) /\ v.pc \in {"act", "metafill"}
        /\ v.view = Complete(ids, E)
  BY <1>1, MetaTableFacts
<1>3. /\ act[a].op = "add" => ~Exists(s, act[a].cla)
      /\ ids = IF act[a].op = "merge" THEN Handmade(s) ELSE Rowed(s)
  BY <1>1 DEF ReadsAgree, ReadsWell, MetaTable
<1>4. \A c \in ids : Exists(s, c)
  BY <1>3 DEF Handmade, Rowed, Exists
<1>5. /\ \A e \in E : e \in MetaOf(s, e.cla)
      /\ Complete(ids, E) = E /\ {e.cla : e \in Complete(ids, E)} = ids
  BY <1>2, <1>4, LookupFacts
<1>6. \A e \in v.view : e \in MetaOf(s, e.cla)
  BY <1>2, <1>5
<1>7. act[a].op # "merge" => {e.cla : e \in v.view} = Rowed(s)
  BY <1>2, <1>3, <1>5
<1>8. ReadsWell(s, v)
  BY <1>2, <1>3, <1>6, <1>7 DEF ReadsWell, Same
<1>9. QED BY <1>2, <1>8

(* What the steps before the commit make of a request that read well.       *)
LEMMA OwnReads ==
  ASSUME Shape, NEW a \in Actors, NEW s \in Students, s = act[a].stu, RowsAgree(s), Served(s, a),
         \/ LoadCached(a) \/ LoadTable(a) \/ Populate(a) \/ LoadAdded(a) \/ MetaCached(a)
         \/ MetaTable(a) \/ MetaFill(a) \/ FillFails(a) \/ Decide(a)
  PROVE  \E v : Tame(a, v) /\ (v.pc # "idle" => ReadsWell(s, v))
<1>0. ReadsAgree(s, a) /\ CachesFit(s, a) /\ act[a].ids \in SUBSET Classes
  BY WorkFacts DEF Served
<1>a. act[a].op = "add" /\ act[a].pc # "dellist" => ~Exists(s, act[a].cla)
  BY <1>0 DEF ReadsAgree, ReadsWell
<1>1. CASE LoadCached(a)
  <2>1. PICK ids \in listCache[s] : Found(a, ids)
    BY <1>1 DEF LoadCached
  <2>2. act[a].pc = "load" /\ act[a].op # "merge"
    BY <1>1 DEF LoadCached
  <2>3. ids \in SUBSET Classes /\ ids = Rowed(s)
    BY <1>0, <2>2 DEF Shape, CachesFit, ListAgrees
  <2>4. QED BY <1>0, <2>1, <2>2, <2>3, FoundReads
<1>2. CASE LoadTable(a)
  <2>1. act[a].pc = "load" /\ act[a].op # "merge" /\ act[a].view = {}
    BY <1>0, <1>2 DEF LoadTable, ReadsAgree, ReadsWell
  <2>2. PICK v : /\ Tame(a, v) /\ Same(act[a], v) /\ v.pc = "fill" /\ v.ids = ListedIn(s)
                 /\ v.view = act[a].view
    BY <1>2, LoadTableFacts
  <2>3. ReadsWell(s, v)
    BY <1>a, <2>1, <2>2, AllListed DEF ReadsWell, Same
  <2>4. QED BY <2>2, <2>3
<1>f. ASSUME act[a].pc = "fill", Found(a, act[a].ids)
      PROVE  \E v : Tame(a, v) /\ (v.pc # "idle" => ReadsWell(s, v))
  <2>1. act[a].ids = Rowed(s) /\ act[a].op # "merge"
    BY <1>0, <1>f DEF ReadsAgree, ReadsWell
  <2>2. QED BY <1>0, <1>f, <2>1, FoundReads
<1>3. CASE Populate(a)
  BY <1>f, <1>3 DEF Populate
<1>4. CASE LoadAdded(a)
  <2>1. act[a].pc = "load" /\ act[a].op = "merge" /\ act[a].view = {}
    BY <1>0, <1>4 DEF LoadAdded, ReadsAgree, ReadsWell
  <2>2. CASE Tame(a, Idle)
    BY <2>2, Idles
  <2>3. ASSUME NEW v, Tame(a, v), Same(act[a], v), v.pc = "meta", v.ids = AddedIn(s),
               v.view = act[a].view
        PROVE  ReadsWell(s, v)
    BY <2>1, <2>3, AllListed DEF ReadsWell, Same
  <2>4. QED BY <1>4, <2>2, <2>3, LoadAddedFacts
<1>5. CASE MetaCached(a)
  <2>1. act[a].pc = "meta"
    BY <1>5 DEF MetaCached
  <2>2. PICK v : /\ Tame(a, v) /\ Same(act[a], v) /\ v.pc = "act" /\ v.view \subseteq metaCache[s]
                 /\ {e.cla : e \in v.view} = act[a].ids
    BY <1>5, MetaCachedFacts
  <2>3. \A e \in v.view : e \in MetaOf(s, e.cla)
    BY <1>0, <2>1, <2>2 DEF CachesFit, MetaAgrees
  <2>4. act[a].op # "merge" => act[a].ids = Rowed(s)
    BY <1>0, <2>1 DEF ReadsAgree, ReadsWell
  <2>5. act[a].op # "merge" => {e.cla : e \in v.view} = Rowed(s)
    BY <2>2, <2>4
  <2>6. ReadsWell(s, v)
    BY <1>a, <2>1, <2>2, <2>3, <2>5 DEF ReadsWell, Same
  <2>7. QED BY <2>2, <2>6
<1>6. CASE MetaTable(a)
  BY <1>0, <1>6, MetaReads
<1>m. ASSUME act[a].pc = "metafill", Continue(a, "act")
      PROVE  \E v : Tame(a, v) /\ (v.pc # "idle" => ReadsWell(s, v))
  <2>1. PICK v : Tame(a, v) /\ Same(act[a], v) /\ v.pc = "act" /\ v.view = act[a].view
    BY <1>m, ContinueFacts DEF After
  <2>2. /\ \A e \in act[a].view : e \in MetaOf(s, e.cla)
        /\ act[a].op # "merge" => {e.cla : e \in act[a].view} = Rowed(s)
    BY <1>0, <1>m DEF ReadsAgree, ReadsWell
  <2>3. ReadsWell(s, v)
    BY <1>a, <1>m, <2>1, <2>2 DEF ReadsWell, Same
  <2>4. QED BY <2>1, <2>3
<1>7. CASE MetaFill(a)
  BY <1>m, <1>7 DEF MetaFill
<1>8. CASE FillFails(a)
  BY <1>f, <1>m, <1>8 DEF FillFails
<1>9. CASE Decide(a)
  <2>1. act[a].pc = "act"
    BY <1>9 DEF Decide
  <2>2. CASE Tame(a, Idle)
    BY <2>2, Idles
  <2>3. ASSUME Accepts(a), NEW v, Tame(a, v), Same(act[a], v), v.pc = "commit",
               v.view = act[a].view
        PROVE  ReadsWell(s, v)
    <3>1. /\ \A e \in act[a].view : e \in MetaOf(s, e.cla)
          /\ act[a].op # "merge" => {e.cla : e \in act[a].view} = Rowed(s)
      BY <1>0, <2>1 DEF ReadsAgree, ReadsWell
    <3>2. act[a].op = "update" => act[a].cla = act[a].new \/ ~Exists(s, act[a].new)
      <4>1. SUFFICES ASSUME act[a].op = "update" PROVE MayUpdate(a)
        BY <4>1 DEF MayUpdate
      <4>2. QED BY <2>3, <4>1 DEF Accepts
    <3>3. QED BY <1>a, <2>1, <2>3, <3>1, <3>2 DEF ReadsWell, Same
  <2>4. QED BY <1>9, <2>2, <2>3, DecideFacts
<1>10. QED BY <1>1, <1>2, <1>3, <1>4, <1>5, <1>6, <1>7, <1>8, <1>9

(* A request that reads, decides or fills a cache leaves its student calm.  *)
LEMMA ReaderKeeps ==
  ASSUME Shape, NEW a \in Actors, NEW s \in Students, s = act[a].stu, RowsAgree(s), Served(s, a),
         \/ LoadCached(a) \/ LoadTable(a) \/ Populate(a) \/ LoadAdded(a) \/ MetaCached(a)
         \/ MetaTable(a) \/ MetaFill(a) \/ FillFails(a) \/ Decide(a)
  PROVE  CalmOf(s)'
<1>1. PICK v : Tame(a, v) /\ (v.pc # "idle" => ReadsWell(s, v))
  BY OwnReads, Zenon
<1>2. /\ UNCHANGED tableVars /\ act[a].pc \notin {"dellist", "delmeta"}
      /\ UNCHANGED cacheVars \/ Populate(a) \/ MetaFill(a)
  BY Zenon DEF LoadCached, LoadTable, Populate, LoadAdded, MetaCached, MetaTable, MetaFill, FillFails,
               Decide
<1>3. official'[s] = official[s] /\ added'[s] = added[s] /\ info' = info
  BY <1>2 DEF tableVars
<1>4. ReadsAgree(s, a) /\ ListAgrees(s) /\ MetaAgrees(s)
  BY <1>2 DEF Served, CachesFit
<1>5. ListAgrees(s)' /\ MetaAgrees(s)'
  <2>1. CASE UNCHANGED cacheVars
    BY <1>3, <1>4, <2>1, AgreeSame DEF cacheVars
  <2>2. CASE Populate(a)
    <3>1. listCache'[s] = {act[a].ids} /\ metaCache'[s] = metaCache[s]
      BY <2>2 DEF Populate, Shape
    <3>2. act[a].ids = Rowed(s)
      BY <1>4, <2>2 DEF Populate, ReadsAgree, ReadsWell
    <3>3. Rowed(s)' = Rowed(s)
      BY <1>3, RowsSame
    <3>4. ListAgrees(s)'
      BY <3>1, <3>2, <3>3 DEF ListAgrees
    <3>5. QED BY <1>3, <1>4, <3>1, <3>4, AgreeSame
  <2>3. CASE MetaFill(a)
    <3>1. listCache'[s] = listCache[s] /\ metaCache'[s] \subseteq metaCache[s] \cup act[a].view
      BY <2>3 DEF MetaFill, Shape
    <3>2. \A e \in act[a].view : e \in MetaOf(s, e.cla)
      BY <1>4, <2>3 DEF MetaFill, ReadsAgree, ReadsWell
    <3>3. \A c : MetaOf(s, c)' = MetaOf(s, c)
      BY <1>3, RowsSame
    <3>4. MetaAgrees(s)'
      BY <1>4, <3>1, <3>2, <3>3 DEF MetaAgrees
    <3>5. QED BY <1>3, <1>4, <3>1, <3>4, AgreeSame
  <2>4. QED BY <1>2, <2>1, <2>2, <2>3
<1>6. RowsAgree(s)'
  BY <1>3, AgreeSame
<1>7. act'[a] = v
  BY <1>1, GoesFacts DEF Tame
<1>8. v.pc # "idle" => ReadsAgree(s, a)'
  BY <1>1, <1>3, <1>7, AgreeSame
<1>9. CachesFit(s, a)'
  BY <1>5 DEF CachesFit
<1>10. QED BY <1>1, <1>5, <1>6, <1>8, <1>9, MineGoesOn

(* The keys that a commit left behind are deleted before the request ends.  *)
LEMMA ListDeleted ==
  ASSUME Shape, NEW a \in Actors, NEW s \in Students, s = act[a].stu, RowsAgree(s), Served(s, a),
         DeleteClassInfoFromCache(a)
  PROVE  CalmOf(s)'
<1>1. /\ act[a].pc = "dellist" /\ UNCHANGED <<tableVars, metaCache>>
      /\ listCache' = [listCache EXCEPT ![s] = {}]
  BY DEF DeleteClassInfoFromCache
<1>2. official'[s] = official[s] /\ added'[s] = added[s] /\ info' = info /\ metaCache'[s] = metaCache[s]
  BY <1>1 DEF tableVars
<1>3. ListAgrees(s)'
  BY <1>1 DEF ListAgrees, Shape
<1>4. RowsAgree(s)'
  BY <1>2, AgreeSame
<1>5. CASE act[a].op = "add"
  <2>1. End(a)
    BY <1>5 DEF DeleteClassInfoFromCache, Finished
  <2>2. Tame(a, Idle) /\ Idle.pc = "idle"
    BY <2>1, EndFacts, Idles
  <2>3. MetaAgrees(s)
    BY <1>5 DEF Served, CachesFit
  <2>4. MetaAgrees(s)'
    BY <1>2, <2>3, AgreeSame
  <2>5. QED BY <1>3, <1>4, <2>2, <2>4, MineGoesOn
<1>6. CASE act[a].op # "add"
  <2>1. Continue(a, "delmeta")
    BY <1>6 DEF DeleteClassInfoFromCache
  <2>2. PICK v : Tame(a, v) /\ Same(act[a], v) /\ v.pc = "delmeta"
    BY <2>1, ContinueFacts
  <2>3. ReadsWell(s, v) /\ v.op # "add"
    BY <1>6, <2>2 DEF ReadsWell, Same
  <2>4. act'[a] = v
    BY <2>2, GoesFacts DEF Tame
  <2>5. ReadsAgree(s, a)'
    BY <1>2, <2>3, <2>4, AgreeSame
  <2>6. CachesFit(s, a)'
    BY <1>3, <2>2, <2>3, <2>4 DEF CachesFit
  <2>7. QED BY <1>4, <2>2, <2>5, <2>6, MineGoesOn
<1>7. QED BY <1>5, <1>6

(* The metadata goes last, and a refresh begins to merge. *)
LEMMA MetaDeleted ==
  ASSUME Shape, NEW a \in Actors, NEW s \in Students, s = act[a].stu, RowsAgree(s), Served(s, a),
         DeleteAllClassMetaData(a)
  PROVE  CalmOf(s)'
<1>1. /\ act[a].pc = "delmeta" /\ UNCHANGED <<tableVars, listCache>> /\ Finished(a)
      /\ metaCache' = [metaCache EXCEPT ![s] = {}]
  BY DEF DeleteAllClassMetaData
<1>2. official'[s] = official[s] /\ added'[s] = added[s] /\ info' = info /\ listCache'[s] = listCache[s]
  BY <1>1 DEF tableVars
<1>3. MetaAgrees(s)'
  BY <1>1 DEF MetaAgrees, Shape
<1>4. ListAgrees(s)
  BY <1>1 DEF Served, CachesFit
<1>5. ListAgrees(s)' /\ RowsAgree(s)'
  BY <1>2, <1>4, AgreeSame
<1>6. CachesFit(s, a)'
  BY <1>3, <1>5 DEF CachesFit
<1>7. CASE Tame(a, Idle)
  BY <1>3, <1>5, <1>7, Idles, MineGoesOn
<1>8. ASSUME NEW v, Tame(a, v), v.op = "merge", v.pc = "load", v.view = {} PROVE CalmOf(s)'
  <2>1. ReadsWell(s, v)
    BY <1>8 DEF ReadsWell
  <2>2. act'[a] = v
    BY <1>8, GoesFacts DEF Tame
  <2>3. ReadsAgree(s, a)'
    BY <1>2, <2>1, <2>2, AgreeSame
  <2>4. QED BY <1>5, <1>6, <1>8, <2>3, MineGoesOn
<1>9. QED BY <1>1, <1>7, <1>8, FinishedFacts

-----------------------------------------------------------------------------
(* The commit of a calm student *)

(* No row is dated later than the last write. *)
Dated(s) == \A c \in Classes : official[s][c] <= notes /\ added[s][c] <= notes

(* The rows o and r follow those of the student when their classes are      *)
(* among the classes I, both rows of a class have one note, no note is      *)
(* older than before and none is newer than write n.                        *)
Follows(s, o, r, I, n) ==
  \A c \in Classes :
    /\ o[c] # NoRow \/ r[c] # NoRow => c \in I
    /\ o[c] # NoRow /\ r[c] # NoRow => o[c] = r[c]
    /\ official[s][c] # NoRow /\ o[c] # NoRow => o[c] >= official[s][c]
    /\ added[s][c] # NoRow /\ r[c] # NoRow => r[c] >= added[s][c]
    /\ o[c] <= n /\ r[c] <= n

(* A row of a calm student. *)
LEMMA RowFacts ==
  ASSUME Shape, NEW s \in Students, RowsAgree(s), Dated(s), NEW c \in Classes
  PROVE  /\ official[s][c] \in Int /\ added[s][c] \in Int /\ notes \in Nat
         /\ official[s][c] <= notes /\ added[s][c] <= notes
         /\ official[s][c] # NoRow \/ added[s][c] # NoRow => c \in info
         /\ official[s][c] # NoRow /\ added[s][c] # NoRow => official[s][c] = added[s][c]
         /\ NoRow = -1
<1>1. official[s][c] \in Row /\ added[s][c] \in Row
  BY RowsTyped
<1>2. official[s][c] \in Int /\ added[s][c] \in Int
  BY <1>1, Consts
<1>3. QED BY <1>2 DEF RowsAgree, Rowed, Exists, Dated, Shape, NoRow

(* What was seen of a class is the note of each of its rows.                *)
LEMMA SeenRows ==
  ASSUME Shape, NEW a \in Actors, NEW s \in Students, RowsAgree(s), ReadsAgree(s, a),
         act[a].pc = "commit", NEW c \in Seen(a)
  PROVE  /\ c \in Classes /\ SeenAs(a, c).note \in Note
         /\ official[s][c] # NoRow => SeenAs(a, c).note = official[s][c]
         /\ added[s][c] # NoRow => SeenAs(a, c).note = added[s][c]
         /\ official[s][c] # NoRow \/ added[s][c] # NoRow
         /\ ~SeenAs(a, c).official => added[s][c] # NoRow
<1>1. SeenAs(a, c) \in act[a].view /\ SeenAs(a, c).cla = c /\ SeenAs(a, c).note \in Note /\ c \in Classes
  BY SeenFacts
<1>2. SeenAs(a, c) \in MetaOf(s, c)
  BY <1>1 DEF ReadsAgree, ReadsWell
<1>3. PICK e \in Entry : e = SeenAs(a, c) /\ e \in MetaOf(s, c)
  BY <1>1, <1>2, MetaFacts
<1>4. e.official \in BOOLEAN
  BY <1>3 DEF Entry
<1>5. /\ e.official => e.note = official[s][c] /\ official[s][c] # NoRow
      /\ ~e.official => e.note = added[s][c] /\ added[s][c] # NoRow
  BY <1>1, <1>3, MetaFacts
<1>6. official[s][c] # NoRow /\ added[s][c] # NoRow => official[s][c] = added[s][c]
  BY <1>1 DEF RowsAgree
<1>7. QED BY <1>1, <1>3, <1>4, <1>5, <1>6

(* AddClass writes a row of a class the student does not have.              *)
LEMMA AddFollows ==
  ASSUME Shape, NEW a \in Actors, NEW s \in Students, s = act[a].stu, RowsAgree(s), Dated(s),
         ReadsAgree(s, a), act[a].pc = "commit", act[a].op = "add", AddClass(a, s)
  PROVE  \E o, r : /\ CommitsTo(a, o, r) /\ Follows(s, o, r, info', notes')
                   /\ \A c \in Classes : o[c] = official[s][c] /\ (added[s][c] # NoRow => r[c] = added[s][c])
<1>1. PICK r : /\ CommitsTo(a, official[s], r) /\ info' = info \cup {act[a].cla}
               /\ \A c \in Classes :
                    r[c] = IF c = act[a].cla /\ added[s][c] = NoRow THEN 0 ELSE added[s][c]
  BY AddCommits
<1>2. ~Exists(s, act[a].cla) /\ notes' = notes
  BY DEF ReadsAgree, ReadsWell, AddClass
<1>3. Follows(s, official[s], r, info', notes')
  BY <1>1, <1>2, RowFacts DEF Follows, Exists
<1>4. \A c \in Classes : added[s][c] # NoRow => r[c] = added[s][c]
  BY <1>1
<1>5. QED BY <1>1, <1>3, <1>4

(* A deletion takes no class that the calm student keeps.                   *)
LEMMA DeleteFollows ==
  ASSUME Shape, NEW a \in Actors, NEW s \in Students, s = act[a].stu, RowsAgree(s), Dated(s),
         NEW C, DeleteAddedClasses(a, s, C), calm'[s]
  PROVE  \E o, r : CommitsTo(a, o, r) /\ Follows(s, o, r, info', notes')
<1>1. PICK r : /\ CommitsTo(a, official[s], r) /\ info' = info \ C
               /\ \A c \in Classes : r[c] = IF c \in C THEN NoRow ELSE added[s][c]
  BY DeleteCommits
<1>2. \A c \in info \ info' : official'[s][c] = NoRow /\ added'[s][c] = NoRow
  BY <1>1 DEF CommitsTo
<1>3. official'[s] = official[s] /\ added'[s] = r
  BY <1>1 DEF CommitsTo, Shape
<1>4. \A c \in C : c \in info => official[s][c] = NoRow
  BY <1>1, <1>2, <1>3
<1>5. notes' = notes
  BY DEF DeleteAddedClasses
<1>6. Follows(s, official[s], r, info', notes')
  BY <1>1, <1>4, <1>5, RowFacts DEF Follows
<1>7. QED BY <1>1, <1>6

(* An update gives the new class the note of the old one.                   *)
LEMMA UpdateFollows ==
  ASSUME Shape, NEW a \in Actors, NEW s \in Students, s = act[a].stu, RowsAgree(s), Dated(s),
         ReadsAgree(s, a), act[a].pc = "commit", act[a].op = "update", UpdateAddedClass(a, s), calm'[s]
  PROVE  \E o, r : CommitsTo(a, o, r) /\ Follows(s, o, r, info', notes')
<1>0. Editable(a, act[a].cla)
  BY DEF Shape, Ready
<1>1. PICK c \in Classes, d \in Classes, n \in Note :
        c = act[a].cla /\ d = act[a].new /\ n = SeenAs(a, act[a].cla).note
  BY <1>0, WorkFacts, SeenFacts DEF Editable
<1>2. PICK r : /\ CommitsTo(a, official[s], r)
               /\ info' = (info \cup {d}) \ ({c} \ {d})
               /\ \A x \in Classes :
                    r[x] = IF x = d THEN IF x # c /\ added[s][x] # NoRow THEN added[s][x] ELSE n
                           ELSE IF x = c THEN NoRow ELSE added[s][x]
  BY <1>0, <1>1, UpdateCommits
<1>3. n = added[s][c] /\ added[s][c] # NoRow /\ notes' = notes
  BY <1>0, <1>1, SeenRows DEF Editable, UpdateAddedClass
<1>4. c = d \/ ~Exists(s, d)
  BY <1>1 DEF ReadsAgree, ReadsWell
<1>5. official'[s] = official[s] /\ added'[s] = r
  BY <1>2 DEF CommitsTo, Shape
<1>6. \A x \in info \ info' : official'[s][x] = NoRow /\ added'[s][x] = NoRow
  BY <1>2 DEF CommitsTo
<1>7. c # d => official[s][c] = NoRow
  <2>1. SUFFICES ASSUME c # d PROVE official[s][c] = NoRow
    OBVIOUS
  <2>2. c \in info /\ c \notin info'
    BY <1>2, <1>3, <2>1, RowFacts
  <2>3. QED BY <1>5, <1>6, <2>2
<1>8. ASSUME NEW x \in Classes
      PROVE  /\ official[s][x] # NoRow \/ r[x] # NoRow => x \in info'
             /\ official[s][x] # NoRow /\ r[x] # NoRow => official[s][x] = r[x]
             /\ added[s][x] # NoRow /\ r[x] # NoRow => r[x] >= added[s][x]
             /\ official[s][x] <= notes /\ r[x] <= notes
  <2>0. /\ official[s][x] \in Int /\ added[s][x] \in Int /\ notes \in Nat
        /\ official[s][x] <= notes /\ added[s][x] <= notes /\ added[s][c] <= notes
        /\ official[s][x] # NoRow \/ added[s][x] # NoRow => x \in info
        /\ official[s][x] # NoRow /\ added[s][x] # NoRow => official[s][x] = added[s][x]
        /\ NoRow = -1
    BY RowFacts
  <2>1. CASE x = d
    <3>1. CASE c = d
      BY <1>2, <1>3, <2>0, <2>1, <3>1
    <3>2. CASE c # d
      <4>1. official[s][x] = NoRow /\ added[s][x] = NoRow
        BY <1>4, <2>1, <3>2 DEF Exists
      <4>2. r[x] = n /\ x \in info'
        BY <1>2, <2>1, <3>2, <4>1
      <4>3. QED BY <1>3, <2>0, <4>1, <4>2
    <3>3. QED BY <3>1, <3>2
  <2>2. CASE x = c /\ x # d
    BY <1>2, <1>7, <2>0, <2>2
  <2>3. CASE x # c /\ x # d
    BY <1>2, <2>0, <2>3
  <2>4. QED BY <2>1, <2>2, <2>3
<1>9. Follows(s, official[s], r, info', notes')
  BY <1>3, <1>8, RowFacts DEF Follows
<1>10. QED BY <1>2, <1>9

(* A note is newer than all others.                                         *)
LEMMA NoteFollows ==
  ASSUME Shape, NotesLeft, NEW a \in Actors, NEW s \in Students, s = act[a].stu, RowsAgree(s), Dated(s),
         act[a].pc = "commit", act[a].op = "note", UpdateClassNote(a, s)
  PROVE  \E o, r : /\ CommitsTo(a, o, r) /\ Follows(s, o, r, info', notes')
                   /\ \A c \in Classes : /\ o[c] # NoRow <=> official[s][c] # NoRow
                                         /\ r[c] # NoRow <=> added[s][c] # NoRow
<1>1. notes + 1 \in Note
  BY NoteFits DEF Pending, After
<1>2. PICK o, r :
        /\ CommitsTo(a, o, r) /\ info' = info
        /\ \A c \in Classes :
             /\ o[c] = IF c = act[a].cla /\ official[s][c] # NoRow THEN notes + 1 ELSE official[s][c]
             /\ r[c] = IF c = act[a].cla /\ added[s][c] # NoRow THEN notes + 1 ELSE added[s][c]
  BY <1>1, NoteCommits
<1>3. notes' = notes + 1
  BY DEF UpdateClassNote
<1>4. Follows(s, o, r, info', notes')
  BY <1>2, <1>3, RowFacts DEF Follows
<1>5. ASSUME NEW c \in Classes
      PROVE  (o[c] # NoRow <=> official[s][c] # NoRow) /\ (r[c] # NoRow <=> added[s][c] # NoRow)
  BY <1>1, <1>2, Consts
<1>6. QED BY <1>2, <1>4, <1>5

(* A refresh gives the official rows the notes that they had.               *)
LEMMA SaveFollows ==
  ASSUME Shape, NEW a \in Actors, NEW s \in Students, s = act[a].stu, RowsAgree(s), Dated(s),
         ReadsAgree(s, a), act[a].pc = "commit", act[a].op = "refresh", SaveClass(a, s)
  PROVE  \E o, r : CommitsTo(a, o, r) /\ Follows(s, o, r, info', notes')
<1>1. PICK o : /\ CommitsTo(a, o, added[s]) /\ info' = info \cup act[a].crawled
               /\ \A c \in Classes :
                    o[c] = IF c \in act[a].crawled THEN KeptNote(a, c) ELSE NoRow
  BY SaveCommits
<1>2. Seen(a) = Rowed(s) /\ notes' = notes
  BY DEF ReadsAgree, ReadsWell, Seen, SaveClass
<1>3. ASSUME NEW c \in Classes
      PROVE  /\ o[c] # NoRow \/ added[s][c] # NoRow => c \in info'
             /\ o[c] # NoRow /\ added[s][c] # NoRow => o[c] = added[s][c]
             /\ official[s][c] # NoRow /\ o[c] # NoRow => o[c] >= official[s][c]
             /\ o[c] <= notes /\ added[s][c] <= notes
  <2>0. /\ official[s][c] \in Int /\ added[s][c] \in Int /\ notes \in Nat
        /\ official[s][c] <= notes /\ added[s][c] <= notes
        /\ official[s][c] # NoRow \/ added[s][c] # NoRow => c \in info
        /\ NoRow = -1
    BY RowFacts
  <2>1. CASE c \notin act[a].crawled
    BY <1>1, <2>0, <2>1
  <2>2. CASE c \in act[a].crawled /\ c \in Seen(a)
    <3>1. o[c] = SeenAs(a, c).note /\ c \in info'
      BY <1>1, <2>2 DEF KeptNote
    <3>2. /\ official[s][c] # NoRow => o[c] = official[s][c]
          /\ added[s][c] # NoRow => o[c] = added[s][c]
          /\ official[s][c] # NoRow \/ added[s][c] # NoRow
      BY <2>2, <3>1, SeenRows
    <3>3. QED BY <2>0, <3>1, <3>2
  <2>3. CASE c \in act[a].crawled /\ c \notin Seen(a)
    <3>1. o[c] = 0 /\ c \in info'
      BY <1>1, <2>3 DEF KeptNote
    <3>2. official[s][c] = NoRow /\ added[s][c] = NoRow
      BY <1>2, <2>3 DEF Rowed, Exists
    <3>3. QED BY <2>0, <3>1, <3>2
  <2>4. QED BY <2>1, <2>2, <2>3
<1>4. Follows(s, o, added[s], info', notes')
  BY <1>2, <1>3, RowFacts DEF Follows
<1>5. QED BY <1>1, <1>4

(* Every commit of a calm student follows what the student had; an addition *)
(* keeps the rows, and a note keeps which classes have one.                 *)
LEMMA CommitFollows ==
  ASSUME Shape, NotesLeft, NEW a \in Actors, NEW s \in Students, s = act[a].stu, RowsAgree(s),
         Dated(s), ReadsAgree(s, a), Commit(a), calm'[s]
  PROVE  \E o, r :
           /\ CommitsTo(a, o, r) /\ Follows(s, o, r, info', notes')
           /\ act[a].op = "add" =>
                \A c \in Classes : o[c] = official[s][c] /\ (added[s][c] # NoRow => r[c] = added[s][c])
           /\ act[a].op = "note" =>
                \A c \in Classes : /\ o[c] # NoRow <=> official[s][c] # NoRow
                                   /\ r[c] # NoRow <=> added[s][c] # NoRow
<1>0. act[a].pc = "commit"
  BY DEF Commit
<1>1. CASE act[a].op = "add" /\ AddClass(a, s)
  BY <1>0, <1>1, AddFollows
<1>2. CASE act[a].op \in {"delete", "merge"} /\ \E C : DeleteAddedClasses(a, s, C)
  BY <1>2, DeleteFollows
<1>3. CASE act[a].op = "update" /\ UpdateAddedClass(a, s)
  BY <1>0, <1>3, UpdateFollows
<1>4. CASE act[a].op = "note" /\ UpdateClassNote(a, s)
  BY <1>0, <1>4, NoteFollows
<1>5. CASE act[a].op = "refresh" /\ SaveClass(a, s)
  BY <1>0, <1>5, SaveFollows
<1>6. QED BY <1>1, <1>2, <1>3, <1>4, <1>5 DEF Commit

(* The rows of a student that a step rewrites keep notes that are no older. *)
Kept(s) ==
  \A c \in Classes :
    /\ official[s][c] # NoRow /\ official'[s][c] # NoRow => official'[s][c] >= official[s][c]
    /\ added[s][c] # NoRow /\ added'[s][c] # NoRow => added'[s][c] >= added[s][c]

(* After the commit the student is as calm as before. *)
LEMMA OwnCommit ==
  ASSUME Shape, NotesLeft, NEW a \in Actors, NEW s \in Students, s = act[a].stu, CalmOf(s),
         Dated(s), Commit(a), calm'[s]
  PROVE  CalmOf(s)' /\ Dated(s)' /\ Kept(s)
<1>0. act[a].pc = "commit" /\ UNCHANGED cacheVars
  BY DEF Commit
<1>1. RowsAgree(s) /\ Served(s, a) /\ ReadsAgree(s, a) /\ ListAgrees(s) /\ MetaAgrees(s)
  BY <1>0, MineServed DEF Served, CachesFit
<1>2. PICK o, r :
        /\ CommitsTo(a, o, r) /\ Follows(s, o, r, info', notes')
        /\ act[a].op = "add" =>
             \A c \in Classes : o[c] = official[s][c] /\ (added[s][c] # NoRow => r[c] = added[s][c])
        /\ act[a].op = "note" =>
             \A c \in Classes : /\ o[c] # NoRow <=> official[s][c] # NoRow
                                /\ r[c] # NoRow <=> added[s][c] # NoRow
  BY <1>1, CommitFollows
<1>3. official'[s] = o /\ added'[s] = r
  BY <1>2 DEF CommitsTo, Shape
<1>4. \A c \in Classes : Exists(s, c)' <=> o[c] # NoRow \/ r[c] # NoRow
  BY <1>3 DEF Exists
<1>5. RowsAgree(s)' /\ Dated(s)' /\ Kept(s)
  BY <1>2, <1>3, <1>4 DEF Follows, RowsAgree, Rowed, Dated, Kept
<1>6. PICK v \in Work : /\ Tame(a, v) /\ v.op = act[a].op /\ v.view = {}
                        /\ v.pc = IF act[a].op = "note" THEN "delmeta" ELSE "dellist"
  BY CommitFacts
<1>7. act'[a] = v
  BY <1>6, GoesFacts DEF Tame
<1>8. ReadsAgree(s, a)'
  BY <1>6, <1>7 DEF ReadsAgree, ReadsWell
<1>9. CachesFit(s, a)'
  <2>0. listCache'[s] = listCache[s] /\ metaCache'[s] = metaCache[s]
    BY <1>0 DEF cacheVars
  <2>1. CASE act[a].op = "note"
    <3>1. Rowed(s)' = Rowed(s)
      BY <1>2, <1>4, <2>1 DEF Rowed, Exists
    <3>2. ListAgrees(s)'
      BY <1>1, <2>0, <3>1 DEF ListAgrees
    <3>3. QED BY <1>6, <1>7, <2>1, <3>2 DEF CachesFit
  <2>2. CASE act[a].op = "add"
    <3>1. ASSUME NEW c \in Classes PROVE MetaOf(s, c) \subseteq MetaOf(s, c)'
      <4>1. official'[s][c] = official[s][c] /\ (added[s][c] # NoRow => added'[s][c] = added[s][c])
        BY <1>2, <1>3, <2>2
      <4>2. added[s][c] \in Note => added'[s][c] = added[s][c]
        BY <4>1, Consts
      <4>3. QED BY <4>1, <4>2 DEF MetaOf
    <3>2. \A e \in metaCache[s] : e.cla \in Classes
      BY DEF Shape, Entry
    <3>3. MetaAgrees(s)'
      BY <1>1, <2>0, <3>1, <3>2 DEF MetaAgrees
    <3>4. QED BY <1>6, <1>7, <2>2, <3>3 DEF CachesFit
  <2>3. CASE act[a].op \notin {"add", "note"}
    BY <1>6, <1>7, <2>3 DEF CachesFit
  <2>4. QED BY <2>1, <2>2, <2>3
<1>10. v.pc # "idle"
  BY <1>6
<1>11. CalmOf(s)'
  BY <1>1, <1>5, <1>6, <1>8, <1>9, <1>10, MineGoesOn
<1>12. QED BY <1>5, <1>11

-----------------------------------------------------------------------------
(* Whose requests follow each other, whoever else is served *)

CalmHolds(s) == calm[s] => CalmOf(s) /\ Dated(s)

(* What becomes of a student in a step that leaves it calm. *)
StaysCalm(s) == calm[s] /\ CalmOf(s)' /\ Dated(s)' /\ Kept(s)

(* Steps that do not touch the rows and write no note. *)
LEMMA RowsLeft ==
  ASSUME Shape, NEW s \in Students, Dated(s), official'[s] = official[s], added'[s] = added[s],
         notes' \in Nat, notes' >= notes
  PROVE  Dated(s)' /\ Kept(s)
<1>t. /\ official[s] \in [Classes -> Row] /\ added[s] \in [Classes -> Row]
      /\ notes \in Nat /\ Row \subseteq Int
  BY Consts, RowsTyped DEF Shape
<1>1. \A c \in Classes : official[s][c] \in Int /\ added[s][c] \in Int /\ notes \in Nat
  BY <1>t
<1>2. QED BY <1>1 DEF Dated, Kept

(* A commit keeps its own student calm, and the others it takes no class from. *)
LEMMA CommitCalm ==
  ASSUME Shape, NotesLeft, NEW a \in Actors, Commit(a), NEW t \in Students, CalmHolds(t), calm'[t]
  PROVE  StaysCalm(t)
<1>1. PICK s \in Students : s = act[a].stu
  BY WorkFacts
<1>2. PICK o, r : CommitsTo(a, o, r)
  BY CommitFacts
<1>3. PICK v \in Work : Tame(a, v) /\ v.stu = s
  BY <1>1, CommitFacts
<1>4. /\ notes' = IF act[a].op = "note" THEN notes + 1 ELSE notes
      /\ UNCHANGED cacheVars
  BY CommitFacts
<1>5. calm[t] /\ CalmOf(t) /\ Dated(t)
  BY <1>2 DEF CommitsTo, CalmHolds
<1>6. CASE t = s
  BY <1>1, <1>5, <1>6, OwnCommit DEF StaysCalm
<1>7. CASE t # s
  <2>1. official'[t] = official[t] /\ added'[t] = added[t]
    BY <1>1, <1>2, <1>7 DEF CommitsTo, Shape
  <2>2. \A c \in info \ info' : ~Exists(t, c)
    BY <1>2, <2>1 DEF CommitsTo, Exists
  <2>3. Busy(t)' = Busy(t) /\ \A b \in Busy(t) : act'[b] = act[b]
    BY <1>1, <1>3, <1>7, OthersBusy DEF Tame
  <2>4. Frame(t)
    BY <1>4, <2>1, <2>2, <2>3 DEF Frame, cacheVars
  <2>5. notes' \in Nat /\ notes' >= notes
    BY <1>4 DEF Shape
  <2>6. QED BY <1>5, <2>1, <2>4, <2>5, FrameKeeps, RowsLeft DEF StaysCalm
<1>8. QED BY <1>6, <1>7

(* The other steps keep all students calm, but those they disturb. *)
LEMMA StepCalm ==
  ASSUME Shape, NEW a \in Actors, Step(a), ~Commit(a), NEW t \in Students, CalmHolds(t), calm'[t]
  PROVE  StaysCalm(t)
<1>1. PICK s \in Students : s = act[a].stu
  BY WorkFacts
<1>2. /\ act[a].pc # "idle" /\ UNCHANGED <<tableVars, notes>>
      /\ calm' = calm \/ Disturb(s)
      /\ \/ UNCHANGED cacheVars
         \/ Populate(a) \/ MetaFill(a)
         \/ DeleteClassInfoFromCache(a) \/ DeleteAllClassMetaData(a)
  BY <1>1, StepFacts
<1>3. calm[t] /\ ~(t = s /\ Disturb(s))
  BY <1>2 DEF Disturb, Shape
<1>4. CalmOf(t) /\ Dated(t)
  BY <1>3 DEF CalmHolds
<1>5. /\ official'[t] = official[t] /\ added'[t] = added[t] /\ info' = info
      /\ notes' \in Nat /\ notes' >= notes
  BY <1>2 DEF tableVars, Shape
<1>6. CASE t = s
  <2>1. RowsAgree(s) /\ Served(s, a)
    BY <1>1, <1>2, <1>4, <1>6, MineServed
  <2>2. ~LoadFails(a) /\ ~MetaFails(a) /\ ~Abandon(a)
    BY <1>1, <1>3, <1>6 DEF LoadFails, MetaFails, Abandon
  <2>3. CalmOf(s)'
    BY <1>1, <2>1, <2>2, ReaderKeeps, ListDeleted, MetaDeleted DEF Step
  <2>4. QED BY <1>3, <1>4, <1>5, <1>6, <2>3, RowsLeft DEF StaysCalm
<1>7. CASE t # s
  <2>1. listCache'[t] = listCache[t] /\ metaCache'[t] = metaCache[t]
    <3>1. CASE UNCHANGED cacheVars
      BY <3>1 DEF cacheVars
    <3>2. CASE Populate(a)
      BY <1>1, <1>7, <3>2 DEF Populate, Shape
    <3>3. CASE MetaFill(a)
      BY <1>1, <1>7, <3>3 DEF MetaFill, Shape
    <3>4. CASE DeleteClassInfoFromCache(a)
      BY <1>1, <1>7, <3>4 DEF DeleteClassInfoFromCache, Shape
    <3>5. CASE DeleteAllClassMetaData(a)
      BY <1>1, <1>7, <3>5 DEF DeleteAllClassMetaData, Shape
    <3>6. QED BY <1>2, <3>1, <3>2, <3>3, <3>4, <3>5
  <2>2. PICK v : Tame(a, v)
    BY StepFacts
  <2>3. Busy(t)' = Busy(t) /\ \A b \in Busy(t) : act'[b] = act[b]
    BY <1>1, <1>7, <2>2, OthersBusy DEF Tame
  <2>4. Frame(t)
    BY <1>5, <2>1, <2>3 DEF Frame
  <2>5. QED BY <1>3, <1>4, <1>5, <2>4, FrameKeeps, RowsLeft DEF StaysCalm
<1>8. QED BY <1>6, <1>7

(* A request that begins alone, and adds no class that is there, reads well.*)
LEMMA StartCalm ==
  ASSUME Shape, NEW a \in Actors, NEW op \in Ops, NEW s \in Students, NEW c \in Classes,
         NEW d \in Classes, Start(a, op, s, c, d), op # "merge",
         NEW t \in Students, CalmHolds(t), calm'[t]
  PROVE  StaysCalm(t)
<1>1. PICK v \in Work :
        Goes(a, v) /\ v.op = op /\ v.stu = s /\ v.cla = c /\ v.pc = "load" /\ v.view = {}
  BY StartFacts
<1>2. act'[a] = v /\ \A b \in Actors \ {a} : act'[b] = act[b]
  BY <1>1, GoesFacts
<1>3. /\ UNCHANGED <<tableVars, cacheVars, notes>> /\ act[a].pc = "idle"
      /\ \/ Disturb(s)
         \/ UNCHANGED calm /\ Busy(s) = {} /\ ~(op = "add" /\ Exists(s, c))
  BY DEF Start
<1>4. calm[t] /\ ~(t = s /\ Disturb(s))
  BY <1>3 DEF Disturb, Shape
<1>5. CalmOf(t) /\ Dated(t)
  BY <1>4 DEF CalmHolds
<1>6. /\ official'[t] = official[t] /\ added'[t] = added[t] /\ info' = info
      /\ listCache'[t] = listCache[t] /\ metaCache'[t] = metaCache[t]
      /\ notes' \in Nat /\ notes' >= notes
  BY <1>3 DEF tableVars, cacheVars, Shape
<1>7. CASE t = s
  <2>1. Busy(s) = {} /\ ~(op = "add" /\ Exists(s, c))
    BY <1>3, <1>4, <1>7
  <2>2. Quiet(s) /\ RowsAgree(s)
    BY <1>5, <1>7, <2>1 DEF CalmOf, Served
  <2>3. Busy(s)' = {a}
    BY <1>1, <1>2, <2>1 DEF Busy
  <2>4. ReadsWell(s, v)
    BY <1>1, <2>1 DEF ReadsWell
  <2>5. ReadsAgree(s, a)'
    BY <1>2, <1>6, <1>7, <2>4, AgreeSame
  <2>6. RowsAgree(s)' /\ ListAgrees(s)' /\ MetaAgrees(s)'
    BY <1>6, <1>7, <2>2, AgreeSame DEF Quiet
  <2>7. CalmOf(s)'
    BY <2>3, <2>5, <2>6 DEF CalmOf, Served, CachesFit
  <2>8. QED BY <1>4, <1>5, <1>6, <1>7, <2>7, RowsLeft DEF StaysCalm
<1>8. CASE t # s
  <2>1. Busy(t)' = Busy(t) /\ \A b \in Busy(t) : act'[b] = act[b]
    BY <1>1, <1>3, <1>8, OthersBusy
  <2>2. Frame(t)
    BY <1>6, <2>1 DEF Frame
  <2>3. QED BY <1>4, <1>5, <1>6, <2>2, FrameKeeps, RowsLeft DEF StaysCalm
<1>9. QED BY <1>7, <1>8

(* Keys expire, students enrol, and nothing happens. *)
LEMMA RestCalm ==
  ASSUME Shape, (\E s \in Students : Expire(s) \/ Enrol(s)) \/ UNCHANGED classVars,
         NEW t \in Students, CalmHolds(t), calm'[t]
  PROVE  StaysCalm(t)
<1>1. UNCHANGED <<tableVars, act, notes, calm>>
  BY DEF Expire, Enrol, classVars, boundVars
<1>2. listCache'[t] \subseteq listCache[t] /\ metaCache'[t] \subseteq metaCache[t]
  <2>1. ASSUME NEW s \in Students, Expire(s)
        PROVE  listCache'[t] \subseteq listCache[t] /\ metaCache'[t] \subseteq metaCache[t]
    <3>1. CASE listCache' = [listCache EXCEPT ![s] = {}] /\ UNCHANGED metaCache
      BY <3>1 DEF Shape
    <3>2. CASE metaCache' = [metaCache EXCEPT ![s] = {}] /\ UNCHANGED listCache
      BY <3>2 DEF Shape
    <3>3. QED BY <2>1, <3>1, <3>2 DEF Expire
  <2>2. CASE UNCHANGED cacheVars
    BY <2>2 DEF cacheVars
  <2>3. QED BY <2>1, <2>2 DEF Enrol, classVars, cacheVars
<1>3. Frame(t)
  BY <1>1, <1>2 DEF Frame, Busy, tableVars
<1>4. calm[t] /\ CalmOf(t) /\ Dated(t)
  BY <1>1 DEF CalmHolds
<1>5. official'[t] = official[t] /\ added'[t] = added[t] /\ notes' \in Nat /\ notes' >= notes
  BY <1>1 DEF tableVars, Shape
<1>6. QED BY <1>3, <1>4, <1>5, FrameKeeps, RowsLeft DEF StaysCalm

(* Every step. *)
LEMMA CalmStep ==
  ASSUME Shape, NotesLeft, [TableNext]_classVars, NEW t \in Students, CalmHolds(t), calm'[t]
  PROVE  StaysCalm(t)
<1>1. ASSUME NEW a \in Actors, Step(a) PROVE StaysCalm(t)
  BY <1>1, CommitCalm, StepCalm
<1>2. ASSUME NEW a \in Actors, Request(a) PROVE StaysCalm(t)
  BY <1>2, StartCalm DEF Request
<1>3. CASE (\E s \in Students : Expire(s) \/ Enrol(s)) \/ UNCHANGED classVars
  BY <1>3, RestCalm
<1>4. QED BY <1>1, <1>2, <1>3 DEF TableNext

(* At first nothing is cached and nobody is served. *)
LEMMA CalmInit == ASSUME TableInit, NEW s \in Students PROVE CalmHolds(s)
<1>1. \A c \in Classes : /\ official[s][c] = 0 \/ official[s][c] = NoRow
                         /\ added[s][c] = 0 \/ added[s][c] = NoRow
  BY DEF TableInit
<1>2. notes = 0 /\ listCache[s] = {} /\ metaCache[s] = {}
  BY DEF TableInit
<1>3. RowsAgree(s)
  BY <1>1 DEF RowsAgree, Rowed, TableInit
<1>4. Busy(s) = {}
  BY Idles DEF Busy, TableInit
<1>5. Dated(s)
  BY <1>1, <1>2 DEF Dated, NoRow
<1>6. QED BY <1>2, <1>3, <1>4, <1>5 DEF CalmHolds, CalmOf, Quiet, ListAgrees, MetaAgrees

-----------------------------------------------------------------------------
(* The results *)

CalmInv == \A s \in Students : CalmHolds(s)

(* A calm student reads, caches and keeps what the tables say. *)
LEMMA CalmAlways == TableSpec => [](Shape /\ NotesLeft /\ CalmInv)
<1>1. TableInit => CalmInv
  BY CalmInit DEF CalmInv
<1>2. ASSUME Shape, NotesLeft, CalmInv, [TableNext]_classVars PROVE CalmInv'
  <2>1. ASSUME NEW s \in Students, calm'[s] PROVE CalmOf(s)' /\ Dated(s)'
    <3>1. StaysCalm(s)
      BY <1>2, <2>1, CalmStep DEF CalmInv
    <3>2. QED BY <3>1 DEF StaysCalm
  <2>2. QED BY <2>1 DEF CalmInv, CalmHolds
<1>3. QED BY <1>1, <1>2, ShapeInit, ShapeStep, PTL DEF TableSpec

(* Whatever overlaps or fails, every row keeps a note that was written, the *)
(* list of a student is cached at most once, the cached metadata holds one  *)
(* entry per class, and no more notes are begun than may be written.        *)
THEOREM TablesTyped == TableSpec => []TableTypeOK
<1>1. ASSUME Shape, NotesLeft PROVE TableTypeOK
  <2>1. notes \in Note
    <3>1. Pending \in SUBSET Actors
      BY DEF Pending
    <3>2. Cardinality(Pending) \in Nat /\ notes \in Nat /\ MaxNotes \in Nat
      BY <1>1, <3>1, PendingCounted, Consts DEF Shape
    <3>3. notes <= MaxNotes
      BY <1>1, <3>2 DEF NotesLeft
    <3>4. QED BY <3>2, <3>3 DEF Note
  <2>2. ASSUME NEW s \in Students PROVE Cardinality(listCache[s]) <= 1
    <3>1. Single(listCache[s])
      BY <1>1 DEF Shape
    <3>2. CASE listCache[s] = {}
      BY <3>2, FS_EmptySet
    <3>3. CASE listCache[s] # {}
      <4>1. PICK ids \in listCache[s] : listCache[s] = {ids}
        BY <3>1, <3>3 DEF Single
      <4>2. Cardinality(listCache[s]) = 1
        BY <4>1, FS_Singleton
      <4>3. QED BY <4>2
    <3>4. QED BY <3>2, <3>3
  <2>3. \A s \in Students : /\ listCache[s] \subseteq SUBSET Classes /\ metaCache[s] \subseteq Entry
                            /\ \A e, f \in metaCache[s] : e.cla = f.cla => e = f
    BY <1>1 DEF Shape, Functional
  <2>4. /\ info \subseteq Classes
        /\ official \in [Students -> [Classes -> Note \cup {NoRow}]]
        /\ added \in [Students -> [Classes -> Note \cup {NoRow}]]
        /\ school \in [Students -> SUBSET Classes]
        /\ requests \in 0 .. MaxRequests /\ faults \in 0 .. MaxFaults
        /\ calm \in [Students -> BOOLEAN]
    BY <1>1 DEF Shape, Row
  <2>5. act \in [Actors -> [op : Ops, stu : Students, cla : Classes, new : Classes, pc : Pcs,
                            ids : SUBSET Classes, view : SUBSET Entry, crawled : SUBSET Classes]]
    BY <1>1 DEF Shape, Work
  <2>6. QED BY <2>1, <2>2, <2>3, <2>4, <2>5 DEF TableTypeOK
<1>2. QED BY <1>1, ShapeHolds, PTL

(* What is cached of a student without a request under way is what the      *)
(* tables say, as long as the requests of the student followed each other,  *)
(* none was given up and no other student took a class away.  The keys are  *)
(* deleted only after the commit, a reader fills them with what it read     *)
(* before, and an addition leaves the metadata key: each is harmless        *)
(* without a second request of the same student, however many others run.   *)
THEOREM CachesOfTheCalmAgree == TableSpec => []CachesAgree
<1>1. ASSUME Shape, CalmInv, TableTypeOK PROVE CachesAgree
  <2>1. ASSUME NEW s \in Students, calm[s], Busy(s) = {}
        PROVE  /\ \A ids \in listCache[s] : ids = ListedIn(s)
               /\ \A e \in metaCache[s] : e \in MetaOf(s, e.cla)
    <3>1. CalmOf(s)
      BY <1>1, <2>1 DEF CalmInv, CalmHolds
    <3>2. RowsAgree(s) /\ ListAgrees(s) /\ MetaAgrees(s)
      BY <2>1, <3>1 DEF CalmOf, Quiet, Served
    <3>3. ListedIn(s) = Rowed(s)
      BY <1>1, <3>2, AllListed
    <3>4. QED BY <3>2, <3>3 DEF ListAgrees, MetaAgrees
  <2>2. QED BY <1>1, <2>1 DEF CachesAgree
<1>2. QED BY <1>1, CalmAlways, TablesTyped, PTL

(* No refresh or edit writes an older note over a newer one, as long as the *)
(* requests of the student followed each other: a refresh replaces the      *)
(* official rows with the notes it read before it asked the school system,  *)
(* and an update gives the new class the note it read of the old one.       *)
THEOREM NotesOfTheCalmStay == TableSpec => NotesNeverGoBack
<1>1. ASSUME Shape, NotesLeft, CalmInv, [TableNext]_classVars
      PROVE  [\A s \in Students, c \in Classes : calm'[s] =>
                /\ official[s][c] # NoRow /\ official'[s][c] # NoRow => official'[s][c] >= official[s][c]
                /\ added[s][c] # NoRow /\ added'[s][c] # NoRow => added'[s][c] >= added[s][c]]_classVars
  <2>1. ASSUME NEW s \in Students, calm'[s] PROVE Kept(s)
    BY <1>1, <2>1, CalmStep DEF CalmInv, StaysCalm
  <2>2. QED BY <2>1 DEF Kept
<1>2. QED BY <1>1, CalmAlways, PTL DEF TableSpec, NotesNeverGoBack

=============================================================================
