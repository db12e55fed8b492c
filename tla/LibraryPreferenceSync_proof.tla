-------------------- MODULE LibraryPreferenceSync_proof --------------------
(***************************************************************************)
(* Proofs about LibraryPreferenceSync, for any students, page, batch and   *)
(* change limits, with and without invitations.                            *)
(***************************************************************************)
EXTENDS LibraryPreferenceSync, FiniteSetTheorems, TLAPS

(* The revisions of the log that belong to s. *)
Entries(s) == {r \in 1..Len(log) : log[r].student = s}

(* A configuration carries the revision of its student's last change. *)
LogInv ==
  \A s \in Students :
    /\ \A r \in Entries(s) : r <= config[s].revision
    /\ config[s].revision > 0 => config[s].revision \in Entries(s)
    /\ LibraryOn(s) => config[s].revision > 0

(* A row never runs ahead of its student; when it has reached the last     *)
(* change it agrees with it, whatever the cursor says; and while it is on  *)
(* it has not skipped a change behind the cursor.                          *)
RowInv ==
  \A s \in Students :
    /\ sub[s].enabled => sub[s].exists
    /\ sub[s].exists <=> sub[s].revision > 0
    /\ sub[s].revision <= config[s].revision
    /\ sub[s].exists /\ Announced(s) /\ sub[s].revision = config[s].revision
         => (sub[s].enabled <=> LibraryOn(s))
    /\ sub[s].enabled => \A r \in Entries(s) : r <= cursor => r <= sub[s].revision

Reading == {"page", "reconcile", "missing"}

(* The list is right about every student whose last change is not after    *)
(* the snapshot, and the cursor and the rows are not ahead of it.          *)
Lists(s) ==
  /\ sub[s].revision <= snapshot
  /\ users[s] <= snapshot
  /\ users[s] <= config[s].revision
  /\ users[s] > 0 => \A r \in Entries(s) : r <= snapshot => r <= users[s]
  /\ config[s].revision <= snapshot /\ users[s] > 0 => LibraryOn(s)
  /\ (config[s].revision <= snapshot /\ LibraryOn(s) /\ (phase = "page" => Id[s] <= after))
       => users[s] > 0

ListInv ==
  /\ phase \notin Reading => after = 0 /\ \A s \in Students : users[s] = 0
  /\ phase \in Reading => cursor <= snapshot /\ \A s \in Students : Lists(s)

(* A row the reconciliation has visited says what the list says. *)
DoneInv ==
  /\ phase = "reconcile" => \A s \in todo : sub[s].exists
  /\ phase = "missing" => \A s \in todo : users[s] > 0 /\ ~sub[s].exists
  /\ phase \in {"reconcile", "missing"} =>
       \A s \in Students \ todo :
         sub[s].exists \/ phase = "missing" =>
           /\ (sub[s].enabled <=> users[s] > 0)
           /\ sub[s].enabled => users[s] <= sub[s].revision

PageInv ==
  /\ phase \in {"fetch", "apply"} => cursor >= 0
  /\ phase = "apply" => cursor < upto

IInv == /\ TypeOK /\ LogInv /\ RowInv /\ ListInv /\ DoneInv /\ PageInv
        /\ ConsumedAgrees /\ WorkIsCurrent

LEMMA RevisionFacts ==
  ASSUME log \in Seq(Change)
  PROVE  /\ 0 \in Revision /\ Len(log) \in Revision
         /\ Revision \subseteq Nat
         /\ NoConfig \in Config
         /\ \A k \in {"none", "live", "deleted"}, b \in BOOLEAN, r \in Revision :
              [kind |-> k, library |-> b, revision |-> r] \in Config
BY DEF Revision, NoConfig, Config

(* With an empty log. *)
LEMMA InitEmpty ==
  ASSUME Init, log = <<>>, cursor \in {0, -1},
         \A s \in Students : config[s] \in OldConfigs /\ sub[s] = NoSub,
         config \in [Students -> OldConfigs], sub = [s \in Students |-> NoSub]
  PROVE  IInv
<1>1. Len(log) = 0 /\ log \in Seq(Change)
  OBVIOUS
<1>2. \A c \in OldConfigs : c \in Config /\ c.revision = 0 /\ c.library = FALSE
  <2>1. ASSUME NEW c \in OldConfigs PROVE c \in Config /\ c.revision = 0 /\ c.library = FALSE
    <3>1. PICK k \in {"none", "live", "deleted"} : c = [kind |-> k, library |-> FALSE, revision |-> 0]
      BY DEF OldConfigs, NoConfig
    <3>2. 0 \in Revision
      BY <1>1, RevisionFacts
    <3>3. QED BY <3>1, <3>2 DEF Config
  <2>2. QED BY <2>1
<1>3. \A s \in Students : config[s].revision = 0 /\ ~LibraryOn(s)
  BY <1>2 DEF LibraryOn
<1>4. NoSub \in Subscription /\ ~NoSub.exists /\ ~NoSub.enabled /\ NoSub.revision = 0
  BY <1>1, RevisionFacts DEF NoSub, Subscription
<1>5. TypeOK
  <2>1. config \in [Students -> Config] /\ sub \in [Students -> Subscription]
    BY <1>2, <1>4
  <2>2. QED BY <1>1, <2>1, RevisionFacts DEF TypeOK, Init, NoLocals, Phase
<1>6. LogInv /\ RowInv /\ ConsumedAgrees /\ WorkIsCurrent
  <2>1. \A s \in Students : Entries(s) = {}
    BY <1>1 DEF Entries
  <2>2. \A s \in Students : ~sub[s].exists /\ ~sub[s].enabled /\ sub[s].revision = 0
    BY <1>4
  <2>3. LogInv
    BY <1>3, <2>1 DEF LogInv
  <2>4. RowInv
    BY <1>3, <2>2 DEF RowInv
  <2>5. ConsumedAgrees
    BY <1>3, <2>2 DEF ConsumedAgrees
  <2>6. QED BY <2>3, <2>4, <2>5 DEF WorkIsCurrent, Init
<1>7. ListInv /\ DoneInv /\ PageInv
  BY DEF ListInv, DoneInv, PageInv, Reading, Init, NoLocals
<1>8. QED BY <1>5, <1>6, <1>7 DEF IInv

(* With the one change of u. *)
LEMMA InitLogged ==
  ASSUME Init, NEW u \in Students, log = <<[student |-> u, enabled |-> TRUE]>>,
         NEW consumed \in BOOLEAN, cursor = IF consumed THEN 1 ELSE -1,
         config[u] \in LoggedConfigs, \A s \in Students \ {u} : config[s] \in OldConfigs,
         DOMAIN config = Students, config = [s \in DOMAIN config |-> config[s]],
         sub = [s \in Students |->
                   IF consumed /\ s = u
                   THEN [exists |-> TRUE, enabled |-> TRUE, revision |-> 1, version |-> 1]
                   ELSE NoSub]
  PROVE  IInv
<1>1. Len(log) = 1 /\ log[1] = [student |-> u, enabled |-> TRUE] /\ log \in Seq(Change)
  BY DEF Change
<1>2. \A c \in OldConfigs : c \in Config /\ c.revision = 0 /\ c.library = FALSE
  <2>1. ASSUME NEW c \in OldConfigs PROVE c \in Config /\ c.revision = 0 /\ c.library = FALSE
    <3>1. PICK k \in {"none", "live", "deleted"} : c = [kind |-> k, library |-> FALSE, revision |-> 0]
      BY DEF OldConfigs, NoConfig
    <3>2. 0 \in Revision
      BY <1>1, RevisionFacts
    <3>3. QED BY <3>1, <3>2 DEF Config
  <2>2. QED BY <2>1
<1>3. \A c \in LoggedConfigs : c \in Config /\ c.revision = 1 /\ c.library = TRUE
  <2>1. ASSUME NEW c \in LoggedConfigs PROVE c \in Config /\ c.revision = 1 /\ c.library = TRUE
    <3>1. PICK k \in {"none", "live", "deleted"} : c = [kind |-> k, library |-> TRUE, revision |-> 1]
      BY DEF LoggedConfigs
    <3>2. 1 \in Revision
      BY <1>1, RevisionFacts
    <3>3. QED BY <3>1, <3>2 DEF Config
  <2>2. QED BY <2>1
<1>4. NoSub \in Subscription /\ ~NoSub.exists /\ ~NoSub.enabled /\ NoSub.revision = 0
  BY <1>1, RevisionFacts DEF NoSub, Subscription
<1>5. /\ config[u].revision = 1
      /\ LibraryOn(u) <=> config[u].kind = "live"
      /\ \A s \in Students \ {u} : config[s].revision = 0 /\ ~LibraryOn(s)
  BY <1>2, <1>3 DEF LibraryOn
<1>6. [exists |-> TRUE, enabled |-> TRUE, revision |-> 1, version |-> 1] \in Subscription
  BY <1>1, RevisionFacts DEF Subscription
<1>7. /\ \A s \in Students \ {u} : ~sub[s].exists /\ ~sub[s].enabled /\ sub[s].revision = 0
      /\ IF consumed THEN sub[u].exists /\ sub[u].enabled /\ sub[u].revision = 1
                     ELSE ~sub[u].exists /\ ~sub[u].enabled /\ sub[u].revision = 0
  BY <1>4
<1>8. TypeOK
  <2>1. config \in [Students -> Config] /\ sub \in [Students -> Subscription]
    BY <1>2, <1>3, <1>4, <1>6
  <2>2. QED BY <1>1, <2>1, RevisionFacts DEF TypeOK, Init, NoLocals, Phase
<1>9. \A r \in 1..Len(log) : r = 1 /\ log[r].student = u /\ log[r].enabled = TRUE
  BY <1>1
<1>10. Entries(u) = {1} /\ \A s \in Students \ {u} : Entries(s) = {}
  BY <1>1, <1>9 DEF Entries
<1>11. LogInv
  BY <1>5, <1>10 DEF LogInv
<1>12. RowInv
  <2>1. ASSUME NEW s \in Students \ {u} PROVE sub[s].exists = FALSE /\ sub[s].enabled = FALSE /\ sub[s].revision = config[s].revision
    BY <1>5, <1>7, <1>8 DEF TypeOK, Subscription
  <2>2. CASE consumed
    <3>1. Announced(u) => LibraryOn(u)
      BY <1>1, <1>5 DEF Announced
    <3>2. QED BY <1>5, <1>7, <1>8, <1>10, <2>1, <2>2, <3>1 DEF RowInv, TypeOK, Subscription, LibraryOn
  <2>3. CASE ~consumed
    BY <1>5, <1>7, <1>8, <1>10, <2>1, <2>3 DEF RowInv
  <2>4. QED BY <2>2, <2>3
<1>13. ConsumedAgrees /\ WorkIsCurrent
  <2>1. Announced(u) => (LibraryOn(u) <=> TRUE)
    BY <1>1, <1>5 DEF Announced
  <2>2. LibraryOn(u) \in BOOLEAN /\ \A s \in Students : LibraryOn(s) \in BOOLEAN /\ sub[s].enabled \in BOOLEAN
    BY <1>8 DEF LibraryOn, TypeOK, Subscription, Config
  <2>3. ConsumedAgrees
    BY <1>5, <1>7, <2>1, <2>2 DEF ConsumedAgrees
  <2>4. QED BY <2>3 DEF WorkIsCurrent, Init
<1>14. ListInv /\ DoneInv /\ PageInv
  BY DEF ListInv, DoneInv, PageInv, Reading, Init, NoLocals
<1>15. QED BY <1>8, <1>11, <1>12, <1>13, <1>14 DEF IInv

LEMMA InitInv == Init => IInv
<1> SUFFICES ASSUME Init PROVE IInv
  OBVIOUS
<1>1. PICK L \in SUBSET Students, consumed \in BOOLEAN :
       /\ \A s, t \in L : s = t
       /\ log \in {l \in {<<>>} \cup {<<[student |-> s, enabled |-> TRUE]>> : s \in L} :
                     L # {} => l # <<>>}
       /\ config \in {c \in [Students -> OldConfigs \cup LoggedConfigs] :
                        \A s \in Students : c[s] \in IF s \in L THEN LoggedConfigs ELSE OldConfigs}
       /\ cursor = IF consumed THEN Len(log) ELSE -1
       /\ sub = [s \in Students |->
                   IF consumed /\ s \in L
                   THEN [exists |-> TRUE, enabled |-> TRUE, revision |-> 1, version |-> 1]
                   ELSE NoSub]
  BY DEF Init
<1>2. CASE L = {}
  <2>1. log = <<>> /\ Len(log) = 0
    BY <1>1, <1>2
  <2>2. config \in [Students -> OldConfigs] /\ sub = [s \in Students |-> NoSub]
    BY <1>1, <1>2
  <2>3. cursor \in {0, -1}
    BY <1>1, <2>1
  <2>4. QED BY <2>1, <2>2, <2>3, InitEmpty
<1>3. CASE L # {}
  <2>1. PICK u \in L : log = <<[student |-> u, enabled |-> TRUE]>>
    BY <1>1, <1>3
  <2>2. L = {u} /\ u \in Students
    BY <1>1, <2>1
  <2>3. /\ config[u] \in LoggedConfigs
        /\ \A s \in Students \ {u} : config[s] \in OldConfigs
        /\ DOMAIN config = Students
        /\ config = [s \in DOMAIN config |-> config[s]]
    BY <1>1, <2>2
  <2>4. cursor = IF consumed THEN 1 ELSE -1
    BY <1>1, <2>1
  <2>5. sub = [s \in Students |->
                   IF consumed /\ s = u
                   THEN [exists |-> TRUE, enabled |-> TRUE, revision |-> 1, version |-> 1]
                   ELSE NoSub]
    BY <1>1, <2>2
  <2>6. QED BY <2>1, <2>2, <2>3, <2>4, <2>5, InitLogged
<1>4. QED BY <1>2, <1>3

-----------------------------------------------------------------------------
(* What each group of variables keeps. *)

LEMMA CoreKept ==
  ASSUME LogInv, RowInv, ConsumedAgrees, UNCHANGED <<config, log, sub, cursor>>
  PROVE  LogInv' /\ RowInv' /\ ConsumedAgrees'
BY DEF LogInv, RowInv, ConsumedAgrees, Entries, Announced, LibraryOn

LEMMA WorkKept ==
  ASSUME WorkIsCurrent, UNCHANGED <<sub, work>>
  PROVE  WorkIsCurrent'
BY DEF WorkIsCurrent

LEMMA ListKept ==
  ASSUME ListInv, DoneInv, UNCHANGED <<config, log, sub, cursor, phase, snapshot, after, users, todo>>
  PROVE  ListInv' /\ DoneInv'
BY DEF ListInv, DoneInv, Lists, Reading, Entries, LibraryOn

LEMMA NotReading ==
  ASSUME phase' \notin Reading, after' = 0, \A s \in Students : users'[s] = 0
  PROVE  ListInv' /\ DoneInv'
BY DEF ListInv, DoneInv, Reading

-----------------------------------------------------------------------------
(* be-feed *)

(* The log after a change of u. *)
LEMMA AnnounceFacts ==
  ASSUME TypeOK, LogInv, NEW u \in Students, NEW on \in BOOLEAN, Announce(u, on)
  PROVE  /\ Len(log) \in Nat /\ Len(log') = Len(log) + 1
         /\ log' \in Seq(Change)
         /\ Revision \subseteq Revision'
         /\ config' \in [Students -> Config']
         /\ \A s \in Students \ {u} : config'[s] = config[s] /\ Entries(s)' = Entries(s)
         /\ \A r \in 1..Len(log) : log'[r] = log[r]
         /\ Entries(u)' = Entries(u) \cup {Len(log) + 1}
         /\ config'[u].revision = Len(log) + 1
         /\ LibraryOn(u)' <=> on
         /\ log'[Len(log) + 1].enabled = on
<1>1. [student |-> u, enabled |-> on] \in Change
  BY DEF Change
<1>2. /\ Len(log) \in Nat /\ Len(log') = Len(log) + 1 /\ log' \in Seq(Change)
      /\ \A r \in 1..Len(log) : log'[r] = log[r]
      /\ log'[Len(log) + 1] = [student |-> u, enabled |-> on]
  BY <1>1 DEF TypeOK, Announce
<1>3. Revision \subseteq Revision' /\ Len(log) + 1 \in Revision'
  BY <1>2 DEF Revision
<1>4. Config \subseteq Config'
  BY <1>3 DEF Config
<1>5. [kind |-> "live", library |-> on, revision |-> Len(log) + 1] \in Config'
  BY <1>3 DEF Config
<1>6. /\ config'[u] = [kind |-> "live", library |-> on, revision |-> Len(log) + 1]
      /\ \A s \in Students \ {u} : config'[s] = config[s]
  BY DEF TypeOK, Announce
<1>7. config' \in [Students -> Config']
  BY <1>4, <1>5 DEF TypeOK, Announce
<1>8. Entries(u)' = Entries(u) \cup {Len(log) + 1} /\ \A s \in Students \ {u} : Entries(s)' = Entries(s)
  BY <1>2 DEF Entries
<1>9. QED BY <1>2, <1>3, <1>6, <1>7, <1>8 DEF LibraryOn

LEMMA AnnounceInv ==
  ASSUME IInv, NEW u \in Students, NEW on \in BOOLEAN, Announce(u, on), feedUp' \in BOOLEAN,
         UNCHANGED <<subVars, taskVars, caughtUp, refresh>>
  PROVE  IInv'
<1> DEFINE n == Len(log) + 1
<1>1. /\ TypeOK /\ LogInv /\ RowInv /\ ListInv /\ DoneInv /\ PageInv /\ ConsumedAgrees /\ WorkIsCurrent
      /\ UNCHANGED <<sub, cursor, work, task, phase, snapshot, after, users, todo, upto, caughtUp, refresh>>
  BY DEF IInv, subVars, taskVars
<1>2. /\ n \in Nat /\ Len(log') = n /\ log' \in Seq(Change) /\ Revision \subseteq Revision'
      /\ config' \in [Students -> Config']
      /\ \A s \in Students \ {u} : config'[s] = config[s] /\ Entries(s)' = Entries(s)
      /\ \A r \in 1..Len(log) : log'[r] = log[r]
      /\ Entries(u)' = Entries(u) \cup {n} /\ config'[u].revision = n
      /\ LibraryOn(u)' <=> on
      /\ log'[n].enabled = on
  BY <1>1, AnnounceFacts
<1>3. /\ Len(log) \in Nat /\ Revision = 0..Len(log) /\ n = Len(log) + 1
      /\ cursor \in Int /\ cursor < n /\ snapshot \in Nat /\ snapshot < n
      /\ \A s \in Students : /\ users[s] \in Nat /\ users[s] < n
                             /\ sub[s] \in Subscription /\ sub[s].revision \in Nat /\ sub[s].revision < n
                             /\ config[s].revision \in Nat
      /\ \A s \in Students : Entries(s) \subseteq 1..Len(log)
  BY <1>1 DEF TypeOK, Revision, Subscription, Config, Entries
<1> HIDE DEF n
<1>4. TypeOK'
  <2>1. sub' \in [Students -> Subscription']
    BY <1>1, <1>2 DEF TypeOK, Subscription
  <2>2. QED BY <1>1, <1>2, <2>1 DEF TypeOK
<1>5. LogInv'
  <2>1. ASSUME NEW s \in Students
        PROVE  /\ \A r \in Entries(s)' : r <= config'[s].revision
               /\ config'[s].revision > 0 => config'[s].revision \in Entries(s)'
               /\ LibraryOn(s)' => config'[s].revision > 0
    <3>1. CASE s = u
      BY <1>2, <1>3, <3>1
    <3>2. CASE s # u
      BY <1>1, <1>2, <3>2 DEF LogInv, LibraryOn
    <3>3. QED BY <3>1, <3>2
  <2>2. QED BY <2>1 DEF LogInv
<1>6. RowInv'
  <2>1. ASSUME NEW s \in Students
        PROVE  /\ sub'[s].enabled => sub'[s].exists
               /\ sub'[s].exists <=> sub'[s].revision > 0
               /\ sub'[s].revision <= config'[s].revision
               /\ sub'[s].exists /\ Announced(s)' /\ sub'[s].revision = config'[s].revision
                    => (sub'[s].enabled <=> LibraryOn(s)')
               /\ sub'[s].enabled => \A r \in Entries(s)' : r <= cursor' => r <= sub'[s].revision
    <3>1. CASE s = u
      BY <1>1, <1>2, <1>3, <3>1 DEF RowInv
    <3>2. CASE s # u
      <4>1. config[s].revision > 0 => log'[config[s].revision] = log[config[s].revision]
        BY <1>1, <1>2, <1>3 DEF LogInv
      <4>2. Announced(s)' => Announced(s)
        BY <1>2, <3>2, <4>1 DEF Announced, LibraryOn
      <4>3. QED BY <1>1, <1>2, <3>2, <4>2 DEF RowInv, LibraryOn
    <3>3. QED BY <3>1, <3>2
  <2>2. QED BY <2>1 DEF RowInv
<1>7. ListInv'
  <2>1. CASE phase \notin Reading
    BY <1>1, <2>1 DEF ListInv, Reading
  <2>2. CASE phase \in Reading
    <3>1. ASSUME NEW s \in Students PROVE Lists(s)'
      <4>0. Lists(s)
        BY <1>1, <2>2 DEF ListInv
      <4>1. CASE s = u
        BY <1>1, <1>2, <1>3, <4>0, <4>1 DEF Lists
      <4>2. CASE s # u
        BY <1>1, <1>2, <4>0, <4>2 DEF Lists, LibraryOn
      <4>3. QED BY <4>1, <4>2
    <3>2. QED BY <1>1, <2>2, <3>1 DEF ListInv, Reading
  <2>3. QED BY <2>1, <2>2
<1>8. DoneInv' /\ PageInv' /\ WorkIsCurrent'
  BY <1>1 DEF DoneInv, PageInv, WorkIsCurrent
<1>9. ConsumedAgrees'
  <2>1. ASSUME NEW s \in Students, Announced(s)', config'[s].revision <= cursor'
        PROVE  sub'[s].enabled <=> LibraryOn(s)'
    <3>1. s # u
      BY <1>1, <1>2, <1>3, <2>1
    <3>2. config[s].revision > 0 => log'[config[s].revision] = log[config[s].revision]
      BY <1>1, <1>2, <1>3 DEF LogInv
    <3>3. Announced(s)
      BY <1>2, <2>1, <3>1, <3>2 DEF Announced, LibraryOn
    <3>4. QED BY <1>1, <1>2, <2>1, <3>1, <3>3 DEF ConsumedAgrees, LibraryOn
  <2>2. QED BY <2>1 DEF ConsumedAgrees
<1>10. QED BY <1>4, <1>5, <1>6, <1>7, <1>8, <1>9 DEF IInv

(* A setting saved without a change of the effective bit. *)
LEMMA SilentInv ==
  ASSUME IInv, NEW u \in Students, NEW on \in BOOLEAN, on <=> LibraryOn(u),
         config' = [config EXCEPT ![u].kind = "live", ![u].library = on],
         UNCHANGED <<log, feedUp, subVars, taskVars, caughtUp, refresh>>
  PROVE  IInv'
<1>1. /\ TypeOK /\ LogInv /\ RowInv /\ ListInv /\ DoneInv /\ PageInv /\ ConsumedAgrees /\ WorkIsCurrent
      /\ UNCHANGED <<log, feedUp, sub, cursor, work, task, phase, snapshot, after, users, todo, upto, caughtUp, refresh>>
  BY DEF IInv, subVars, taskVars
<1>2. config' \in [Students -> Config]
  BY <1>1 DEF TypeOK, Config
<1>3. \A s \in Students : config'[s].revision = config[s].revision /\ (LibraryOn(s)' <=> LibraryOn(s))
  BY <1>1 DEF TypeOK, Config, LibraryOn
<1>4. TypeOK'
  BY <1>1, <1>2 DEF TypeOK, Config, Revision, Subscription
<1>5. \A s \in Students : Entries(s)' = Entries(s) /\ (Announced(s)' <=> Announced(s))
  BY <1>1, <1>3 DEF Entries, Announced
<1>6. LogInv' /\ RowInv' /\ ConsumedAgrees'
  BY <1>1, <1>3, <1>5 DEF LogInv, RowInv, ConsumedAgrees
<1>7. ListInv' /\ DoneInv' /\ PageInv' /\ WorkIsCurrent'
  BY <1>1, <1>3, <1>5 DEF ListInv, DoneInv, PageInv, WorkIsCurrent, Lists, Reading
<1>8. QED BY <1>4, <1>6, <1>7 DEF IInv

LEMMA FeedInv == ASSUME IInv, Feed PROVE IInv'
<1>1. ASSUME NEW s \in Students, MigrateInitialLibraryPreference(s) PROVE IInv'
  BY <1>1, AnnounceInv DEF MigrateInitialLibraryPreference, IInv, TypeOK
<1>2. ASSUME FeedStarts \/ FeedStops PROVE IInv'
  <2>1. /\ TypeOK /\ LogInv /\ RowInv /\ ListInv /\ DoneInv /\ PageInv /\ ConsumedAgrees /\ WorkIsCurrent
    BY DEF IInv
  <2>2. /\ UNCHANGED <<config, log, sub, cursor, work, task, phase, snapshot, after, users, todo, upto, caughtUp, refresh>>
        /\ feedUp' \in BOOLEAN
    BY <1>2 DEF FeedStarts, FeedStops, subVars, taskVars
  <2>3. TypeOK' /\ PageInv'
    BY <2>1, <2>2 DEF TypeOK, PageInv, Config, Revision, Subscription
  <2>4. QED BY <2>1, <2>2, <2>3, CoreKept, WorkKept, ListKept DEF IInv
<1>3. ASSUME NEW s \in Students, FindOrCreateUserFeedConfig(s) PROVE IInv'
  BY <1>3, AnnounceInv DEF FindOrCreateUserFeedConfig, IInv, TypeOK
<1>4. ASSUME NEW s \in Students, NEW choice \in {"on", "off", "omitted"}, ChangeConfigBits(s, choice)
      PROVE  IInv'
  <2> DEFINE isNew == config[s].kind = "none"
             base == isNew \/ LibraryOn(s)
             on == IF choice = "omitted" THEN base ELSE choice = "on"
  <2>1. on \in BOOLEAN /\ feedUp \in BOOLEAN
    BY DEF IInv, TypeOK, LibraryOn, Config
  <2>2. CASE isNew \/ on # LibraryOn(s)
    <3>1. Announce(s, on) /\ UNCHANGED <<feedUp, subVars, taskVars, caughtUp, refresh>>
      BY <1>4, <2>2 DEF ChangeConfigBits
    <3> HIDE DEF on
    <3>2. QED BY <2>1, <3>1, AnnounceInv
  <2>3. CASE ~(isNew \/ on # LibraryOn(s))
    <3>1. /\ config' = [config EXCEPT ![s].kind = "live", ![s].library = on]
          /\ UNCHANGED <<log, feedUp, subVars, taskVars, caughtUp, refresh>>
      BY <1>4, <2>3 DEF ChangeConfigBits
    <3>2. on <=> LibraryOn(s)
      BY <2>3
    <3> HIDE DEF on
    <3>3. QED BY <2>1, <3>1, <3>2, SilentInv
  <2>4. QED BY <2>2, <2>3
<1>5. QED BY <1>1, <1>2, <1>3, <1>4 DEF Feed

-----------------------------------------------------------------------------
(* be-library: the beginning and the end of tasks *)

(* A step of the task outside the paged read and the reconciliation. *)
LEMMA LocalStep ==
  ASSUME IInv, UNCHANGED <<config, log, feedUp, sub, cursor, work>>,
         phase' \in Phase \ Reading, task' \in {"none", "rebuild", "calibrate"},
         snapshot' \in Revision, upto' \in Revision, todo' \in SUBSET Students,
         after' = 0, users' \in [Students -> Revision], \A s \in Students : users'[s] = 0,
         caughtUp' \in BOOLEAN, refresh' \in [Students -> Nat], PageInv'
  PROVE  IInv'
<1>1. /\ TypeOK /\ LogInv /\ RowInv /\ ListInv /\ DoneInv /\ ConsumedAgrees /\ WorkIsCurrent
  BY DEF IInv
<1>2. TypeOK'
  BY <1>1 DEF TypeOK, Config, Revision, Subscription
<1>3. QED BY <1>1, <1>2, CoreKept, WorkKept, NotReading DEF IInv

LEMMA IdleLocals ==
  ASSUME IInv, phase \notin Reading
  PROVE  after = 0 /\ users \in [Students -> Revision] /\ \A s \in Students : users[s] = 0
BY DEF IInv, ListInv, TypeOK

LEMMA TaskInv ==
  ASSUME IInv, ServiceStarts \/ SyncPreferences \/ CalibratePreferences \/ TaskFails
               \/ ServiceStops \/ ReplayAfterCalibration \/ PreferenceChanges \/ NoMoreChanges
  PROVE  IInv'
<1>t. /\ TypeOK /\ PageInv /\ Len(log) \in Nat /\ 0 \in Revision /\ Revision = 0..Len(log)
      /\ cursor \in Int /\ cursor <= Len(log)
  BY DEF IInv, TypeOK, Revision
<1>z. ASSUME ForgetLocals
      PROVE  /\ snapshot' \in Revision /\ upto' \in Revision /\ todo' \in SUBSET Students
             /\ after' = 0 /\ users' \in [Students -> Revision] /\ \A s \in Students : users'[s] = 0
  BY <1>t, <1>z DEF ForgetLocals
<1>r. ASSUME Resync
      PROVE  /\ phase' \in {"snapshot", "fetch"} /\ task' \in {"none", "rebuild"}
             /\ phase' = "fetch" => cursor >= 0
  BY <1>t, <1>r DEF Resync, NeedsRebuild
<1>1. CASE ServiceStarts
  <2>1. phase \notin Reading
    BY <1>1 DEF ServiceStarts, Reading
  <2>2. PageInv'
    BY <1>1 DEF ServiceStarts, PageInv
  <2>3. QED BY <1>1, <1>t, <2>1, <2>2, IdleLocals, LocalStep
            DEF ServiceStarts, Phase, Reading, TypeOK, feedVars, subVars
<1>2. CASE SyncPreferences
  <2>1. phase \notin Reading
    BY <1>2 DEF SyncPreferences, Reading
  <2>2. PageInv'
    BY <1>2, <1>r DEF SyncPreferences, PageInv, subVars
  <2>3. QED BY <1>2, <1>t, <1>r, <2>1, <2>2, IdleLocals, LocalStep
            DEF SyncPreferences, Phase, Reading, TypeOK, feedVars, subVars
<1>3. CASE CalibratePreferences
  <2>1. phase \notin Reading
    BY <1>3 DEF CalibratePreferences, Reading
  <2>2. PageInv'
    BY <1>3 DEF CalibratePreferences, PageInv
  <2>3. QED BY <1>3, <1>t, <2>1, <2>2, IdleLocals, LocalStep
            DEF CalibratePreferences, Phase, Reading, TypeOK, feedVars, subVars
<1>4. CASE TaskFails \/ ServiceStops
  <2>1. PageInv' /\ phase' \in Phase \ Reading /\ task' = "none"
    BY <1>4 DEF TaskFails, ServiceStops, PageInv, Phase, Reading
  <2>2. caughtUp' \in BOOLEAN /\ refresh' \in [Students -> Nat]
    <3>1. CASE TaskFails
      BY <1>t, <3>1 DEF TaskFails, TypeOK
    <3>2. CASE ServiceStops
      BY <3>2 DEF ServiceStops
    <3>3. QED BY <1>4, <3>1, <3>2
  <2>3. UNCHANGED <<config, log, feedUp, sub, cursor, work>> /\ ForgetLocals
    BY <1>4 DEF TaskFails, ServiceStops, feedVars, subVars
  <2>4. QED BY <1>z, <2>1, <2>2, <2>3, LocalStep
<1>5. CASE ReplayAfterCalibration
  <2>1. PageInv'
    <3>1. upto' = 0 /\ UNCHANGED cursor /\ phase' \in {"snapshot", "fetch"} /\ (phase' = "fetch" => cursor >= 0)
      BY <1>5, <1>r DEF ReplayAfterCalibration, ForgetLocals, subVars
    <3>2. QED BY <3>1 DEF PageInv
  <2>2. UNCHANGED <<config, log, feedUp, sub, cursor, work, caughtUp, refresh>> /\ ForgetLocals /\ Resync
    BY <1>5 DEF ReplayAfterCalibration, feedVars, subVars
  <2>3. phase' \in Phase \ Reading /\ task' \in {"none", "rebuild", "calibrate"}
    BY <1>r, <2>2 DEF Phase, Reading
  <2>4. caughtUp' \in BOOLEAN /\ refresh' \in [Students -> Nat]
    BY <1>t, <2>2 DEF TypeOK
  <2>5. QED BY <1>z, <2>1, <2>2, <2>3, <2>4, LocalStep
<1>6. CASE PreferenceChanges
  <2>1. phase \notin Reading /\ phase' \in Phase \ Reading
    BY <1>6 DEF PreferenceChanges, Reading, Phase
  <2>2. cursor >= 0 /\ cursor < Len(log)
    BY <1>6, <1>t DEF PreferenceChanges, PageInv
  <2>3. upto' \in Revision /\ cursor < upto'
    <3>1. CASE Len(log) - cursor <= ChangeLimit
      BY <1>6, <1>t, <2>2, <3>1 DEF PreferenceChanges
    <3>2. CASE ~(Len(log) - cursor <= ChangeLimit)
      <4>1. upto' = cursor + ChangeLimit /\ ChangeLimit \in Nat \ {0}
        BY <1>6, <3>2, ConstantsAssumption DEF PreferenceChanges
      <4>2. QED BY <1>t, <2>2, <3>2, <4>1
    <3>3. QED BY <3>1, <3>2
  <2>4. PageInv'
    BY <1>6, <2>2, <2>3 DEF PreferenceChanges, PageInv, subVars
  <2>5. QED BY <1>6, <1>t, <2>1, <2>3, <2>4, IdleLocals, LocalStep
            DEF PreferenceChanges, TypeOK, feedVars, subVars
<1>7. CASE NoMoreChanges
  <2>1. phase \notin Reading /\ phase' \in Phase \ Reading
    BY <1>7 DEF NoMoreChanges, Reading, Phase
  <2>2. PageInv'
    BY <1>7 DEF NoMoreChanges, PageInv
  <2>3. QED BY <1>7, <1>t, <2>1, <2>2, IdleLocals, LocalStep
            DEF NoMoreChanges, TypeOK, feedVars, subVars
<1>8. QED BY <1>1, <1>2, <1>3, <1>4, <1>5, <1>6, <1>7

-----------------------------------------------------------------------------
(* The refreshes *)

LEMMA RefreshInv ==
  ASSUME IInv, NEW s \in Students, RefreshUser(s) \/ SaveReservations(s)
  PROVE  IInv'
<1>1. /\ TypeOK /\ LogInv /\ RowInv /\ ListInv /\ DoneInv /\ PageInv /\ ConsumedAgrees /\ WorkIsCurrent
  BY DEF IInv
<1>2. UNCHANGED <<config, log, feedUp, sub, cursor, task, phase, snapshot, after, users, todo, upto, caughtUp>>
  BY DEF RefreshUser, SaveReservations, feedVars, subVars, taskVars
<1>3. refresh' \in [Students -> Nat]
  <2>1. refresh \in [Students -> Nat] /\ sub[s].version \in Nat
    BY <1>1 DEF TypeOK, Subscription
  <2>2. CASE RefreshUser(s)
    BY <2>1, <2>2 DEF RefreshUser
  <2>3. CASE SaveReservations(s)
    BY <2>1, <2>3 DEF SaveReservations
  <2>4. QED BY <2>2, <2>3
<1>4. work' \in SUBSET (Students \X Nat) /\ WorkIsCurrent'
  <2>1. CASE RefreshUser(s)
    BY <1>1, <2>1 DEF RefreshUser, subVars, TypeOK, WorkIsCurrent
  <2>2. CASE SaveReservations(s)
    BY <1>1, <2>2 DEF SaveReservations, StillCurrent, TypeOK, WorkIsCurrent
  <2>3. QED BY <2>1, <2>2
<1>5. TypeOK' /\ PageInv'
  BY <1>1, <1>2, <1>3, <1>4 DEF TypeOK, PageInv, Config, Revision, Subscription
<1>6. QED BY <1>1, <1>2, <1>4, <1>5, CoreKept, ListKept DEF IInv

-----------------------------------------------------------------------------
(* The paged read *)

LEMMA SnapshotInv ==
  ASSUME IInv, LatestLibraryPreferenceRevision
  PROVE  IInv'
<1>1. /\ TypeOK /\ LogInv /\ RowInv /\ ConsumedAgrees /\ WorkIsCurrent
      /\ after = 0 /\ users \in [Students -> Revision] /\ \A s \in Students : users[s] = 0
  BY IdleLocals DEF IInv, LatestLibraryPreferenceRevision, Reading
<1>2. /\ UNCHANGED <<config, log, feedUp, sub, cursor, work, task, after, users, todo, upto, caughtUp, refresh>>
      /\ snapshot' = Len(log) /\ phase' = "page"
  BY DEF LatestLibraryPreferenceRevision, feedVars, subVars
<1>3. /\ Len(log) \in Nat /\ Revision = 0..Len(log) /\ cursor <= Len(log)
      /\ \A s \in Students : /\ config[s].revision \in 0..Len(log)
                             /\ sub[s].revision \in 0..Len(log)
                             /\ Id[s] \in Nat \ {0}
  BY <1>1, ConstantsAssumption DEF TypeOK, Revision, Config, Subscription
<1>4. TypeOK'
  BY <1>1, <1>2, <1>3 DEF TypeOK, Config, Subscription, Revision, Phase
<1>5. \A s \in Students : Lists(s)'
  BY <1>1, <1>2, <1>3 DEF Lists
<1>6. ListInv'
  BY <1>2, <1>3, <1>5 DEF ListInv, Reading
<1>7. DoneInv' /\ PageInv'
  BY <1>2 DEF DoneInv, PageInv
<1>8. QED BY <1>1, <1>2, <1>4, <1>6, <1>7, CoreKept, WorkKept DEF IInv

LEMMA ListedInv ==
  ASSUME IInv, NEW P \in SUBSET Students, ListLibraryReminderUsers(P)
  PROVE  IInv'
<1>1. /\ TypeOK /\ LogInv /\ RowInv /\ ListInv /\ ConsumedAgrees /\ WorkIsCurrent /\ phase = "page"
  BY DEF IInv, ListLibraryReminderUsers
<1>2. /\ UNCHANGED <<config, log, feedUp, sub, cursor, work, task, phase, snapshot, todo, upto, caughtUp, refresh>>
      /\ users' = [s \in Students |-> IF s \in P THEN config[s].revision ELSE users[s]]
      /\ IsPage(P)
  BY DEF ListLibraryReminderUsers, feedVars, subVars
<1>3. PICK last \in P : (\A s \in P : Id[s] <= Id[last]) /\ after' = Id[last]
  BY DEF ListLibraryReminderUsers
<1>4. /\ Len(log) \in Nat /\ Revision = 0..Len(log) /\ snapshot \in Nat /\ after \in Nat
      /\ \A s \in Students : config[s].revision \in 0..Len(log) /\ Id[s] \in Nat /\ users[s] \in Nat
  BY <1>1, ConstantsAssumption DEF TypeOK, Revision, Config
<1>5. TypeOK'
  <2>1. users' \in [Students -> Revision]
    BY <1>1, <1>2, <1>4 DEF TypeOK
  <2>2. QED BY <1>1, <1>2, <1>3, <1>4, <2>1 DEF TypeOK, Config, Subscription, Revision
<1>6. ASSUME NEW s \in Students PROVE Lists(s)'
  <2>0. Lists(s) /\ cursor <= snapshot
    BY <1>1 DEF ListInv, Reading
  <2>1. CASE s \in P
    <3>1. LibraryOn(s) /\ config[s].revision <= snapshot /\ users'[s] = config[s].revision
      BY <1>2, <2>1 DEF IsPage, Listed
    <3>2. config[s].revision > 0 /\ \A r \in Entries(s) : r <= config[s].revision
      BY <1>1, <3>1 DEF LogInv
    <3>3. QED BY <1>2, <1>4, <2>0, <3>1, <3>2 DEF Lists, Entries, LibraryOn
  <2>2. CASE s \notin P
    <3>1. users'[s] = users[s]
      BY <1>2, <2>2
    <3>2. config[s].revision <= snapshot /\ LibraryOn(s) /\ Id[s] <= after' => Id[s] <= after
      BY <1>2, <1>3, <1>4, <2>2 DEF IsPage, Listed
    <3>3. QED BY <1>1, <1>2, <2>0, <3>1, <3>2 DEF Lists, Entries, LibraryOn
  <2>3. QED BY <2>1, <2>2
<1>7. ListInv'
  BY <1>1, <1>2, <1>6 DEF ListInv, Reading
<1>8. DoneInv' /\ PageInv'
  BY <1>1, <1>2 DEF DoneInv, PageInv
<1>9. QED BY <1>1, <1>2, <1>5, <1>7, <1>8, CoreKept, WorkKept DEF IInv

(* The end of a phase of the reconciliation changes todo and phase only. *)
LEMMA PhaseInv ==
  ASSUME IInv, phase \in Reading, phase' \in {"reconcile", "missing"}, phase = "page" => Listed = {},
         todo' \in SUBSET Students, DoneInv',
         UNCHANGED <<feedVars, subVars, task, snapshot, after, users, upto, caughtUp, refresh>>
  PROVE  IInv'
<1>1. /\ TypeOK /\ LogInv /\ RowInv /\ ListInv /\ ConsumedAgrees /\ WorkIsCurrent
      /\ UNCHANGED <<config, log, feedUp, sub, cursor, work, task, snapshot, after, users, upto, caughtUp, refresh>>
  BY DEF IInv, feedVars, subVars
<1>2. TypeOK'
  BY <1>1 DEF TypeOK, Config, Subscription, Revision, Phase
<1>3. ASSUME NEW s \in Students PROVE Lists(s)'
  <2>1. Lists(s)
    BY <1>1 DEF ListInv
  <2>2. Id[s] \in Nat /\ after \in Nat
    BY <1>1, ConstantsAssumption DEF TypeOK
  <2>3. phase = "page" /\ LibraryOn(s) /\ config[s].revision <= snapshot => Id[s] <= after
    BY <2>2 DEF Listed
  <2>4. QED BY <1>1, <2>1, <2>3 DEF Lists, Entries, LibraryOn
<1>4. ListInv' /\ PageInv'
  BY <1>1, <1>3 DEF ListInv, Reading, PageInv
<1>5. QED BY <1>1, <1>2, <1>4, CoreKept, WorkKept DEF IInv

LEMMA LastPageInv == ASSUME IInv, LastPage PROVE IInv'
<1>1. TypeOK /\ RowInv /\ phase = "page" /\ Listed = {}
  BY DEF IInv, LastPage
<1>2. /\ UNCHANGED <<feedVars, subVars, task, snapshot, after, users, upto, caughtUp, refresh>>
      /\ phase' = "reconcile" /\ todo' = {s \in Students : sub[s].exists}
  BY DEF LastPage
<1>3. DoneInv'
  BY <1>2 DEF DoneInv, subVars
<1>4. QED BY <1>1, <1>2, <1>3, PhaseInv DEF Reading

LEMMA RowsReconciledInv == ASSUME IInv, RowsReconciled PROVE IInv'
<1>1. TypeOK /\ RowInv /\ DoneInv /\ phase = "reconcile" /\ todo = {}
  BY DEF IInv, RowsReconciled
<1>2. /\ UNCHANGED <<feedVars, subVars, task, snapshot, after, users, upto, caughtUp, refresh>>
      /\ phase' = "missing" /\ todo' = {s \in Students : users[s] > 0 /\ ~sub[s].exists}
  BY DEF RowsReconciled
<1>3. UNCHANGED <<sub, users>>
  BY <1>2 DEF subVars
<1>4. DoneInv'
  <2>1. ASSUME NEW s \in Students \ todo'
        PROVE  (sub'[s].enabled <=> users'[s] > 0) /\ (sub'[s].enabled => users'[s] <= sub'[s].revision)
    <3>1. CASE sub[s].exists
      BY <1>1, <1>3, <3>1 DEF DoneInv
    <3>2. CASE ~sub[s].exists
      BY <1>1, <1>2, <1>3, <2>1, <3>2 DEF RowInv
    <3>3. QED BY <3>1, <3>2
  <2>2. QED BY <1>2, <1>3, <2>1 DEF DoneInv
<1>5. QED BY <1>1, <1>2, <1>4, PhaseInv DEF Reading

-----------------------------------------------------------------------------
(* The reconciliation *)

(* A transaction that visits some rows: each then says what the list says, *)
(* under the later of the revisions of the row and of the list.            *)
LEMMA VisitInv ==
  ASSUME IInv, phase \in {"reconcile", "missing"},
         UNCHANGED <<config, log, cursor, phase, snapshot, after, users>>, todo' \in SUBSET Students,
         \A s \in Students :
           \/ sub'[s] = sub[s] /\ (s \in todo' <=> s \in todo)
           \/ /\ s \notin todo'
              /\ sub'[s].exists /\ (sub'[s].enabled <=> users[s] > 0)
              /\ sub'[s].revision \in {users[s], sub[s].revision}
              /\ sub'[s].revision > 0 /\ users[s] <= sub'[s].revision
  PROVE  LogInv' /\ RowInv' /\ ListInv' /\ DoneInv' /\ ConsumedAgrees'
<1>1. /\ TypeOK /\ LogInv /\ RowInv /\ ListInv /\ DoneInv /\ ConsumedAgrees
      /\ phase \in Reading /\ phase # "page"
  BY DEF IInv, Reading
<1>2. /\ cursor <= snapshot /\ cursor \in Int /\ snapshot \in Nat
      /\ \A s \in Students : /\ Lists(s)
                             /\ users[s] \in Nat /\ sub[s].revision \in Nat /\ config[s].revision \in Nat
      /\ \A s \in Students : Entries(s) \subseteq Nat
  BY <1>1 DEF ListInv, TypeOK, Revision, Config, Subscription, Entries
<1>3. \A s \in Students : /\ Entries(s)' = Entries(s)
                         /\ (LibraryOn(s)' <=> LibraryOn(s))
                         /\ (Announced(s)' <=> Announced(s))
  BY DEF Entries, LibraryOn, Announced
<1>4. ASSUME NEW s \in Students
      PROVE  /\ sub'[s].enabled => sub'[s].exists
             /\ sub'[s].exists <=> sub'[s].revision > 0
             /\ sub'[s].revision <= config[s].revision
             /\ sub'[s].exists /\ Announced(s) /\ sub'[s].revision = config[s].revision
                  => (sub'[s].enabled <=> LibraryOn(s))
             /\ sub'[s].enabled => \A r \in Entries(s) : r <= cursor => r <= sub'[s].revision
             /\ sub'[s].revision <= snapshot
             /\ Announced(s) /\ config[s].revision <= cursor => (sub'[s].enabled <=> LibraryOn(s))
  <2>1. CASE sub'[s] = sub[s]
    BY <1>1, <1>2, <2>1 DEF RowInv, Lists, ConsumedAgrees
  <2>2. CASE /\ sub'[s].exists /\ (sub'[s].enabled <=> users[s] > 0)
             /\ sub'[s].revision \in {users[s], sub[s].revision}
             /\ sub'[s].revision > 0 /\ users[s] <= sub'[s].revision
    <3>1. /\ sub[s].revision <= snapshot /\ users[s] <= snapshot
          /\ users[s] <= config[s].revision /\ sub[s].revision <= config[s].revision
          /\ config[s].revision <= snapshot => (users[s] > 0 <=> LibraryOn(s))
          /\ users[s] > 0 => \A r \in Entries(s) : r <= snapshot => r <= users[s]
      BY <1>1, <1>2 DEF Lists, RowInv
    <3>2. sub'[s].revision \in Nat /\ sub'[s].revision <= snapshot /\ sub'[s].revision <= config[s].revision
      BY <1>2, <2>2, <3>1
    <3>3. sub'[s].enabled => \A r \in Entries(s) : r <= cursor => r <= sub'[s].revision
      BY <1>2, <2>2, <3>1, <3>2
    <3>4. QED BY <1>2, <2>2, <3>1, <3>2, <3>3
  <2>3. QED BY <2>1, <2>2
<1>5. LogInv' /\ RowInv' /\ ConsumedAgrees'
  <2>1. LogInv'
    BY <1>1, <1>3 DEF LogInv
  <2>2. RowInv'
    BY <1>3, <1>4 DEF RowInv
  <2>3. QED BY <1>3, <1>4, <2>1, <2>2 DEF ConsumedAgrees
<1>6. ListInv'
  <2>1. \A s \in Students : Lists(s)'
    BY <1>2, <1>3, <1>4 DEF Lists
  <2>2. QED BY <1>1, <1>2, <2>1 DEF ListInv
<1>7. DoneInv'
  <2>1. phase' = "missing" => \A s \in Students : s \in todo' => users'[s] > 0 /\ ~sub'[s].exists
    BY <1>1 DEF DoneInv
  <2>2. ASSUME NEW s \in Students \ todo', sub'[s].exists \/ phase' = "missing"
        PROVE  (sub'[s].enabled <=> users'[s] > 0) /\ (sub'[s].enabled => users'[s] <= sub'[s].revision)
    BY <1>1, <2>2 DEF DoneInv
  <2>3. phase' = "reconcile" => \A s \in Students : s \in todo' => sub'[s].exists
    BY <1>1 DEF DoneInv
  <2>4. QED BY <2>1, <2>2, <2>3 DEF DoneInv
<1>8. QED BY <1>5, <1>6, <1>7

(* What a batch writes into an existing row. *)
LEMMA ReconciledFacts ==
  ASSUME TypeOK, NEW s \in Students, sub[s].exists, sub[s].revision > 0
  PROVE  /\ Reconciled(s) \in Subscription
         /\ Reconciled(s).exists
         /\ Reconciled(s).enabled <=> users[s] > 0
         /\ Reconciled(s).revision = IF users[s] > sub[s].revision THEN users[s] ELSE sub[s].revision
         /\ Reconciled(s).revision \in {users[s], sub[s].revision}
         /\ Reconciled(s).revision > 0 /\ users[s] <= Reconciled(s).revision
         /\ Reconciled(s).version = IF Reset(s) THEN sub[s].version + 1 ELSE sub[s].version
<1>1. /\ sub[s] \in Subscription /\ sub[s].version \in Nat
      /\ sub[s].revision \in Revision /\ users[s] \in Revision
      /\ sub[s].revision \in Nat /\ users[s] \in Nat
  BY DEF TypeOK, Subscription, Revision
<1>2. PICK b \in BOOLEAN : b <=> users[s] > 0
  OBVIOUS
<1>3. PICK r \in Revision : r = IF users[s] > sub[s].revision THEN users[s] ELSE sub[s].revision
  BY <1>1
<1>4. PICK v \in Nat : v = IF Reset(s) THEN sub[s].version + 1 ELSE sub[s].version
  BY <1>1
<1>5. (users[s] > 0) = b
  BY <1>2
<1>6. Reconciled(s) = [sub[s] EXCEPT !.enabled = b, !.revision = r, !.version = v]
  BY <1>1, <1>3, <1>4, <1>5 DEF Reconciled, Subscription
<1>7. /\ Reconciled(s) \in Subscription /\ Reconciled(s).exists = sub[s].exists
      /\ Reconciled(s).enabled = b /\ Reconciled(s).revision = r /\ Reconciled(s).version = v
  BY <1>1, <1>6 DEF Subscription
<1>8. Reconciled(s).enabled <=> users[s] > 0
  BY <1>2, <1>7, Zenon
<1>9. /\ Reconciled(s).revision = IF users[s] > sub[s].revision THEN users[s] ELSE sub[s].revision
      /\ Reconciled(s).version = IF Reset(s) THEN sub[s].version + 1 ELSE sub[s].version
  BY <1>3, <1>4, <1>7
<1>10. /\ Reconciled(s).revision \in {users[s], sub[s].revision}
       /\ Reconciled(s).revision > 0 /\ users[s] <= Reconciled(s).revision
  <2>1. r \in {users[s], sub[s].revision} /\ r > 0 /\ users[s] <= r
    BY <1>1, <1>3
  <2>2. QED BY <1>7, <2>1
<1>11. QED BY <1>7, <1>8, <1>9, <1>10

LEMMA ReconcileBatchInv ==
  ASSUME IInv, NEW B \in SUBSET Students, ReconcileBatch(B)
  PROVE  IInv'
<1>1. /\ TypeOK /\ RowInv /\ PageInv /\ DoneInv /\ WorkIsCurrent
      /\ phase = "reconcile" /\ B \subseteq todo /\ todo \subseteq Students
  BY DEF IInv, ReconcileBatch, TypeOK
<1>2. /\ UNCHANGED <<config, log, feedUp, cursor, task, phase, snapshot, after, users, upto, caughtUp, refresh>>
      /\ sub' = [s \in Students |-> IF s \in B THEN Reconciled(s) ELSE sub[s]]
      /\ work' = WorkWithout({s \in B : Reset(s)})
      /\ todo' = todo \ B
  BY DEF ReconcileBatch, feedVars
<1>3. \A s \in B : sub[s].exists /\ sub[s].revision > 0
  BY <1>1 DEF DoneInv, RowInv
<1>4. ASSUME NEW s \in B
      PROVE  /\ sub'[s] \in Subscription
             /\ sub'[s].exists
             /\ sub'[s].enabled <=> users[s] > 0
             /\ sub'[s].revision \in {users[s], sub[s].revision}
             /\ sub'[s].revision > 0 /\ users[s] <= sub'[s].revision
             /\ sub'[s].version = IF Reset(s) THEN sub[s].version + 1 ELSE sub[s].version
  <2>1. sub'[s] = Reconciled(s)
    BY <1>2
  <2>2. QED BY <1>1, <1>3, <2>1, ReconciledFacts, Zenon
<1>5. TypeOK'
  <2>1. sub' \in [Students -> Subscription]
    BY <1>1, <1>2, <1>4 DEF TypeOK
  <2>2. work' \in SUBSET (Students \X Nat) /\ todo' \in SUBSET Students
    BY <1>1, <1>2 DEF TypeOK, WorkWithout
  <2>3. QED BY <1>1, <1>2, <2>1, <2>2 DEF TypeOK, Config, Subscription, Revision
<1>6. LogInv' /\ RowInv' /\ ListInv' /\ DoneInv' /\ ConsumedAgrees'
  <2>1. ASSUME NEW s \in Students
        PROVE  \/ sub'[s] = sub[s] /\ (s \in todo' <=> s \in todo)
               \/ /\ s \notin todo'
                  /\ sub'[s].exists /\ (sub'[s].enabled <=> users[s] > 0)
                  /\ sub'[s].revision \in {users[s], sub[s].revision}
                  /\ sub'[s].revision > 0 /\ users[s] <= sub'[s].revision
    <3>1. CASE s \in B
      <4>1. s \notin todo'
        BY <1>2, <3>1
      <4>2. QED BY <1>4, <3>1, <4>1
    <3>2. CASE s \notin B
      BY <1>2, <3>2
    <3>3. QED BY <3>1, <3>2
  <2>2. todo' \in SUBSET Students
    BY <1>1, <1>2
  <2>3. QED BY <1>1, <1>2, <2>1, <2>2, VisitInv
<1>7. WorkIsCurrent'
  <2>1. ASSUME NEW w \in work' PROVE sub'[w[1]].enabled /\ sub'[w[1]].version = w[2]
    <3>1. w \in work /\ w[1] \in Students /\ w[1] \notin {s \in B : Reset(s)}
      BY <1>1, <1>2 DEF WorkWithout, TypeOK
    <3>2. sub[w[1]].enabled /\ sub[w[1]].version = w[2]
      BY <1>1, <3>1 DEF WorkIsCurrent
    <3>3. CASE w[1] \in B
      <4>1. ~Reset(w[1])
        BY <3>1, <3>3
      <4>2. users[w[1]] > 0
        BY <3>2, <4>1 DEF Reset
      <4>3. QED BY <1>4, <3>2, <3>3, <4>1, <4>2
    <3>4. CASE w[1] \notin B
      BY <1>2, <3>1, <3>2, <3>4
    <3>5. QED BY <3>3, <3>4
  <2>2. QED BY <2>1 DEF WorkIsCurrent
<1>8. PageInv'
  BY <1>1, <1>2 DEF PageInv
<1>9. QED BY <1>5, <1>6, <1>7, <1>8 DEF IInv

LEMMA CreateMissingInv ==
  ASSUME IInv, NEW B \in SUBSET Students, CreateMissing(B)
  PROVE  IInv'
<1>1. /\ TypeOK /\ RowInv /\ PageInv /\ DoneInv /\ WorkIsCurrent
      /\ phase = "missing" /\ B \subseteq todo /\ todo \subseteq Students
  BY DEF IInv, CreateMissing, TypeOK
<1>2. /\ UNCHANGED <<config, log, feedUp, cursor, work, task, phase, snapshot, after, users, upto, caughtUp, refresh>>
      /\ sub' = [s \in Students |->
                   IF s \in B THEN [exists |-> TRUE, enabled |-> TRUE, revision |-> users[s], version |-> 1]
                              ELSE sub[s]]
      /\ todo' = todo \ B
  BY DEF CreateMissing, feedVars
<1>3. \A s \in B : users[s] > 0 /\ ~sub[s].exists /\ ~sub[s].enabled /\ users[s] \in Revision /\ users[s] \in Nat
  BY <1>1 DEF DoneInv, RowInv, TypeOK, Revision
<1>4. TypeOK'
  <2>1. \A s \in B : [exists |-> TRUE, enabled |-> TRUE, revision |-> users[s], version |-> 1] \in Subscription
    BY <1>3 DEF Subscription
  <2>2. sub' \in [Students -> Subscription]
    BY <1>1, <1>2, <2>1 DEF TypeOK
  <2>3. QED BY <1>1, <1>2, <2>2 DEF TypeOK, Config, Subscription, Revision
<1>5. LogInv' /\ RowInv' /\ ListInv' /\ DoneInv' /\ ConsumedAgrees'
  <2>1. ASSUME NEW s \in Students
        PROVE  \/ sub'[s] = sub[s] /\ (s \in todo' <=> s \in todo)
               \/ /\ s \notin todo'
                  /\ sub'[s].exists /\ (sub'[s].enabled <=> users[s] > 0)
                  /\ sub'[s].revision \in {users[s], sub[s].revision}
                  /\ sub'[s].revision > 0 /\ users[s] <= sub'[s].revision
    <3>1. CASE s \in B
      <4>1. sub'[s] = [exists |-> TRUE, enabled |-> TRUE, revision |-> users[s], version |-> 1] /\ s \notin todo'
        BY <1>2, <3>1
      <4>2. QED BY <1>3, <3>1, <4>1
    <3>2. CASE s \notin B
      BY <1>2, <3>2
    <3>3. QED BY <3>1, <3>2
  <2>2. todo' \in SUBSET Students
    BY <1>1, <1>2
  <2>3. QED BY <1>1, <1>2, <2>1, <2>2, VisitInv
<1>6. WorkIsCurrent'
  <2>1. ASSUME NEW w \in work' PROVE sub'[w[1]].enabled /\ sub'[w[1]].version = w[2]
    <3>1. w \in work /\ w[1] \in Students
      BY <1>1, <1>2 DEF TypeOK
    <3>2. sub[w[1]].enabled /\ sub[w[1]].version = w[2]
      BY <1>1, <3>1 DEF WorkIsCurrent
    <3>3. w[1] \notin B
      BY <1>3, <3>2
    <3>4. QED BY <1>2, <3>1, <3>2, <3>3
  <2>2. QED BY <2>1 DEF WorkIsCurrent
<1>7. PageInv'
  BY <1>1, <1>2 DEF PageInv
<1>8. QED BY <1>4, <1>5, <1>6, <1>7 DEF IInv

LEMMA SaveCursorInv == ASSUME IInv, SaveCursor PROVE IInv'
<1>1. /\ TypeOK /\ LogInv /\ RowInv /\ ListInv /\ DoneInv /\ ConsumedAgrees /\ WorkIsCurrent
      /\ phase = "missing" /\ todo = {}
  BY DEF IInv, SaveCursor
<1>2. /\ UNCHANGED <<config, log, feedUp, sub, work, caughtUp, refresh>>
      /\ cursor' = snapshot /\ task' = "none" /\ phase' = "fetch" /\ ForgetLocals
  BY DEF SaveCursor, feedVars
<1>3. /\ cursor <= snapshot /\ cursor \in Int /\ snapshot \in Nat /\ snapshot \in Revision
      /\ \A s \in Students : /\ Lists(s)
                             /\ users[s] \in Nat /\ sub[s].revision \in Nat /\ config[s].revision \in Nat
      /\ \A s \in Students : Entries(s) \subseteq Nat
  BY <1>1 DEF ListInv, TypeOK, Revision, Config, Subscription, Entries, Reading
<1>4. TypeOK'
  <2>1. /\ snapshot' \in Revision /\ upto' \in Revision /\ todo' \in SUBSET Students
        /\ after' \in Nat /\ users' \in [Students -> Revision]
    <3>1. 0 \in Revision
      BY <1>1 DEF TypeOK, Revision
    <3>2. QED BY <1>2, <3>1 DEF ForgetLocals
  <2>2. QED BY <1>1, <1>2, <1>3, <2>1 DEF TypeOK, Config, Subscription, Revision, Phase
<1>5. \A s \in Students : /\ Entries(s)' = Entries(s)
                         /\ (LibraryOn(s)' <=> LibraryOn(s))
                         /\ (Announced(s)' <=> Announced(s))
  BY <1>2 DEF Entries, LibraryOn, Announced
<1>6. ASSUME NEW s \in Students
      PROVE  (sub[s].enabled => users[s] > 0 /\ users[s] <= sub[s].revision) /\ (users[s] > 0 => sub[s].enabled)
  BY <1>1 DEF DoneInv
<1>7. LogInv'
  BY <1>1, <1>2, <1>5 DEF LogInv
<1>8. RowInv'
  <2>1. ASSUME NEW s \in Students, sub[s].enabled, NEW r \in Entries(s), r <= snapshot
        PROVE  r <= sub[s].revision
    <3>1. users[s] > 0 /\ users[s] <= sub[s].revision
      BY <1>6, <2>1
    <3>2. r <= users[s] /\ r \in Nat
      BY <1>3, <2>1, <3>1 DEF Lists
    <3>3. QED BY <1>3, <3>1, <3>2
  <2>2. QED BY <1>1, <1>2, <1>5, <2>1 DEF RowInv
<1>9. ConsumedAgrees'
  <2>1. ASSUME NEW s \in Students, config[s].revision <= snapshot
        PROVE  sub[s].enabled <=> LibraryOn(s)
    <3>1. users[s] > 0 <=> LibraryOn(s)
      BY <1>1, <1>3, <2>1 DEF Lists
    <3>2. QED BY <1>6, <3>1
  <2>2. QED BY <1>2, <1>5, <2>1 DEF ConsumedAgrees
<1>10. ListInv' /\ DoneInv' /\ PageInv'
  <2>1. PageInv'
    BY <1>2, <1>3 DEF PageInv
  <2>2. QED BY <1>2, <2>1, NotReading DEF ForgetLocals, Reading
<1>11. QED BY <1>1, <1>2, <1>4, <1>7, <1>8, <1>9, <1>10, WorkKept DEF IInv

-----------------------------------------------------------------------------
(* The replay *)

LEMMA LeastRevision ==
  ASSUME NEW S \in SUBSET Nat, S # {}
  PROVE  \E x \in S : \A y \in S : x <= y
<1> DEFINE Less == OpToRel(<, Nat)
<1>1. \A x, y \in Nat : y < x => <<y, x>> \in Less
  BY DEF OpToRel
<1>2. IsWellFoundedOn(Less, Nat)
  BY NatLessThanWellFounded
<1> HIDE DEF Less
<1>3. \E x \in S : \A y \in S : <<y, x>> \notin Less
  BY <1>2, WFMin
<1>4. PICK x \in S : \A y \in S : <<y, x>> \notin Less
  BY <1>3
<1>5. ASSUME NEW y \in S PROVE x <= y
  <2>1. x \in Nat /\ y \in Nat
    OBVIOUS
  <2>2. ~(y < x)
    BY <1>1, <1>4, <2>1
  <2>3. QED BY <2>1, <2>2
<1>6. QED BY <1>5

LEMMA LastRevision ==
  ASSUME NEW n \in Nat, NEW S \in SUBSET (0..n), S # {}
  PROVE  \E x \in S : \A y \in S : y <= x
<1>1. \A x \in S : x \in Nat /\ n - x \in Nat
  OBVIOUS
<1> DEFINE T == {n - x : x \in S}
<1>2. T \in SUBSET Nat
  BY <1>1
<1>3. T # {}
  OBVIOUS
<1>4. \A y \in S : n - y \in T
  OBVIOUS
<1>5. \A t \in T : \E x \in S : t = n - x
  OBVIOUS
<1> HIDE DEF T
<1>6. PICK t \in T : \A u \in T : t <= u
  BY <1>2, <1>3, LeastRevision
<1>7. PICK x \in S : t = n - x
  BY <1>5
<1>8. ASSUME NEW y \in S PROVE y <= x
  <2>1. n - x <= n - y
    BY <1>4, <1>6, <1>7
  <2>2. QED BY <1>1, <2>1
<1>9. QED BY <1>8

LEMMA NewsFacts ==
  ASSUME IInv, phase = "apply", NEW s \in Students
  PROVE  /\ cursor \in Nat /\ upto \in Nat /\ cursor < upto /\ upto <= Len(log) /\ Len(log) \in Nat
         /\ sub[s] \in Subscription /\ sub[s].revision \in Nat /\ sub[s].version \in Nat
         /\ config[s].revision \in 0..Len(log)
         /\ Entries(s) \subseteq 1..Len(log)
         /\ News(s) = {r \in Entries(s) : cursor < r /\ r <= upto /\ sub[s].revision < r}
         /\ News(s) \subseteq 1..Len(log)
         /\ \A r \in News(s) : log[r].enabled \in BOOLEAN
         /\ IsFiniteSet(Flips(s)) /\ Cardinality(Flips(s)) \in Nat
<1>1. /\ cursor \in Nat /\ upto \in Nat /\ cursor < upto /\ upto <= Len(log) /\ Len(log) \in Nat
      /\ sub[s] \in Subscription /\ sub[s].revision \in Nat /\ sub[s].version \in Nat
      /\ config[s].revision \in 0..Len(log)
  BY DEF IInv, TypeOK, PageInv, Revision, Subscription, Config
<1>2. Entries(s) \subseteq 1..Len(log)
  BY DEF Entries
<1>3. News(s) = {r \in Entries(s) : cursor < r /\ r <= upto /\ sub[s].revision < r}
  BY <1>1 DEF News, Entries
<1>4. News(s) \subseteq 1..Len(log)
  BY <1>2, <1>3
<1>5. \A r \in 1..Len(log) : log[r] \in Change
  BY DEF IInv, TypeOK
<1>6. \A r \in News(s) : log[r].enabled \in BOOLEAN
  BY <1>4, <1>5 DEF Change
<1>7. Flips(s) \subseteq 1..Len(log)
  BY <1>4 DEF Flips
<1>8. IsFiniteSet(Flips(s))
  <2>1. IsFiniteSet(1..Len(log))
    BY <1>1, FS_Interval
  <2>2. QED BY <1>7, <2>1, FS_Subset
<1>9. Cardinality(Flips(s)) \in Nat
  BY <1>8, FS_CardinalityType
<1>10. QED BY <1>1, <1>2, <1>3, <1>4, <1>6, <1>8, <1>9

(* What a page of changes writes into a row. *)
LEMMA ReplayedFacts ==
  ASSUME IInv, phase = "apply", NEW s \in Students, News(s) # {}
  PROVE  \E last \in News(s) :
           /\ \A r \in News(s) : r <= last
           /\ Replayed(s) = [exists |-> TRUE, enabled |-> log[last].enabled, revision |-> last,
                             version |-> (IF sub[s].exists THEN sub[s].version ELSE 1)
                                           + Cardinality(Flips(s))]
           /\ Replayed(s) \in Subscription
<1> DEFINE last == CHOOSE r \in News(s) : \A q \in News(s) : q <= r
           first == IF sub[s].exists THEN sub[s].version ELSE 1
<1>1. \E r \in News(s) : \A q \in News(s) : q <= r
  <2>1. News(s) \in SUBSET (0..Len(log)) /\ Len(log) \in Nat
    BY NewsFacts
  <2>2. QED BY <2>1, LastRevision
<1>2. last \in News(s) /\ \A q \in News(s) : q <= last
  BY <1>1
<1>3. Replayed(s) = [exists |-> TRUE, enabled |-> log[last].enabled, revision |-> last,
                     version |-> first + Cardinality(Flips(s))]
  BY DEF Replayed
<1>4. first + Cardinality(Flips(s)) \in Nat
  BY NewsFacts
<1>5. last \in Revision /\ log[last].enabled \in BOOLEAN
  BY <1>2, NewsFacts DEF Revision
<1> HIDE DEF last, first
<1>6. Replayed(s) \in Subscription
  BY <1>3, <1>4, <1>5 DEF Subscription
<1>7. QED BY <1>2, <1>3, <1>6 DEF last, first

(* A page that only turns an enabled preference on changes no version. *)
LEMMA AllOnFlipsNone ==
  ASSUME IInv, phase = "apply", NEW s \in Students, sub[s].exists, sub[s].enabled,
         \A r \in News(s) : log[r].enabled
  PROVE  Flips(s) = {}
<1>1. ASSUME NEW r \in News(s) PROVE log[r].enabled = Before(s, r)
  <2> DEFINE earlier == {q \in News(s) : q < r}
  <2>1. CASE earlier = {}
    <3>1. Before(s, r) = sub[s].enabled
      BY <2>1 DEF Before
    <3>2. log[r].enabled \in BOOLEAN /\ sub[s].enabled \in BOOLEAN
      BY NewsFacts DEF Subscription
    <3>3. QED BY <3>1, <3>2, Zenon
  <2>2. CASE earlier # {}
    <3> DEFINE p == CHOOSE q \in earlier : \A k \in earlier : k <= q
    <3>1. Before(s, r) = log[p].enabled
      BY <2>2 DEF Before
    <3>2. \E q \in earlier : \A k \in earlier : k <= q
      <4>1. earlier \in SUBSET (0..Len(log)) /\ Len(log) \in Nat
        BY NewsFacts
      <4>2. QED BY <2>2, <4>1, LastRevision
    <3>3. p \in News(s)
      BY <3>2
    <3> HIDE DEF p
    <3>4. log[r].enabled \in BOOLEAN /\ log[p].enabled \in BOOLEAN /\ log[r].enabled /\ log[p].enabled
      BY <3>3, NewsFacts
    <3>5. QED BY <3>1, <3>4, Zenon
  <2>3. QED BY <2>1, <2>2
<1>2. QED BY <1>1 DEF Flips

LEMMA ApplyInv == ASSUME IInv, ApplyPreferenceChanges PROVE IInv'
<1>1. /\ TypeOK /\ LogInv /\ RowInv /\ ListInv /\ ConsumedAgrees /\ WorkIsCurrent
      /\ phase = "apply" /\ phase \notin Reading
  BY DEF IInv, ApplyPreferenceChanges, Reading
<1>2. /\ UNCHANGED <<config, log, feedUp, task, snapshot, after, users, todo, caughtUp, refresh>>
      /\ sub' = [s \in Students |-> Replayed(s)]
      /\ work' = WorkWithout({s \in Students : \E r \in News(s) : ~log[r].enabled})
      /\ cursor' = upto /\ phase' = "fetch" /\ upto' = 0
  BY DEF ApplyPreferenceChanges, feedVars
<1>3. \A s \in Students : News(s) = {} => sub'[s] = sub[s]
  BY <1>2 DEF Replayed
<1>4. ASSUME NEW s \in Students, News(s) # {}
      PROVE  \E last \in News(s) :
               /\ \A r \in News(s) : r <= last
               /\ sub'[s] \in Subscription /\ sub'[s].exists
               /\ sub'[s].enabled = log[last].enabled /\ sub'[s].revision = last
               /\ sub'[s].version = (IF sub[s].exists THEN sub[s].version ELSE 1) + Cardinality(Flips(s))
  <2>1. sub'[s] = Replayed(s)
    BY <1>2
  <2>2. PICK last \in News(s) :
           /\ \A r \in News(s) : r <= last
           /\ Replayed(s) = [exists |-> TRUE, enabled |-> log[last].enabled, revision |-> last,
                             version |-> (IF sub[s].exists THEN sub[s].version ELSE 1)
                                           + Cardinality(Flips(s))]
           /\ Replayed(s) \in Subscription
    BY <1>1, <1>4, ReplayedFacts
  <2>3. QED BY <2>1, <2>2
<1>5. TypeOK'
  <2>1. \A s \in Students : sub'[s] \in Subscription
    BY <1>1, <1>3, <1>4 DEF TypeOK
  <2>2. sub' \in [Students -> Subscription]
    BY <1>2, <2>1
  <2>3. work' \in SUBSET (Students \X Nat)
    BY <1>1, <1>2 DEF TypeOK, WorkWithout
  <2>4. upto \in Revision /\ 0 \in Revision
    BY <1>1 DEF TypeOK, Revision
  <2>5. QED BY <1>1, <1>2, <2>2, <2>3, <2>4 DEF TypeOK, Config, Subscription, Revision, Phase
<1>6. \A s \in Students : /\ Entries(s)' = Entries(s)
                         /\ (LibraryOn(s)' <=> LibraryOn(s))
                         /\ (Announced(s)' <=> Announced(s))
  BY <1>2 DEF Entries, LibraryOn, Announced
<1>7. ASSUME NEW s \in Students
      PROVE  /\ sub'[s].enabled => sub'[s].exists
             /\ sub'[s].exists <=> sub'[s].revision > 0
             /\ sub'[s].revision <= config[s].revision
             /\ sub'[s].exists /\ Announced(s) /\ sub'[s].revision = config[s].revision
                  => (sub'[s].enabled <=> LibraryOn(s))
             /\ \A r \in Entries(s) : r <= upto => (r <= cursor /\ ~sub'[s].enabled) \/ r <= sub'[s].revision
             /\ config[s].revision <= cursor \/ config[s].revision > upto
                   \/ sub'[s].revision = config[s].revision
             /\ config[s].revision <= cursor => sub'[s] = sub[s]
  <2>1. /\ cursor \in Nat /\ upto \in Nat /\ cursor < upto
        /\ sub[s].revision \in Nat /\ config[s].revision \in Nat
        /\ Entries(s) \subseteq Nat
        /\ News(s) = {r \in Entries(s) : cursor < r /\ r <= upto /\ sub[s].revision < r}
        /\ \A r \in Entries(s) : r <= config[s].revision
        /\ config[s].revision > 0 => config[s].revision \in Entries(s)
        /\ sub[s].revision <= config[s].revision
    BY <1>1, NewsFacts DEF LogInv, RowInv
  <2>2. CASE News(s) = {}
    <3>1. sub'[s] = sub[s]
      BY <1>3, <2>2
    <3>2. ASSUME NEW r \in Entries(s), r <= upto
          PROVE  r <= cursor \/ r <= sub[s].revision
      BY <2>1, <2>2, <3>2
    <3>3. ASSUME NEW r \in Entries(s), r <= upto
          PROVE  (r <= cursor /\ ~sub[s].enabled) \/ r <= sub[s].revision
      BY <1>1, <3>2, <3>3 DEF RowInv
    <3>4. config[s].revision <= cursor \/ config[s].revision > upto \/ sub[s].revision = config[s].revision
      BY <2>1, <3>2
    <3>5. QED BY <1>1, <3>1, <3>3, <3>4 DEF RowInv
  <2>3. CASE News(s) # {}
    <3>1. PICK last \in News(s) :
               /\ \A r \in News(s) : r <= last
               /\ sub'[s].exists
               /\ sub'[s].enabled = log[last].enabled /\ sub'[s].revision = last
      BY <1>4, <2>3
    <3>2. /\ last \in Entries(s) /\ last \in Nat /\ cursor < last /\ last <= upto
          /\ sub[s].revision < last /\ last <= config[s].revision
      BY <2>1
    <3>3. \A r \in Entries(s) : r <= upto => r <= last
      BY <2>1, <3>1, <3>2
    <3>4. Announced(s) /\ last = config[s].revision => (sub'[s].enabled <=> LibraryOn(s))
      <4>1. Announced(s) /\ last = config[s].revision => (log[last].enabled <=> LibraryOn(s))
        BY <2>1, <3>2 DEF Announced
      <4>2. QED BY <3>1, <4>1, Zenon
    <3>5. config[s].revision > cursor /\ (config[s].revision > upto \/ last = config[s].revision)
      BY <2>1, <3>2, <3>3
    <3>6. /\ sub'[s].exists /\ sub'[s].revision > 0 /\ sub'[s].revision <= config[s].revision
          /\ ~(config[s].revision <= cursor)
      BY <2>1, <3>1, <3>2, <3>5
    <3>7. QED BY <3>1, <3>3, <3>4, <3>5, <3>6
  <2>4. QED BY <2>2, <2>3
<1>8. LogInv' /\ RowInv'
  <2>1. LogInv'
    BY <1>1, <1>2, <1>6 DEF LogInv
  <2>2. \A s \in Students : sub'[s].enabled => \A r \in Entries(s) : r <= upto => r <= sub'[s].revision
    BY <1>7
  <2>3. RowInv'
    BY <1>2, <1>6, <1>7, <2>2 DEF RowInv
  <2>4. QED BY <2>1, <2>3
<1>9. ConsumedAgrees'
  <2>1. ASSUME NEW s \in Students, Announced(s), config[s].revision <= upto
        PROVE  sub'[s].enabled <=> LibraryOn(s)
    <3>1. CASE config[s].revision <= cursor
      BY <1>1, <1>7, <2>1, <3>1 DEF ConsumedAgrees
    <3>2. CASE ~(config[s].revision <= cursor)
      <4>1. config[s].revision \in Nat /\ cursor \in Nat /\ upto \in Nat
        BY <1>1, NewsFacts
      <4>2. sub'[s].revision = config[s].revision
        BY <1>7, <2>1, <3>2, <4>1
      <4>3. sub'[s].exists
        BY <1>7, <3>2, <4>1, <4>2
      <4>4. QED BY <1>7, <2>1, <4>2, <4>3
    <3>3. QED BY <3>1, <3>2
  <2>2. QED BY <1>2, <1>6, <2>1 DEF ConsumedAgrees
<1>10. WorkIsCurrent'
  <2>1. ASSUME NEW w \in work' PROVE sub'[w[1]].enabled /\ sub'[w[1]].version = w[2]
    <3>1. w \in work /\ w[1] \in Students /\ \A r \in News(w[1]) : log[r].enabled
      BY <1>1, <1>2 DEF WorkWithout, TypeOK
    <3>2. sub[w[1]].enabled /\ sub[w[1]].version = w[2] /\ sub[w[1]].exists
      BY <1>1, <3>1 DEF WorkIsCurrent, RowInv
    <3>3. CASE News(w[1]) = {}
      BY <1>3, <3>1, <3>2, <3>3
    <3>4. CASE News(w[1]) # {}
      <4>1. Flips(w[1]) = {}
        BY <1>1, <3>1, <3>2, AllOnFlipsNone
      <4>2. Cardinality(Flips(w[1])) = 0
        BY <4>1, FS_EmptySet
      <4>3. sub[w[1]].version \in Nat
        BY <1>1, <3>1, NewsFacts
      <4>4. PICK last \in News(w[1]) :
               /\ sub'[w[1]].enabled = log[last].enabled
               /\ sub'[w[1]].version = (IF sub[w[1]].exists THEN sub[w[1]].version ELSE 1)
                                          + Cardinality(Flips(w[1]))
        BY <1>4, <3>1, <3>4
      <4>5. sub'[w[1]].version = sub[w[1]].version
        BY <3>2, <4>2, <4>3, <4>4
      <4>6. sub'[w[1]].enabled
        BY <3>1, <4>4
      <4>7. QED BY <3>2, <4>5, <4>6
    <3>5. QED BY <3>3, <3>4
  <2>2. QED BY <2>1 DEF WorkIsCurrent
<1>11. ListInv' /\ DoneInv' /\ PageInv'
  <2>1. cursor' >= 0
    BY <1>1, <1>2 DEF TypeOK, Revision
  <2>2. PageInv'
    BY <1>2, <2>1 DEF PageInv
  <2>3. after' = 0 /\ (\A s \in Students : users'[s] = 0) /\ phase' \notin Reading
    BY <1>1, <1>2, IdleLocals DEF Reading
  <2>4. QED BY <2>2, <2>3, NotReading
<1>12. QED BY <1>5, <1>8, <1>9, <1>10, <1>11 DEF IInv

-----------------------------------------------------------------------------
(* The theorems *)

LEMMA NextInv == ASSUME IInv, [Next]_vars PROVE IInv'
<1>1. CASE Feed
  BY <1>1, FeedInv
<1>2. CASE \/ ServiceStarts \/ SyncPreferences \/ CalibratePreferences \/ TaskFails \/ ServiceStops
           \/ ReplayAfterCalibration \/ PreferenceChanges \/ NoMoreChanges
  BY <1>2, TaskInv
<1>3. CASE LatestLibraryPreferenceRevision \/ \E P \in SUBSET Students : ListLibraryReminderUsers(P)
  BY <1>3, SnapshotInv, ListedInv
<1>4. CASE LastPage \/ RowsReconciled
  BY <1>4, LastPageInv, RowsReconciledInv
<1>5. CASE \E B \in SUBSET Students : ReconcileBatch(B) \/ CreateMissing(B)
  BY <1>5, ReconcileBatchInv, CreateMissingInv
<1>6. CASE SaveCursor \/ ApplyPreferenceChanges
  BY <1>6, SaveCursorInv, ApplyInv
<1>7. CASE \E s \in Students : RefreshUser(s) \/ SaveReservations(s)
  BY <1>7, RefreshInv
<1>8. CASE UNCHANGED vars
  <2>1. /\ UNCHANGED <<config, log, feedUp, sub, cursor, work, task, phase, snapshot, after>>
        /\ UNCHANGED <<users, todo, upto, caughtUp, refresh>>
    BY <1>8 DEF vars, feedVars, subVars, taskVars
  <2>2. TypeOK' /\ PageInv'
    BY <2>1 DEF IInv, TypeOK, PageInv, Config, Revision, Subscription
  <2>3. QED BY <2>1, <2>2, CoreKept, WorkKept, ListKept DEF IInv
<1>9. QED BY <1>1, <1>2, <1>3, <1>4, <1>5, <1>6, <1>7, <1>8 DEF Next, Steps

LEMMA InvariantHolds == Spec => []IInv
<1>1. Init => IInv
  BY InitInv
<1>2. IInv /\ [Next]_vars => IInv'
  BY NextInv
<1>3. QED BY <1>1, <1>2, PTL DEF Spec

(* Every variable stays within its type; the revisions kept anywhere in    *)
(* be-library are revisions the log of be-feed has issued.                 *)
THEOREM TypeCorrect == Spec => []TypeOK
<1>1. IInv => TypeOK
  BY DEF IInv
<1>2. QED BY <1>1, InvariantHolds, PTL

(* A preference whose last change lies behind the cursor is the one        *)
(* be-library acts on, for any students, pages, batches and failures of    *)
(* reconcilePreferences and ApplyPreferenceChanges.                        *)
THEOREM NoChangeIsLost == Spec => []ConsumedAgrees
<1>1. IInv => ConsumedAgrees
  BY DEF IInv
<1>2. QED BY <1>1, InvariantHolds, PTL

(* Reminder work exists only under the version of a preference that is on: *)
(* what a refresh writes after the preference moved on, and what was       *)
(* written before, is gone.                                                *)
THEOREM NoStaleWork == Spec => []WorkIsCurrent
<1>1. IInv => WorkIsCurrent
  BY DEF IInv
<1>2. QED BY <1>1, InvariantHolds, PTL

-----------------------------------------------------------------------------
(* The versions *)

(* A page that turns an enabled preference off flips the row at least once. *)
LEMMA OffFlips ==
  ASSUME IInv, phase = "apply", NEW s \in Students, sub[s].exists, sub[s].enabled,
         NEW r \in News(s), ~log[r].enabled
  PROVE  Cardinality(Flips(s)) > 0
<1> DEFINE offs == {q \in News(s) : ~log[q].enabled}
<1>1. PICK m \in offs : \A q \in offs : m <= q
  <2>1. offs \in SUBSET Nat /\ offs # {}
    BY NewsFacts
  <2>2. QED BY <2>1, LeastRevision
<1>2. m \in News(s) /\ ~log[m].enabled /\ m \in Nat
  BY <1>1, NewsFacts
<1>3. \A q \in News(s) : q < m => log[q].enabled
  <2>1. ASSUME NEW q \in News(s), q < m, ~log[q].enabled PROVE FALSE
    <3>1. m <= q /\ q \in Nat
      BY <1>1, <2>1, NewsFacts
    <3>2. QED BY <1>2, <2>1, <3>1
  <2>2. QED BY <2>1
<1>4. Before(s, m)
  <2> DEFINE earlier == {q \in News(s) : q < m}
  <2>1. CASE earlier = {}
    BY <2>1 DEF Before
  <2>2. CASE earlier # {}
    <3> DEFINE p == CHOOSE q \in earlier : \A k \in earlier : k <= q
    <3>1. Before(s, m) = log[p].enabled
      BY <2>2 DEF Before
    <3>2. \E q \in earlier : \A k \in earlier : k <= q
      <4>1. earlier \in SUBSET (0..Len(log)) /\ Len(log) \in Nat
        BY NewsFacts
      <4>2. QED BY <2>2, <4>1, LastRevision
    <3>3. p \in News(s) /\ p < m
      BY <3>2
    <3> HIDE DEF p
    <3>4. log[p].enabled
      BY <1>3, <3>3
    <3>5. QED BY <3>1, <3>4, Zenon
  <2>3. QED BY <2>1, <2>2
<1>5. m \in Flips(s)
  BY <1>2, <1>4 DEF Flips
<1>6. Cardinality(Flips(s)) # 0
  BY <1>5, NewsFacts, FS_EmptySet
<1>7. QED BY <1>6, NewsFacts

LEMMA ReopenStep ==
  ASSUME IInv, [Next]_vars, NEW s \in Students, sub[s].enabled, sub'[s].enabled,
         NEW r \in (sub[s].revision + 1)..sub'[s].revision,
         log[r] = [student |-> s, enabled |-> FALSE]
  PROVE  sub'[s].version > sub[s].version
<1>1. /\ TypeOK /\ RowInv /\ DoneInv /\ sub[s].exists
      /\ sub[s].revision \in Nat /\ sub[s].version \in Nat
  BY DEF IInv, RowInv, TypeOK, Subscription, Revision
<1>2. sub' # sub
  BY <1>1
<1>3. CASE \E B \in SUBSET Students : ReconcileBatch(B)
  <2>1. PICK B \in SUBSET Students : ReconcileBatch(B)
    BY <1>3
  <2>2. sub' = [t \in Students |-> IF t \in B THEN Reconciled(t) ELSE sub[t]]
    BY <2>1 DEF ReconcileBatch
  <2>3. s \in B
    BY <1>1, <2>2
  <2>4. sub'[s] = Reconciled(s)
    BY <2>2, <2>3
  <2>5. sub[s].revision > 0
    BY <1>1 DEF RowInv
  <2>6. /\ sub'[s].revision = IF users[s] > sub[s].revision THEN users[s] ELSE sub[s].revision
        /\ sub'[s].version = IF Reset(s) THEN sub[s].version + 1 ELSE sub[s].version
    BY <1>1, <2>4, <2>5, ReconciledFacts
  <2>7. users[s] \in Nat /\ users[s] > sub[s].revision
    BY <1>1, <2>6 DEF TypeOK, Revision
  <2>8. Reset(s)
    BY <1>1, <2>7 DEF Reset
  <2>9. QED BY <1>1, <2>6, <2>8
<1>4. CASE \E B \in SUBSET Students : CreateMissing(B)
  <2>1. PICK B \in SUBSET Students : CreateMissing(B)
    BY <1>4
  <2>2. s \notin B
    BY <1>1, <2>1 DEF CreateMissing, DoneInv
  <2>3. sub'[s] = sub[s]
    BY <2>1, <2>2 DEF CreateMissing
  <2>4. QED BY <1>1, <2>3
<1>5. CASE ApplyPreferenceChanges
  <2>1. phase = "apply" /\ sub' = [t \in Students |-> Replayed(t)]
    BY <1>5 DEF ApplyPreferenceChanges
  <2>2. News(s) # {}
    <3>1. CASE News(s) = {}
      <4>1. sub'[s] = sub[s]
        BY <2>1, <3>1 DEF Replayed
      <4>2. QED BY <1>1, <4>1
    <3>2. QED BY <3>1
  <2>3. PICK last \in News(s) :
           /\ \A q \in News(s) : q <= last
           /\ Replayed(s) = [exists |-> TRUE, enabled |-> log[last].enabled, revision |-> last,
                             version |-> (IF sub[s].exists THEN sub[s].version ELSE 1)
                                           + Cardinality(Flips(s))]
    BY <2>1, <2>2, ReplayedFacts
  <2>4. sub'[s].revision = last /\ sub'[s].version = sub[s].version + Cardinality(Flips(s))
    BY <1>1, <2>1, <2>3
  <2>5. r \in Entries(s) /\ r <= last /\ r > sub[s].revision /\ r \in Nat
    <3>1. last \in 1..Len(log) /\ Len(log) \in Nat
      BY <2>1, NewsFacts
    <3>2. r \in 1..Len(log) /\ r <= last /\ r > sub[s].revision
      BY <1>1, <2>4, <3>1
    <3>3. QED BY <3>2 DEF Entries
  <2>6. r \in News(s)
    <3>1. /\ cursor \in Nat /\ last \in Nat /\ upto \in Nat /\ last <= upto
          /\ News(s) = {q \in Entries(s) : cursor < q /\ q <= upto /\ sub[s].revision < q}
      BY <2>1, <2>3, NewsFacts
    <3>2. r > cursor
      BY <1>1, <2>5, <3>1 DEF RowInv
    <3>3. QED BY <1>1, <2>5, <3>1, <3>2
  <2>7. ~log[r].enabled
    OBVIOUS
  <2>8. Cardinality(Flips(s)) > 0 /\ Cardinality(Flips(s)) \in Nat
    BY <1>1, <2>1, <2>6, <2>7, OffFlips, NewsFacts
  <2>9. QED BY <1>1, <2>4, <2>8
<1>6. \/ \E B \in SUBSET Students : ReconcileBatch(B) \/ CreateMissing(B)
      \/ ApplyPreferenceChanges
  <2>1. UNCHANGED vars => sub' = sub
    BY DEF vars, subVars
  <2>2. Feed => sub' = sub
    BY DEF Feed, MigrateInitialLibraryPreference, FeedStarts, FeedStops, FindOrCreateUserFeedConfig,
           ChangeConfigBits, subVars
  <2>3. \/ ServiceStarts \/ SyncPreferences \/ CalibratePreferences \/ TaskFails \/ ServiceStops
        \/ LatestLibraryPreferenceRevision \/ LastPage \/ RowsReconciled \/ SaveCursor
        \/ ReplayAfterCalibration \/ PreferenceChanges \/ NoMoreChanges
        \/ \E P \in SUBSET Students : ListLibraryReminderUsers(P)
        \/ \E t \in Students : RefreshUser(t) \/ SaveReservations(t)
        => sub' = sub
    BY DEF ServiceStarts, SyncPreferences, CalibratePreferences, TaskFails, ServiceStops,
           LatestLibraryPreferenceRevision, LastPage, RowsReconciled, SaveCursor,
           ReplayAfterCalibration, PreferenceChanges, NoMoreChanges, ListLibraryReminderUsers,
           RefreshUser, SaveReservations, subVars
  <2>4. QED BY <1>2, <2>1, <2>2, <2>3 DEF Next, Steps
<1>7. QED BY <1>3, <1>4, <1>5, <1>6

(* A row that stays on while it moves past a revision that turned it off   *)
(* gets a new version, whether the change was replayed or jumped over by   *)
(* the snapshot of a rebuild or a calibration.                             *)
THEOREM ReopeningIsSeen == Spec => NoSilentReopen
<1>1. IInv /\ [Next]_vars =>
        [\A s \in Students :
           (/\ sub[s].enabled /\ sub'[s].enabled
            /\ \E r \in (sub[s].revision + 1)..sub'[s].revision :
                 log[r] = [student |-> s, enabled |-> FALSE])
           => sub'[s].version > sub[s].version]_vars
  BY ReopenStep
<1>2. QED BY <1>1, InvariantHolds, PTL DEF Spec, NoSilentReopen

=============================================================================
