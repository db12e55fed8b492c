-------------------------- MODULE TeamNotices_proof --------------------------
(* What the students are told of teams, for any number of students, teams,   *)
(* masters, calls and changes of preferences.                                *)
EXTENDS TeamInvitations, TeamSuccess, FiniteSetTheorems, TLAPS

-----------------------------------------------------------------------------
(* Team success: a scan that is about to save what it saw under the current  *)
(* preference.                                                               *)

Saving(x, s) ==
  scan[x].pc = "save" /\ scan[x].stu = {s} /\ scan[x].version = wish[s].version

\* What may be told although it is old: a student, whom two scans were at work
\* on, has left the team, which nobody joins any more.
LateNews(s, g) == s \in overlapped /\ g \notin groupOf[s] /\ g \in formed

\* Without an overlap, a student is in one scan at most.
ScansApart ==
  \A s \in Mates \ overlapped, x, y \in Scanners :
    s \in scan[x].stu /\ s \in scan[y].stu => x = y

SuccessFits ==
  /\ ScansApart
  /\ \A s \in Mates : \A g, h \in groupOf[s] : g = h
  /\ \A x \in Scanners, s \in Mates : s \in scan[x].stu => scan[x].version <= wish[s].version
  /\ \A s \in Mates, g \in Groups :
       /\ told[s][g].times <= 1
       /\ told[s][g].times # 0 => snapshot[s][g] = "enqueued"
       /\ Baseline /\ told[s][g].old => LateNews(s, g)

(* A team that was old news when the preference began has come about, so     *)
(* nobody joins it any more.  Once the baseline is complete, it is settled   *)
(* or the student has left it; a scan that does not know it saw that, and    *)
(* only of scans that overlapped one may still know it.                      *)
OldFits ==
  \A s \in Mates : \A g \in old[s] :
    /\ g \in Groups /\ g \in formed
    /\ snapshot[s][g] \in {"none", "seen"} /\ wish[s].baseline =>
         /\ g \notin groupOf[s]
         /\ s \in overlapped \/ \A x \in Scanners : Saving(x, s) => g \notin scan[x].team
    /\ \A x \in Scanners : Saving(x, s) /\ g \notin scan[x].team => g \notin groupOf[s]
    /\ \A x \in Scanners : Saving(x, s) /\ g \in scan[x].team => scan[x].success

SuccessInv == SuccessTypeOK /\ SuccessFits /\ OldFits

LEMMA SuccessInvInit == SuccessInit => SuccessInv
BY SuccessAssumption DEF SuccessInit, SuccessInv, SuccessTypeOK, SuccessFits, ScansApart, LateNews, OldFits, NoScan, Saving

LEMMA SuccessLibrary ==
  ASSUME SuccessInv, NEW s \in Mates, NEW g \in Groups, Move(s) \/ Form(g)
  PROVE  SuccessInv'
<1>1. /\ wish' = wish /\ snapshot' = snapshot /\ scan' = scan /\ old' = old /\ told' = told
      /\ overlapped' = overlapped
      /\ moves' \in 0 .. MaxMoves /\ formed' \subseteq Groups /\ formed \subseteq formed'
      /\ groupOf' \in [Mates -> SUBSET Groups]
      /\ \A r \in Mates : \/ groupOf'[r] = groupOf[r] \/ groupOf'[r] = {}
                          \/ \E h \in Groups \ formed : groupOf'[r] = {h}
  <2>1. CASE Move(s)
    <3>1. moves' \in 0 .. MaxMoves
      BY <2>1, SuccessAssumption DEF SuccessInv, SuccessTypeOK, Move
    <3>2. groupOf' = [groupOf EXCEPT ![s] = {}]
            \/ \E h \in Groups \ formed : groupOf' = [groupOf EXCEPT ![s] = {h}]
      BY <2>1 DEF Move
    <3>3. groupOf \in [Mates -> SUBSET Groups] /\ formed \subseteq Groups
      BY DEF SuccessInv, SuccessTypeOK
    <3> QED BY <2>1, <3>1, <3>2, <3>3 DEF Move
  <2>2. CASE Form(g)
    BY <2>2 DEF SuccessInv, SuccessTypeOK, Form
  <2> QED BY <2>1, <2>2
<1>2. SuccessTypeOK'
  BY <1>1 DEF SuccessInv, SuccessTypeOK
<1>3. SuccessFits'
  <2>1. \A r \in Mates, h \in Groups : LateNews(r, h) => LateNews(r, h)'
    BY <1>1 DEF LateNews
  <2>2. ScansApart'
    BY <1>1 DEF SuccessInv, SuccessFits, ScansApart
  <2> QED BY <1>1, <2>1, <2>2 DEF SuccessInv, SuccessFits
<1>4. OldFits'
  <2> SUFFICES ASSUME NEW r \in Mates, NEW h \in old[r]
               PROVE  /\ h \in Groups /\ h \in formed'
                      /\ snapshot[r][h] \in {"none", "seen"} /\ wish[r].baseline =>
                           /\ h \notin groupOf'[r]
                           /\ r \in overlapped \/ \A x \in Scanners : Saving(x, r) => h \notin scan[x].team
                      /\ \A x \in Scanners : Saving(x, r) /\ h \notin scan[x].team => h \notin groupOf'[r]
                      /\ \A x \in Scanners : Saving(x, r) /\ h \in scan[x].team => scan[x].success
    BY <1>1 DEF OldFits, Saving
  <2>1. h \in formed /\ (h \in groupOf'[r] => h \in groupOf[r])
    BY <1>1 DEF SuccessInv, OldFits
  <2> QED BY <2>1, <1>1 DEF SuccessInv, OldFits
<1> QED BY <1>2, <1>3, <1>4 DEF SuccessInv

LEMMA SuccessTurn ==
  ASSUME SuccessInv, NEW s \in Mates, TurnPreference(s)
  PROVE  SuccessInv'
<1>1. SuccessTypeOK'
  BY SuccessAssumption DEF SuccessInv, SuccessTypeOK, TurnPreference, library
<1>2. /\ wish'[s].version = wish[s].version + 1 /\ wish'[s].baseline = FALSE
      /\ \A r \in Mates : r # s => wish'[r] = wish[r]
      /\ wish[s].version \in Nat
      /\ groupOf' = groupOf /\ formed' = formed
      /\ snapshot' = snapshot /\ scan' = scan /\ overlapped' = overlapped /\ told' = told
      /\ old'[s] = groupOf[s] \cap formed /\ \A r \in Mates : r # s => old'[r] = old[r]
  BY SuccessAssumption DEF SuccessInv, SuccessTypeOK, TurnPreference, library
<1>3. \A x \in Scanners : scan[x].version \in Nat
  BY SuccessAssumption DEF SuccessInv, SuccessTypeOK
<1>4. SuccessFits'
  BY <1>2, <1>3 DEF SuccessInv, SuccessFits, ScansApart, LateNews
<1>5. \A x \in Scanners : ~Saving(x, s)'
  BY <1>2, <1>3 DEF SuccessInv, SuccessFits, Saving
<1>6. OldFits'
  <2>1. formed \subseteq Groups
    BY DEF SuccessInv, SuccessTypeOK
  <2> QED BY <1>2, <1>5, <2>1 DEF SuccessInv, OldFits, Saving
<1> QED BY <1>1, <1>4, <1>6 DEF SuccessInv

LEMMA SuccessBegins ==
  ASSUME SuccessInv, NEW x \in Scanners,
         (\E s \in Mates : ListTeamSubscription(x, s)) \/ EndScan(x)
  PROVE  SuccessInv'
<1>1. /\ wish' = wish /\ groupOf' = groupOf /\ formed' = formed /\ moves' = moves
      /\ snapshot' = snapshot /\ old' = old /\ told' = told
  BY DEF ListTeamSubscription, EndScan, library
<1>2. /\ scan' \in [Scanners -> [pc : {"idle", "fetch", "save"}, stu : SUBSET Mates,
                            version : 0 .. MaxTurns, team : SUBSET Groups, success : BOOLEAN]]
      /\ scan'[x].pc # "save"
      /\ \A s \in Mates : s \in scan'[x].stu => scan'[x].version <= wish[s].version
      /\ \A y \in Scanners : y # x => scan'[y] = scan[y]
      /\ overlapped \subseteq overlapped' /\ overlapped' \subseteq Mates
      /\ \A s \in Mates \ overlapped' :
           s \in scan'[x].stu => s \in scan[x].stu \/ \A y \in Scanners : s \notin scan[y].stu
  <2>1. CASE \E s \in Mates : ListTeamSubscription(x, s)
    BY <2>1, SuccessAssumption
       DEF SuccessInv, SuccessTypeOK, ListTeamSubscription, Begun
  <2>2. CASE EndScan(x)
    <3>0. overlapped' = overlapped /\ overlapped \subseteq Mates
      BY <2>2 DEF EndScan, SuccessInv, SuccessTypeOK
    <3>1. CASE scan' = [scan EXCEPT ![x] = NoScan]
      BY <3>0, <3>1, SuccessAssumption DEF SuccessInv, SuccessTypeOK, NoScan
    <3>2. ASSUME NEW s \in scan[x].stu, scan' = [scan EXCEPT ![x] = Begun(s, scan[x].version)]
          PROVE  /\ scan' \in [Scanners -> [pc : {"idle", "fetch", "save"}, stu : SUBSET Mates,
                            version : 0 .. MaxTurns, team : SUBSET Groups, success : BOOLEAN]]
                 /\ scan'[x].pc # "save"
                 /\ \A r \in Mates : r \in scan'[x].stu => scan'[x].version <= wish[r].version
                 /\ scan'[x].stu \subseteq scan[x].stu
                 /\ \A y \in Scanners : y # x => scan'[y] = scan[y]
      <4>1. s \in Mates /\ scan[x].version \in 0 .. MaxTurns /\ scan[x].version <= wish[s].version
        BY DEF SuccessInv, SuccessTypeOK, SuccessFits
      <4> QED BY <3>2, <4>1 DEF SuccessInv, SuccessTypeOK, Begun
    <3> QED BY <2>2, <3>0, <3>1, <3>2 DEF EndScan
  <2> QED BY <2>1, <2>2
<1>3. SuccessTypeOK'
  BY <1>1, <1>2 DEF SuccessInv, SuccessTypeOK
<1>4. SuccessFits'
  <2>1. ScansApart'
    BY <1>2 DEF SuccessInv, SuccessFits, ScansApart
  <2>2. \A s \in Mates, g \in Groups : LateNews(s, g) => LateNews(s, g)'
    BY <1>1, <1>2 DEF LateNews
  <2> QED BY <1>1, <1>2, <2>1, <2>2 DEF SuccessInv, SuccessFits
<1>5. OldFits'
  BY <1>1, <1>2 DEF SuccessInv, OldFits, Saving
<1> QED BY <1>3, <1>4, <1>5 DEF SuccessInv

LEMMA SuccessFetch ==
  ASSUME SuccessInv, NEW x \in Scanners, NEW s \in Mates, GetCurrentTeam(x, s)
  PROVE  SuccessInv'
<1>1. /\ wish' = wish /\ groupOf' = groupOf /\ formed' = formed /\ moves' = moves
      /\ snapshot' = snapshot /\ overlapped' = overlapped /\ old' = old /\ told' = told
  BY DEF GetCurrentTeam, library
<1>2. /\ scan[x].stu = {s} /\ scan[x].version = wish[s].version
      /\ scan[x].version \in 0 .. MaxTurns /\ groupOf[s] \subseteq Groups
  BY DEF GetCurrentTeam, Current, SuccessInv, SuccessTypeOK
<1>3. scan' = [scan EXCEPT ![x] =
        [pc |-> "save", stu |-> {s}, version |-> scan[x].version, team |-> groupOf[s],
         success |-> groupOf[s] \subseteq formed]]
  BY DEF GetCurrentTeam
<1>4. /\ scan' \in [Scanners -> [pc : {"idle", "fetch", "save"}, stu : SUBSET Mates,
                            version : 0 .. MaxTurns, team : SUBSET Groups, success : BOOLEAN]]
      /\ scan'[x].stu = {s} /\ scan'[x].version = wish[s].version
      /\ scan'[x].team = groupOf[s]
      /\ scan'[x].success <=> groupOf[s] \subseteq formed
      /\ \A y \in Scanners : y # x => scan'[y] = scan[y]
  <2>1. (groupOf[s] \subseteq formed) \in BOOLEAN
    OBVIOUS
  <2> QED BY <1>2, <1>3, <2>1 DEF SuccessInv, SuccessTypeOK
<1>5. SuccessTypeOK'
  BY <1>1, <1>4 DEF SuccessInv, SuccessTypeOK
<1>6. SuccessFits'
  <2>1. ScansApart'
    BY <1>1, <1>2, <1>4 DEF SuccessInv, SuccessFits, ScansApart
  <2>2. \A r \in Mates, g \in Groups : LateNews(r, g)' <=> LateNews(r, g)
    BY <1>1 DEF LateNews
  <2> QED BY <1>1, <1>4, <2>1, <2>2 DEF SuccessInv, SuccessFits
<1>7. OldFits'
  <2> SUFFICES ASSUME NEW r \in Mates, NEW h \in old[r]
               PROVE  /\ h \in Groups /\ h \in formed
                      /\ snapshot[r][h] \in {"none", "seen"} /\ wish[r].baseline =>
                           /\ h \notin groupOf[r]
                           /\ r \in overlapped \/ \A y \in Scanners : Saving(y, r)' => h \notin scan'[y].team
                      /\ \A y \in Scanners : Saving(y, r)' /\ h \notin scan'[y].team => h \notin groupOf[r]
                      /\ \A y \in Scanners : Saving(y, r)' /\ h \in scan'[y].team => scan'[y].success
    BY <1>1 DEF OldFits
  <2>1. \A y \in Scanners : y # x => (Saving(y, r)' <=> Saving(y, r)) /\ scan'[y] = scan[y]
    BY <1>1, <1>4 DEF Saving
  <2>2. Saving(x, r)' => r = s
    BY <1>4 DEF Saving
  <2>3. h \in groupOf[s] /\ r = s => groupOf[s] \subseteq formed
    BY DEF SuccessInv, SuccessFits, OldFits
  <2> QED BY <2>1, <2>2, <2>3, <1>4 DEF SuccessInv, OldFits
<1> QED BY <1>5, <1>6, <1>7 DEF SuccessInv

LEMMA SuccessSaves ==
  ASSUME SuccessInv, NEW x \in Scanners, NEW s \in Mates, ReconcileTeam(x, s)
  PROVE  SuccessInv'
<1>1. /\ groupOf' = groupOf /\ formed' = formed /\ moves' = moves /\ old' = old
      /\ overlapped' = overlapped
      /\ wish' = [wish EXCEPT ![s].baseline = TRUE]
  BY DEF ReconcileTeam, library
<1>2. Saving(x, s) /\ scan[x].version \in 0 .. MaxTurns /\ scan[x].version <= wish[s].version
  BY DEF ReconcileTeam, Current, Saving, SuccessInv, SuccessTypeOK, SuccessFits
<1>3. /\ wish' \in [Mates -> [on : BOOLEAN, version : 0 .. MaxTurns, baseline : BOOLEAN]]
      /\ wish'[s].baseline /\ wish'[s].version = wish[s].version
      /\ \A r \in Mates : r # s => wish'[r] = wish[r]
      /\ \A r \in Mates : wish'[r].version = wish[r].version
  <2>1. wish \in [Mates -> [on : BOOLEAN, version : 0 .. MaxTurns, baseline : BOOLEAN]]
    BY DEF SuccessInv, SuccessTypeOK
  <2>2. wish' = [wish EXCEPT ![s] = [wish[s] EXCEPT !.baseline = TRUE]]
    BY <1>1
  <2>3. /\ [wish[s] EXCEPT !.baseline = TRUE] \in [on : BOOLEAN, version : 0 .. MaxTurns, baseline : BOOLEAN]
        /\ [wish[s] EXCEPT !.baseline = TRUE].baseline
        /\ [wish[s] EXCEPT !.baseline = TRUE].version = wish[s].version
    BY <2>1
  <2> QED BY <2>1, <2>2, <2>3
<1>4. /\ scan' \in [Scanners -> [pc : {"idle", "fetch", "save"}, stu : SUBSET Mates,
                            version : 0 .. MaxTurns, team : SUBSET Groups, success : BOOLEAN]]
      /\ scan'[x].pc # "save" /\ scan'[x].stu \subseteq {s}
      /\ scan'[x].version <= wish[s].version \/ scan'[x].stu = {}
      /\ \A y \in Scanners : y # x => scan'[y] = scan[y]
  <2>1. scan' = [scan EXCEPT ![x] = NoScan] \/ scan' = [scan EXCEPT ![x] = Begun(s, scan[x].version)]
    BY DEF ReconcileTeam
  <2>2. scan \in [Scanners -> [pc : {"idle", "fetch", "save"}, stu : SUBSET Mates,
                            version : 0 .. MaxTurns, team : SUBSET Groups, success : BOOLEAN]]
    BY DEF SuccessInv, SuccessTypeOK
  <2>3. CASE scan' = [scan EXCEPT ![x] = NoScan]
    BY <2>2, <2>3, SuccessAssumption DEF NoScan
  <2>4. CASE scan' = [scan EXCEPT ![x] = Begun(s, scan[x].version)]
    BY <2>2, <2>4, <1>2 DEF Begun
  <2> QED BY <2>1, <2>3, <2>4
<1>5. scan[x].stu = {s}
  BY <1>2 DEF Saving
<1>6. \A r \in Mates, y \in Scanners : Saving(y, r)' => y # x /\ Saving(y, r) /\ scan'[y] = scan[y]
  BY <1>3, <1>4 DEF Saving
<1>7. /\ snapshot' \in [Mates -> [Groups -> {"none", "seen", "baseline", "enqueued"}]]
      /\ \A r \in Mates : r # s => snapshot'[r] = snapshot[r]
      /\ \A g \in Groups :
           snapshot'[s][g] = IF g \in scan[x].team /\ snapshot[s][g] \in {"none", "seen"}
                              THEN Disposition(s, scan[x].success) ELSE snapshot[s][g]
  <2>1. Disposition(s, scan[x].success) \in {"none", "seen", "baseline", "enqueued"}
    BY DEF Disposition
  <2>2. snapshot' = [snapshot EXCEPT ![s] = [g \in Groups |->
          IF g \in scan[x].team /\ snapshot[s][g] \in {"none", "seen"}
            THEN Disposition(s, scan[x].success) ELSE snapshot[s][g]]]
    BY DEF ReconcileTeam
  <2> HIDE DEF Disposition
  <2> QED BY <2>1, <2>2 DEF SuccessInv, SuccessTypeOK
<1>8. /\ told' \in [Mates -> [Groups -> [times : Nat, old : BOOLEAN]]]
      /\ \A r \in Mates : r # s => told'[r] = told[r]
      /\ \A g \in Groups :
           IF snapshot'[s][g] = "enqueued" /\ snapshot[s][g] # "enqueued"
             THEN told'[s][g].times = told[s][g].times + 1 /\ told'[s][g].old = (g \in old[s])
             ELSE told'[s][g] = told[s][g]
  <2>1. told' = [told EXCEPT ![s] = [g \in Groups |->
          IF snapshot'[s][g] = "enqueued" /\ snapshot[s][g] # "enqueued"
            THEN [times |-> told[s][g].times + 1, old |-> g \in old[s]] ELSE told[s][g]]]
    BY DEF ReconcileTeam
  <2>2. told \in [Mates -> [Groups -> [times : Nat, old : BOOLEAN]]]
    BY DEF SuccessInv, SuccessTypeOK
  <2> DEFINE row(g) ==
        IF snapshot'[s][g] = "enqueued" /\ snapshot[s][g] # "enqueued"
          THEN [times |-> told[s][g].times + 1, old |-> g \in old[s]] ELSE told[s][g]
  <2>3. ASSUME NEW g \in Groups
        PROVE  /\ row(g) \in [times : Nat, old : BOOLEAN]
               /\ IF snapshot'[s][g] = "enqueued" /\ snapshot[s][g] # "enqueued"
                    THEN row(g).times = told[s][g].times + 1 /\ row(g).old = (g \in old[s])
                    ELSE row(g) = told[s][g]
    <3>1. (g \in old[s]) \in BOOLEAN
      OBVIOUS
    <3>2. told[s][g] \in [times : Nat, old : BOOLEAN]
      BY <2>2
    <3>3. ASSUME NEW n \in Nat, NEW b \in BOOLEAN
          PROVE  /\ [times |-> n, old |-> b] \in [times : Nat, old : BOOLEAN]
                 /\ [times |-> n, old |-> b].times = n /\ [times |-> n, old |-> b].old = b
      OBVIOUS
    <3>4. CASE snapshot'[s][g] = "enqueued" /\ snapshot[s][g] # "enqueued"
      <4>1. row(g) = [times |-> told[s][g].times + 1, old |-> g \in old[s]]
        BY <3>4
      <4>2. told[s][g].times + 1 \in Nat
        BY <3>2
      <4> HIDE DEF row
      <4>3. row(g) \in [times : Nat, old : BOOLEAN] /\ row(g).times = told[s][g].times + 1
            /\ row(g).old = (g \in old[s])
        <5>1. PICK b \in BOOLEAN : b = (g \in old[s])
          BY <3>1, Zenon
        <5>2. row(g) = [times |-> told[s][g].times + 1, old |-> b]
          BY <4>1, <5>1, Zenon
        <5>3. row(g) \in [times : Nat, old : BOOLEAN] /\ row(g).times = told[s][g].times + 1
              /\ row(g).old = b
          <6>1. /\ [times |-> told[s][g].times + 1, old |-> b] \in [times : Nat, old : BOOLEAN]
                /\ [times |-> told[s][g].times + 1, old |-> b].times = told[s][g].times + 1
                /\ [times |-> told[s][g].times + 1, old |-> b].old = b
            BY <4>2, <3>3
          <6> QED BY <6>1, <5>2, Zenon
        <5> QED BY <5>3, <5>1, Zenon
      <4> QED BY <4>3, <3>4, Zenon
    <3>5. CASE ~(snapshot'[s][g] = "enqueued" /\ snapshot[s][g] # "enqueued")
      BY <3>5, <3>2
    <3> QED BY <3>4, <3>5
  <2>4. told' = [told EXCEPT ![s] = [g \in Groups |-> row(g)]]
    BY <2>1
  <2> HIDE DEF row
  <2>5. /\ told' \in [Mates -> [Groups -> [times : Nat, old : BOOLEAN]]]
        /\ \A r \in Mates : r # s => told'[r] = told[r]
        /\ \A g \in Groups : told'[s][g] = row(g)
    BY <2>2, <2>3, <2>4
  <2> QED BY <2>3, <2>5
<1>9. SuccessTypeOK'
  BY <1>1, <1>3, <1>4, <1>7, <1>8 DEF SuccessInv, SuccessTypeOK
<1>10. ASSUME NEW g \in Groups, g \in old[s], snapshot[s][g] \in {"none", "seen"}, g \in scan[x].team
       PROVE  scan[x].success /\ (wish[s].baseline => LateNews(s, g))
  BY <1>2, <1>10 DEF SuccessInv, OldFits, LateNews
<1>11. SuccessFits'
  <2>1. ASSUME NEW g \in Groups
        PROVE  /\ told'[s][g].times <= 1
               /\ told'[s][g].times # 0 => snapshot'[s][g] = "enqueued"
               /\ Baseline /\ told'[s][g].old => LateNews(s, g)
    <3>1. CASE snapshot'[s][g] = "enqueued" /\ snapshot[s][g] # "enqueued"
      <4>1. g \in scan[x].team /\ snapshot[s][g] \in {"none", "seen"}
            /\ (Baseline => wish[s].baseline)
        BY <3>1, <1>7 DEF Disposition
      <4>2. told[s][g].times = 0
        BY <3>1 DEF SuccessInv, SuccessTypeOK, SuccessFits
      <4> QED BY <3>1, <4>1, <4>2, <1>8, <1>10
    <3>2. CASE ~(snapshot'[s][g] = "enqueued" /\ snapshot[s][g] # "enqueued")
      <4>1. snapshot[s][g] = "enqueued" => snapshot'[s][g] = "enqueued"
        BY <1>7
      <4> QED BY <3>2, <4>1, <1>8 DEF SuccessInv, SuccessFits
    <3> QED BY <3>1, <3>2
  <2>2. \A y \in Scanners, r \in Mates : r \in scan'[y].stu => scan'[y].version <= wish'[r].version
    BY <1>3, <1>4 DEF SuccessInv, SuccessFits
  <2>3. ASSUME NEW r \in Mates, r # s, NEW g \in Groups
        PROVE  /\ told'[r][g].times <= 1
               /\ told'[r][g].times # 0 => snapshot'[r][g] = "enqueued"
               /\ Baseline /\ told'[r][g].old => LateNews(r, g)
    <3>1. told'[r] = told[r] /\ snapshot'[r] = snapshot[r]
      BY <2>3, <1>7, <1>8
    <3> QED BY <3>1 DEF SuccessInv, SuccessFits
  <2>4. \A r \in Mates : \A g, h \in groupOf'[r] : g = h
    BY <1>1 DEF SuccessInv, SuccessFits
  <2>5. ScansApart'
    BY <1>1, <1>4, <1>5 DEF SuccessInv, SuccessFits, ScansApart
  <2>6. \A r \in Mates, g \in Groups : LateNews(r, g)' <=> LateNews(r, g)
    BY <1>1 DEF LateNews
  <2> QED BY <2>1, <2>2, <2>3, <2>4, <2>5, <2>6 DEF SuccessFits
<1>12. OldFits'
  <2>1. ASSUME NEW r \in Mates, NEW g \in old[r], snapshot'[r][g] \in {"none", "seen"}, wish'[r].baseline
        PROVE  /\ g \notin groupOf[r]
               /\ r \in overlapped \/ \A y \in Scanners : Saving(y, r)' => g \notin scan'[y].team
    <3>1. g \in Groups
      BY DEF SuccessInv, OldFits
    <3>2. CASE r # s
      BY <2>1, <3>2, <1>3, <1>6, <1>7 DEF SuccessInv, OldFits
    <3>3. CASE r = s
      <4>1. snapshot[s][g] \in {"none", "seen"}
        BY <2>1, <3>1, <3>3, <1>7
      <4>2. g \notin groupOf[s]
        <5>1. CASE g \in scan[x].team
          <6>1. scan[x].success /\ (wish[s].baseline => LateNews(s, g))
            BY <1>10, <3>1, <3>3, <4>1, <5>1, <2>1
          <6> QED BY <2>1, <3>1, <3>3, <4>1, <5>1, <6>1, <1>7 DEF Disposition, LateNews
        <5>2. CASE g \notin scan[x].team
          BY <5>2, <3>3, <2>1, <1>2 DEF SuccessInv, OldFits
        <5> QED BY <5>1, <5>2
      <4>3. s \in overlapped \/ \A y \in Scanners : ~Saving(y, s)'
        <5> SUFFICES ASSUME s \notin overlapped, NEW y \in Scanners, Saving(y, s)' PROVE FALSE
          OBVIOUS
        <5>1. y # x /\ s \in scan[y].stu
          BY <1>6 DEF Saving
        <5> QED BY <5>1, <1>5 DEF SuccessInv, SuccessFits, ScansApart
      <4> QED BY <3>3, <4>2, <4>3
    <3> QED BY <3>2, <3>3
  <2>2. \A r \in Mates : \A g \in old[r], y \in Scanners :
          Saving(y, r)' => /\ g \notin scan'[y].team => g \notin groupOf[r]
                           /\ g \in scan'[y].team => scan'[y].success
    BY <1>6 DEF SuccessInv, OldFits
  <2>3. \A r \in Mates : \A g \in old[r] : g \in Groups /\ g \in formed
    BY DEF SuccessInv, OldFits
  <2> HIDE DEF Saving
  <2> QED BY <2>1, <2>2, <2>3, <1>1 DEF OldFits
<1> QED BY <1>9, <1>11, <1>12 DEF SuccessInv

(* A team is news once, and only if it came about under the preference, for  *)
(* any number of students, teams, scans and changes; the one exception are   *)
(* students who leave their team while two scans are at work on them.        *)
THEOREM SuccessIsNews == SuccessSpec => []NoOldNews
<1>1. SuccessInv /\ [SuccessNext]_successVars => SuccessInv'
  <2> SUFFICES ASSUME SuccessInv, [SuccessNext]_successVars PROVE SuccessInv'
    OBVIOUS
  <2>1. CASE UNCHANGED successVars
    BY <2>1 DEF successVars, SuccessInv, SuccessTypeOK, SuccessFits, ScansApart, LateNews, OldFits, Saving
  <2>2. ASSUME NEW s \in Mates, Move(s) PROVE SuccessInv'
    <3>1. CASE Groups = {}
      BY <2>2, <3>1, SuccessAssumption
         DEF Move, SuccessInv, SuccessTypeOK, SuccessFits, ScansApart, LateNews, OldFits, Saving
    <3>2. CASE Groups # {}
      BY <2>2, <3>2, SuccessLibrary
    <3> QED BY <3>1, <3>2
  <2>3. ASSUME NEW g \in Groups, Form(g) PROVE SuccessInv'
    <3>1. CASE Mates = {}
      BY <2>3, <3>1 DEF Form, SuccessInv, SuccessTypeOK, SuccessFits, ScansApart, LateNews, OldFits, Saving
    <3>2. CASE Mates # {}
      BY <2>3, <3>2, SuccessLibrary
    <3> QED BY <3>1, <3>2
  <2> QED BY <2>1, <2>2, <2>3, SuccessTurn, SuccessBegins, SuccessFetch, SuccessSaves
          DEF SuccessNext
<1>2. SuccessInv => NoOldNews
  BY DEF SuccessInv, SuccessFits, LateNews, NoOldNews
<1> QED BY <1>1, <1>2, SuccessInvInit, PTL DEF SuccessSpec
-----------------------------------------------------------------------------
(* Team invitations: what a call relies on between two of its steps.         *)

CallFits(k) ==
  /\ IsCall(k)
  /\ k.pc # "idle" =>
       (\E m \in Masters : k.by = {m}) /\ (\E t \in Teams : k.team = {t})
  /\ \A r \in k.tx.on : r \in k.tx.locked /\ subscription[r].on
  /\ k.pc = "accepted" => \A t \in k.team, r \in k.to : invitation[t][r].by = k.by
  /\ k.pc \in {"lock", "read", "create"} =>
       \A t \in k.team : Pending(t, k.to) \subseteq k.confirmed
  /\ k.pc = "create" =>
       /\ k.tx.fresh \subseteq k.confirmed /\ k.tx.room \subseteq k.tx.on
       /\ \A t \in k.team : \A r \in k.to \ k.tx.fresh : invitation[t][r].by = k.by
       /\ \A r \in k.tx.room : DailyCount(r, k.tx.day) < RecipientDailyLimit

LocksApart ==
  \A c, d \in Notifiers : c # d => notifier[c].tx.locked \cap notifier[d].tx.locked = {}

RowsFit ==
  /\ \A r \in Invitees : subscription[r].on => HasRow(r)
  /\ \A t \in Teams, r \in Invitees :
       /\ Invited(t, r) => invitation[t][r].by # {} /\ invitation[t][r].confirmed
       /\ created[t][r] <= 1 /\ (~Invited(t, r) => created[t][r] = 0)

InvitationInv ==
  /\ InvitationTypeOK /\ RowsFit /\ NoticesAreCurrent /\ DailyLimitKept /\ LocksApart
  /\ \A c \in Notifiers : CallFits(notifier[c])

LEMMA InvitationAssumptions ==
  /\ Invitees \subseteq Nat /\ IsFiniteSet(Teams)
  /\ RecipientDailyLimit \in Nat /\ Tries \in Nat /\ Tries # 0
  /\ MaxPreference \in Nat /\ LastDay \in Nat /\ MaxNotified \in Nat
BY InvitationAssumption

LEMMA CountIsNat == ASSUME NEW r, NEW d PROVE DailyCount(r, d) \in Nat
<1>1. {t \in Teams : invitation[t][r].enqueued /\ invitation[t][r].day = d} \subseteq Teams
  OBVIOUS
<1> QED BY <1>1, FS_Subset, FS_CardinalityType, InvitationAssumptions DEF DailyCount

LEMMA IdleIsCall == IsCall(NotCalled)
BY InvitationAssumptions DEF IsCall, NotCalled, NoTransaction

LEMMA InvitationInvInit == InvitationInit => InvitationInv
<1> SUFFICES ASSUME InvitationInit PROVE InvitationInv
  OBVIOUS
<1>1. \A c \in Notifiers : notifier[c] = NotCalled
  BY DEF InvitationInit
<1>2. \A c \in Notifiers : CallFits(notifier[c])
  BY <1>1, IdleIsCall DEF CallFits, NotCalled, NoTransaction
<1>3. InvitationTypeOK
  <2>1. NoInvitation \in [by : SUBSET Masters, enqueued : BOOLEAN, day : 0 .. LastDay, confirmed : BOOLEAN]
    BY InvitationAssumptions DEF NoInvitation
  <2>2. [on |-> FALSE, version |-> 0] \in [on : BOOLEAN, version : 0 .. MaxPreference]
    BY InvitationAssumptions
  <2>3. notifier = [c \in Notifiers |-> notifier[c]]
    BY DEF InvitationInit
  <2>4. /\ subscription \in [Invitees -> [on : BOOLEAN, version : 0 .. MaxPreference]]
        /\ invitation \in [Teams -> [Invitees -> [by : SUBSET Masters, enqueued : BOOLEAN,
                                                  day : 0 .. LastDay, confirmed : BOOLEAN]]]
    BY <2>1, <2>2 DEF InvitationInit
  <2> QED BY <2>3, <2>4, <1>1, IdleIsCall, InvitationAssumptions DEF InvitationInit, InvitationTypeOK, NoNotice
<1>4. RowsFit /\ NoticesAreCurrent /\ LocksApart
  BY <1>1 DEF InvitationInit, RowsFit, Invited, NoticesAreCurrent, NoNotice, LocksApart, NotCalled,
              NoTransaction
<1>5. DailyLimitKept
  <2> SUFFICES ASSUME NEW r \in Invitees, NEW d \in 0 .. LastDay
               PROVE  DailyCount(r, d) <= RecipientDailyLimit
    BY DEF DailyLimitKept
  <2>1. {t \in Teams : invitation[t][r].enqueued /\ invitation[t][r].day = d} = {}
    BY DEF InvitationInit, NoInvitation
  <2>2. DailyCount(r, d) = 0
    BY <2>1, FS_EmptySet DEF DailyCount
  <2> QED BY <2>2, InvitationAssumptions
<1> QED BY <1>2, <1>3, <1>4, <1>5 DEF InvitationInv

(* A step of a call that leaves the rows alone needs to leave only itself in *)
(* order.                                                                    *)
LEMMA CallStep ==
  ASSUME InvitationInv, UNCHANGED stored, notified' \in 0 .. MaxNotified,
         NEW c \in Notifiers, NEW k,
         notifier' = [notifier EXCEPT ![c] = k], CallFits(k),
         \A d \in Notifiers : d # c => k.tx.locked \cap notifier[d].tx.locked = {}
  PROVE  InvitationInv'
<1>1. /\ subscription' = subscription /\ invitation' = invitation /\ notice' = notice
      /\ day' = day /\ created' = created
  BY DEF stored
<1>2. notifier = [d \in Notifiers |-> notifier[d]]
  BY DEF InvitationInv, InvitationTypeOK
<1>3. /\ notifier' = [d \in Notifiers |-> notifier'[d]]
      /\ notifier'[c] = k /\ \A d \in Notifiers : d # c => notifier'[d] = notifier[d]
  BY <1>2
<1>4. \A r, d : DailyCount(r, d)' = DailyCount(r, d)
  BY <1>1 DEF DailyCount
<1>5. \A d \in Notifiers : CallFits(notifier'[d])
  BY <1>3 DEF InvitationInv
<1>6. \A d \in Notifiers : CallFits(notifier[d])'
  BY <1>1, <1>4, <1>5 DEF CallFits, IsCall, Pending, Invited
<1>7. InvitationTypeOK'
  BY <1>1, <1>3, <1>6 DEF InvitationInv, InvitationTypeOK, CallFits
<1>8. RowsFit' /\ NoticesAreCurrent' /\ DailyLimitKept'
  BY <1>1, <1>4 DEF InvitationInv, RowsFit, NoticesAreCurrent, DailyLimitKept, Invited, HasRow
<1>9. LocksApart'
  BY <1>3 DEF InvitationInv, LocksApart
<1> QED BY <1>6, <1>7, <1>8, <1>9 DEF InvitationInv

LEMMA CallEnds ==
  ASSUME InvitationInv, NEW c \in Notifiers, Refuse(c), UNCHANGED stored, UNCHANGED notified
  PROVE  InvitationInv'
<1>1. CallFits(NotCalled)
  BY IdleIsCall DEF CallFits, NotCalled, NoTransaction
<1>2. NotCalled.tx.locked = {}
  BY DEF NotCalled, NoTransaction
<1>3. notified' \in 0 .. MaxNotified
  BY DEF InvitationInv, InvitationTypeOK
<1> QED BY <1>1, <1>2, <1>3, CallStep DEF Refuse

LEMMA CallBegins ==
  ASSUME InvitationInv, NEW c \in Notifiers, NotifyTeamInvitation(c)
  PROVE  InvitationInv'
<1>1. PICK m \in Masters, t \in Teams, to \in SUBSET Invitees \ {{}} :
        /\ ~OtherMaster({m}, t, to)
        /\ notifier' = [notifier EXCEPT ![c] =
             [pc |-> IF Pending(t, to) = {} THEN "accepted" ELSE "lock",
              by |-> {m}, team |-> {t}, to |-> to, confirmed |-> Pending(t, to),
              tries |-> 0, tx |-> NoTransaction]]
  BY DEF NotifyTeamInvitation
<1> DEFINE k == [pc |-> IF Pending(t, to) = {} THEN "accepted" ELSE "lock",
                 by |-> {m}, team |-> {t}, to |-> to, confirmed |-> Pending(t, to),
                 tries |-> 0, tx |-> NoTransaction]
<1>2. /\ k.by = {m} /\ k.team = {t} /\ k.to = to /\ k.confirmed = Pending(t, to) /\ k.tries = 0
      /\ k.pc = IF Pending(t, to) = {} THEN "accepted" ELSE "lock"
      /\ k.tx = NoTransaction
      /\ k = [pc |-> k.pc, by |-> k.by, team |-> k.team, to |-> k.to, confirmed |-> k.confirmed,
              tries |-> k.tries, tx |-> k.tx]
  OBVIOUS
<1> HIDE DEF k
<1>3. Pending(t, to) \subseteq to
  BY DEF Pending
<1>4. NoTransaction = [looked |-> {}, locked |-> {}, on |-> {}, fresh |-> {}, room |-> {}, day |-> 0]
  BY DEF NoTransaction
<1>5. IsCall(k)
  BY <1>2, <1>3, <1>4, InvitationAssumptions DEF IsCall
<1>6. ASSUME Pending(t, to) = {}, NEW r \in to
      PROVE  invitation[t][r].by = {m}
  <2>1. Invited(t, r) /\ r \in Invitees
    BY <1>6 DEF Pending
  <2>2. invitation[t][r].by # {}
    BY <2>1 DEF InvitationInv, RowsFit
  <2>3. invitation[t][r].by \cap {m} = invitation[t][r].by
    BY <1>1 DEF OtherMaster
  <2> QED BY <2>2, <2>3
<1>7. CallFits(k)
  BY <1>2, <1>4, <1>5, <1>6 DEF CallFits
<1>8. notified' \in 0 .. MaxNotified /\ UNCHANGED stored
  BY InvitationAssumptions DEF NotifyTeamInvitation, InvitationInv, InvitationTypeOK
<1>9. notifier' = [notifier EXCEPT ![c] = k] /\ k.tx.locked = {}
  BY <1>1, <1>2, <1>4 DEF k
<1> QED BY <1>7, <1>8, <1>9, CallStep

(* A call that goes on keeps what it was called with.                        *)
LEMMA CallProceeds ==
  ASSUME InvitationInv, UNCHANGED stored, UNCHANGED notified, NEW c \in Notifiers,
         notifier[c].pc # "idle",
         NEW pc \in {"lock", "read", "create", "accepted"},
         NEW tx, NEW tries \in 0 .. Tries - 1, Proceed(c, pc, tx, tries),
         tx = [looked |-> tx.looked, locked |-> tx.locked, on |-> tx.on,
               fresh |-> tx.fresh, room |-> tx.room, day |-> tx.day],
         tx.looked \subseteq notifier[c].to, tx.locked \subseteq tx.looked,
         tx.on \subseteq tx.looked, tx.fresh \subseteq notifier[c].to,
         tx.room \subseteq tx.fresh, tx.day \in 0 .. LastDay,
         \A r \in tx.on : r \in tx.locked /\ subscription[r].on,
         \A d \in Notifiers : d # c => tx.locked \cap notifier[d].tx.locked = {},
         pc = "accepted" =>
           \A t \in notifier[c].team, r \in notifier[c].to : invitation[t][r].by = notifier[c].by,
         pc # "accepted" =>
           \A t \in notifier[c].team : Pending(t, notifier[c].to) \subseteq notifier[c].confirmed,
         pc = "create" =>
           /\ tx.fresh \subseteq notifier[c].confirmed /\ tx.room \subseteq tx.on
           /\ \A t \in notifier[c].team : \A r \in notifier[c].to \ tx.fresh :
                invitation[t][r].by = notifier[c].by
           /\ \A r \in tx.room : DailyCount(r, tx.day) < RecipientDailyLimit
  PROVE  InvitationInv'
<1> DEFINE k == [pc |-> pc, by |-> notifier[c].by, team |-> notifier[c].team, to |-> notifier[c].to,
                 confirmed |-> notifier[c].confirmed, tries |-> tries, tx |-> tx]
<1>1. /\ k.pc = pc /\ k.by = notifier[c].by /\ k.team = notifier[c].team /\ k.to = notifier[c].to
      /\ k.confirmed = notifier[c].confirmed /\ k.tries = tries /\ k.tx = tx
      /\ k = [pc |-> k.pc, by |-> k.by, team |-> k.team, to |-> k.to, confirmed |-> k.confirmed,
              tries |-> k.tries, tx |-> k.tx]
  OBVIOUS
<1>2. notifier' = [notifier EXCEPT ![c] = k]
  BY DEF Proceed
<1> HIDE DEF k
<1>3. /\ notifier[c].by \subseteq Masters /\ notifier[c].team \subseteq Teams
      /\ notifier[c].to \subseteq Invitees /\ notifier[c].confirmed \subseteq notifier[c].to
      /\ \E m \in Masters : notifier[c].by = {m} /\ \E t \in Teams : notifier[c].team = {t}
  BY DEF InvitationInv, CallFits, IsCall
<1>4. IsCall(k)
  BY <1>1, <1>3 DEF IsCall
<1>5. CallFits(k)
  BY <1>1, <1>3, <1>4 DEF CallFits
<1>6. notified' \in 0 .. MaxNotified
  BY DEF InvitationInv, InvitationTypeOK
<1> QED BY <1>1, <1>2, <1>5, <1>6, CallStep

LEMMA CallRetries ==
  ASSUME InvitationInv, NEW c \in Notifiers, RetryTransaction(c)
  PROVE  InvitationInv'
<1>1. /\ notifier[c].pc \in {"lock", "read", "create"} /\ UNCHANGED stored /\ UNCHANGED notified
      /\ Proceed(c, "lock", NoTransaction, notifier[c].tries + 1)
  BY DEF RetryTransaction
<1>2. notifier[c].tries + 1 \in 0 .. Tries - 1
  <2>1. notifier[c].tries \in 0 .. Tries - 1
    BY DEF InvitationInv, CallFits, IsCall
  <2>2. notifier[c].tries + 1 < Tries
    BY DEF RetryTransaction
  <2> QED BY <2>1, <2>2, InvitationAssumptions
<1>3. \A t \in notifier[c].team : Pending(t, notifier[c].to) \subseteq notifier[c].confirmed
  BY <1>1 DEF InvitationInv, CallFits
<1>4. /\ NoTransaction = [looked |-> NoTransaction.looked, locked |-> NoTransaction.locked,
                          on |-> NoTransaction.on, fresh |-> NoTransaction.fresh,
                          room |-> NoTransaction.room, day |-> NoTransaction.day]
      /\ NoTransaction.looked = {} /\ NoTransaction.locked = {} /\ NoTransaction.on = {}
      /\ NoTransaction.fresh = {} /\ NoTransaction.room = {} /\ NoTransaction.day \in 0 .. LastDay
  BY InvitationAssumptions DEF NoTransaction
<1> QED BY <1>1, <1>2, <1>3, <1>4, CallProceeds

LEMMA CallLocks ==
  ASSUME InvitationInv, NEW c \in Notifiers, SubscriptionForUpdate(c)
  PROVE  InvitationInv'
<1> DEFINE k == notifier[c]
<1>1. PICK r \in k.to \ k.tx.looked :
        /\ HasRow(r) => Unlocked(r)
        /\ Proceed(c, IF k.to = k.tx.looked \cup {r} THEN "read" ELSE "lock",
                   [looked |-> k.tx.looked \cup {r}, locked |-> Locks(k.tx.locked, r),
                    on |-> IF subscription[r].on THEN k.tx.on \cup {r} ELSE k.tx.on,
                    fresh |-> {}, room |-> {}, day |-> 0],
                   k.tries)
  BY DEF SubscriptionForUpdate
<1> DEFINE tx == [looked |-> k.tx.looked \cup {r}, locked |-> Locks(k.tx.locked, r),
                  on |-> IF subscription[r].on THEN k.tx.on \cup {r} ELSE k.tx.on,
                  fresh |-> {}, room |-> {}, day |-> 0]
           pc == IF k.to = k.tx.looked \cup {r} THEN "read" ELSE "lock"
<1>2. /\ tx.looked = k.tx.looked \cup {r} /\ tx.locked = Locks(k.tx.locked, r)
      /\ tx.on = IF subscription[r].on THEN k.tx.on \cup {r} ELSE k.tx.on
      /\ tx.fresh = {} /\ tx.room = {} /\ tx.day = 0
      /\ tx = [looked |-> tx.looked, locked |-> tx.locked, on |-> tx.on,
               fresh |-> tx.fresh, room |-> tx.room, day |-> tx.day]
  OBVIOUS
<1>3. k.pc = "lock" /\ UNCHANGED stored /\ UNCHANGED notified /\ pc \in {"lock", "read"}
  BY DEF SubscriptionForUpdate
<1>4. Proceed(c, pc, tx, k.tries)
  BY <1>1
<1> HIDE DEF tx, pc
<1>5. /\ k.tries \in 0 .. Tries - 1 /\ k.to \subseteq Invitees
      /\ k.tx.looked \subseteq k.to /\ k.tx.locked \subseteq k.tx.looked
      /\ k.tx.on \subseteq k.tx.looked
      /\ \A q \in k.tx.on : q \in k.tx.locked /\ subscription[q].on
      /\ \A t \in k.team : Pending(t, k.to) \subseteq k.confirmed
  BY <1>3 DEF InvitationInv, CallFits, IsCall
<1>6. subscription[r].on => HasRow(r)
  BY <1>5 DEF InvitationInv, RowsFit
<1>7. \A q \in tx.on : q \in tx.locked /\ subscription[q].on
  BY <1>2, <1>5, <1>6 DEF Locks
<1>8. \A d \in Notifiers : d # c => tx.locked \cap notifier[d].tx.locked = {}
  <2>1. \A d \in Notifiers : d # c => k.tx.locked \cap notifier[d].tx.locked = {}
    BY DEF InvitationInv, LocksApart
  <2> QED BY <2>1, <1>1, <1>2 DEF Locks, Unlocked
<1>9. tx.looked \subseteq k.to /\ tx.locked \subseteq tx.looked /\ tx.on \subseteq tx.looked
  BY <1>2, <1>5 DEF Locks
<1>10. tx.day \in 0 .. LastDay
  BY <1>2, InvitationAssumptions
<1> QED BY <1>2, <1>3, <1>4, <1>5, <1>7, <1>8, <1>9, <1>10, CallProceeds

LEMMA CallReads ==
  ASSUME InvitationInv, NEW c \in Notifiers, ReadInvitations(c)
  PROVE  InvitationInv'
<1> DEFINE k == notifier[c]
<1>1. k.pc = "read" /\ UNCHANGED stored /\ UNCHANGED notified
  BY DEF ReadInvitations
<1>2. PICK t \in k.team :
        \/ OtherMaster(k.by, t, k.to) /\ Refuse(c)
        \/ ~OtherMaster(k.by, t, k.to) /\ Pending(t, k.to) = {} /\ Accept(c)
        \/ /\ ~OtherMaster(k.by, t, k.to) /\ Pending(t, k.to) # {}
           /\ Proceed(c, "create",
                      [looked |-> k.tx.looked, locked |-> k.tx.locked, on |-> k.tx.on,
                       fresh |-> Pending(t, k.to), day |-> day,
                       room |-> {r \in Pending(t, k.to) \cap k.tx.on :
                                   DailyCount(r, day) < RecipientDailyLimit}],
                      k.tries)
  BY DEF ReadInvitations
<1>3. /\ k.tries \in 0 .. Tries - 1 /\ k.to \subseteq Invitees
      /\ k.tx.looked \subseteq k.to /\ k.tx.locked \subseteq k.tx.looked
      /\ k.tx.on \subseteq k.tx.looked
      /\ \A q \in k.tx.on : q \in k.tx.locked /\ subscription[q].on
      /\ \A u \in k.team : Pending(u, k.to) \subseteq k.confirmed
      /\ \A d \in Notifiers : d # c => k.tx.locked \cap notifier[d].tx.locked = {}
  BY <1>1 DEF InvitationInv, CallFits, IsCall, LocksApart
<1>4. k.team = {t} /\ t \in Teams /\ day \in 0 .. LastDay
  BY <1>1 DEF InvitationInv, CallFits, InvitationTypeOK
<1>5. ASSUME ~OtherMaster(k.by, t, k.to), NEW r \in k.to \ Pending(t, k.to)
      PROVE  invitation[t][r].by = k.by
  <2>1. Invited(t, r) /\ r \in Invitees
    BY <1>3 DEF Pending
  <2>2. invitation[t][r].by # {}
    BY <2>1, <1>4 DEF InvitationInv, RowsFit
  <2>3. invitation[t][r].by \cap k.by = invitation[t][r].by
    BY <1>5 DEF OtherMaster
  <2>4. PICK m \in Masters : k.by = {m}
    BY <1>1 DEF InvitationInv, CallFits
  <2> QED BY <2>2, <2>3, <2>4
<1>6. CASE OtherMaster(k.by, t, k.to) /\ Refuse(c)
  BY <1>1, <1>6, CallEnds
<1>7. CASE ~OtherMaster(k.by, t, k.to) /\ Pending(t, k.to) = {} /\ Accept(c)
  <2>1. /\ NoTransaction = [looked |-> NoTransaction.looked, locked |-> NoTransaction.locked,
                            on |-> NoTransaction.on, fresh |-> NoTransaction.fresh,
                            room |-> NoTransaction.room, day |-> NoTransaction.day]
        /\ NoTransaction.looked = {} /\ NoTransaction.locked = {} /\ NoTransaction.on = {}
        /\ NoTransaction.fresh = {} /\ NoTransaction.room = {} /\ NoTransaction.day \in 0 .. LastDay
    BY InvitationAssumptions DEF NoTransaction
  <2>2. \A u \in k.team, r \in k.to : invitation[u][r].by = k.by
    BY <1>4, <1>5, <1>7
  <2>3. 0 \in 0 .. Tries - 1 /\ Proceed(c, "accepted", NoTransaction, 0)
    BY <1>7, InvitationAssumptions DEF Accept
  <2> QED BY <1>1, <2>1, <2>2, <2>3, CallProceeds
<1>8. CASE /\ ~OtherMaster(k.by, t, k.to)
           /\ Proceed(c, "create",
                      [looked |-> k.tx.looked, locked |-> k.tx.locked, on |-> k.tx.on,
                       fresh |-> Pending(t, k.to), day |-> day,
                       room |-> {r \in Pending(t, k.to) \cap k.tx.on :
                                   DailyCount(r, day) < RecipientDailyLimit}],
                      k.tries)
  <2> DEFINE tx == [looked |-> k.tx.looked, locked |-> k.tx.locked, on |-> k.tx.on,
                    fresh |-> Pending(t, k.to), day |-> day,
                    room |-> {r \in Pending(t, k.to) \cap k.tx.on :
                                DailyCount(r, day) < RecipientDailyLimit}]
  <2>1. /\ tx.looked = k.tx.looked /\ tx.locked = k.tx.locked /\ tx.on = k.tx.on
        /\ tx.fresh = Pending(t, k.to) /\ tx.day = day
        /\ tx.room = {r \in Pending(t, k.to) \cap k.tx.on :
                        DailyCount(r, day) < RecipientDailyLimit}
        /\ tx = [looked |-> tx.looked, locked |-> tx.locked, on |-> tx.on,
                 fresh |-> tx.fresh, room |-> tx.room, day |-> tx.day]
    OBVIOUS
  <2>2. Proceed(c, "create", tx, k.tries)
    BY <1>8
  <2> HIDE DEF tx
  <2>3. Pending(t, k.to) \subseteq k.to
    BY DEF Pending
  <2>4. /\ tx.fresh \subseteq k.confirmed /\ tx.room \subseteq tx.on
        /\ \A u \in k.team : \A r \in k.to \ tx.fresh : invitation[u][r].by = k.by
        /\ \A r \in tx.room : DailyCount(r, tx.day) < RecipientDailyLimit
    BY <2>1, <1>3, <1>4, <1>5, <1>8
  <2>5. /\ tx.looked \subseteq k.to /\ tx.locked \subseteq tx.looked /\ tx.on \subseteq tx.looked
        /\ tx.fresh \subseteq k.to /\ tx.room \subseteq tx.fresh /\ tx.day \in 0 .. LastDay
        /\ \A r \in tx.on : r \in tx.locked /\ subscription[r].on
        /\ \A d \in Notifiers : d # c => tx.locked \cap notifier[d].tx.locked = {}
    BY <2>1, <2>3, <1>3, <1>4
  <2> QED BY <1>1, <1>3, <2>1, <2>2, <2>4, <2>5, CallProceeds
<1> QED BY <1>2, <1>6, <1>7, <1>8

LEMMA PreferenceChanges ==
  ASSUME InvitationInv, NEW r \in Invitees, ChangePreference(r)
  PROVE  InvitationInv'
<1>1. /\ invitation' = invitation /\ notifier' = notifier /\ day' = day
      /\ notified' = notified /\ created' = created /\ Unlocked(r)
      /\ subscription[r].version < MaxPreference
  BY DEF ChangePreference
<1>2. PICK on \in BOOLEAN :
        subscription' = [subscription EXCEPT ![r].on = on, ![r].version = @ + 1]
  BY DEF ChangePreference
<1>3. subscription \in [Invitees -> [on : BOOLEAN, version : 0 .. MaxPreference]]
  BY DEF InvitationInv, InvitationTypeOK
<1>4. /\ subscription' \in [Invitees -> [on : BOOLEAN, version : 0 .. MaxPreference]]
      /\ subscription'[r].version > 0
      /\ \A q \in Invitees : q # r => subscription'[q] = subscription[q]
  BY <1>1, <1>2, <1>3, InvitationAssumptions
<1>5. /\ notice' \in [Teams -> [Invitees -> 0 .. MaxPreference]]
      /\ \A t \in Teams, q \in Invitees :
           notice'[t][q] = IF subscription[r].on /\ q = r THEN NoNotice ELSE notice[t][q]
  <2>1. notice \in [Teams -> [Invitees -> 0 .. MaxPreference]]
    BY DEF InvitationInv, InvitationTypeOK
  <2>2. notice' = IF subscription[r].on THEN Suppressed(r) ELSE notice
    BY DEF ChangePreference
  <2> QED BY <2>1, <2>2, InvitationAssumptions DEF Suppressed, NoNotice
<1>6. \A q, d : DailyCount(q, d)' = DailyCount(q, d)
  BY <1>1 DEF DailyCount
<1>7. ASSUME NEW c \in Notifiers PROVE CallFits(notifier[c])'
  <2>1. CallFits(notifier[c]) /\ r \notin notifier[c].tx.locked
    BY <1>1 DEF InvitationInv, Unlocked
  <2>2. \A q \in notifier[c].tx.on : subscription'[q].on
    BY <2>1, <1>4 DEF CallFits, IsCall
  <2> QED BY <1>1, <1>6, <2>1, <2>2 DEF CallFits, IsCall, Pending, Invited
<1>8. InvitationTypeOK'
  BY <1>1, <1>4, <1>5, <1>7 DEF InvitationInv, InvitationTypeOK, CallFits
<1>9. RowsFit'
  BY <1>1, <1>4 DEF InvitationInv, RowsFit, HasRow, Invited
<1>10. NoticesAreCurrent'
  BY <1>4, <1>5 DEF InvitationInv, NoticesAreCurrent
<1>11. DailyLimitKept' /\ LocksApart'
  BY <1>1, <1>6 DEF InvitationInv, DailyLimitKept, LocksApart
<1> QED BY <1>7, <1>8, <1>9, <1>10, <1>11 DEF InvitationInv

LEMMA NoticeOrDayEnds ==
  ASSUME InvitationInv, EndOfDay \/ (\E t \in Teams, r \in Invitees : EndNotice(t, r))
  PROVE  InvitationInv'
<1>1. /\ subscription' = subscription /\ invitation' = invitation /\ notifier' = notifier
      /\ notified' = notified /\ created' = created
  BY DEF EndOfDay, EndNotice
<1>2. day' \in 0 .. LastDay /\ notice' \in [Teams -> [Invitees -> 0 .. MaxPreference]]
      /\ \A t \in Teams, r \in Invitees : notice'[t][r] = notice[t][r] \/ notice'[t][r] = NoNotice
  <2>1. day \in 0 .. LastDay /\ notice \in [Teams -> [Invitees -> 0 .. MaxPreference]]
    BY DEF InvitationInv, InvitationTypeOK
  <2>2. CASE EndOfDay
    BY <2>1, <2>2, InvitationAssumptions DEF EndOfDay
  <2>3. CASE \E t \in Teams, r \in Invitees : EndNotice(t, r)
    BY <2>1, <2>3, InvitationAssumptions DEF EndNotice, NoNotice
  <2> QED BY <2>2, <2>3
<1>3. \A q, d : DailyCount(q, d)' = DailyCount(q, d)
  BY <1>1 DEF DailyCount
<1>4. \A c \in Notifiers : CallFits(notifier[c])'
  BY <1>1, <1>3 DEF InvitationInv, CallFits, IsCall, Pending, Invited
<1>5. InvitationTypeOK'
  BY <1>1, <1>2, <1>4 DEF InvitationInv, InvitationTypeOK, CallFits
<1>6. RowsFit' /\ NoticesAreCurrent' /\ DailyLimitKept' /\ LocksApart'
  BY <1>1, <1>2, <1>3 DEF InvitationInv, RowsFit, HasRow, Invited, NoticesAreCurrent, DailyLimitKept,
                          LocksApart
<1> QED BY <1>4, <1>5, <1>6 DEF InvitationInv

(* What a commit does to the count of a day: the row locks are what lets a   *)
(* call rely on the count it made.                                           *)
LEMMA OneMoreCounts ==
  ASSUME NEW t \in Teams, NEW r, NEW d,
         \A u \in Teams : u # t => invitation'[u][r] = invitation[u][r]
  PROVE  DailyCount(r, d)' <= DailyCount(r, d) + 1
<1> DEFINE S == {u \in Teams : invitation[u][r].enqueued /\ invitation[u][r].day = d}
           T == {u \in Teams : invitation'[u][r].enqueued /\ invitation'[u][r].day = d}
<1>1. IsFiniteSet(S) /\ S \subseteq Teams
  BY FS_Subset, InvitationAssumptions
<1>2. T \subseteq S \cup {t}
  OBVIOUS
<1>3. Cardinality(S) \in Nat /\ IsFiniteSet(S \cup {t})
      /\ (Cardinality(S \cup {t}) = Cardinality(S) \/ Cardinality(S \cup {t}) = Cardinality(S) + 1)
  BY <1>1, FS_AddElement, FS_CardinalityType
<1>4. Cardinality(T) <= Cardinality(S \cup {t}) /\ IsFiniteSet(T)
  BY <1>2, <1>3, FS_Subset
<1>5. Cardinality(T) \in Nat /\ Cardinality(S \cup {t}) \in Nat
  BY <1>3, <1>4, FS_CardinalityType
<1>6. DailyCount(r, d) = Cardinality(S) /\ DailyCount(r, d)' = Cardinality(T)
  BY DEF DailyCount
<1> HIDE DEF S, T
<1> QED BY <1>3, <1>4, <1>5, <1>6

LEMMA InvitationsAreCreated ==
  ASSUME InvitationInv, NEW c \in Notifiers, CreateInvitation(c)
  PROVE  InvitationInv'
<1> DEFINE k == notifier[c]
           row(r) == [by |-> k.by, enqueued |-> r \in k.tx.room, day |-> k.tx.day,
                      confirmed |-> r \in k.confirmed]
<1>1. PICK t \in k.team :
        /\ Insertable(k.tx.fresh, t)
        /\ invitation' = [invitation EXCEPT ![t] = [r \in Invitees |->
             IF r \in k.tx.fresh THEN row(r) ELSE invitation[t][r]]]
        /\ notice' = [notice EXCEPT ![t] = [r \in Invitees |->
             IF r \in k.tx.room THEN subscription[r].version ELSE notice[t][r]]]
        /\ created' = [created EXCEPT ![t] = [r \in Invitees |->
             IF r \in k.tx.room THEN created[t][r] + 1 ELSE created[t][r]]]
  BY DEF CreateInvitation
<1>2. /\ k.pc = "create"
      /\ Accept(c) \/ Refuse(c)
      /\ subscription' = subscription /\ day' = day /\ notified' = notified
  BY DEF CreateInvitation
<1>3. CallFits(k)
  BY DEF InvitationInv
<1>4. /\ k.team = {t} /\ t \in Teams /\ k.by \subseteq Masters /\ k.by # {}
      /\ k.to \subseteq Invitees /\ k.tx.fresh \subseteq k.confirmed /\ k.tx.fresh \subseteq k.to
      /\ k.tx.room \subseteq k.tx.fresh /\ k.tx.day \in 0 .. LastDay
      /\ \A r \in k.tx.room : /\ r \in k.tx.locked /\ subscription[r].on
                              /\ DailyCount(r, k.tx.day) < RecipientDailyLimit
      /\ \A r \in k.to \ k.tx.fresh : invitation[t][r].by = k.by
  <2>1. IsCall(k) /\ (\E m \in Masters : k.by = {m}) /\ (\E u \in Teams : k.team = {u})
    BY <1>2, <1>3 DEF CallFits
  <2>2. /\ k.tx.fresh \subseteq k.confirmed /\ k.tx.room \subseteq k.tx.on
        /\ \A u \in k.team : \A r \in k.to \ k.tx.fresh : invitation[u][r].by = k.by
        /\ \A r \in k.tx.room : DailyCount(r, k.tx.day) < RecipientDailyLimit
        /\ \A r \in k.tx.on : r \in k.tx.locked /\ subscription[r].on
    BY <1>2, <1>3 DEF CallFits
  <2>3. /\ k.to \subseteq Invitees /\ k.tx.fresh \subseteq k.to
        /\ k.tx.room \subseteq k.tx.fresh /\ k.tx.day \in 0 .. LastDay
    BY <2>1 DEF IsCall
  <2>4. k.team = {t} /\ t \in Teams /\ k.by \subseteq Masters /\ k.by # {}
    BY <2>1
  <2> HIDE DEF k
  <2> QED BY <2>2, <2>3, <2>4
<1>5. \A r \in k.tx.fresh : invitation[t][r] = NoInvitation
  BY <1>1 DEF Insertable, Pending, Invited
<1>6. /\ invitation \in [Teams -> [Invitees -> [by : SUBSET Masters, enqueued : BOOLEAN,
                                                day : 0 .. LastDay, confirmed : BOOLEAN]]]
      /\ notice \in [Teams -> [Invitees -> 0 .. MaxPreference]]
      /\ created \in [Teams -> [Invitees -> Nat]]
      /\ subscription \in [Invitees -> [on : BOOLEAN, version : 0 .. MaxPreference]]
  BY DEF InvitationInv, InvitationTypeOK
<1>7. ASSUME NEW r \in Invitees
      PROVE  /\ row(r) \in [by : SUBSET Masters, enqueued : BOOLEAN, day : 0 .. LastDay,
                            confirmed : BOOLEAN]
             /\ row(r).by = k.by /\ row(r).day = k.tx.day
             /\ row(r).enqueued <=> r \in k.tx.room
             /\ row(r).confirmed <=> r \in k.confirmed
  <2>1. PICK e \in BOOLEAN, f \in BOOLEAN : e = (r \in k.tx.room) /\ f = (r \in k.confirmed)
    <3>1. (r \in k.tx.room) \in BOOLEAN /\ (r \in k.confirmed) \in BOOLEAN
      OBVIOUS
    <3> QED BY <3>1, Zenon
  <2>2. row(r) = [by |-> k.by, enqueued |-> e, day |-> k.tx.day, confirmed |-> f]
    BY <2>1, Zenon
  <2> DEFINE v == [by |-> k.by, enqueued |-> e, day |-> k.tx.day, confirmed |-> f]
  <2>3. /\ v \in [by : SUBSET Masters, enqueued : BOOLEAN, day : 0 .. LastDay, confirmed : BOOLEAN]
        /\ v.by = k.by /\ v.day = k.tx.day /\ v.enqueued = e /\ v.confirmed = f
    BY <1>4
  <2>4. row(r) = v
    BY <2>2
  <2> HIDE DEF v, row
  <2> QED BY <2>1, <2>3, <2>4, Zenon
<1> HIDE DEF row
<1>8. /\ invitation' \in [Teams -> [Invitees -> [by : SUBSET Masters, enqueued : BOOLEAN,
                                                 day : 0 .. LastDay, confirmed : BOOLEAN]]]
      /\ \A u \in Teams : u # t => invitation'[u] = invitation[u]
      /\ \A r \in Invitees :
           invitation'[t][r] = IF r \in k.tx.fresh THEN row(r) ELSE invitation[t][r]
  BY <1>1, <1>4, <1>6, <1>7
<1>9. \A u \in Teams, r \in Invitees : Invited(u, r) => invitation'[u][r] = invitation[u][r]
  BY <1>4, <1>5, <1>8 DEF Invited
<1>10. /\ notice' \in [Teams -> [Invitees -> 0 .. MaxPreference]]
       /\ \A u \in Teams : u # t => notice'[u] = notice[u]
       /\ \A r \in Invitees :
            notice'[t][r] = IF r \in k.tx.room THEN subscription[r].version ELSE notice[t][r]
  BY <1>1, <1>4, <1>6
<1>11. /\ created' \in [Teams -> [Invitees -> Nat]]
       /\ \A u \in Teams : u # t => created'[u] = created[u]
       /\ \A r \in Invitees :
            created'[t][r] = IF r \in k.tx.room THEN created[t][r] + 1 ELSE created[t][r]
  BY <1>1, <1>4, <1>6
<1>12. ASSUME NEW r \in Invitees, NEW d, r \notin k.tx.room \/ d # k.tx.day
       PROVE  DailyCount(r, d)' = DailyCount(r, d)
  <2>1. ~NoInvitation.enqueued
    BY DEF NoInvitation
  <2>2. \A u \in Teams : invitation'[u][r].enqueued /\ invitation'[u][r].day = d
                           <=> invitation[u][r].enqueued /\ invitation[u][r].day = d
    BY <1>5, <1>7, <1>8, <1>12, <2>1
  <2>3. {u \in Teams : invitation'[u][r].enqueued /\ invitation'[u][r].day = d}
          = {u \in Teams : invitation[u][r].enqueued /\ invitation[u][r].day = d}
    BY <2>2
  <2> QED BY <2>3 DEF DailyCount
<1>13. DailyLimitKept'
  <2> SUFFICES ASSUME NEW r \in Invitees, NEW d \in 0 .. LastDay
               PROVE  DailyCount(r, d)' <= RecipientDailyLimit
    BY DEF DailyLimitKept
  <2>1. CASE r \notin k.tx.room \/ d # k.tx.day
    BY <2>1, <1>12 DEF InvitationInv, DailyLimitKept
  <2>2. CASE r \in k.tx.room /\ d = k.tx.day
    <3>1. DailyCount(r, d) < RecipientDailyLimit
      BY <2>2, <1>4
    <3>2. DailyCount(r, d)' <= DailyCount(r, d) + 1
      BY <1>4, <1>8, OneMoreCounts
    <3>3. DailyCount(r, d)' \in Nat
      <4>1. {u \in Teams : invitation'[u][r].enqueued /\ invitation'[u][r].day = d} \subseteq Teams
        OBVIOUS
      <4> QED BY <4>1, FS_Subset, FS_CardinalityType, InvitationAssumptions DEF DailyCount
    <3> QED BY <3>1, <3>2, <3>3, CountIsNat, InvitationAssumptions
  <2> QED BY <2>1, <2>2
<1>14. RowsFit'
  <2>1. ASSUME NEW u \in Teams, NEW r \in Invitees
        PROVE  /\ Invited(u, r)' => invitation'[u][r].by # {} /\ invitation'[u][r].confirmed
               /\ created'[u][r] <= 1 /\ (~Invited(u, r)' => created'[u][r] = 0)
    <3>1. /\ Invited(u, r) => invitation[u][r].by # {} /\ invitation[u][r].confirmed
          /\ created[u][r] <= 1 /\ (~Invited(u, r) => created[u][r] = 0)
      BY DEF InvitationInv, RowsFit
    <3>2. CASE u = t /\ r \in k.tx.fresh
      <4>1. invitation'[u][r].by = k.by /\ invitation'[u][r].confirmed
        BY <3>2, <1>4, <1>7, <1>8
      <4>2. Invited(u, r)'
        BY <4>1, <1>4 DEF Invited, NoInvitation
      <4>3. created[u][r] = 0
        BY <3>1, <3>2, <1>5 DEF Invited
      <4> QED BY <3>2, <4>1, <4>2, <4>3, <1>4, <1>11
    <3>3. CASE ~(u = t /\ r \in k.tx.fresh)
      <4>1. invitation'[u][r] = invitation[u][r] /\ created'[u][r] = created[u][r]
        BY <3>3, <1>4, <1>8, <1>11
      <4> QED BY <3>1, <4>1 DEF Invited
    <3> QED BY <3>2, <3>3
  <2>2. \A r \in Invitees : subscription'[r].on => HasRow(r)'
    BY <1>2 DEF InvitationInv, RowsFit, HasRow
  <2> QED BY <2>1, <2>2 DEF RowsFit
<1>15. NoticesAreCurrent'
  BY <1>2, <1>4, <1>10 DEF InvitationInv, NoticesAreCurrent
<1>16. /\ notifier' = [d \in Notifiers |-> notifier'[d]]
       /\ \A d \in Notifiers : d # c => notifier'[d] = notifier[d]
       /\ notifier'[c] = NotCalled \/
            notifier'[c] = [pc |-> "accepted", by |-> k.by, team |-> k.team, to |-> k.to,
                            confirmed |-> k.confirmed, tries |-> 0, tx |-> NoTransaction]
  <2>1. notifier = [d \in Notifiers |-> notifier[d]]
    BY DEF InvitationInv, InvitationTypeOK
  <2> QED BY <2>1, <1>2 DEF Accept, Refuse, Proceed
<1>17. CallFits(notifier[c])'
  <2>1. CASE notifier'[c] = NotCalled
    BY <2>1, IdleIsCall DEF CallFits, NotCalled, NoTransaction, IsCall
  <2>2. CASE notifier'[c] = [pc |-> "accepted", by |-> k.by, team |-> k.team, to |-> k.to,
                            confirmed |-> k.confirmed, tries |-> 0, tx |-> NoTransaction]
    <3> DEFINE n == notifier'[c]
    <3>1. /\ n = [pc |-> n.pc, by |-> n.by, team |-> n.team, to |-> n.to, confirmed |-> n.confirmed,
                  tries |-> n.tries, tx |-> n.tx]
          /\ n.pc = "accepted" /\ n.by = k.by /\ n.team = k.team /\ n.to = k.to
          /\ n.confirmed = k.confirmed /\ n.tries = 0 /\ n.tx = NoTransaction
      BY <2>2
    <3> HIDE DEF n
    <3>2. IsCall(n)
      <4>1. k.confirmed \subseteq k.to
        BY <1>3 DEF CallFits, IsCall
      <4> QED BY <3>1, <4>1, <1>4, InvitationAssumptions DEF IsCall, NoTransaction
    <3>3. \A u \in n.team, r \in n.to : invitation'[u][r].by = n.by
      BY <3>1, <1>4, <1>7, <1>8
    <3>4. \E m \in Masters : n.by = {m}
      <4>1. \E m \in Masters : k.by = {m}
        BY <1>2, <1>3 DEF CallFits
      <4> QED BY <3>1, <4>1
    <3>5. \A r \in n.tx.on : r \in n.tx.locked /\ subscription'[r].on
      BY <3>1 DEF NoTransaction
    <3> QED BY <3>1, <3>2, <3>3, <3>4, <3>5, <1>4 DEF CallFits, IsCall, n
  <2> QED BY <1>16, <2>1, <2>2
<1>18. ASSUME NEW d \in Notifiers, d # c PROVE CallFits(notifier[d])'
  <2> DEFINE j == notifier[d]
  <2>1. CallFits(j) /\ notifier'[d] = j /\ j.tx.locked \cap k.tx.locked = {}
    BY <1>16, <1>18 DEF InvitationInv, LocksApart
  <2>2. IsCall(j)
    BY <2>1 DEF CallFits
  <2>3. /\ j.team \subseteq Teams /\ j.to \subseteq Invitees /\ j.tx.fresh \subseteq j.to
        /\ j.tx.room \subseteq j.tx.fresh
    BY <2>2 DEF IsCall
  <2>4. ASSUME NEW u \in j.team, NEW r \in j.to, invitation[u][r].by = j.by, j.pc # "idle"
        PROVE  invitation'[u][r].by = j.by
    <3>1. Invited(u, r)
      BY <2>1, <2>4 DEF CallFits, Invited, NoInvitation
    <3> QED BY <3>1, <2>3, <2>4, <1>9
  <2>5. \A u \in j.team : \A to : to = j.to => Pending(u, to)' \subseteq Pending(u, to)
    BY <2>3, <1>9 DEF Pending, Invited
  <2>6. ASSUME j.pc = "create", NEW r \in j.tx.room, NEW v, v = j.tx.day
        PROVE  DailyCount(r, v)' < RecipientDailyLimit
    <3>1. r \in j.tx.locked /\ r \in Invitees /\ DailyCount(r, v) < RecipientDailyLimit
      BY <2>1, <2>3, <2>6 DEF CallFits
    <3>2. r \notin k.tx.room
      BY <3>1, <2>1, <1>4
    <3> QED BY <3>1, <3>2, <1>12
  <2>7. \A r \in j.tx.on : r \in j.tx.locked /\ subscription'[r].on
    BY <2>1, <1>2 DEF CallFits
  <2>8. IsCall(notifier[d])'
    BY <2>1, <2>2 DEF IsCall
  <2>9. j.pc = "create" => /\ j.tx.fresh \subseteq j.confirmed /\ j.tx.room \subseteq j.tx.on
                           /\ \A u \in j.team : \A r \in j.to \ j.tx.fresh : invitation'[u][r].by = j.by
                           /\ \A r \in j.tx.room : \A v : v = j.tx.day =>
                                DailyCount(r, v)' < RecipientDailyLimit
    BY <2>1, <2>4, <2>6 DEF CallFits
  <2>10. j.pc \in {"lock", "read", "create"} =>
           \A u \in j.team : \A to : to = j.to => Pending(u, to)' \subseteq j.confirmed
    BY <2>1, <2>5 DEF CallFits
  <2>11. j.pc = "accepted" => \A u \in j.team, r \in j.to : invitation'[u][r].by = j.by
    BY <2>1, <2>4 DEF CallFits
  <2>12. j.pc # "idle" => (\E m \in Masters : j.by = {m}) /\ (\E u \in Teams : j.team = {u})
    BY <2>1 DEF CallFits
  <2> HIDE DEF j
  <2> QED BY <2>1, <2>7, <2>8, <2>9, <2>10, <2>11, <2>12 DEF CallFits
<1>19. InvitationTypeOK'
  <2>1. \A d \in Notifiers : IsCall(notifier[d])'
    BY <1>17, <1>18 DEF CallFits
  <2> QED BY <2>1, <1>2, <1>8, <1>10, <1>11, <1>16 DEF InvitationInv, InvitationTypeOK
<1>20. LocksApart'
  <2>1. notifier'[c].tx.locked = {}
    BY <1>16 DEF NotCalled, NoTransaction
  <2> QED BY <2>1, <1>16 DEF InvitationInv, LocksApart
<1> QED BY <1>13, <1>14, <1>15, <1>17, <1>18, <1>19, <1>20 DEF InvitationInv

LEMMA InvitationInvKept == InvitationInv /\ [InvitationNext]_invitationVars => InvitationInv'
<1> SUFFICES ASSUME InvitationInv, [InvitationNext]_invitationVars PROVE InvitationInv'
  OBVIOUS
<1>1. CASE UNCHANGED invitationVars
  <2>1. \A q, d : DailyCount(q, d)' = DailyCount(q, d)
    BY <1>1 DEF invitationVars, DailyCount
  <2>2. \A c \in Notifiers : CallFits(notifier[c])'
    BY <1>1, <2>1 DEF invitationVars, InvitationInv, CallFits, IsCall, Pending, Invited
  <2>3. InvitationTypeOK'
    BY <1>1, <2>2 DEF invitationVars, InvitationInv, InvitationTypeOK, CallFits
  <2>4. RowsFit' /\ NoticesAreCurrent' /\ DailyLimitKept' /\ LocksApart'
    BY <1>1, <2>1 DEF invitationVars, InvitationInv, RowsFit, HasRow, Invited, NoticesAreCurrent,
                      DailyLimitKept, LocksApart
  <2> QED BY <2>2, <2>3, <2>4 DEF InvitationInv
<1>2. ASSUME NEW c \in Notifiers, EndCall(c) PROVE InvitationInv'
  BY <1>2, CallEnds DEF EndCall
<1> QED BY <1>1, <1>2, PreferenceChanges, NoticeOrDayEnds, CallBegins, CallLocks, CallReads,
           CallRetries, InvitationsAreCreated DEF InvitationNext

(* No student is told of more invitations on a day than the limit, for any   *)
(* number of students, teams, masters and calls at the same time.            *)
THEOREM NobodyIsSwamped == InvitationSpec => []DailyLimitKept
<1>1. InvitationInv => DailyLimitKept
  BY DEF InvitationInv
<1> QED BY <1>1, InvitationInvInit, InvitationInvKept, PTL DEF InvitationSpec

(* Invitations are kept for good, told once, under the current preference,   *)
(* and stand behind every call that was accepted, for any instance.          *)
THEOREM InvitationsAreKept == InvitationSpec => []InvitationsKept
<1>1. InvitationInv => InvitationsKept
  <2> SUFFICES ASSUME InvitationInv PROVE InvitationsKept
    OBVIOUS
  <2>1. InvitedOnce /\ OnlyConfirmed
    BY DEF InvitationInv, RowsFit, InvitedOnce, OnlyConfirmed
  <2>2. AcceptedIsRecorded
    BY DEF InvitationInv, CallFits, AcceptedIsRecorded
  <2> QED BY <2>1, <2>2 DEF InvitationInv, InvitationsKept
<1> QED BY <1>1, InvitationInvInit, InvitationInvKept, PTL DEF InvitationSpec
=============================================================================
