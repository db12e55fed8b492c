--------------------------- MODULE UserState_proof ---------------------------
(* Proofs about the sessions of the bff, the accounts of be-user, the       *)
(* scores, levels and boosts of be-counter and the daily activity of the    *)
(* bff, for any number of sessions, processes, services, clients, calls,    *)
(* runs and students, any batch, window and calendar, and any bound.        *)
EXTENDS LoginSessions, UserCredentials, CounterRefresh, ActivityDays, FiniteSetTheorems,
        WellFoundedInduction, TLAPS

-----------------------------------------------------------------------------
(* Sessions.  What a logout leaves behind outlasts every token: those that  *)
(* were handed out, and the one a RefreshToken may still hand out that      *)
(* found the session good before.                                           *)

SessionShape ==
  /\ clock \in Nat \ {0}
  /\ clock <= MaxTime
  /\ refreshUntil \in [Sessions -> Nat]
  /\ tokenUntil \in [Sessions -> Nat]
  /\ loggedOutUntil \in [Sessions -> Nat]
  /\ refreshing \in [Sessions -> 1 .. Never]
  /\ requesting \in [Sessions -> BOOLEAN]
  /\ loggedOut \subseteq Sessions

TimesFit(s) ==
  /\ refreshUntil[s] <= clock + RefreshLife
  /\ tokenUntil[s] <= clock + TokenLife
  /\ loggedOutUntil[s] <= clock + RefreshLife
  /\ tokenUntil[s] > 0 => refreshUntil[s] > 0
  /\ requesting[s] => refreshUntil[s] > 0
  /\ refreshing[s] # Never => /\ refreshUntil[s] > 0
                              /\ refreshing[s] <= clock /\ clock <= refreshing[s] + HandlerTime

RecordOutlasts(s) ==
  s \in loggedOut =>
    /\ refreshUntil[s] > 0
    /\ refreshUntil[s] <= loggedOutUntil[s]
    /\ tokenUntil[s] <= loggedOutUntil[s]
    /\ refreshing[s] # Never => refreshing[s] + HandlerTime + TokenLife <= loggedOutUntil[s]

SessionInv ==
  /\ SessionShape
  /\ \A s \in Sessions : TimesFit(s) /\ RecordOutlasts(s)

(* No session, nobody logged out, at the beginning. *)
LEMMA SessionInvInit == SessionInit => SessionInv
BY SessionAssumption
   DEF SessionAssumption, SessionInit, SessionInv, SessionShape, TimesFit, RecordOutlasts, Never

(* Every step keeps it. *)
LEMMA SessionInvStep == SessionInv /\ [SessionNext]_sessionVars => SessionInv'
<1> SUFFICES ASSUME SessionInv, [SessionNext]_sessionVars PROVE SessionInv'
  OBVIOUS
<1> USE SessionAssumption DEF SessionAssumption, Never
<1>shape. SessionShape /\ \A s \in Sessions : TimesFit(s) /\ RecordOutlasts(s)
  BY DEF SessionInv
<1>each. ASSUME SessionShape', \A s \in Sessions : TimesFit(s)' /\ RecordOutlasts(s)'
         PROVE  SessionInv'
  BY <1>each DEF SessionInv
<1>1. CASE PassTime
  <2>1. SessionShape'
    BY <1>1, <1>shape DEF PassTime, SessionShape
  <2>2. ASSUME NEW s \in Sessions PROVE TimesFit(s)' /\ RecordOutlasts(s)'
    BY <1>1, <1>shape DEF PassTime, SessionShape, TimesFit, RecordOutlasts
  <2> QED BY <2>1, <2>2, <1>each
<1>2. ASSUME NEW x \in Sessions, LogIn(x) PROVE SessionInv'
  <2>1. SessionShape'
    BY <1>2, <1>shape DEF LogIn, SessionShape
  <2>2. ASSUME NEW s \in Sessions PROVE TimesFit(s)' /\ RecordOutlasts(s)'
    BY <1>2, <1>shape DEF LogIn, SessionShape, TimesFit, RecordOutlasts
  <2> QED BY <2>1, <2>2, <1>each
<1>3. ASSUME NEW x \in Sessions, BeginRefresh(x) PROVE SessionInv'
  <2>1. SessionShape'
    BY <1>3, <1>shape DEF BeginRefresh, SessionShape
  <2>2. ASSUME NEW s \in Sessions PROVE TimesFit(s)' /\ RecordOutlasts(s)'
    BY <1>3, <1>shape DEF BeginRefresh, SessionGood, SessionShape, TimesFit, RecordOutlasts
  <2> QED BY <2>1, <2>2, <1>each
<1>4. ASSUME NEW x \in Sessions, EndRefresh(x) PROVE SessionInv'
  <2>1. SessionShape'
    BY <1>4, <1>shape DEF EndRefresh, SessionShape
  <2>2. ASSUME NEW s \in Sessions PROVE TimesFit(s)' /\ RecordOutlasts(s)'
    <3>1. CASE s = x
      <4>1. /\ refreshing[x] # Never /\ refreshing'[x] = Never
            /\ tokenUntil'[x] = clock + TokenLife
            /\ UNCHANGED <<clock, refreshUntil, loggedOutUntil, requesting, loggedOut>>
        BY <1>4, <1>shape DEF EndRefresh, SessionShape
      <4>2. clock + TokenLife <= refreshing[x] + HandlerTime + TokenLife
        BY <4>1, <1>shape DEF SessionShape, TimesFit
      <4>3. refreshUntil[x] > 0
        BY <4>1, <1>shape DEF SessionShape, TimesFit
      <4> QED BY <3>1, <4>1, <4>2, <4>3, <1>shape DEF SessionShape, TimesFit, RecordOutlasts
    <3>2. CASE s # x
      BY <3>2, <1>4, <1>shape DEF EndRefresh, SessionShape, TimesFit, RecordOutlasts
    <3> QED BY <3>1, <3>2
  <2> QED BY <2>1, <2>2, <1>each
<1>5. ASSUME NEW x \in Sessions, AdmitRequest(x) \/ EndRequest(x) PROVE SessionInv'
  <2>1. SessionShape'
    BY <1>5, <1>shape DEF AdmitRequest, EndRequest, SessionShape
  <2>2. ASSUME NEW s \in Sessions PROVE TimesFit(s)' /\ RecordOutlasts(s)'
    BY <1>5, <1>shape DEF AdmitRequest, EndRequest, SessionShape, TimesFit, RecordOutlasts
  <2> QED BY <2>1, <2>2, <1>each
<1>6. ASSUME NEW x \in Sessions, LogOut(x) PROVE SessionInv'
  <2>1. SessionShape'
    BY <1>6, <1>shape DEF LogOut, SessionShape
  <2>2. ASSUME NEW s \in Sessions PROVE TimesFit(s)' /\ RecordOutlasts(s)'
    BY <1>6, <1>shape DEF LogOut, SessionShape, TimesFit, RecordOutlasts
  <2> QED BY <2>1, <2>2, <1>each
<1>7. CASE UNCHANGED sessionVars
  <2>1. SessionShape'
    BY <1>7, <1>shape DEF sessionVars, SessionShape
  <2>2. ASSUME NEW s \in Sessions PROVE TimesFit(s)' /\ RecordOutlasts(s)'
    BY <1>7, <1>shape DEF sessionVars, TimesFit, RecordOutlasts
  <2> QED BY <2>1, <2>2, <1>each
<1> QED BY <1>1, <1>2, <1>3, <1>4, <1>5, <1>6, <1>7 DEF SessionNext, SessionStep

(* SessionInv holds throughout. *)
LEMMA SessionInvAlways == SessionSpec => []SessionInv
BY SessionInvInit, SessionInvStep, PTL DEF SessionSpec

(* The tokens and the records have their times, for any number of sessions  *)
(* and any lives of the tokens.                                             *)
THEOREM SessionsTyped == SessionSpec => []SessionTypeOK
<1>1. SessionInv => SessionTypeOK
  BY SessionAssumption DEF SessionAssumption, SessionInv, SessionShape, TimesFit, SessionTypeOK, Never
<1> QED BY <1>1, SessionInvAlways, PTL

(* Who logged out stays out, for any number of sessions and any times with  *)
(* HandlerTime + TokenLife <= RefreshLife.                                  *)
THEOREM LoggedOutForGood == SessionSpec => LoggedOutStaysOut
<1> DEFINE Out == \A s \in Sessions : s \in loggedOut =>
                    /\ (requesting'[s] => requesting[s])
                    /\ (refreshing[s] = Never => refreshing'[s] = Never)
<1>1. SessionInv /\ [SessionNext]_sessionVars => Out
  <2> SUFFICES ASSUME SessionInv, [SessionNext]_sessionVars,
                      NEW s \in Sessions, s \in loggedOut
               PROVE  /\ requesting'[s] => requesting[s]
                      /\ refreshing[s] = Never => refreshing'[s] = Never
    OBVIOUS
  <2> USE SessionAssumption DEF SessionAssumption
  <2>shape. SessionShape /\ TimesFit(s) /\ RecordOutlasts(s)
    BY DEF SessionInv
  <2>1. ~(clock < tokenUntil[s] /\ SessionGood(s)) /\ ~(clock < refreshUntil[s] /\ SessionGood(s))
    BY <2>shape DEF SessionShape, RecordOutlasts, SessionGood
  <2>2. CASE PassTime \/ UNCHANGED sessionVars
    BY <2>2 DEF PassTime, sessionVars
  <2>3. ASSUME NEW x \in Sessions, SessionStep(x)
        PROVE  /\ requesting'[s] => requesting[s]
               /\ refreshing[s] = Never => refreshing'[s] = Never
    <3>1. CASE LogIn(x)
      BY <3>1 DEF LogIn
    <3>2. CASE BeginRefresh(x)
      BY <3>2, <2>1, <2>shape DEF BeginRefresh, SessionShape
    <3>3. CASE EndRefresh(x)
      BY <3>3, <2>shape DEF EndRefresh, SessionShape
    <3>4. CASE AdmitRequest(x)
      BY <3>4, <2>1, <2>shape DEF AdmitRequest, SessionShape
    <3>5. CASE EndRequest(x) \/ LogOut(x)
      BY <3>5, <2>shape DEF EndRequest, LogOut, SessionShape
    <3> QED BY <2>3, <3>1, <3>2, <3>3, <3>4, <3>5 DEF SessionStep
  <2> QED BY <2>2, <2>3 DEF SessionNext
<1>2. SessionSpec => [][Out]_sessionVars
  BY <1>1, SessionInvAlways, PTL DEF SessionSpec
<1> QED BY <1>2 DEF LoggedOutStaysOut

-----------------------------------------------------------------------------
(* Accounts.  What a fetch knows of the credential it is about to answer,   *)
(* and what a deletion has marked on its way to the cache.                  *)

Flight ==
  [pc : {"idle", "read", "check", "find", "login", "store", "answer"},
   password : 0 .. MaxPassword, cred : 0 .. issued, late : BOOLEAN, live : SUBSET (1 .. issued)]

ClientState ==
  [op : {"none", "login", "delete"},
   pc : {"idle", "check", "check local", "find", "save", "delete find", "delete cache", "delete row"},
   password : 0 .. MaxPassword]

World ==
  /\ schoolPassword \in Passwords
  /\ issued \in 0 .. MaxCredentials
  /\ valid \subseteq 1 .. issued
  /\ account \in 0 .. MaxPassword
  /\ accepted \subseteq Passwords
  /\ clients \in [Clients -> ClientState]

Entry == [cred : 0 .. issued, late : BOOLEAN]
Fill == [service : AsyncServices, cred : 1 .. issued, late : BOOLEAN]

(* Of a fetch: what it answers was honoured; what it has of an account that *)
(* is gone, or is being deleted, is marked.                                 *)
Lives(f) ==
  /\ f.pc = "read" => valid \subseteq f.live
  /\ f.pc = "check" => (f.cred \in valid => f.cred \in f.live)
  /\ f.pc \in {"store", "answer"} => f.cred \in f.live
Marked(f) ==
  /\ Deleting => (f.pc # "idle" => f.late)
  /\ account = 0 => (f.pc \in {"login", "store"} => f.late)
FlightOK(f) ==
  /\ f \in Flight
  /\ f.pc = "login" => f.password # 0
  /\ Lives(f)
  /\ Marked(f)

FlightsOK ==
  /\ flights \in [UserPods -> [Services -> Flight]]
  /\ \A p \in UserPods, s \in Services : FlightOK(flights[p][s])

KeptOK ==
  /\ credCache \in [Services -> Entry]
  /\ fills \subseteq Fill
  /\ Deleting \/ account = 0 =>
       /\ \A s \in Services : credCache[s].cred # 0 => credCache[s].late
       /\ \A f \in fills : f.late

(* Of a login: its password was accepted once it is to be saved.            *)
ClientsOK ==
  /\ account # 0 => account \in accepted
  /\ \A c \in Clients : clients[c].pc \in {"find", "save"} => clients[c].password \in accepted

AccountInv == World /\ FlightsOK /\ KeptOK /\ ClientsOK

(* Nothing is cached and nothing runs at the beginning.                     *)
LEMMA AccountInvInit == CredentialInit => AccountInv
<1> SUFFICES ASSUME CredentialInit PROVE AccountInv
  OBVIOUS
<1> USE UserCredentialsAssumption DEF UserCredentialsAssumption, CredentialInit
<1>1. World
  BY DEF World, ClientState, NoRequest, Passwords
<1>2. NoFlight \in Flight
  BY DEF NoFlight, Flight
<1>3. FlightsOK
  BY <1>2 DEF FlightsOK, FlightOK, Lives, Marked, NoFlight
<1>4. KeptOK
  BY DEF KeptOK, Entry, NoEntry
<1>5. ClientsOK
  BY DEF ClientsOK, NoRequest
<1> QED BY <1>1, <1>3, <1>4, <1>5 DEF AccountInv

(* A fetch moves to a state that fits, and nothing else changes.            *)
LEMMA FlightMoves ==
  ASSUME AccountInv, NEW p \in UserPods, NEW s \in Services, NEW f,
         FlightOK(f), FlightGoes(p, s, f), UNCHANGED <<schoolVars, credCache, fills, handlerVars>>
  PROVE  AccountInv'
<1> USE DEF schoolVars, handlerVars
<1>1. World' /\ KeptOK' /\ ClientsOK'
  BY DEF AccountInv, World, KeptOK, ClientsOK, ClientState, Entry, Fill, Deleting
<1>2. Flight' = Flight
  BY DEF Flight
<1>3. f \in Flight
  BY DEF FlightOK
<1>4. flights' \in [UserPods -> [Services -> Flight]]
  BY <1>3 DEF AccountInv, FlightsOK, FlightGoes
<1>5. ASSUME NEW q \in UserPods, NEW t \in Services PROVE FlightOK(flights'[q][t])
  <2>1. flights'[q][t] = IF q = p /\ t = s THEN f ELSE flights[q][t]
    BY DEF AccountInv, FlightsOK, FlightGoes
  <2> QED BY <2>1 DEF AccountInv, FlightsOK
<1>6. \A g : FlightOK(g)' <=> FlightOK(g)
  BY <1>2 DEF FlightOK, Lives, Marked, Deleting
<1>7. FlightsOK'
  BY <1>2, <1>4, <1>5, <1>6 DEF FlightsOK
<1> QED BY <1>1, <1>7 DEF AccountInv

(* An idle fetch always fits. *)
LEMMA IdleFits == AccountInv => FlightOK(NoFlight)
<1> SUFFICES ASSUME AccountInv PROVE FlightOK(NoFlight)
  OBVIOUS
<1>1. NoFlight \in Flight
  BY UserCredentialsAssumption DEF UserCredentialsAssumption, AccountInv, World, Flight, NoFlight
<1> QED BY <1>1 DEF FlightOK, Lives, Marked, NoFlight

(* The steps of a fetch that change only the fetch. *)
LEMMA FetchSteps ==
  ASSUME AccountInv, NEW p \in UserPods, NEW s \in Services,
         \/ StartFetch(p, s) \/ ReadCredential(p, s) \/ CheckCredential(p, s)
         \/ FindUser(p, s) \/ FetchFails(p, s) \/ AnswerCallers(p, s)
  PROVE  AccountInv'
<1> USE UserCredentialsAssumption DEF UserCredentialsAssumption
<1> DEFINE f == flights[p][s]
           same == UNCHANGED <<schoolVars, credCache, fills, handlerVars>>
<1>f. FlightOK(f) /\ f \in Flight
  BY DEF AccountInv, FlightsOK
<1>w. World /\ KeptOK
  BY DEF AccountInv
<1>n. FlightOK(NoFlight)
  BY IdleFits
<1>m. ASSUME NEW g, FlightOK(g), FlightGoes(p, s, g), same PROVE AccountInv'
  BY <1>m, FlightMoves
<1>1. CASE StartFetch(p, s)
  <2> DEFINE g == [NoFlight EXCEPT !.pc = "read", !.live = valid, !.late = Deleting]
  <2>1. g.pc = "read" /\ g.live = valid /\ g.late = Deleting /\ g.password = 0 /\ g.cred = 0
    BY DEF NoFlight
  <2>2. g \in Flight
    BY <1>n, <1>w DEF FlightOK, Flight, NoFlight, World, Deleting
  <2>3. FlightOK(g)
    BY <2>1, <2>2 DEF FlightOK, Lives, Marked
  <2> QED BY <1>1, <2>3, <1>m DEF StartFetch
<1>2. CASE ReadCredential(p, s)
  <2> DEFINE k == credCache[s].cred
             miss == [f EXCEPT !.pc = "find", !.live = {}]
             hit == [f EXCEPT !.pc = "check", !.cred = k, !.live = @ \cap {k}]
  <2>0. f.pc = "read"
    BY <1>2 DEF ReadCredential
  <2>1. FlightOK(miss)
    <3>1. miss \in Flight /\ miss.pc = "find" /\ miss.late = f.late
      BY <1>f DEF Flight
    <3> QED BY <3>1, <2>0, <1>f DEF FlightOK, Lives, Marked
  <2>2. FlightOK(hit)
    <3>1. k \in 0 .. issued
      BY <1>w DEF KeptOK, Entry
    <3>2. hit \in Flight /\ hit.pc = "check" /\ hit.late = f.late /\ hit.cred = k /\ hit.live = f.live \cap {k}
      BY <3>1, <1>f DEF Flight
    <3> QED BY <3>2, <2>0, <1>f DEF FlightOK, Lives, Marked
  <2>3. PICK g \in {NoFlight, miss, hit} : FlightGoes(p, s, g) /\ same
    BY <1>2, Zenon DEF ReadCredential
  <2> QED BY <2>1, <2>2, <2>3, <1>n, <1>m
<1>3. CASE CheckCredential(p, s)
  <2> DEFINE hit == [f EXCEPT !.pc = "answer"]
             miss == [f EXCEPT !.pc = "find", !.cred = 0, !.live = {}]
  <2>0. f.pc = "check"
    BY <1>3 DEF CheckCredential
  <2>1. f.cred \in valid => FlightOK(hit)
    <3>1. hit \in Flight /\ hit.pc = "answer" /\ hit.late = f.late /\ hit.cred = f.cred /\ hit.live = f.live
      BY <1>f DEF Flight
    <3> QED BY <3>1, <2>0, <1>f DEF FlightOK, Lives, Marked
  <2>2. FlightOK(miss)
    <3>1. miss \in Flight /\ miss.pc = "find" /\ miss.late = f.late
      <4>1. 0 \in 0 .. issued
        BY <1>w DEF World
      <4> QED BY <4>1, <1>f DEF Flight
    <3> QED BY <3>1, <2>0, <1>f DEF FlightOK, Lives, Marked
  <2>3. PICK g \in {NoFlight, IF f.cred \in valid THEN hit ELSE miss} : FlightGoes(p, s, g) /\ same
    BY <1>3, Zenon DEF CheckCredential, Judged
  <2> QED BY <2>1, <2>2, <2>3, <1>n, <1>m
<1>4. CASE FindUser(p, s)
  <2> DEFINE g == [f EXCEPT !.pc = "login", !.password = account]
  <2>0. f.pc = "find"
    BY <1>4 DEF FindUser
  <2>1. account # 0 => FlightOK(g)
    <3>1. g \in Flight /\ g.pc = "login" /\ g.late = f.late /\ g.password = account
      BY <1>f, <1>w DEF Flight, World
    <3> QED BY <3>1, <2>0, <1>f DEF FlightOK, Lives, Marked
  <2>2. /\ (account # 0 /\ FlightGoes(p, s, g)) \/ FlightGoes(p, s, NoFlight)
        /\ same
    BY <1>4, Zenon DEF FindUser
  <2> QED BY <2>1, <2>2, <1>n, <1>m
<1>5. CASE FetchFails(p, s) \/ AnswerCallers(p, s)
  BY <1>5, <1>n, <1>m DEF FetchFails, AnswerCallers
<1> QED BY <1>1, <1>2, <1>3, <1>4, <1>5

(* A new credential: it is live for this fetch, and for those that may yet  *)
(* find it in the cache.                                                    *)
LEMMA FetchedFits ==
  ASSUME AccountInv, NEW p \in UserPods, NEW s \in Services, FetchCredential(p, s)
  PROVE  AccountInv'
<1> USE UserCredentialsAssumption DEF UserCredentialsAssumption
<1>c. PICK f, k : f = flights[p][s] /\ k = issued + 1
  OBVIOUS
<1> DEFINE g == [f EXCEPT !.cred = k, !.live = {k}, !.password = 0,
                          !.pc = IF s \in AsyncServices THEN "answer" ELSE "store"]
           mid == [flights EXCEPT ![p][s] = g]
           new == [service |-> s, cred |-> k, late |-> f.late]
<1>0. /\ f.pc = "login" /\ issued < MaxCredentials /\ issued' = k /\ valid' = valid \cup {k}
      /\ flights' = SeenBy(mid, k)
      /\ fills' = IF s \in AsyncServices THEN fills \cup {new} ELSE fills
      /\ UNCHANGED <<schoolPassword, credCache, clients, accepted, account>>
  BY <1>c DEF FetchCredential, handlerVars
<1>w. World /\ FlightsOK /\ KeptOK /\ ClientsOK
  BY DEF AccountInv
<1>f. FlightOK(f) /\ f \in Flight
  BY <1>c, <1>w DEF FlightsOK
<1>i. issued \in Nat /\ MaxCredentials \in Nat /\ MaxPassword \in Nat /\ issued' = issued + 1 /\ k = issued + 1
  BY <1>c, <1>0, <1>w, UserCredentialsAssumption DEF World, UserCredentialsAssumption
<1>1. World'
  <2>1. issued' \in 0 .. MaxCredentials /\ valid' \subseteq 1 .. issued'
    BY <1>0, <1>w, <1>i DEF World
  <2>2. clients' \in [Clients -> ClientState']
    BY <1>0, <1>w DEF World, ClientState
  <2> QED BY <2>1, <2>2, <1>0, <1>w DEF World
<1>2. ClientsOK'
  BY <1>0, <1>w DEF ClientsOK
<1>3. Deleting' = Deleting
  BY <1>0 DEF Deleting
<1>4. Entry \subseteq Entry' /\ Fill \subseteq Fill'
  BY <1>i DEF Entry, Fill
<1>5. KeptOK'
  <2>1. s \in AsyncServices => new \in Fill' /\ (Deleting \/ account = 0 => new.late)
    BY <1>0, <1>f, <1>i DEF Fill, Flight, FlightOK, Marked
  <2> QED BY <2>1, <1>0, <1>w, <1>3, <1>4 DEF KeptOK
<1>6. Flight \subseteq Flight'
  BY <1>i DEF Flight
<1>7. ASSUME NEW h \in Flight, FlightOK(h), h.pc = "read" PROVE FlightOK([h EXCEPT !.live = @ \cup {k}])'
  <2> DEFINE h2 == [h EXCEPT !.live = @ \cup {k}]
  <2>1. h2 \in Flight' /\ h2.pc = "read" /\ h2.late = h.late /\ h2.live = h.live \cup {k}
    BY <1>7, <1>0, <1>i DEF Flight
  <2>2. Lives(h2)'
    BY <2>1, <1>7, <1>0 DEF FlightOK, Lives
  <2>3. Marked(h2)'
    BY <2>1, <1>7, <1>0, <1>3 DEF FlightOK, Marked
  <2> QED BY <2>1, <2>2, <2>3 DEF FlightOK
<1>8. ASSUME NEW h \in Flight, FlightOK(h), h.pc # "read" PROVE FlightOK(h)'
  <2>1. h.cred # k
    BY <1>i DEF Flight
  <2> QED BY <2>1, <1>6, <1>8, <1>0, <1>3 DEF FlightOK, Lives, Marked
<1>9. FlightOK(g)' /\ g.pc # "read"
  <2>1. g.cred = k /\ g.live = {k} /\ g.late = f.late /\ g.password = 0
    BY <1>f DEF Flight
  <2>2. g.pc \in {"answer", "store"}
    BY <1>f DEF Flight
  <2>3. k \in 1 .. issued' /\ 0 \in 0 .. MaxPassword
    BY <1>0, <1>i
  <2>4. g \in Flight'
    <3>1. k \in 0 .. issued' /\ {k} \in SUBSET (1 .. issued')
      BY <2>3
    <3>2. CASE s \in AsyncServices
      BY <3>1, <3>2, <1>f, <2>3 DEF Flight
    <3>3. CASE s \notin AsyncServices
      BY <3>1, <3>3, <1>f, <2>3 DEF Flight
    <3> QED BY <3>2, <3>3
  <2> HIDE DEF g
  <2>5. Lives(g)'
    BY <2>1, <2>2 DEF Lives
  <2>6. Marked(g)'
    BY <2>1, <2>2, <1>f, <1>0, <1>3 DEF FlightOK, Marked
  <2> QED BY <2>1, <2>2, <2>4, <2>5, <2>6 DEF FlightOK
<1>10. ASSUME NEW q \in UserPods, NEW t \in Services PROVE FlightOK(flights[q][t])'
  <2>c. PICK h, v : h = mid[q][t] /\ v = flights'[q][t]
    OBVIOUS
  <2>1. h = IF q = p /\ t = s THEN g ELSE flights[q][t]
    BY <2>c, <1>w DEF FlightsOK
  <2>2. v = IF h.pc = "read" THEN [h EXCEPT !.live = @ \cup {k}] ELSE h
    BY <2>c, <1>0 DEF SeenBy
  <2> HIDE DEF g
  <2>3. CASE q = p /\ t = s
    BY <2>c, <2>1, <2>2, <2>3, <1>9
  <2>4. CASE ~(q = p /\ t = s)
    <3>1. h \in Flight /\ FlightOK(h)
      BY <2>1, <2>4, <1>w DEF FlightsOK
    <3>2. CASE h.pc = "read"
      BY <2>c, <3>1, <3>2, <2>2, <1>7
    <3>3. CASE h.pc # "read"
      BY <2>c, <3>1, <3>3, <2>2, <1>8
    <3> QED BY <3>2, <3>3
  <2> QED BY <2>3, <2>4
<1>11. \A q \in UserPods, t \in Services : flights'[q][t] \in Flight'
  BY <1>10 DEF FlightOK
<1>12. flights' \in [UserPods -> [Services -> Flight']]
  BY <1>11, <1>0 DEF SeenBy
<1>13. FlightsOK'
  BY <1>10, <1>12 DEF FlightsOK
<1> QED BY <1>1, <1>2, <1>5, <1>13 DEF AccountInv

(* What the sites, the goroutines and the clock do to the credentials. *)
LEMMA KeptSteps ==
  ASSUME AccountInv,
         \/ ChangePassword \/ DropCredential \/ FillToken
         \/ \E s \in Services : ExpireCredential(s)
         \/ \E p \in UserPods, s \in Services : StoreCookie(p, s)
  PROVE  AccountInv'
<1> USE UserCredentialsAssumption DEF UserCredentialsAssumption
<1>w. World /\ FlightsOK /\ KeptOK /\ ClientsOK
  BY DEF AccountInv
<1>d. clients' = clients => Deleting' = Deleting
  BY DEF Deleting
<1>t. issued' = issued => Flight' = Flight /\ Entry' = Entry /\ Fill' = Fill
  BY DEF Flight, Entry, Fill
<1>k. ASSUME UNCHANGED <<issued, valid, account, clients>> PROVE \A f : FlightOK(f)' <=> FlightOK(f)
  BY <1>k, <1>d, <1>t DEF FlightOK, Lives, Marked
<1>1. CASE ChangePassword
  <2>1. World' /\ ClientsOK'
    <3>1. schoolPassword' \in Passwords
      <4>1. schoolPassword \in Passwords
        BY <1>w DEF World
      <4> QED BY <4>1, <1>1 DEF ChangePassword, Passwords
    <3>2. ClientState' = ClientState
      BY DEF ClientState
    <3> QED BY <3>1, <3>2, <1>1, <1>w DEF ChangePassword, World, ClientsOK
  <2>2. FlightsOK'
    BY <1>1, <1>w, <1>k, <1>t DEF ChangePassword, FlightsOK
  <2>3. KeptOK'
    BY <1>1, <1>w, <1>d, <1>t DEF ChangePassword, KeptOK
  <2> QED BY <2>1, <2>2, <2>3 DEF AccountInv
<1>2. CASE DropCredential
  <2>1. World' /\ ClientsOK'
    BY <1>2, <1>w DEF DropCredential, World, ClientsOK, ClientState
  <2>2. \A f : FlightOK(f) => FlightOK(f)'
    BY <1>2, <1>d, <1>t DEF DropCredential, FlightOK, Lives, Marked
  <2>3. FlightsOK'
    BY <1>2, <2>2, <1>w, <1>t DEF DropCredential, FlightsOK
  <2>4. KeptOK'
    BY <1>2, <1>w, <1>d, <1>t DEF DropCredential, KeptOK
  <2> QED BY <2>1, <2>3, <2>4 DEF AccountInv
<1>3. ASSUME NEW s \in Services, NEW e \in Entry,
             credCache' \in {credCache, [credCache EXCEPT ![s] = e]},
             Deleting \/ account = 0 => (e.cred # 0 => e.late),
             fills' \subseteq fills,
             UNCHANGED <<schoolVars, clients, accepted, account>>
      PROVE  World' /\ ClientsOK' /\ KeptOK'
  <2>1. World' /\ ClientsOK'
    BY <1>3, <1>w DEF schoolVars, World, ClientsOK, ClientState
  <2>2. KeptOK'
    BY <1>3, <1>w, <1>d, <1>t DEF schoolVars, KeptOK
  <2> QED BY <2>1, <2>2
<1>4. CASE FillToken
  <2>1. PICK f \in fills : fills' = fills \ {f} /\ Stores(f.service, f.cred, f.late)
    BY <1>4 DEF FillToken
  <2>e. PICK e : e = [cred |-> f.cred, late |-> f.late]
    OBVIOUS
  <2>2. f \in Fill /\ f.service \in Services
    BY <1>w DEF KeptOK, Fill
  <2>3. e \in Entry
    BY <2>e, <2>2, <1>w DEF Fill, Entry, World
  <2>4. World' /\ ClientsOK' /\ KeptOK'
    <3>1. Deleting \/ account = 0 => (e.cred # 0 => e.late)
      BY <2>e, <1>w DEF KeptOK
    <3>2. credCache' \in {credCache, [credCache EXCEPT ![f.service] = e]}
      BY <2>1, <2>e DEF Stores
    <3>3. UNCHANGED <<schoolVars, clients, accepted, account>>
      BY <1>4 DEF FillToken, handlerVars
    <3> QED BY <3>1, <3>2, <3>3, <2>1, <2>2, <2>3, <1>3
  <2>5. FlightsOK'
    BY <1>4, <1>w, <1>k, <1>t DEF FillToken, FlightsOK, schoolVars, handlerVars
  <2> QED BY <2>4, <2>5 DEF AccountInv
<1>5. ASSUME NEW s \in Services, ExpireCredential(s) PROVE AccountInv'
  <2>1. NoEntry \in Entry /\ NoEntry.cred = 0
    BY <1>w DEF NoEntry, Entry, World
  <2>2. World' /\ ClientsOK' /\ KeptOK'
    <3>1. /\ credCache' = [credCache EXCEPT ![s] = NoEntry] /\ fills' = fills
          /\ UNCHANGED <<schoolVars, clients, accepted, account>>
      BY <1>5 DEF ExpireCredential, handlerVars
    <3> HIDE DEF NoEntry
    <3> QED BY <3>1, <2>1, <1>3
  <2>3. FlightsOK'
    BY <1>5, <1>w, <1>k, <1>t DEF ExpireCredential, FlightsOK, schoolVars, handlerVars
  <2> QED BY <2>2, <2>3 DEF AccountInv
<1>6. ASSUME NEW p \in UserPods, NEW s \in Services, StoreCookie(p, s) PROVE AccountInv'
  <2>c. PICK f, e, g : /\ f = flights[p][s] /\ e = [cred |-> f.cred, late |-> f.late]
                       /\ g = [f EXCEPT !.pc = "answer"]
    OBVIOUS
  <2>1. /\ f.pc = "store"
        /\ credCache' \in {credCache, [credCache EXCEPT ![s] = e]}
        /\ flights' = [flights EXCEPT ![p][s] = g]
        /\ UNCHANGED <<schoolVars, fills, clients, accepted, account>>
    BY <1>6, <2>c DEF StoreCookie, Stores, FlightGoes, handlerVars
  <2>2. f \in Flight /\ FlightOK(f)
    BY <2>c, <1>w DEF FlightsOK
  <2>3. e \in Entry /\ e.late = f.late
    BY <2>c, <2>2 DEF Flight, Entry
  <2>4. World' /\ ClientsOK' /\ KeptOK'
    <3>1. Deleting \/ account = 0 => (e.cred # 0 => e.late)
      BY <2>1, <2>2, <2>3 DEF FlightOK, Marked
    <3>2. fills' \subseteq fills
      BY <2>1
    <3> QED BY <3>1, <3>2, <2>1, <2>3, <1>3
  <2>5. g \in Flight /\ g.pc = "answer" /\ g.late = f.late /\ g.cred = f.cred /\ g.live = f.live
    BY <2>c, <2>2 DEF Flight
  <2>6. FlightOK(g)
    BY <2>1, <2>2, <2>5 DEF FlightOK, Lives, Marked
  <2>7. FlightsOK'
    <3>1. flights' \in [UserPods -> [Services -> Flight]]
      BY <2>1, <2>5, <1>w DEF FlightsOK
    <3>2. ASSUME NEW q \in UserPods, NEW t \in Services PROVE FlightOK(flights'[q][t])
      <4>1. flights'[q][t] = IF q = p /\ t = s THEN g ELSE flights[q][t]
        BY <2>1, <1>w DEF FlightsOK
      <4> QED BY <4>1, <2>6, <1>w DEF FlightsOK
    <3> QED BY <3>1, <3>2, <2>1, <1>k, <1>t DEF FlightsOK, schoolVars
  <2> QED BY <2>4, <2>7 DEF AccountInv
<1> QED BY <1>1, <1>2, <1>4, <1>5, <1>6

(* The steps of a handler, but for the one that clears the credentials. *)
LEMMA HandlerMoves ==
  ASSUME AccountInv, NEW c \in Clients, NEW r \in ClientState,
         r.pc # "delete row",
         r.pc \in {"find", "save"} => r.password \in accepted',
         ClientGoes(c, r),
         accepted \subseteq accepted', accepted' \subseteq Passwords,
         account' \in 0 .. MaxPassword,
         account' # 0 => account' \in accepted',
         account' = 0 => account = 0 \/ Deleting,
         UNCHANGED <<schoolVars, cacheVars>>
  PROVE  AccountInv'
<1> USE DEF schoolVars, cacheVars
<1>w. World /\ FlightsOK /\ KeptOK /\ ClientsOK
  BY DEF AccountInv
<1>t. Flight' = Flight /\ Entry' = Entry /\ Fill' = Fill /\ ClientState' = ClientState
  BY DEF Flight, Entry, Fill, ClientState
<1>c. clients' \in [Clients -> ClientState] /\ \A d \in Clients : clients'[d] = IF d = c THEN r ELSE clients[d]
  BY <1>w DEF World, ClientGoes
<1>d. Deleting' => Deleting
  BY <1>c DEF Deleting
<1>1. World'
  BY <1>w, <1>c, <1>t DEF World
<1>2. ClientsOK'
  BY <1>w, <1>c DEF ClientsOK
<1>3. KeptOK'
  BY <1>w, <1>d, <1>t DEF KeptOK
<1>4. \A f : FlightOK(f) => FlightOK(f)'
  BY <1>d, <1>t DEF FlightOK, Lives, Marked
<1>5. FlightsOK'
  BY <1>w, <1>4, <1>t DEF FlightsOK
<1> QED BY <1>1, <1>2, <1>3, <1>5 DEF AccountInv

(* What the handlers of the bff have done to the account. *)
LEMMA HandlerSteps ==
  ASSUME AccountInv, NEW c \in Clients, ClientStep(c)
  PROVE  AccountInv'
<1> USE UserCredentialsAssumption DEF UserCredentialsAssumption
<1>w. World /\ FlightsOK /\ KeptOK /\ ClientsOK
  BY DEF AccountInv
<1>c. /\ clients[c] \in ClientState /\ NoRequest \in ClientState
      /\ account \in 0 .. MaxPassword /\ accepted \subseteq Passwords
      /\ account # 0 => account \in accepted
  <2>1. clients[c] \in ClientState /\ account \in 0 .. MaxPassword /\ accepted \subseteq Passwords
    BY <1>w DEF World
  <2>2. NoRequest \in ClientState
    BY DEF ClientState, NoRequest
  <2>3. account # 0 => account \in accepted
    BY <1>w DEF ClientsOK
  <2> QED BY <2>1, <2>2, <2>3
<1>at. ASSUME NEW pc \in {"check local", "find", "save", "delete find", "delete cache", "delete row"}
       PROVE  /\ ClientAt(c, pc) \in ClientState /\ ClientAt(c, pc).pc = pc
              /\ ClientAt(c, pc).password = clients[c].password
  BY <1>c DEF ClientAt, ClientState
<1>n. NoRequest.pc = "idle"
  BY DEF NoRequest
<1>m. ASSUME NEW r \in ClientState, r.pc # "delete row",
             r.pc \in {"find", "save"} => r.password \in accepted,
             ClientGoes(c, r), UNCHANGED <<schoolVars, cacheVars, accepted, account>>
      PROVE  AccountInv'
  BY <1>m, <1>c, HandlerMoves
<1>g. /\ Granted(c) \in ClientState /\ Granted(c).pc \in {"find", "delete find"}
      /\ Granted(c).password = clients[c].password
  BY <1>at DEF Granted
<1>1. ASSUME NEW op \in {"login", "delete"}, NEW pw \in Passwords, BeginRequest(c, op, pw) PROVE AccountInv'
  <2>1. [op |-> op, pc |-> "check", password |-> pw] \in ClientState
    BY DEF ClientState, Passwords
  <2> QED BY <1>1, <2>1, <1>m DEF BeginRequest
<1>2. CASE CheckAtSchool(c)
  <2>1. CASE /\ clients[c].password = schoolPassword
             /\ accepted' = accepted \cup {schoolPassword}
             /\ ClientGoes(c, Granted(c))
    <3>1. UNCHANGED <<schoolVars, cacheVars, account>>
      BY <1>2 DEF CheckAtSchool
    <3>2. schoolPassword \in Passwords
      BY <1>w DEF World
    <3> QED BY <2>1, <3>1, <3>2, <1>c, <1>g, HandlerMoves
  <2>2. CASE ClientGoes(c, NoRequest) /\ UNCHANGED <<schoolVars, cacheVars, accepted, account>>
    BY <2>2, <1>c, <1>n, <1>m
  <2>3. CASE ClientGoes(c, ClientAt(c, "check local")) /\ UNCHANGED <<schoolVars, cacheVars, accepted, account>>
    BY <2>3, <1>at, <1>m
  <2> QED BY <1>2, <2>1, <2>2, <2>3 DEF CheckAtSchool
<1>3. CASE CheckLocally(c)
  <2>1. CASE account # 0 /\ MatchesRow(c) /\ ClientGoes(c, Granted(c))
    BY <1>3, <2>1, <1>g, <1>c, <1>m DEF CheckLocally, MatchesRow
  <2>2. CASE ClientGoes(c, NoRequest)
    BY <1>3, <2>2, <1>c, <1>n, <1>m DEF CheckLocally
  <2> QED BY <1>3, <2>1, <2>2 DEF CheckLocally
<1>4. CASE SaveFinds(c)
  <2>1. clients[c].password \in accepted
    BY <1>4, <1>w DEF SaveFinds, ClientsOK
  <2>2. CASE ClientGoes(c, NoRequest)
    BY <1>4, <2>2, <1>c, <1>n, <1>m DEF SaveFinds
  <2>3. CASE ClientGoes(c, ClientAt(c, "save"))
    BY <1>4, <2>1, <2>3, <1>at, <1>m DEF SaveFinds
  <2> QED BY <1>4, <2>2, <2>3 DEF SaveFinds
<1>5. CASE SaveRow(c)
  <2>1. clients[c].password \in accepted
    BY <1>5, <1>w DEF SaveRow, ClientsOK
  <2>2. clients[c].password \in 0 .. MaxPassword /\ clients[c].password # 0
    <3>1. clients[c].password \in Passwords
      BY <2>1, <1>c
    <3> QED BY <3>1 DEF Passwords
  <2>3. account' \in {account, clients[c].password} /\ accepted' = accepted
        /\ ClientGoes(c, NoRequest) /\ UNCHANGED <<schoolVars, cacheVars>>
    BY <1>5 DEF SaveRow
  <2> QED BY <2>1, <2>2, <2>3, <1>c, <1>n, HandlerMoves
<1>6. CASE DeleteFinds(c)
  <2>1. CASE ClientGoes(c, ClientAt(c, "delete cache"))
    BY <1>6, <2>1, <1>at, <1>m DEF DeleteFinds
  <2>2. CASE ClientGoes(c, NoRequest)
    BY <1>6, <2>2, <1>c, <1>n, <1>m DEF DeleteFinds
  <2> QED BY <1>6, <2>1, <2>2 DEF DeleteFinds
<1>7. CASE DeleteUserData(c)
  <2>1. World' /\ ClientsOK'
    <3>1. clients' \in [Clients -> ClientState]
          /\ \A d \in Clients : clients'[d] = IF d = c THEN ClientAt(c, "delete row") ELSE clients[d]
      BY <1>7, <1>w, <1>at DEF DeleteUserData, ClientGoes, World
    <3>2. ClientState' = ClientState
      BY DEF ClientState
    <3>3. ClientsOK'
      BY <1>7, <3>1, <1>w, <1>at DEF DeleteUserData, ClientsOK
    <3> QED BY <1>7, <3>1, <3>2, <3>3, <1>w DEF DeleteUserData, World, schoolVars
  <2>t. Flight' = Flight /\ Entry' = Entry /\ Fill' = Fill /\ valid' = valid /\ account' = account
    BY <1>7 DEF DeleteUserData, schoolVars, Flight, Entry, Fill
  <2>2. KeptOK'
    <3>1. credCache' \in [Services -> Entry] /\ \A s \in Services : credCache'[s].cred = 0
      <4>1. NoEntry \in Entry /\ NoEntry.cred = 0
        BY <1>w DEF NoEntry, Entry, World
      <4>2. credCache' = [s \in Services |-> NoEntry]
        BY <1>7 DEF DeleteUserData, Cleared
      <4> QED BY <4>1, <4>2
    <3>2. fills' \subseteq Fill /\ \A f \in fills' : f.late
      <4>1. ASSUME NEW f \in Fill PROVE [f EXCEPT !.late = TRUE] \in Fill /\ [f EXCEPT !.late = TRUE].late
        BY DEF Fill
      <4> QED BY <1>7, <4>1, <1>w DEF DeleteUserData, KeptOK
    <3> QED BY <3>1, <3>2, <2>t DEF KeptOK
  <2>3. FlightsOK'
    <3>1. ASSUME NEW p \in UserPods, NEW s \in Services PROVE FlightOK(flights[p][s])'
      <4>c. PICK f, v : f = flights[p][s] /\ v = flights'[p][s]
        OBVIOUS
      <4>1. f \in Flight /\ FlightOK(f)
        BY <4>c, <1>w DEF FlightsOK
      <4>2. v = IF f.pc = "idle" THEN f ELSE [f EXCEPT !.late = TRUE]
        BY <4>c, <1>7 DEF DeleteUserData, MarkLate
      <4>3. /\ v \in Flight /\ v.pc = f.pc /\ v.cred = f.cred /\ v.live = f.live /\ v.password = f.password
            /\ v.pc # "idle" => v.late
        BY <4>1, <4>2 DEF Flight
      <4>4. Lives(v)' /\ Marked(v)'
        BY <4>1, <4>3, <2>t DEF FlightOK, Lives, Marked
      <4> QED BY <4>c, <4>1, <4>3, <4>4, <2>t DEF FlightOK
    <3>2. flights' \in [UserPods -> [Services -> Flight]]
      <4>1. \A p \in UserPods, s \in Services : flights'[p][s] \in Flight'
        BY <3>1 DEF FlightOK
      <4> QED BY <4>1, <2>t, <1>7 DEF DeleteUserData, MarkLate
    <3> QED BY <3>1, <3>2, <2>t DEF FlightsOK
  <2> QED BY <2>1, <2>2, <2>3 DEF AccountInv
<1>8. CASE DeleteUserDataFails(c)
  BY <1>8, <1>c, <1>n, <1>m DEF DeleteUserDataFails
<1>9. CASE DeleteRow(c)
  <2>1. Deleting
    BY <1>9 DEF DeleteRow, Deleting
  <2>2. account' \in {account, 0} /\ accepted' = accepted
        /\ ClientGoes(c, NoRequest) /\ UNCHANGED <<schoolVars, cacheVars>>
    BY <1>9 DEF DeleteRow
  <2>3. account' \in 0 .. MaxPassword /\ (account' # 0 => account' \in accepted')
    BY <2>2, <1>c
  <2> QED BY <2>1, <2>2, <2>3, <1>c, <1>n, HandlerMoves
<1> QED BY <1>1, <1>2, <1>3, <1>4, <1>5, <1>6, <1>7, <1>8, <1>9 DEF ClientStep

(* AccountInv holds throughout. *)
LEMMA AccountInvAlways == CredentialSpec => []AccountInv
<1>1. AccountInv /\ [CredentialNext]_credentialVars => AccountInv'
  <2> SUFFICES ASSUME AccountInv, [CredentialNext]_credentialVars PROVE AccountInv'
    OBVIOUS
  <2>1. CASE ChangePassword \/ DropCredential \/ FillToken \/ \E s \in Services : ExpireCredential(s)
    BY <2>1, KeptSteps
  <2>2. ASSUME NEW p \in UserPods, NEW s \in Services, FlightStep(p, s) PROVE AccountInv'
    BY <2>2, KeptSteps, FetchSteps, FetchedFits DEF FlightStep
  <2>3. ASSUME NEW c \in Clients, ClientStep(c) PROVE AccountInv'
    BY <2>3, HandlerSteps
  <2>4. CASE UNCHANGED credentialVars
    <3>1. Flight' = Flight /\ Entry' = Entry /\ Fill' = Fill /\ ClientState' = ClientState /\ Deleting' = Deleting
      BY <2>4 DEF credentialVars, Flight, Entry, Fill, ClientState, Deleting
    <3>2. \A f : FlightOK(f)' <=> FlightOK(f)
      BY <2>4, <3>1 DEF credentialVars, FlightOK, Lives, Marked
    <3> QED BY <2>4, <3>1, <3>2 DEF credentialVars, AccountInv, World, FlightsOK, KeptOK, ClientsOK
  <2> QED BY <2>1, <2>2, <2>3, <2>4 DEF CredentialNext
<1> QED BY <1>1, AccountInvInit, PTL DEF CredentialSpec

(* The account, the cache and the fetches keep their types. *)
THEOREM AccountTyped == CredentialSpec => []CredentialTypeOK
<1>1. AccountInv => CredentialTypeOK
  <2> SUFFICES ASSUME AccountInv PROVE CredentialTypeOK
    OBVIOUS
  <2>1. World /\ FlightsOK /\ KeptOK
    BY DEF AccountInv
  <2>2. \A p \in UserPods, s \in Services : FlightOK(flights[p][s]) /\ flights[p][s] \in Flight
    BY <2>1 DEF FlightsOK
  <2>3. \A p \in UserPods, s \in Services :
          LET f == flights[p][s]
          IN /\ f.pc \in {"idle", "read", "check", "find", "login", "store", "answer"}
             /\ f.password \in 0 .. MaxPassword /\ f.cred \in 0 .. issued
             /\ f.late \in BOOLEAN /\ f.live \subseteq 1 .. issued
             /\ f.pc = "login" => f.password # 0
    BY <2>2 DEF FlightOK, Flight
  <2>4. \A f \in fills : f.service \in AsyncServices /\ f.cred \in 1 .. issued
    BY <2>1 DEF KeptOK, Fill
  <2>5. \A c \in Clients : clients[c].password \in 0 .. MaxPassword
    BY <2>1 DEF World, ClientState
  <2> QED BY <2>1, <2>3, <2>4, <2>5 DEF CredentialTypeOK, World, KeptOK, Creds, Entry
<1> QED BY <1>1, AccountInvAlways, PTL

(* The stored password was accepted by the university, for any number of    *)
(* clients and passwords.                                                   *)
THEOREM StoredPasswordGood == CredentialSpec => []StoredWasAccepted
<1>1. AccountInv => StoredWasAccepted
  BY DEF AccountInv, ClientsOK, StoredWasAccepted
<1> QED BY <1>1, AccountInvAlways, PTL

(* An answer was live in its request, for any number of processes, services *)
(* and credentials.                                                         *)
THEOREM AnswersLive == CredentialSpec => []AnswersWereLive
<1>1. AccountInv => AnswersWereLive
  BY DEF AccountInv, FlightsOK, FlightOK, Lives, AnswersWereLive
<1> QED BY <1>1, AccountInvAlways, PTL

(* What outlives its account was on its way when the account was deleted,   *)
(* for any number of processes and deletions at the same time.              *)
THEOREM OrphansExcused == CredentialSpec => []OrphansMetTheDeletion
<1>1. AccountInv => OrphansMetTheDeletion
  BY DEF AccountInv, KeptOK, OrphansMetTheDeletion
<1> QED BY <1>1, AccountInvAlways, PTL

(* So both the password and the credentials stay justified.                 *)
THEOREM AccountKept == CredentialSpec => []AccountJustified
BY StoredPasswordGood, OrphansExcused, PTL DEF AccountJustified

-----------------------------------------------------------------------------
(* Boosts.  A call that has set the mark of a student is the only one under *)
(* way for that student, and the student has not been boosted yet.          *)

IsBoost(r) == r = [pc |-> r.pc, stu |-> r.stu, score |-> r.score]

BoostShape ==
  /\ boosted \in [Fellows -> 0 .. 1]
  /\ boost = [b \in Boosters |-> boost[b]]
  /\ \A b \in Boosters : IsBoost(boost[b])

BoostsFit ==
  \A b \in Boosters :
    /\ boost[b].stu \subseteq Fellows \cap mark
    /\ \A s \in boost[b].stu : boosted[s] = 0
    /\ \A s, t \in boost[b].stu : s = t
    /\ \A a \in Boosters \ {b} : boost[a].stu \cap boost[b].stu = {}

BoostInv == BoostShape /\ BoostsFit

LEMMA BoostInvInit == CounterInit => BoostInv
BY DEF CounterInit, BoostInv, BoostShape, BoostsFit, IsBoost, NoBoost, Zero

(* One call goes on with the same student, or with none.                    *)
LEMMA BoostMoves ==
  ASSUME BoostInv, NEW b \in Boosters, NEW pc, NEW stu, NEW score,
         boost' = [boost EXCEPT ![b] = [pc |-> pc, stu |-> stu, score |-> score]]
  PROVE  /\ boost' = [a \in Boosters |-> boost'[a]]
         /\ \A a \in Boosters : IsBoost(boost'[a])
         /\ boost'[b].stu = stu
         /\ \A a \in Boosters \ {b} : boost'[a].stu = boost[a].stu
BY DEF BoostInv, BoostShape, IsBoost

LEMMA BoostInvStep == BoostInv /\ [CounterNext]_counterVars => BoostInv'
<1> SUFFICES ASSUME BoostInv, [CounterNext]_counterVars PROVE BoostInv'
  OBVIOUS
<1>inv. BoostShape /\ BoostsFit
  BY DEF BoostInv
<1>still. ASSUME UNCHANGED <<mark, boost, boosted>> PROVE BoostInv'
  BY <1>still, <1>inv DEF BoostInv, BoostShape, BoostsFit, IsBoost
<1>1. ASSUME NEW s \in Fellows, MarkExpires(s) PROVE BoostInv'
  <2>1. BoostShape'
    BY <1>1, <1>inv DEF MarkExpires, BoostShape, IsBoost
  <2>2. BoostsFit'
    BY <1>1, <1>inv DEF MarkExpires, BoostsFit
  <2> QED BY <2>1, <2>2 DEF BoostInv
<1>2. ASSUME NEW b \in Boosters, BoostScores(b) PROVE BoostInv'
  <2>1. PICK s \in Fellows :
          /\ s \notin mark /\ mark' = mark \cup {s}
          /\ boosted' = [boosted EXCEPT ![s] = 0]
          /\ boost' = [boost EXCEPT ![b] = [pc |-> "score", stu |-> {s}, score |-> 0]]
    BY <1>2 DEF BoostScores, SetNX
  <2>2. /\ boost' = [a \in Boosters |-> boost'[a]]
        /\ \A a \in Boosters : IsBoost(boost'[a])
        /\ boost'[b].stu = {s}
        /\ \A a \in Boosters \ {b} : boost'[a].stu = boost[a].stu
    BY <2>1, BoostMoves
  <2>3. boosted' \in [Fellows -> 0 .. 1] /\ boosted'[s] = 0
        /\ \A t \in Fellows \ {s} : boosted'[t] = boosted[t]
    BY <2>1, <1>inv DEF BoostShape
  <2>4. \A a \in Boosters : s \notin boost[a].stu
    BY <2>1, <1>inv DEF BoostsFit
  <2>5. BoostsFit'
    BY <2>1, <2>2, <2>3, <2>4, <1>inv DEF BoostsFit
  <2>6. BoostShape'
    BY <2>2, <2>3 DEF BoostShape, IsBoost
  <2> QED BY <2>5, <2>6 DEF BoostInv
<1>3. ASSUME NEW b \in Boosters, ReadRank(b) PROVE BoostInv'
  <2>1. PICK s \in boost[b].stu : boost' = [boost EXCEPT ![b].pc = "write", ![b].score = ranked[s]]
    BY <1>3 DEF ReadRank
  <2>2. boost[b] = [pc |-> boost[b].pc, stu |-> boost[b].stu, score |-> boost[b].score]
    BY <1>inv DEF BoostShape, IsBoost
  <2>3. boost' = [boost EXCEPT ![b] = [pc |-> "write", stu |-> boost[b].stu, score |-> ranked[s]]]
    <3>1. [boost[b] EXCEPT !.pc = "write", !.score = ranked[s]]
            = [pc |-> "write", stu |-> boost[b].stu, score |-> ranked[s]]
      <4> DEFINE n == [boost[b] EXCEPT !.pc = "write", !.score = ranked[s]]
      <4>1. n = [f \in {"pc", "stu", "score"} |-> n[f]]
        BY <2>2, Zenon
      <4>2. n.pc = "write" /\ n.score = ranked[s] /\ n.stu = boost[b].stu
        BY <2>2
      <4>3. \A m : m = [f \in {"pc", "stu", "score"} |-> m[f]] =>
                     m = [pc |-> m.pc, stu |-> m.stu, score |-> m.score]
        BY SMT
      <4> HIDE DEF n
      <4>4. n = [pc |-> n.pc, stu |-> n.stu, score |-> n.score]
        BY <4>1, <4>3, Zenon
      <4>5. n = [pc |-> "write", stu |-> boost[b].stu, score |-> ranked[s]]
        BY <4>2, <4>4, Zenon
      <4> QED BY <4>5 DEF n
    <3>2. boost' = [boost EXCEPT ![b] = [boost[b] EXCEPT !.pc = "write", !.score = ranked[s]]]
      BY <2>1
    <3> QED BY <3>1, <3>2
  <2>4. /\ boost' = [a \in Boosters |-> boost'[a]]
        /\ \A a \in Boosters : IsBoost(boost'[a])
        /\ \A a \in Boosters : boost'[a].stu = boost[a].stu
    BY <2>3, BoostMoves
  <2>5. mark' = mark /\ boosted' = boosted
    BY <1>3 DEF ReadRank
  <2>6. BoostShape' /\ BoostsFit'
    BY <2>4, <2>5, <1>inv DEF BoostShape, BoostsFit, IsBoost
  <2> QED BY <2>6 DEF BoostInv
<1>4. ASSUME NEW b \in Boosters, WriteBoost(b) \/ BoostFails(b) PROVE BoostInv'
  <2>1. boost' = [boost EXCEPT ![b] = [pc |-> "idle", stu |-> {}, score |-> 0]] /\ mark' = mark
    BY <1>4 DEF WriteBoost, BoostFails, NoBoost
  <2>2. /\ boost' = [a \in Boosters |-> boost'[a]]
        /\ \A a \in Boosters : IsBoost(boost'[a])
        /\ boost'[b].stu = {}
        /\ \A a \in Boosters \ {b} : boost'[a].stu = boost[a].stu
    BY <2>1, BoostMoves
  <2>3. boosted' = boosted \/ \E s \in boost[b].stu : boosted' = [boosted EXCEPT ![s] = @ + 1]
    BY <1>4 DEF WriteBoost, BoostFails
  <2>4. /\ boosted' \in [Fellows -> 0 .. 1]
        /\ \A t \in Fellows : boosted'[t] = boosted[t] \/ t \in boost[b].stu
    <3>1. CASE boosted' = boosted
      BY <3>1, <1>inv DEF BoostShape
    <3>2. ASSUME NEW s \in boost[b].stu, boosted' = [boosted EXCEPT ![s] = @ + 1]
          PROVE  /\ boosted' \in [Fellows -> 0 .. 1]
                 /\ \A t \in Fellows : boosted'[t] = boosted[t] \/ t \in boost[b].stu
      <4>1. s \in Fellows /\ boosted[s] = 0 /\ boosted \in [Fellows -> 0 .. 1]
        BY <1>inv DEF BoostsFit, BoostShape
      <4>2. boosted' = [boosted EXCEPT ![s] = 1]
        BY <3>2, <4>1
      <4> QED BY <4>1, <4>2
    <3> QED BY <2>3, <3>1, <3>2
  <2>5. BoostsFit'
    BY <2>1, <2>2, <2>4, <1>inv DEF BoostsFit
  <2>6. BoostShape'
    BY <2>2, <2>4 DEF BoostShape, IsBoost
  <2> QED BY <2>5, <2>6 DEF BoostInv
<1>5. ASSUME NEW s \in Fellows, AddCounter(s) PROVE BoostInv'
  BY <1>5, <1>still DEF AddCounter
<1>6. ASSUME NEW r \in Runs,
             Tick(r) \/ RebuildCounter(r) \/ Refresh(r) \/ DecayCounter(r) \/ EndRun(r)
      PROVE  BoostInv'
  BY <1>6, <1>still DEF Tick, RebuildCounter, Refresh, DecayCounter, EndRun
<1>7. ASSUME NextDay \/ (\E l \in Levels : LockExpires(l)) \/ UNCHANGED counterVars PROVE BoostInv'
  BY <1>7, <1>still DEF NextDay, LockExpires, counterVars
<1> QED BY <1>1, <1>2, <1>3, <1>4, <1>5, <1>6, <1>7 DEF CounterNext

(* However many calls boost a student at the same time and wherever they    *)
(* fail, each mark gives one boost at most.                                 *)
THEOREM BoostedOnce == CounterSpec => []BoostedOncePerMark
<1>1. BoostInv => BoostedOncePerMark
  BY DEF BoostInv, BoostShape, BoostedOncePerMark
<1>2. CounterSpec => []BoostInv
  BY BoostInvInit, BoostInvStep, PTL DEF CounterSpec
<1> QED BY <1>1, <1>2, PTL

-----------------------------------------------------------------------------
(* Sums.  A fold over a finite set is the sum it is meant to be; what is    *)
(* true of all finite sets is proved from the least set it would fail for.  *)

(* A set of numbers has a least one: what fails somewhere fails first. *)
LEMMA LeastNumber ==
  ASSUME NEW T \in SUBSET Nat, T # {}
  PROVE  \E n \in T : \A m \in T : n <= m
<1> DEFINE R == {p \in Nat \X Nat : p[1] < p[2]}
<1>1. R = OpToRel(<, Nat)
  BY DEF OpToRel
<1>2. IsWellFoundedOn(R, Nat)
  BY <1>1, NatLessThanWellFounded
<1> HIDE DEF R
<1>3. PICK n \in T : \A m \in T : ~ (<<m, n>> \in R)
  BY <1>2, WFMin
<1>4. \A m \in T : ~(m < n)
  BY <1>3 DEF R
<1>5. QED BY <1>4

(* The elements of a set in the order in which a fold takes them. *)
First(s) == CHOOSE x \in s : TRUE

(* One step of the sum of f over s, with the sums of smaller sets in g. *)
SumStep(g, f, s) == IF s = {} THEN 0 ELSE f[First(s)] + g[s \ {First(s)}]
Sums(g, f, C) == \A s \in C : g[s] = SumStep(g, f, s)

(* The sets that are left when a fold goes on. *)
LEMMA FirstFacts ==
  ASSUME NEW D, IsFiniteSet(D), NEW s \in SUBSET D, s # {}
  PROVE  /\ First(s) \in D /\ First(s) \in s /\ s \ {First(s)} \in SUBSET D
         /\ Cardinality(s) \in Nat \ {0} /\ Cardinality(s \ {First(s)}) = Cardinality(s) - 1
<1>1. First(s) \in s
  BY DEF First
<1>2. IsFiniteSet(s)
  BY FS_Subset
<1>3. Cardinality(s) \in Nat /\ Cardinality(s \ {First(s)}) = Cardinality(s) - 1
  BY <1>1, <1>2, FS_RemoveElement, FS_CardinalityType
<1>4. Cardinality(s) # 0
  BY <1>2, FS_EmptySet
<1>5. QED BY <1>1, <1>3, <1>4

(* There is one sum over all subsets, *)
LEMMA SumUnique ==
  ASSUME NEW D, IsFiniteSet(D), NEW f, NEW g, NEW h, Sums(g, f, SUBSET D), Sums(h, f, SUBSET D)
  PROVE  \A s \in SUBSET D : g[s] = h[s]
<1> DEFINE T == {n \in Nat : \E s \in SUBSET D : Cardinality(s) = n /\ g[s] # h[s]}
<1>1. SUFFICES ASSUME NEW s \in SUBSET D, g[s] # h[s] PROVE FALSE
  OBVIOUS
<1>2. Cardinality(s) \in T
  <2>1. Cardinality(s) \in Nat
    BY FS_Subset, FS_CardinalityType
  <2>2. QED BY <1>1, <2>1
<1>3. PICK n \in T : \A m \in T : n <= m
  BY <1>2, LeastNumber
<1>4. PICK u \in SUBSET D : Cardinality(u) = n /\ g[u] # h[u]
  BY <1>3
<1>5. CASE u = {}
  BY <1>4, <1>5 DEF Sums, SumStep
<1>6. CASE u # {}
  <2>1. PICK v \in SUBSET D : v = u \ {First(u)}
    BY <1>6, FirstFacts
  <2>2. Cardinality(v) = n - 1 /\ Cardinality(v) \in Nat /\ n \in Nat
    BY <1>4, <1>6, <2>1, FirstFacts
  <2>3. g[v] = h[v]
    <3>1. CASE g[v] # h[v]
      <4>1. Cardinality(v) \in T
        BY <2>2, <3>1
      <4>2. n <= Cardinality(v)
        BY <1>3, <4>1
      <4>3. QED BY <2>2, <4>2
    <3>2. QED BY <3>1
  <2>4. g[u] = f[First(u)] + g[v] /\ h[u] = f[First(u)] + h[v]
    BY <1>6, <2>1 DEF Sums, SumStep
  <2>5. QED BY <1>4, <2>3, <2>4
<1>7. QED BY <1>5, <1>6

(* and it is a number. *)
LEMMA SumExists ==
  ASSUME NEW D, IsFiniteSet(D), NEW f \in [D -> Int]
  PROVE  \E g \in [SUBSET D -> Int] : Sums(g, f, SUBSET D)
<1> DEFINE Small(n) == {s \in SUBSET D : Cardinality(s) <= n}
           Good(n) == \E g \in [Small(n) -> Int] : Sums(g, f, Small(n))
           T == {n \in Nat : ~Good(n)}
<1>0. \A s \in SUBSET D : Cardinality(s) \in Nat /\ IsFiniteSet(s)
  BY FS_Subset, FS_CardinalityType
<1>1. Good(0)
  <2>1. \A s \in Small(0) : s = {}
    BY <1>0, FS_EmptySet
  <2>2. PICK g : g = [s \in Small(0) |-> 0]
    OBVIOUS
  <2>3. g \in [Small(0) -> Int]
    BY <2>2
  <2>4. Sums(g, f, Small(0))
    BY <2>1, <2>2 DEF Sums, SumStep
  <2>5. QED BY <2>3, <2>4
<1>2. ASSUME NEW n \in Nat \ {0}, Good(n - 1) PROVE Good(n)
  <2> DEFINE S == Small(n)  S0 == Small(n - 1)
  <2>1. PICK g \in [S0 -> Int] : Sums(g, f, S0)
    BY <1>2
  <2>2. ASSUME NEW s \in S, s # {}
        PROVE  First(s) \in D /\ s \ {First(s)} \in S0
    BY <1>0, <2>2, FirstFacts
  <2>3. S0 \subseteq S
    BY <1>0
  <2>n. {} \in S /\ \A s \in S : s \in SUBSET D
    BY FS_EmptySet
  <2> HIDE DEF S, S0, Small
  <2>4. PICK h : h = [s \in S |-> SumStep(g, f, s)]
    OBVIOUS
  <2>5. h \in [S -> Int]
    BY <2>1, <2>2, <2>4 DEF SumStep
  <2>6. \A s \in S0 : h[s] = g[s]
    BY <2>1, <2>3, <2>4 DEF Sums
  <2>7. Sums(h, f, S)
    BY <2>2, <2>4, <2>6 DEF Sums, SumStep
  <2>8. QED BY <2>5, <2>7 DEF S
<1>3. T = {}
  <2>1. SUFFICES ASSUME T # {} PROVE FALSE
    OBVIOUS
  <2>2. PICK n \in T : \A m \in T : n <= m
    BY <2>1, LeastNumber
  <2> HIDE DEF Good
  <2>3. n \in Nat \ {0}
    BY <1>1, <2>2
  <2>4. n - 1 \in Nat /\ n - 1 \notin T
    BY <2>2, <2>3
  <2>5. Good(n)
    BY <1>2, <2>3, <2>4
  <2>6. QED BY <2>2, <2>5
<1>4. Good(Cardinality(D))
  <2>1. Cardinality(D) \in Nat
    BY <1>0
  <2> HIDE DEF Good
  <2>2. QED BY <1>3, <2>1
<1>5. Small(Cardinality(D)) = SUBSET D
  BY <1>0, FS_Subset
<1> HIDE DEF Small
<1>6. QED BY <1>4, <1>5

SumOf(f) == FoldFunction(+, 0, f)

(* It is what the fold of the community modules computes. *)
LEMMA FoldIsSum ==
  ASSUME NEW D, IsFiniteSet(D), NEW f \in [D -> Int], NEW g, Sums(g, f, SUBSET D)
  PROVE  SumOf(f) = g[D] /\ SumOf(f) \in Int
<1> DEFINE Step(h) == [s \in SUBSET D |-> SumStep(h, f, s)]
<1>1. PICK k \in [SUBSET D -> Int] : Sums(k, f, SUBSET D)
  BY SumExists
<1>2. k = Step(k)
  BY <1>1 DEF Sums
<1>3. PICK i : i = CHOOSE h : h = Step(h)
  OBVIOUS
<1>4. i = Step(i)
  BY <1>2, <1>3
<1>5. Sums(i, f, SUBSET D)
  BY <1>4 DEF Sums
<1>6. SumOf(f) = i[D]
  BY <1>3 DEF SumOf, FoldFunction, FoldFunctionOnSet, MapThenFoldSet, First, SumStep
<1>7. i[D] = g[D] /\ i[D] = k[D]
  BY <1>1, <1>5, SumUnique
<1>8. QED BY <1>1, <1>6, <1>7

(* The sum is a number, *)
LEMMA SumTyped ==
  ASSUME NEW D, IsFiniteSet(D), NEW f \in [D -> Int]
  PROVE  SumOf(f) \in Int
BY SumExists, FoldIsSum

(* which is 0 when there is nothing to add. *)
LEMMA SumOfNothing ==
  ASSUME NEW D, IsFiniteSet(D), NEW f \in [D -> Int], \A d \in D : f[d] = 0
  PROVE  SumOf(f) = 0
<1>1. PICK g : g = [s \in SUBSET D |-> 0]
  OBVIOUS
<1>2. ASSUME NEW s \in SUBSET D PROVE g[s] = SumStep(g, f, s)
  <2>1. s # {} => First(s) \in D /\ s \ {First(s)} \in SUBSET D
    BY FirstFacts
  <2>2. QED BY <1>1, <2>1 DEF SumStep
<1>3. Sums(g, f, SUBSET D)
  BY <1>2 DEF Sums
<1>4. SumOf(f) = g[D]
  BY <1>3, FoldIsSum
<1>5. QED BY <1>1, <1>4

(* Any element may be the one that is added last. *)
Splits(g, f, D) == \A s \in SUBSET D : \A d \in s : g[s] = f[d] + g[s \ {d}]

LEMMA SumSplits ==
  ASSUME NEW D, IsFiniteSet(D), NEW f, f \in [D -> Int], NEW g, g \in [SUBSET D -> Int], Sums(g, f, SUBSET D)
  PROVE  Splits(g, f, D)
<1> DEFINE T == {n \in Nat : \E s \in SUBSET D : Cardinality(s) = n /\ \E d \in s : g[s] # f[d] + g[s \ {d}]}
<1>1. SUFFICES ASSUME NEW s \in SUBSET D, NEW d \in s, g[s] # f[d] + g[s \ {d}] PROVE FALSE
  BY DEF Splits
<1>2. Cardinality(s) \in T
  <2>1. Cardinality(s) \in Nat
    BY FS_Subset, FS_CardinalityType
  <2>2. QED BY <1>1, <2>1
<1>3. PICK n \in T : \A m \in T : n <= m
  BY <1>2, LeastNumber
<1>4. PICK u \in SUBSET D : Cardinality(u) = n /\ \E e \in u : g[u] # f[e] + g[u \ {e}]
  BY <1>3
<1>5. PICK e \in u : g[u] # f[e] + g[u \ {e}]
  BY <1>4
<1>6. PICK c \in u : c = First(u)
  BY <1>5, FirstFacts
<1>7. g[u] = f[c] + g[u \ {c}]
  BY <1>5, <1>6 DEF Sums, SumStep
<1>8. c # e
  BY <1>5, <1>7
<1>9. ASSUME NEW v \in SUBSET D, NEW x \in u, v = u \ {x}, NEW y \in v
      PROVE  g[v] = f[y] + g[v \ {y}]
  <2>1. IsFiniteSet(u) /\ Cardinality(v) = n - 1 /\ Cardinality(v) \in Nat /\ n \in Nat
    BY <1>4, <1>9, FS_Subset, FS_RemoveElement, FS_CardinalityType
  <2>2. Cardinality(v) \notin T
    BY <1>3, <2>1
  <2>3. QED BY <2>1, <2>2
<1>10. g[u \ {c}] = f[e] + g[(u \ {c}) \ {e}]
  BY <1>8, <1>9
<1>11. g[u \ {e}] = f[c] + g[(u \ {e}) \ {c}]
  BY <1>8, <1>9
<1>12. (u \ {e}) \ {c} = (u \ {c}) \ {e}
  OBVIOUS
<1>13. PICK z \in Int : z = g[(u \ {c}) \ {e}]
  OBVIOUS
<1>14. f[c] \in Int /\ f[e] \in Int
  OBVIOUS
<1>15. g[u] = f[c] + (f[e] + z) /\ g[u \ {e}] = f[c] + z
  BY <1>7, <1>10, <1>11, <1>12, <1>13
<1>16. QED BY <1>5, <1>14, <1>15

(* A value that grows by n makes the sum grow by n, *)
Grown(D, e, f, d, n) ==
  /\ IsFiniteSet(D) /\ d \in D /\ n \in Int
  /\ f \in [D -> Int] /\ e \in [D -> Int] /\ e = [f EXCEPT ![d] = f[d] + n]

LEMMA SumGrows ==
  ASSUME NEW D, NEW f, NEW e, NEW d, NEW n, Grown(D, e, f, d, n)
  PROVE  SumOf(e) = SumOf(f) + n
<1>0. /\ IsFiniteSet(D) /\ d \in D /\ n \in Int
      /\ f \in [D -> Int] /\ e \in [D -> Int] /\ e = [f EXCEPT ![d] = f[d] + n]
  BY DEF Grown
<1>1. PICK g \in [SUBSET D -> Int] : Sums(g, f, SUBSET D)
  BY <1>0, SumExists
<1>2. PICK h : h = [s \in SUBSET D |-> IF d \in s THEN g[s] + n ELSE g[s]]
  OBVIOUS
<1>h. h \in [SUBSET D -> Int]
  BY <1>0, <1>2
<1>3. ASSUME NEW s \in SUBSET D PROVE h[s] = SumStep(h, e, s)
  <2>1. CASE s = {}
    BY <1>1, <1>2, <2>1 DEF Sums, SumStep
  <2>2. CASE s # {}
    <3>1. PICK c \in s : c = First(s)
      BY <1>0, <2>2, FirstFacts
    <3>2. PICK r \in SUBSET D : r = s \ {c}
      OBVIOUS
    <3>3. g[s] = f[c] + g[r] /\ f[c] \in Int /\ g[r] \in Int
      BY <1>0, <1>1, <2>2, <3>1, <3>2 DEF Sums, SumStep
    <3>4. SumStep(h, e, s) = e[c] + h[r]
      BY <2>2, <3>1, <3>2 DEF SumStep
    <3>5. CASE c = d
      <4>1. e[c] = f[c] + n /\ h[r] = g[r] /\ h[s] = g[s] + n
        BY <1>0, <1>2, <3>1, <3>2, <3>5
      <4>2. QED BY <1>0, <3>3, <3>4, <4>1
    <3>6. CASE c # d
      <4>1. e[c] = f[c]
        BY <1>0, <3>1, <3>6
      <4>2. CASE d \in s
        <5>1. h[s] = g[s] + n /\ h[r] = g[r] + n
          BY <1>2, <3>2, <3>6, <4>2
        <5>2. QED BY <1>0, <3>3, <3>4, <4>1, <5>1
      <4>3. CASE d \notin s
        <5>1. h[s] = g[s] /\ h[r] = g[r]
          BY <1>2, <3>2, <4>3
        <5>2. QED BY <1>0, <3>3, <3>4, <4>1, <5>1
      <4>4. QED BY <4>2, <4>3
    <3>7. QED BY <3>5, <3>6
  <2>3. QED BY <2>1, <2>2
<1>4. Sums(h, e, SUBSET D)
  BY <1>2, <1>3 DEF Sums
<1>e. SumOf(e) = h[D]
  BY <1>0, <1>4, FoldIsSum
<1>f. SumOf(f) = g[D]
  BY <1>0, <1>1, FoldIsSum
<1>5. SumOf(e) = h[D] /\ SumOf(f) = g[D]
  BY <1>e, <1>f
<1>6. QED BY <1>0, <1>2, <1>5

(* and a sequence of values that moves on by one place loses its last one. *)
LEMMA SumShifts ==
  ASSUME NEW w \in Nat \ {0}, NEW f \in [1 .. w -> Int], NEW e \in [1 .. w -> Int],
         \A d \in 1 .. w : e[d] = IF d = 1 THEN 0 ELSE f[d - 1]
  PROVE  SumOf(e) = SumOf(f) - f[w]
<1> DEFINE D == 1 .. w
<1>0. IsFiniteSet(D)
  BY FS_Interval
<1>1. PICK g \in [SUBSET D -> Int] : Sums(g, f, SUBSET D)
  BY <1>0, SumExists
<1>2. PICK h \in [SUBSET D -> Int] : Sums(h, e, SUBSET D)
  BY <1>0, SumExists
<1>3. g[{}] = 0 /\ h[{}] = 0
  BY <1>1, <1>2 DEF Sums, SumStep
<1>s. Splits(g, f, D) /\ Splits(h, e, D)
  <2>1. f \in [D -> Int] /\ e \in [D -> Int]
    OBVIOUS
  <2> HIDE DEF D
  <2>2. QED BY <1>0, <1>1, <1>2, <2>1, SumSplits, Zenon
<1>4. ASSUME NEW n \in D
      PROVE  /\ 1 .. n \in SUBSET D /\ 1 .. (n - 1) \in SUBSET D
             /\ (1 .. n) \ {n} = 1 .. (n - 1)
             /\ g[1 .. n] = f[n] + g[1 .. (n - 1)]
             /\ h[1 .. n] = e[n] + h[1 .. (n - 1)]
  <2>1. 1 .. n \in SUBSET D /\ 1 .. (n - 1) \in SUBSET D /\ n \in 1 .. n
    OBVIOUS
  <2>2. (1 .. n) \ {n} = 1 .. (n - 1)
    OBVIOUS
  <2>3. g[1 .. n] = f[n] + g[(1 .. n) \ {n}] /\ h[1 .. n] = e[n] + h[(1 .. n) \ {n}]
    BY <1>s, <2>1 DEF Splits
  <2>4. QED BY <2>1, <2>2, <2>3
<1> DEFINE T == {n \in Nat : n \in D /\ h[1 .. n] # g[1 .. (n - 1)]}
<1>5. T = {}
  <2>1. SUFFICES ASSUME T # {} PROVE FALSE
    OBVIOUS
  <2>2. PICK n \in T : \A m \in T : n <= m
    BY <2>1, LeastNumber
  <2>3. n \in D /\ h[1 .. n] # g[1 .. (n - 1)]
    BY <2>2
  <2>4. h[1 .. n] = e[n] + h[1 .. (n - 1)]
    BY <1>4, <2>3
  <2>5. CASE n = 1
    <3>1. 1 .. (n - 1) = {}
      BY <2>5
    <3>2. QED BY <1>3, <2>3, <2>4, <2>5, <3>1
  <2>6. CASE n # 1
    <3>1. n - 1 \in D /\ n - 1 \in Nat /\ e[n] = f[n - 1]
      BY <2>3, <2>6
    <3>2. n - 1 \notin T
      <4>1. n \in Nat /\ ~(n <= n - 1)
        BY <2>3
      <4>2. QED BY <2>2, <4>1
    <3>3. h[1 .. (n - 1)] = g[1 .. ((n - 1) - 1)]
      BY <3>1, <3>2
    <3>4. g[1 .. (n - 1)] = f[n - 1] + g[1 .. ((n - 1) - 1)]
      BY <1>4, <3>1
    <3>5. QED BY <2>3, <2>4, <3>1, <3>3, <3>4
  <2>7. QED BY <2>5, <2>6
<1>6. w \in D /\ h[D] = g[1 .. (w - 1)]
  <2>1. w \in D /\ w \in Nat
    OBVIOUS
  <2>2. w \notin T
    BY <1>5, Zenon
  <2>3. QED BY <2>1, <2>2
<1>7. g[D] = f[w] + g[1 .. (w - 1)] /\ f[w] \in Int /\ g[1 .. (w - 1)] \in Int
  BY <1>4, <1>6
<1>8. SumOf(e) = h[D] /\ SumOf(f) = g[D]
  BY <1>0, <1>1, <1>2, FoldIsSum
<1>9. QED BY <1>6, <1>7, <1>8

-----------------------------------------------------------------------------
(* Score.  As long as runs follow each other, the run at work is the only   *)
(* one, and what it will take is still there.                               *)

(* calcVariation is defined for every score, and takes no more than it.     *)
RatesGiven == \A n \in Nat \ {0} : Decay[n] \in 1 .. n /\ Boost[n] \in Nat \ {0}

(* The sum of the days of a student, of which the code speaks as Total. *)
Score(s) == SumOf(daily[s])

LEMMA ScoreIsTotal == \A s : Total(s) = Score(s)
BY DEF Total, Score, SumOf

Ledger ==
  orderly =>
    /\ \A s \in Fellows : Score(s) >= 0
    /\ \A q, r \in Runs : Busy(q) /\ Busy(r) => q = r
    /\ \A r \in Runs : run[r].pc \in {"levels", "refresh"} =>
         \A s \in Fellows : ranked[s] <= Score(s)

(* The types, by who writes them. *)
ScoreTypes == daily \in [Fellows -> [1 .. Window -> Int]] /\ ranked \in [Fellows -> Nat]
RunTypes ==
  /\ lock \in [Levels -> SUBSET Runs]
  /\ run \in [Runs -> [pc : {"idle", "rebuild", "levels", "refresh"}, stus : SUBSET Fellows]]
  /\ started \in 0 .. MaxRuns /\ orderly \in BOOLEAN
BoostTypes ==
  /\ mark \subseteq Fellows
  /\ boost \in [Boosters -> [pc : {"idle", "score", "write"}, stu : SUBSET Fellows, score : Nat]]
  /\ marks \in 0 .. MaxMarks /\ boosted \in [Fellows -> Nat]
CountTypes == adds \in 0 .. MaxAdds /\ midnights \in 0 .. MaxDays

(* Together they are the type invariant. *)
LEMMA CounterParts == CounterTypeOK <=> ScoreTypes /\ RunTypes /\ BoostTypes /\ CountTypes
BY DEF CounterTypeOK, ScoreTypes, RunTypes, BoostTypes, CountTypes

(* The days of the window. *)
LEMMA WindowFacts ==
  /\ Window \in Nat \ {0} /\ IsFiniteSet(1 .. Window)
  /\ 1 \in 1 .. Window /\ Window \in 1 .. Window
<1>1. Window \in Nat \ {0}
  BY CounterAssumption
<1>2. IsFiniteSet(1 .. Window)
  BY <1>1, FS_Interval
<1>3. QED BY <1>1, <1>2

(* The sum of the days of a student is a number, *)
LEMMA WindowSum ==
  ASSUME NEW f \in [1 .. Window -> Int]
  PROVE  SumOf(f) \in Int
BY WindowFacts, SumTyped

LEMMA ScoreTyped ==
  ASSUME ScoreTypes
  PROVE  \A s \in Fellows : Score(s) \in Int /\ daily[s] \in [1 .. Window -> Int] /\ ranked[s] \in Nat
BY WindowSum DEF Score, ScoreTypes

(* in the next state too, *)
LEMMA ScoreTypedNext ==
  ASSUME ScoreTypes'
  PROVE  \A s \in Fellows : Score(s)' \in Int
BY WindowSum DEF Score, ScoreTypes

(* which grows with what today gets, *)
LEMMA ScoreGrows ==
  ASSUME ScoreTypes, NEW s \in Fellows, NEW n \in Int,
         daily'[s] = [daily[s] EXCEPT ![1] = daily[s][1] + n]
  PROVE  daily'[s] \in [1 .. Window -> Int] /\ Score(s)' = Score(s) + n
<1>1. daily[s] \in [1 .. Window -> Int]
  BY DEF ScoreTypes
<1>2. PICK f \in [1 .. Window -> Int] : f = daily[s]
  BY <1>1
<1>3. f[1] \in Int /\ f[1] + n \in Int
  BY WindowFacts
<1>4. PICK e \in [1 .. Window -> Int] : e = [f EXCEPT ![1] = f[1] + n]
  BY <1>3
<1>5. e = daily'[s]
  BY <1>2, <1>4
<1>6. SumOf(e) = SumOf(f) + n
  <2>1. Grown(1 .. Window, e, f, 1, n)
    BY <1>4, WindowFacts DEF Grown
  <2>2. QED BY <2>1, SumGrows
<1>7. QED BY <1>2, <1>5, <1>6 DEF Score

(* and at midnight loses the day that leaves the window. *)
LEMMA ScoreShifts ==
  ASSUME ScoreTypes, NEW s \in Fellows,
         daily'[s] = [d \in 1 .. Window |-> IF d = 1 THEN 0 ELSE daily[s][d - 1]]
  PROVE  daily'[s] \in [1 .. Window -> Int] /\ Score(s)' = Score(s) - daily[s][Window]
<1>1. daily[s] \in [1 .. Window -> Int] /\ Window \in Nat \ {0}
  BY CounterAssumption DEF ScoreTypes
<1>2. PICK w \in Nat \ {0} : w = Window
  BY <1>1
<1>3. PICK f \in [1 .. w -> Int] : f = daily[s]
  BY <1>1, <1>2
<1>4. PICK e : e = [d \in 1 .. w |-> IF d = 1 THEN 0 ELSE f[d - 1]]
  OBVIOUS
<1>5. e = daily'[s]
  BY <1>2, <1>3, <1>4
<1>6. e \in [1 .. w -> Int] /\ \A d \in 1 .. w : e[d] = IF d = 1 THEN 0 ELSE f[d - 1]
  BY <1>4
<1>7. SumOf(e) = SumOf(f) - f[w]
  BY <1>6, SumShifts
<1>8. QED BY <1>2, <1>3, <1>5, <1>6, <1>7 DEF Score

(* Scores are added today. *)
LEMMA TodayFacts ==
  ASSUME ScoreTypes, NEW s \in Fellows, NEW n \in Nat, Today(s, n), ranked' = ranked
  PROVE  ScoreTypes' /\ \A t \in Fellows : Score(t)' >= Score(t)
<1>1. 1 \in 1 .. Window
  BY CounterAssumption
<1>2. daily' = [daily EXCEPT ![s] = [daily[s] EXCEPT ![1] = daily[s][1] + n]]
  BY <1>1 DEF Today, ScoreTypes
<1>3. ASSUME NEW t \in Fellows
      PROVE  daily'[t] \in [1 .. Window -> Int] /\ Score(t)' >= Score(t)
  <2>0. Score(t) \in Int
    BY ScoreTyped
  <2>1. CASE t = s
    <3>1. daily'[t] = [daily[t] EXCEPT ![1] = daily[t][1] + n]
      BY <1>2, <2>1 DEF ScoreTypes
    <3>2. PICK z \in Int : z = n
      OBVIOUS
    <3>3. daily'[t] \in [1 .. Window -> Int] /\ Score(t)' = Score(t) + z
      BY <3>1, <3>2, ScoreGrows
    <3>4. QED BY <2>0, <3>2, <3>3
  <2>2. CASE t # s
    <3>1. daily'[t] = daily[t]
      BY <1>2, <2>2 DEF ScoreTypes
    <3>2. Score(t)' = Score(t)
      BY <3>1 DEF Score
    <3>3. QED BY <2>0, <3>1, <3>2 DEF ScoreTypes
  <2>3. QED BY <2>1, <2>2
<1>4. daily' \in [Fellows -> [1 .. Window -> Int]]
  BY <1>2, <1>3 DEF ScoreTypes
<1>5. QED BY <1>3, <1>4 DEF ScoreTypes

(* Sums that do not shrink leave the ledger in order. *)
LEMMA LedgerGrows ==
  ASSUME ScoreTypes, Ledger, UNCHANGED <<ranked, run>>, orderly' => orderly, ScoreTypes',
         \A t \in Fellows : Score(t)' >= Score(t)
  PROVE  Ledger'
<1>1. \A t \in Fellows : Score(t) \in Int /\ Score(t)' \in Int /\ ranked[t] \in Nat
  BY ScoreTyped, ScoreTypedNext
<1>2. QED BY <1>1 DEF Ledger, Busy

(* Nor is it touched by steps that leave scores and runs alone. *)
LEMMA LedgerSame ==
  ASSUME Ledger, UNCHANGED <<daily, ranked, run, orderly>>
  PROVE  Ledger'
BY DEF Ledger, Busy, Score

(* The steps that write scores: a request, *)
LEMMA AddCounterScore ==
  ASSUME CounterTypeOK, Ledger, NEW s \in Fellows, AddCounter(s)
  PROVE  CounterTypeOK' /\ Ledger'
<1>1. ScoreTypes /\ RunTypes /\ BoostTypes /\ CountTypes
  BY CounterParts
<1>2. /\ Today(s, 1) /\ adds < MaxAdds /\ adds' = adds + 1
      /\ UNCHANGED <<ranked, lock, run, mark, boost, started, midnights, marks, orderly, boosted>>
  BY DEF AddCounter
<1>3. ScoreTypes' /\ Ledger'
  BY <1>1, <1>2, TodayFacts, LedgerGrows
<1>4. CountTypes'
  BY <1>1, <1>2, CounterAssumption DEF CountTypes
<1>5. RunTypes' /\ BoostTypes'
  BY <1>1, <1>2 DEF RunTypes, BoostTypes
<1>6. CounterTypeOK'
  BY <1>3, <1>4, <1>5 DEF CounterTypeOK, ScoreTypes, RunTypes, BoostTypes, CountTypes
<1>7. QED BY <1>3, <1>6

(* a boost, *)
LEMMA WriteBoostScore ==
  ASSUME RatesGiven, CounterTypeOK, Ledger, NEW b \in Boosters, WriteBoost(b)
  PROVE  CounterTypeOK' /\ Ledger'
<1>1. ScoreTypes /\ RunTypes /\ BoostTypes /\ CountTypes
  BY CounterParts
<1>2. boost[b].score \in Nat /\ boost[b].stu \in SUBSET Fellows
  BY <1>1 DEF BoostTypes
<1>3. PICK n \in Nat : n = IF boost[b].score = 0 THEN InitialBoost ELSE Boost[boost[b].score]
  <2>1. CASE boost[b].score = 0
    BY <2>1, CounterAssumption
  <2>2. CASE boost[b].score # 0
    BY <1>2, <2>2 DEF RatesGiven
  <2>3. QED BY <2>1, <2>2
<1>4. PICK s \in Fellows : Today(s, n) /\ boosted' = [boosted EXCEPT ![s] = @ + 1]
  BY <1>2, <1>3 DEF WriteBoost
<1>5. /\ boost' = [boost EXCEPT ![b] = NoBoost]
      /\ UNCHANGED <<ranked, lock, run, mark, countBounds, orderly>>
  BY DEF WriteBoost
<1>6. ScoreTypes' /\ Ledger'
  BY <1>1, <1>4, <1>5, TodayFacts, LedgerGrows
<1>7. BoostTypes'
  BY <1>1, <1>4, <1>5 DEF BoostTypes, NoBoost, countBounds
<1>8. RunTypes' /\ CountTypes'
  BY <1>1, <1>5 DEF RunTypes, CountTypes, countBounds
<1>9. CounterTypeOK'
  BY <1>6, <1>7, <1>8 DEF CounterTypeOK, ScoreTypes, RunTypes, BoostTypes, CountTypes
<1>10. QED BY <1>6, <1>9

(* midnight, *)
LEMMA NextDayScore ==
  ASSUME CounterTypeOK, Ledger, NextDay
  PROVE  CounterTypeOK' /\ Ledger'
<1>1. ScoreTypes /\ RunTypes /\ BoostTypes /\ CountTypes
  BY CounterParts
<1>2. /\ midnights < MaxDays /\ midnights' = midnights + 1
      /\ orderly' = (orderly /\ \A s \in Fellows : daily[s][Window] <= 0)
      /\ daily' = [s \in Fellows |-> [d \in 1 .. Window |-> IF d = 1 THEN 0 ELSE daily[s][d - 1]]]
      /\ UNCHANGED <<ranked, lock, run, mark, boost, adds, started, marks, boosted>>
  BY DEF NextDay
<1>3. \A s \in Fellows : /\ daily'[s] \in [1 .. Window -> Int]
                         /\ Score(s)' = Score(s) - daily[s][Window]
  BY <1>1, <1>2, ScoreShifts
<1>4. ScoreTypes'
  BY <1>1, <1>2, <1>3 DEF ScoreTypes
<1>5. CountTypes'
  BY <1>1, <1>2, CounterAssumption DEF CountTypes
<1>6. RunTypes' /\ BoostTypes'
  BY <1>1, <1>2 DEF RunTypes, BoostTypes
<1>7. CounterTypeOK'
  BY <1>4, <1>5, <1>6 DEF CounterTypeOK, ScoreTypes, RunTypes, BoostTypes, CountTypes
<1>8. Ledger'
  <2>1. CASE ~orderly'
    BY <2>1 DEF Ledger
  <2>2. CASE orderly'
    <3>1. orderly /\ \A s \in Fellows : daily[s][Window] <= 0
      BY <1>2, <2>2
    <3>2. \A s \in Fellows : Score(s) \in Int /\ daily[s][Window] \in Int
      BY <1>1, ScoreTyped, WindowFacts
    <3>3. \A s \in Fellows : Score(s)' >= Score(s)
      BY <1>3, <3>1, <3>2
    <3>4. QED BY <1>1, <1>2, <1>4, <3>1, <3>3, LedgerGrows
  <2>3. QED BY <2>1, <2>2
<1>9. QED BY <1>7, <1>8

(* the rebuilding, which counts what there is, *)
LEMMA RebuildScore ==
  ASSUME CounterTypeOK, Ledger, NEW r \in Runs, RebuildCounter(r)
  PROVE  CounterTypeOK' /\ Ledger'
<1>1. ScoreTypes /\ RunTypes /\ BoostTypes /\ CountTypes
  BY CounterParts
<1>2. /\ run[r].pc = "rebuild" /\ run' = [run EXCEPT ![r].pc = "levels"]
      /\ ranked' = [s \in Fellows |-> IF Score(s) > 0 THEN Score(s) ELSE 0]
      /\ UNCHANGED <<daily, lock, mark, boost, countBounds, orderly, boosted>>
  BY ScoreIsTotal DEF RebuildCounter, To
<1>3. ScoreTypes'
  <2>1. \A s \in Fellows : (IF Score(s) > 0 THEN Score(s) ELSE 0) \in Nat
    BY <1>1, ScoreTyped
  <2>2. QED BY <1>1, <1>2, <2>1 DEF ScoreTypes
<1>4. RunTypes' /\ \A q \in Runs : run'[q].pc = IF q = r THEN "levels" ELSE run[q].pc
  BY <1>1, <1>2 DEF RunTypes, countBounds
<1>5. BoostTypes' /\ CountTypes'
  BY <1>1, <1>2 DEF BoostTypes, CountTypes, countBounds
<1>6. CounterTypeOK'
  BY <1>3, <1>4, <1>5 DEF CounterTypeOK, ScoreTypes, RunTypes, BoostTypes, CountTypes
<1>7. Ledger'
  <2>1. SUFFICES ASSUME orderly PROVE Ledger'
    BY <1>2 DEF Ledger
  <2>2. \A s \in Fellows : Score(s)' = Score(s) /\ Score(s) >= 0 /\ Score(s) \in Int
    BY <1>1, <1>2, <2>1, ScoreTyped DEF Ledger, Score
  <2>3. \A s \in Fellows : ranked'[s] <= Score(s)'
    BY <1>2, <2>2
  <2>4. \A s \in Fellows : Score(s)' >= 0
    BY <2>2
  <2>5. QED BY <1>2, <1>4, <2>1, <2>3, <2>4 DEF Ledger, Busy
<1>8. QED BY <1>6, <1>7

(* and the decay, which takes no more than was counted. *)
LEMMA DecayScore ==
  ASSUME RatesGiven, CounterTypeOK, Ledger, NEW r \in Runs, DecayCounter(r)
  PROVE  CounterTypeOK' /\ Ledger'
<1>1. ScoreTypes /\ RunTypes /\ BoostTypes /\ CountTypes
  BY CounterParts
<1>2. /\ run[r].pc = "refresh" /\ run' = [run EXCEPT ![r] = Resting] /\ Unlock(r)
      /\ daily' = [s \in Fellows |-> IF s \in run[r].stus /\ ranked[s] > 0
                                     THEN [daily[s] EXCEPT ![1] = daily[s][1] - Decay[ranked[s]]]
                                     ELSE daily[s]]
      /\ UNCHANGED <<ranked, mark, boost, countBounds, orderly, boosted>>
  <2>1. 1 \in 1 .. Window
    BY CounterAssumption
  <2>2. QED BY <1>1, <2>1 DEF DecayCounter, ScoreTypes
<1>3. ASSUME NEW s \in Fellows
      PROVE  /\ daily'[s] \in [1 .. Window -> Int]
             /\ Score(s)' >= Score(s) - ranked[s] /\ Score(s) \in Int /\ ranked[s] \in Nat
             /\ ~(ranked[s] > 0) => Score(s)' = Score(s)
  <2>1. daily[s] \in [1 .. Window -> Int] /\ ranked[s] \in Nat /\ Score(s) \in Int
    BY <1>1, ScoreTyped DEF ScoreTypes
  <2>2. CASE s \in run[r].stus /\ ranked[s] > 0
    <3>1. Decay[ranked[s]] \in 1 .. ranked[s]
      BY <2>1, <2>2 DEF RatesGiven
    <3>2. PICK n \in 1 .. ranked[s] : n = Decay[ranked[s]]
      BY <3>1
    <3>3. daily'[s] = [daily[s] EXCEPT ![1] = daily[s][1] - n]
      BY <1>2, <2>2, <3>2
    <3>4. PICK z \in Int : z = 0 - n
      BY <2>1
    <3>5. daily[s][1] - n = daily[s][1] + z
      <4>1. PICK y \in Int : y = daily[s][1]
        BY <2>1, WindowFacts
      <4>2. n \in Nat
        BY <2>1
      <4>3. QED BY <3>4, <4>1, <4>2
    <3>6. daily'[s] \in [1 .. Window -> Int] /\ Score(s)' = Score(s) + z
      BY <1>1, <3>3, <3>5, ScoreGrows
    <3>7. QED BY <2>1, <2>2, <3>4, <3>6
  <2>3. CASE ~(s \in run[r].stus /\ ranked[s] > 0)
    <3>1. daily'[s] = daily[s]
      BY <1>2, <2>3
    <3>2. Score(s)' = Score(s)
      BY <3>1 DEF Score
    <3>3. QED BY <2>1, <3>1, <3>2
  <2>4. QED BY <2>2, <2>3
<1>4. ScoreTypes'
  BY <1>1, <1>2, <1>3 DEF ScoreTypes
<1>5. RunTypes'
  BY <1>1, <1>2, CounterAssumption DEF RunTypes, Unlock, Resting, countBounds
<1>6. BoostTypes' /\ CountTypes'
  BY <1>1, <1>2 DEF BoostTypes, CountTypes, countBounds
<1>7. CounterTypeOK'
  BY <1>4, <1>5, <1>6 DEF CounterTypeOK, ScoreTypes, RunTypes, BoostTypes, CountTypes
<1>8. Ledger'
  <2>1. SUFFICES ASSUME orderly PROVE Ledger'
    BY <1>2 DEF Ledger
  <2>2. \A q \in Runs : ~(run'[q].pc # "idle")
    <3>1. ASSUME NEW q \in Runs PROVE run'[q].pc = "idle"
      <4>1. CASE q = r
        BY <1>1, <1>2, <4>1 DEF RunTypes, Resting
      <4>2. CASE q # r
        BY <1>1, <1>2, <2>1, <4>2 DEF Ledger, Busy, RunTypes
      <4>3. QED BY <4>1, <4>2
    <3>2. QED BY <3>1
  <2>3. \A s \in Fellows : ranked[s] <= Score(s)
    BY <1>2, <2>1 DEF Ledger
  <2>4. ASSUME NEW s \in Fellows PROVE Score(s)' >= 0
    <3>1. Score(s)' \in Int
      BY <1>4, ScoreTypedNext
    <3>2. QED BY <1>3, <2>3, <3>1
  <2>5. QED BY <2>2, <2>4 DEF Ledger, Busy
<1>9. QED BY <1>7, <1>8

(* The other steps of a run. *)
LEMMA RunScore ==
  ASSUME CounterTypeOK, Ledger, NEW r \in Runs, Tick(r) \/ Refresh(r) \/ EndRun(r)
  PROVE  CounterTypeOK' /\ Ledger'
<1>1. ScoreTypes /\ RunTypes /\ BoostTypes /\ CountTypes
  BY CounterParts
<1>0. LevelOf[r] \in Levels
  BY CounterAssumption
<1>2. /\ UNCHANGED <<scoreVars, mark, boost, adds, midnights, marks, boosted>>
      /\ RunTypes'
      /\ \/ /\ \A q \in Runs : run'[q].pc = IF q = r THEN "rebuild" ELSE run[q].pc
            /\ orderly' => orderly /\ \A q \in Runs : ~Busy(q)
         \/ /\ orderly' = orderly /\ run[r].pc = "levels"
            /\ \A q \in Runs : run'[q].pc = IF q = r THEN "refresh" ELSE run[q].pc
         \/ /\ orderly' = orderly
            /\ \A q \in Runs : run'[q].pc = IF q = r THEN "idle" ELSE run[q].pc
  <2>1. CASE Tick(r)
    <3>1. /\ started < MaxRuns /\ started' = started + 1
          /\ lock' = [lock EXCEPT ![LevelOf[r]] = {r}]
          /\ run' = [run EXCEPT ![r].pc = "rebuild"]
          /\ UNCHANGED <<scoreVars, mark, boost, adds, midnights, marks, boosted>>
      BY <2>1 DEF Tick, To
    <3>2. orderly' \in BOOLEAN /\ (orderly' => orderly /\ \A q \in Runs : ~Busy(q))
      BY <2>1 DEF Tick
    <3>3. started' \in 0 .. MaxRuns
      BY <1>1, <3>1, CounterAssumption DEF RunTypes
    <3>4. lock' \in [Levels -> SUBSET Runs]
      BY <1>0, <1>1, <3>1 DEF RunTypes
    <3>5. run' \in [Runs -> [pc : {"idle", "rebuild", "levels", "refresh"}, stus : SUBSET Fellows]]
          /\ \A q \in Runs : run'[q].pc = IF q = r THEN "rebuild" ELSE run[q].pc
      BY <1>1, <3>1 DEF RunTypes
    <3>6. QED BY <3>1, <3>2, <3>3, <3>4, <3>5 DEF RunTypes
  <2>2. CASE Refresh(r)
    <3>1. GetCounterLevels(ranked, Number, LevelOf[r]) \in SUBSET Fellows
      BY DEF GetCounterLevels, Ranked
    <3>2. PICK S \in SUBSET Fellows : S = GetCounterLevels(ranked, Number, LevelOf[r])
      BY <3>1
    <3>3. /\ run[r].pc = "levels" /\ run' = [run EXCEPT ![r].pc = "refresh", ![r].stus = S]
          /\ UNCHANGED <<scoreVars, lock, mark, boost, countBounds, orderly, boosted>>
      BY <2>2, <3>2 DEF Refresh
    <3>4. QED BY <1>1, <3>3 DEF RunTypes, countBounds
  <2>3. CASE EndRun(r)
    BY <1>0, <1>1, <2>3 DEF EndRun, Unlock, Resting, RunTypes, countBounds
  <2>4. QED BY <2>1, <2>2, <2>3
<1>3. ScoreTypes' /\ BoostTypes' /\ CountTypes'
  BY <1>1, <1>2 DEF ScoreTypes, BoostTypes, CountTypes, scoreVars
<1>4. CounterTypeOK'
  BY <1>2, <1>3 DEF CounterTypeOK, ScoreTypes, RunTypes, BoostTypes, CountTypes
<1>5. daily' = daily /\ ranked' = ranked
  BY <1>2 DEF scoreVars
<1>6. \A s \in Fellows : Score(s)' = Score(s)
  BY <1>5 DEF Score
<1>7. Ledger'
  BY <1>2, <1>5, <1>6 DEF Ledger, Busy
<1>8. QED BY <1>4, <1>7

(* The steps that leave the scores and the runs alone. *)
LEMMA OtherScore ==
  ASSUME CounterTypeOK, Ledger,
         \/ \E s \in Fellows : MarkExpires(s)
         \/ \E l \in Levels : LockExpires(l)
         \/ \E b \in Boosters : BoostScores(b) \/ ReadRank(b) \/ BoostFails(b)
         \/ UNCHANGED counterVars
  PROVE  CounterTypeOK' /\ Ledger'
<1>1. ScoreTypes /\ RunTypes /\ BoostTypes /\ CountTypes
  BY CounterParts
<1>2. UNCHANGED <<scoreVars, run, adds, started, midnights, orderly>>
  BY DEF MarkExpires, LockExpires, BoostScores, ReadRank, BoostFails, counterVars, countBounds
<1>3. lock' \in [Levels -> SUBSET Runs]
  BY <1>1 DEF RunTypes, MarkExpires, LockExpires, BoostScores, ReadRank, BoostFails, counterVars
<1>4. BoostTypes'
  <2>1. CASE \E s \in Fellows : MarkExpires(s)
    BY <1>1, <2>1 DEF MarkExpires, BoostTypes, countBounds
  <2>2. CASE (\E l \in Levels : LockExpires(l)) \/ UNCHANGED counterVars
    BY <1>1, <2>2 DEF LockExpires, counterVars, BoostTypes, countBounds
  <2>3. ASSUME NEW b \in Boosters, BoostScores(b) PROVE BoostTypes'
    <3>1. PICK s \in Fellows :
            SetNX(b, s) /\ boost' = [boost EXCEPT ![b] = [pc |-> "score", stu |-> {s}, score |-> 0]]
      BY <2>3 DEF BoostScores
    <3>2. mark' \subseteq Fellows /\ marks' \in 0 .. MaxMarks /\ boosted' \in [Fellows -> Nat]
      BY <1>1, <3>1, CounterAssumption DEF SetNX, BoostTypes
    <3>3. QED BY <1>1, <3>1, <3>2 DEF BoostTypes
  <2>4. ASSUME NEW b \in Boosters, ReadRank(b) PROVE BoostTypes'
    <3>1. PICK s \in Fellows : boost' = [boost EXCEPT ![b].pc = "write", ![b].score = ranked[s]]
      BY <1>1, <2>4 DEF ReadRank, BoostTypes
    <3>2. PICK n \in Nat : n = ranked[s]
      BY <1>1 DEF ScoreTypes
    <3>3. UNCHANGED <<mark, countBounds, boosted>>
      BY <2>4 DEF ReadRank
    <3>4. QED BY <1>1, <3>1, <3>2, <3>3 DEF BoostTypes, countBounds
  <2>5. ASSUME NEW b \in Boosters, BoostFails(b) PROVE BoostTypes'
    BY <1>1, <2>5 DEF BoostFails, BoostTypes, NoBoost, countBounds
  <2>6. QED BY <2>1, <2>2, <2>3, <2>4, <2>5
<1>5. ScoreTypes' /\ RunTypes' /\ CountTypes'
  BY <1>1, <1>2, <1>3 DEF ScoreTypes, RunTypes, CountTypes, scoreVars
<1>6. CounterTypeOK'
  BY <1>4, <1>5 DEF CounterTypeOK, ScoreTypes, RunTypes, BoostTypes, CountTypes
<1>7. Ledger'
  BY <1>2, LedgerSame DEF scoreVars
<1>8. QED BY <1>6, <1>7

(* At first nobody has a score. *)
LEMMA LedgerInit == CounterInit => CounterTypeOK /\ Ledger
<1> SUFFICES ASSUME CounterInit PROVE CounterTypeOK /\ Ledger
  OBVIOUS
<1>1. {MaxAdds, MaxRuns, MaxDays, MaxMarks} \subseteq Nat /\ Window \in Nat \ {0}
  BY CounterAssumption
<1>2. ScoreTypes /\ CountTypes
  BY <1>1 DEF CounterInit, ScoreTypes, CountTypes, Zero
<1>3. RunTypes
  BY <1>1 DEF CounterInit, RunTypes, Resting
<1>4. BoostTypes
  BY <1>1 DEF CounterInit, BoostTypes, NoBoost, Zero
<1>5. CounterTypeOK
  BY <1>2, <1>3, <1>4, CounterParts
<1>6. ASSUME NEW s \in Fellows PROVE Score(s) = 0
  <2>1. daily[s] = [d \in 1 .. Window |-> 0] /\ daily[s] \in [1 .. Window -> Int]
    BY <1>1 DEF CounterInit
  <2>2. PICK f \in [1 .. Window -> Int] : f = daily[s]
    BY <2>1
  <2>3. \A d \in 1 .. Window : f[d] = 0
    BY <2>1, <2>2
  <2>4. QED BY <2>2, <2>3, WindowFacts, SumOfNothing DEF Score
<1>7. Ledger
  BY <1>1, <1>6 DEF CounterInit, Ledger, Busy, Resting
<1>8. QED BY <1>5, <1>7

(* Nobody owes score as long as the runs of the scheduler follow each       *)
(* other and no counted score leaves the window: what DecayCounter takes    *)
(* from a student was ranked by its run and is still there, whatever        *)
(* requests and boosts add and midnights pass in between.  All variables    *)
(* keep their types, also when runs overlap.                                *)
THEOREM NobodyOwes ==
  ASSUME RatesGiven
  PROVE  CounterSpec => []NoDebt
<1>1. CounterTypeOK /\ Ledger /\ [CounterNext]_counterVars => (CounterTypeOK /\ Ledger)'
  BY AddCounterScore, WriteBoostScore, NextDayScore, RebuildScore, DecayScore, RunScore, OtherScore
     DEF CounterNext
<1>2. CounterTypeOK /\ Ledger => NoDebt
  <2>1. SUFFICES ASSUME CounterTypeOK, Ledger, orderly, NEW s \in Fellows PROVE Score(s) >= 0
    BY ScoreIsTotal DEF NoDebt
  <2>2. QED BY <2>1 DEF Ledger
<1>3. QED BY <1>1, <1>2, LedgerInit, PTL DEF CounterSpec

-----------------------------------------------------------------------------
(* Levels.  The places of a ranking are cut in three, and every student of  *)
(* the ranking has one place.                                               *)

(* The students can be numbered, and Number does. *)
LEMMA Numbered == Number \in [Fellows -> 1 .. Cardinality(Fellows)] /\ Cardinality(Fellows) \in Nat
<1> DEFINE n == Cardinality(Fellows)
<1>1. n \in Nat /\ ExistsBijection(1 .. n, Fellows)
  BY CounterAssumption, FS_CardinalityType
<1>2. PICK g \in [1 .. n -> Fellows] : \A s \in Fellows : \E i \in 1 .. n : g[i] = s
  BY <1>1 DEF ExistsBijection, Bijection, Injection, Surjection
<1> DEFINE f == [s \in Fellows |-> CHOOSE i \in 1 .. n : g[i] = s]
<1>3. \A s \in Fellows : f[s] \in 1 .. n /\ g[f[s]] = s
  BY <1>2
<1>4. f \in [Fellows -> 1 .. n] /\ IsInjective(f)
  <2>1. f \in [Fellows -> 1 .. n]
    BY <1>3
  <2>2. \A s, t \in Fellows : f[s] = f[t] => s = t
    BY <1>3
  <2> HIDE DEF f
  <2>3. QED BY <2>1, <2>2 DEF IsInjective
<1> HIDE DEF f, n
<1>5. \E h \in [Fellows -> 1 .. n] : IsInjective(h)
  BY <1>4
<1>6. QED BY <1>1, <1>5 DEF Number, n

(* Fewer students of the ranking are below one of them than there are. *)
LEMMA BelowTotal ==
  ASSUME NEW scores \in [Fellows -> Nat], NEW order \in [Fellows -> Nat], NEW s \in Ranked(scores)
  PROVE  /\ Cardinality(Ranked(scores)) \in Nat
         /\ Below(scores, order, s) \in 0 .. Cardinality(Ranked(scores)) - 1
<1> DEFINE R == Ranked(scores)
           B == {t \in R : scores[t] < scores[s] \/ (scores[t] = scores[s] /\ order[t] < order[s])}
<1>1. R \subseteq Fellows
  BY DEF Ranked
<1>2. IsFiniteSet(R) /\ Cardinality(R) \in Nat
  BY <1>1, CounterAssumption, FS_Subset, FS_CardinalityType
<1>3. s \notin B
  BY <1>1
<1>4. B \subseteq R \ {s}
  BY <1>3
<1>5. IsFiniteSet(R \ {s}) /\ Cardinality(R \ {s}) = Cardinality(R) - 1
  BY <1>2, FS_RemoveElement
<1>6. Cardinality(B) <= Cardinality(R \ {s}) /\ Cardinality(B) \in Nat
  BY <1>4, <1>5, FS_Subset, FS_CardinalityType
<1>7. Below(scores, order, s) = Cardinality(B)
  BY DEF Below
<1>8. QED BY <1>2, <1>5, <1>6, <1>7

(* The three cuts split the places of a ranking of any length. *)
LEMMA CutsSplit ==
  ASSUME NEW total \in Nat, NEW i \in 0 .. total - 1
  PROVE  \E l \in Levels : \A k \in Levels : i \in Cut(total, k) <=> k = l
<1> DEFINE third == IF total < 3 THEN 0 ELSE total \div 3
<1>1. third \in Nat /\ third * 3 <= total
  OBVIOUS
<1>2. /\ Cut(total, "low") = 0 .. third - 1
      /\ Cut(total, "middle") = third .. (third * 2 - 1)
      /\ Cut(total, "high") = third * 2 .. total - 1
  BY DEF Cut
<1> HIDE DEF third
<1>3. CASE i < third
  BY <1>1, <1>2, <1>3 DEF Levels
<1>4. CASE third <= i /\ i < third * 2
  BY <1>1, <1>2, <1>4 DEF Levels
<1>5. CASE third * 2 <= i
  BY <1>1, <1>2, <1>5 DEF Levels
<1>6. QED BY <1>1, <1>3, <1>4, <1>5

(* Scores that are numbers split the ranking. *)
LEMMA LevelsOfScores == CounterTypeOK => LevelsPartition
<1>1. ASSUME CounterTypeOK, NEW s \in Ranked(ranked)
      PROVE  Cardinality({l \in Levels : s \in GetCounterLevels(ranked, Number, l)}) = 1
  <2> DEFINE total == Cardinality(Ranked(ranked))
             i == Below(ranked, Number, s)
             L == {l \in Levels : s \in GetCounterLevels(ranked, Number, l)}
  <2>1. ranked \in [Fellows -> Nat] /\ Number \in [Fellows -> Nat]
    BY <1>1, Numbered DEF CounterTypeOK
  <2>2. total \in Nat /\ i \in 0 .. total - 1
    BY <1>1, <2>1, BelowTotal
  <2>3. PICK l \in Levels : \A k \in Levels : i \in Cut(total, k) <=> k = l
    BY <2>2, CutsSplit
  <2>4. L = {l}
    BY <1>1, <2>3 DEF GetCounterLevels
  <2> HIDE DEF L
  <2>5. QED BY <2>4, FS_Singleton DEF L
<1>2. CounterTypeOK => LevelsPartition
  BY <1>1 DEF LevelsPartition
<1>3. QED BY <1>2

(* Every student in the ranking is of exactly one level, however many are   *)
(* ranked and whatever their scores: no refresh of the scheduler skips a    *)
(* student of the ranking between two levels, and none is of two.           *)
THEOREM LevelsSplit ==
  ASSUME RatesGiven
  PROVE  CounterSpec => []LevelsPartition
<1>1. NoDebt => CounterTypeOK
  BY DEF NoDebt
<1>2. QED BY <1>1, NobodyOwes, LevelsOfScores, PTL

-----------------------------------------------------------------------------
(* Daily activity.  A day is either whole, and then its keys say exactly    *)
(* who was registered, or it is frozen: something of it was lost, the       *)
(* counters no longer agree, and no script of the bff writes to it or       *)
(* certifies it any more.                                                   *)

Mark == [set : BOOLEAN, n : Nat]
Keys == [exists : BOOLEAN, members : SUBSET Students, pending : SUBSET Students,
         count : Mark, complete : Mark]

(* The window of a selection is over, and its days are read in turn. *)
Windowed ==
  /\ selection.pc # "idle" => selection.start + WindowDays <= today
  /\ selection.pc = "read" => selection.seen < WindowDays
  /\ selection.pc = "done" => selection.seen = WindowDays

(* The types of the variables, in full. *)
Shape ==
  /\ today \in Days /\ startedAt \in 0 .. NoDay
  /\ days \in [Days -> Keys]
  /\ \A d \in Days : days[d].members \cap days[d].pending = {}
  /\ recorded \in [Days -> SUBSET Students]
  /\ losses \in [Days -> Nat]
  /\ requests \in [Requests -> [student : SUBSET Students, day : Days]]
  /\ \A r \in Requests : requests[r].day <= today
  /\ heartbeats \in [Heartbeats -> [pc : {"idle", "open", "flush"}, now : Days, back : Nat]]
  /\ \A h \in Heartbeats : heartbeats[h].back <= heartbeats[h].now /\ heartbeats[h].now <= today
  /\ selection \in [pc : {"idle", "read", "done"}, start : Nat, seen : Nat,
                    reads : Seq(SUBSET Students)]
  /\ selection.seen = Len(selection.reads)
  /\ Windowed

-----------------------------------------------------------------------------
(* The scripts *)

(* Sets of students can be counted. *)
LEMMA Countable ==
  ASSUME NEW S \in SUBSET Students
  PROVE  IsFiniteSet(S) /\ Cardinality(S) \in Nat
BY ActivityAssumption, FS_Subset, FS_CardinalityType

(* Apart, two sets of students are counted apart. *)
LEMMA CountedApart ==
  ASSUME NEW S \in SUBSET Students, NEW T \in SUBSET Students, S \cap T = {}
  PROVE  Cardinality(S \cup T) = Cardinality(S) + Cardinality(T)
<1>1. IsFiniteSet(S) /\ IsFiniteSet(T) /\ Cardinality(S) \in Nat /\ Cardinality(T) \in Nat
  BY Countable
<1>2. Cardinality(S \cup T) = Cardinality(S) + Cardinality(T) - Cardinality(S \cap T)
  BY <1>1, FS_Union
<1>3. Cardinality(S \cap T) = 0
  BY FS_EmptySet
<1>4. QED BY <1>1, <1>2, <1>3

(* The keys of a day before anybody wrote to it. *)
LEMMA NoKeysTyped == NoKeys \in Keys /\ None \in Mark
<1>1. None \in Mark
  BY DEF None, Mark
<1>2. QED BY <1>1 DEF NoKeys, Keys

(* The fields of what recordScript writes. *)
LEMMA RecordFacts ==
  ASSUME NEW k \in Keys, NEW ss \in SUBSET Students
  PROVE  /\ WithRecord(k, ss) \in Keys
         /\ WithRecord(k, ss).exists
         /\ WithRecord(k, ss).members = k.members
         /\ WithRecord(k, ss).pending = k.pending \cup (ss \ (k.members \cup k.pending))
         /\ WithRecord(k, ss).complete = k.complete
         /\ WithRecord(k, ss).count.set
         /\ WithRecord(k, ss).count.n
              = k.count.n + Cardinality(ss \ (k.members \cup k.pending))
<1> DEFINE new == ss \ (k.members \cup k.pending)
<1>1. new \in SUBSET Students /\ Cardinality(new) \in Nat
  BY Countable
<1>2. k.count.n \in Nat /\ k.pending \cup new \in SUBSET Students
  BY <1>1 DEF Keys, Mark
<1>n. PICK m \in Nat : m = k.count.n + Cardinality(new)
  BY <1>1, <1>2
<1>3. PICK c \in Mark : c = [set |-> TRUE, n |-> m]
  BY DEF Mark
<1>4. PICK p \in SUBSET Students : p = k.pending \cup new
  BY <1>2
<1>5. WithRecord(k, ss) = [k EXCEPT !.exists = TRUE, !.pending = p, !.count = c]
  <2>1. WithRecord(k, ss)
          = [k EXCEPT !.exists = TRUE, !.pending = k.pending \cup new,
                      !.count = [set |-> TRUE, n |-> k.count.n + Cardinality(new)]]
    BY DEF WithRecord, Keys
  <2> HIDE DEF new
  <2>2. QED BY <1>n, <1>3, <1>4, <2>1
<1> HIDE DEF new
<1>6. /\ WithRecord(k, ss) \in Keys
      /\ WithRecord(k, ss).exists = TRUE /\ WithRecord(k, ss).members = k.members
      /\ WithRecord(k, ss).pending = p /\ WithRecord(k, ss).complete = k.complete
      /\ WithRecord(k, ss).count = c
  BY <1>5 DEF Keys
<1>7. QED BY <1>n, <1>3, <1>4, <1>6 DEF new

(* What flushScript may leave: the batch moved, and the day perhaps         *)
(* certified as it was counted.                                             *)
Flushes(k, l) ==
  \E batch \in SUBSET k.pending, c \in {k.complete, k.count} :
    /\ l = [k EXCEPT !.members = k.members \cup batch, !.pending = k.pending \ batch,
                     !.complete = c]
    /\ c = k.complete \/ k.pending \ batch = {}

(* Its fields. *)
LEMMA FlushFacts ==
  ASSUME NEW k \in Keys, NEW l, Flushes(k, l)
  PROVE  /\ l \in Keys
         /\ l.exists = k.exists /\ l.count = k.count
         /\ l.members \cup l.pending = k.members \cup k.pending
         /\ k.members \cap k.pending = {} => l.members \cap l.pending = {}
         /\ l.complete = k.complete \/ (l.complete = k.count /\ l.pending = {})
         /\ k.pending = {} => l.pending = {}
<1>1. PICK batch \in SUBSET k.pending, c \in {k.complete, k.count} :
        /\ l = [k EXCEPT !.members = k.members \cup batch, !.pending = k.pending \ batch,
                         !.complete = c]
        /\ c = k.complete \/ k.pending \ batch = {}
  BY DEF Flushes
<1>2. c \in Mark
  BY DEF Keys
<1>3. PICK m \in SUBSET Students : m = k.members \cup batch
  BY DEF Keys
<1>4. PICK p \in SUBSET Students : p = k.pending \ batch
  BY DEF Keys
<1>5. l = [k EXCEPT !.members = m, !.pending = p, !.complete = c]
  BY <1>1, <1>3, <1>4
<1>6. /\ l \in Keys /\ l.exists = k.exists /\ l.count = k.count
      /\ l.members = m /\ l.pending = p /\ l.complete = c
  BY <1>2, <1>5 DEF Keys
<1>7. m \cup p = k.members \cup k.pending /\ (k.members \cap k.pending = {} => m \cap p = {})
  BY <1>3, <1>4
<1>8. QED BY <1>1, <1>4, <1>6, <1>7

(* What Redis makes of the keys of a day when it loses one of them, or a    *)
(* member of one.                                                           *)
Damaged(k) ==
  {[k EXCEPT !.exists = FALSE, !.members = {}], [k EXCEPT !.pending = {}],
   [k EXCEPT !.count = None]}
    \cup {[k EXCEPT !.members = @ \ {s}] : s \in Students}
    \cup {[k EXCEPT !.pending = @ \ {s}] : s \in Students}

LEMMA LoseFacts ==
  ASSUME Shape, NEW d \in Days, LoseKey(d)
  PROVE  /\ losses[d] < MaxLosses
         /\ \E k \in Damaged(days[d]) : days[d] # k /\ days' = [days EXCEPT ![d] = k]
         /\ losses' = [losses EXCEPT ![d] = @ + 1]
         /\ UNCHANGED <<today, startedAt, recorded, requests, heartbeats, selection>>
BY DEF LoseKey, Lost, Damaged

(* The fields of a damaged day. *)
LEMMA DamageFacts ==
  ASSUME NEW k \in Keys, NEW l \in Damaged(k)
  PROVE  /\ l \in Keys /\ l.complete = k.complete
         /\ l.members \subseteq k.members /\ l.pending \subseteq k.pending
         /\ \/ ~l.exists /\ l.members = {} /\ l.pending = k.pending /\ l.count = k.count
            \/ l.exists = k.exists /\ l.members = k.members /\ l.pending = {} /\ l.count = k.count
            \/ l.exists = k.exists /\ l.members = k.members /\ l.pending = k.pending /\ l.count = None
            \/ \E s \in Students :
                 /\ l.exists = k.exists /\ l.count = k.count
                 /\ \/ l.members = k.members \ {s} /\ l.pending = k.pending
                    \/ l.members = k.members /\ l.pending = k.pending \ {s}
<1> USE DEF Keys
<1>1. CASE l = [k EXCEPT !.exists = FALSE, !.members = {}]
  BY <1>1
<1>2. CASE l = [k EXCEPT !.pending = {}]
  BY <1>2
<1>3. CASE l = [k EXCEPT !.count = None]
  BY <1>3, NoKeysTyped
<1>4. ASSUME NEW s \in Students, l = [k EXCEPT !.members = @ \ {s}]
      PROVE  /\ l \in Keys /\ l.exists = k.exists /\ l.count = k.count /\ l.complete = k.complete
             /\ l.members = k.members \ {s} /\ l.pending = k.pending
  BY <1>4
<1>5. ASSUME NEW s \in Students, l = [k EXCEPT !.pending = @ \ {s}]
      PROVE  /\ l \in Keys /\ l.exists = k.exists /\ l.count = k.count /\ l.complete = k.complete
             /\ l.members = k.members /\ l.pending = k.pending \ {s}
  BY <1>5
<1>6. QED BY <1>1, <1>2, <1>3, <1>4, <1>5 DEF Damaged

(* A lost certificate leaves the other keys of a day.                       *)
Uncertified(k) == [k EXCEPT !.complete = None]

LEMMA CertificateFacts ==
  ASSUME Shape, NEW d \in Days, LoseCertificate(d)
  PROVE  /\ losses[d] < MaxLosses
         /\ days[d] # Uncertified(days[d]) /\ days' = [days EXCEPT ![d] = Uncertified(days[d])]
         /\ losses' = [losses EXCEPT ![d] = @ + 1]
         /\ UNCHANGED <<today, startedAt, recorded, requests, heartbeats, selection>>
         /\ \A r \in Requests : requests[r] = NoAsk \/ requests[r].day > d
         /\ \A h \in Heartbeats : heartbeats[h].pc = "idle" \/ heartbeats[h].now > d
BY DEF LoseCertificate, Lost, Uncertified

LEMMA UncertifiedFacts ==
  ASSUME NEW k \in Keys
  PROVE  /\ Uncertified(k) \in Keys /\ Uncertified(k).complete = None
         /\ Uncertified(k).exists = k.exists /\ Uncertified(k).count = k.count
         /\ Uncertified(k).members = k.members /\ Uncertified(k).pending = k.pending
BY NoKeysTyped DEF Uncertified, Keys

-----------------------------------------------------------------------------
(* A day is whole when its keys tell the students R that were registered,   *)
(* and frozen when no script writes to it any more.                         *)

Whole(k, R) ==
  /\ k.members \cup k.pending = R
  /\ k.exists <=> k.count.set
  /\ k.count.set => k.count.n = Cardinality(R)
  /\ ~k.count.set => k.count.n = 0 /\ R = {} /\ ~k.complete.set
  /\ k.complete.set => k.pending = {} /\ k.complete.n = Cardinality(R)

Frozen(k, R) ==
  /\ ~Recordable(k)
  /\ ~Flushable(k)
  /\ Readable(k) => k.members = R

(* A whole day stays whole when a student is registered. *)
LEMMA WholeRecord ==
  ASSUME NEW k \in Keys, k.members \cap k.pending = {}, NEW R \in SUBSET Students, Whole(k, R),
         Recordable(k), NEW ss \in SUBSET Students
  PROVE  Whole(WithRecord(k, ss), R \cup ss)
<1> DEFINE new == ss \ (k.members \cup k.pending)
           l == WithRecord(k, ss)
<1>1. /\ l.exists /\ l.members = k.members /\ l.pending = k.pending \cup new
      /\ l.complete = k.complete /\ l.count.set /\ l.count.n = k.count.n + Cardinality(new)
  BY RecordFacts
<1>2. l.members \cup l.pending = R \cup ss
  BY <1>1 DEF Whole
<1>3. new \in SUBSET Students /\ R \cap new = {} /\ R \cup new = R \cup ss
  BY DEF Whole
<1>4. Cardinality(R \cup ss) = Cardinality(R) + Cardinality(new)
  BY <1>3, CountedApart
<1>5. k.count.n = Cardinality(R)
  <2>1. Cardinality({}) = 0
    BY FS_EmptySet
  <2>2. QED BY <2>1 DEF Whole
<1>6. ~k.complete.set
  BY DEF Recordable
<1> HIDE DEF l, new
<1>7. Whole(l, R \cup ss)
  BY <1>1, <1>2, <1>4, <1>5, <1>6 DEF Whole
<1>8. QED BY <1>7 DEF l

(* So it does when a batch is moved and the day perhaps certified. *)
LEMMA WholeFlush ==
  ASSUME NEW k \in Keys, NEW R \in SUBSET Students, Whole(k, R), Flushable(k),
         NEW l, Flushes(k, l)
  PROVE  Whole(l, R)
<1>1. /\ l.exists = k.exists /\ l.count = k.count
      /\ l.members \cup l.pending = k.members \cup k.pending
      /\ l.complete = k.complete \/ (l.complete = k.count /\ l.pending = {})
      /\ k.pending = {} => l.pending = {}
  BY FlushFacts
<1>2. k.count.set
  BY DEF Flushable
<1>3. l.complete.set => l.pending = {} /\ l.complete.n = Cardinality(R)
  BY <1>1, <1>2 DEF Whole
<1>4. QED BY <1>1, <1>2, <1>3 DEF Whole

(* What reads as complete of a whole day is all of it. *)
LEMMA WholeReads ==
  ASSUME NEW k \in Keys, NEW R, Whole(k, R), Readable(k)
  PROVE  k.members = R
BY DEF Whole, Readable

(* A whole day that loses its certificate is still whole. *)
LEMMA WholeUncertified ==
  ASSUME NEW k \in Keys, NEW R, Whole(k, R)
  PROVE  Whole(Uncertified(k), R)
BY UncertifiedFacts DEF Whole, None

(* The first loss of another key, or of a member, freezes it. *)
LEMMA WholeDamaged ==
  ASSUME NEW k \in Keys, k.members \cap k.pending = {}, NEW R \in SUBSET Students, Whole(k, R),
         NEW l \in Damaged(k), l # k
  PROVE  Frozen(l, R)
<1>k. /\ k.members \in SUBSET Students /\ k.pending \in SUBSET Students
      /\ k.count \in Mark /\ k.complete \in Mark /\ k.exists \in BOOLEAN
  BY DEF Keys
<1>l. l \in Keys /\ l.complete = k.complete
  BY DamageFacts
<1>c. /\ Cardinality(k.members) \in Nat /\ Cardinality(k.pending) \in Nat
      /\ Cardinality(l.members) \in Nat /\ Cardinality(l.pending) \in Nat
      /\ Cardinality(R) = Cardinality(k.members) + Cardinality(k.pending)
  <2>1. Cardinality(k.members \cup k.pending) = Cardinality(k.members) + Cardinality(k.pending)
    BY <1>k, CountedApart
  <2>2. l.members \in SUBSET Students /\ l.pending \in SUBSET Students
    BY <1>l DEF Keys
  <2>3. QED BY <1>k, <2>1, <2>2, Countable DEF Whole
<1>e. Cardinality({}) = 0
  BY FS_EmptySet
(* A day nobody has written to has nothing to lose. *)
<1>s. k.count.set
  <2>1. SUFFICES ASSUME ~k.count.set PROVE l = k
    OBVIOUS
  <2>2. /\ k.members = {} /\ k.pending = {} /\ k.exists = FALSE /\ k.count = None
    BY <1>k, <2>1 DEF Whole, Mark, None
  <2>3. l.exists = k.exists /\ l.members = k.members /\ l.pending = k.pending /\ l.count = k.count
    BY <1>l, <2>2, DamageFacts DEF Keys
  <2>4. QED BY <1>l, <2>3 DEF Keys
<1>x. k.exists /\ k.count.n = Cardinality(R)
  BY <1>s DEF Whole
<1>1. CASE ~l.exists /\ l.members = {} /\ l.pending = k.pending /\ l.count = k.count
  BY <1>1, <1>s DEF Frozen, Recordable, Flushable, Intact, Readable
<1>2. CASE l.exists = k.exists /\ l.members = k.members /\ l.pending = k.pending /\ l.count = None
  <2>1. ~l.count.set /\ l.exists
    BY <1>2, <1>x DEF None
  <2>2. Readable(l) => k.members = R
    <3>1. Readable(l) => Readable(k)
      BY <1>2, <1>l DEF Readable
    <3>2. QED BY <3>1, WholeReads
  <2>3. QED BY <1>2, <2>1, <2>2 DEF Frozen, Recordable, Flushable, Fresh
(* In the other cases the counts no longer agree. *)
<1>3. ASSUME l.count = k.count, Cardinality(l.members) + Cardinality(l.pending) < Cardinality(R),
             k.complete.set => Cardinality(l.members) < Cardinality(R)
      PROVE  Frozen(l, R)
  <2>1. ~Intact(l)
    BY <1>3, <1>x, <1>c DEF Intact
  <2>2. ~Readable(l)
    <3>1. k.complete.set => k.complete.n = Cardinality(R)
      BY DEF Whole
    <3>2. QED BY <1>3, <1>l, <1>c, <3>1 DEF Readable
  <2>3. QED BY <1>3, <1>s, <2>1, <2>2 DEF Frozen, Recordable, Flushable
<1>4. CASE l.members = k.members /\ l.pending = {} /\ l.count = k.count /\ l.exists = k.exists
  <2>1. k.pending # {}
    BY <1>4, <1>l DEF Keys
  <2>2. Cardinality(k.pending) # 0
    BY <1>k, <2>1, Countable, FS_EmptySet
  <2>3. ~k.complete.set
    BY <2>1 DEF Whole
  <2>4. QED BY <1>3, <1>4, <1>c, <1>e, <2>2, <2>3
<1>5. ASSUME NEW s \in Students, l.exists = k.exists, l.count = k.count,
             l.members = k.members \ {s}, l.pending = k.pending
      PROVE  Frozen(l, R)
  <2>1. s \in k.members
    BY <1>5, <1>l DEF Keys
  <2>2. Cardinality(l.members) = Cardinality(k.members) - 1
    BY <1>5, <1>k, <2>1, Countable, FS_RemoveElement
  <2>3. k.complete.set => Cardinality(k.pending) = 0
    BY <1>e DEF Whole
  <2>4. QED BY <1>3, <1>5, <1>c, <2>2, <2>3
<1>6. ASSUME NEW s \in Students, l.exists = k.exists, l.count = k.count,
             l.members = k.members, l.pending = k.pending \ {s}
      PROVE  Frozen(l, R)
  <2>1. s \in k.pending
    BY <1>6, <1>l DEF Keys
  <2>2. Cardinality(l.pending) = Cardinality(k.pending) - 1
    BY <1>6, <1>k, <2>1, Countable, FS_RemoveElement
  <2>3. ~k.complete.set
    BY <2>1 DEF Whole
  <2>4. QED BY <1>3, <1>6, <1>c, <2>2, <2>3
<1>7. QED BY <1>1, <1>2, <1>4, <1>5, <1>6, DamageFacts

-----------------------------------------------------------------------------
(* What a step may do to the keys, and who writes *)

(* A request or a heartbeat that is about to register somebody for day d. *)
Writing(d) ==
  \/ \E r \in Requests : requests[r] # NoAsk /\ requests[r].day = d
  \/ \E h \in Heartbeats : heartbeats[h].pc = "open" /\ heartbeats[h].now = d

Records(d, ss) ==
  /\ Writing(d) /\ Recordable(days[d]) /\ Recorded(d, ss)
  /\ UNCHANGED <<today, losses, selection>>

FlushesDay(d) ==
  /\ Flushable(days[d]) /\ Flushes(days[d], days'[d])
  /\ days' = [days EXCEPT ![d] = days'[d]]
  /\ UNCHANGED <<today, startedAt, recorded, losses, selection>>

KeyMoves ==
  \/ UNCHANGED <<startedAt, days, recorded, losses>>
  \/ \E d \in Days, ss \in SUBSET Students : Records(d, ss)
  \/ \E d \in Days : FlushesDay(d)
  \/ \E d \in Days : LoseKey(d)
  \/ \E d \in Days : LoseCertificate(d)
  \/ LoseAll

(* Whoever comes to write, writes to today. *)
WriterMoves ==
  /\ \A r \in Requests :
       requests'[r] \in {NoAsk, requests[r]} \/ requests'[r].day = today
  /\ \A h \in Heartbeats :
       heartbeats'[h].pc # "open" \/ heartbeats'[h] = heartbeats[h] \/ heartbeats'[h].now = today
  /\ today' = today \/ today' = today + 1

(* The parts of the types. *)
BeatsTyped ==
  /\ heartbeats \in [Heartbeats -> [pc : {"idle", "open", "flush"}, now : Days, back : Nat]]
  /\ \A h \in Heartbeats : heartbeats[h].back <= heartbeats[h].now /\ heartbeats[h].now <= today

AsksTyped ==
  /\ requests \in [Requests -> [student : SUBSET Students, day : Days]]
  /\ \A r \in Requests : requests[r].day <= today

KeysTyped ==
  /\ startedAt \in 0 .. NoDay
  /\ days \in [Days -> Keys]
  /\ \A d \in Days : days[d].members \cap days[d].pending = {}
  /\ recorded \in [Days -> SUBSET Students]
  /\ losses \in [Days -> Nat]

SelectionTyped ==
  /\ selection \in [pc : {"idle", "read", "done"}, start : Nat, seen : Nat,
                    reads : Seq(SUBSET Students)]
  /\ selection.seen = Len(selection.reads)
  /\ Windowed

LEMMA ShapeParts ==
  Shape <=> today \in Days /\ BeatsTyped /\ AsksTyped /\ KeysTyped /\ SelectionTyped
BY DEF Shape, BeatsTyped, AsksTyped, KeysTyped, SelectionTyped

LEMMA DaysFacts == MaxDay \in Nat /\ Days \subseteq Nat /\ NoDay \in Nat /\ NoDay \notin Days
BY ActivityAssumption DEF Days, NoDay

(* The middleware. *)
LEMMA AskMoves ==
  ASSUME Shape, NEW r \in Requests, Admit(r) \/ Refuse(r) \/ \E s \in Students : AskIn(r, s)
  PROVE  WriterMoves /\ AsksTyped' /\ KeyMoves /\ UNCHANGED <<today, heartbeats, selection>>
<1>d. today \in Days /\ today \in Nat /\ 0 \in Days
  BY DaysFacts, ActivityAssumption DEF Shape, Days
<1>q. requests \in [Requests -> [student : SUBSET Students, day : Days]]
  BY DEF Shape
<1>n. NoAsk \in [student : SUBSET Students, day : Days] /\ NoAsk.day = 0
  BY <1>d DEF NoAsk
<1>1. ASSUME NEW a \in [student : SUBSET Students, day : Days], requests' = [requests EXCEPT ![r] = a],
             a = NoAsk \/ a.day = today, UNCHANGED <<today, heartbeats, selection>>
      PROVE  WriterMoves /\ AsksTyped'
  <2>1. requests'[r] = a /\ \A q \in Requests \ {r} : requests'[q] = requests[q]
    BY <1>1, <1>q
  <2>2. WriterMoves
    BY <1>1, <2>1 DEF WriterMoves
  <2>3. \A q \in Requests : requests'[q].day <= today
    BY <1>1, <1>d, <1>n, <2>1 DEF Shape
  <2>4. QED BY <1>1, <1>q, <2>2, <2>3 DEF AsksTyped
<1>2. ASSUME NEW s \in Students, AskIn(r, s)
      PROVE  WriterMoves /\ AsksTyped' /\ KeyMoves /\ UNCHANGED <<today, heartbeats, selection>>
  <2>1. [student |-> {s}, day |-> today] \in [student : SUBSET Students, day : Days]
    BY <1>d
  <2>2. UNCHANGED <<startedAt, days, recorded, losses>> /\ UNCHANGED <<today, heartbeats, selection>>
    BY <1>2 DEF AskIn
  <2>3. QED BY <1>1, <1>2, <2>1, <2>2 DEF AskIn, KeyMoves
<1>3. CASE Refuse(r)
  <2>1. UNCHANGED <<startedAt, days, recorded, losses>> /\ UNCHANGED <<today, heartbeats, selection>>
    BY <1>3 DEF Refuse
  <2>2. QED BY <1>1, <1>3, <1>n, <2>1 DEF Refuse, KeyMoves
<1>4. CASE Admit(r)
  <2>1. requests[r].day \in Days /\ requests[r].student \in SUBSET Students /\ requests[r] # NoAsk
    BY <1>4, <1>q DEF Admit
  <2>2. UNCHANGED <<today, heartbeats, selection>> /\ UNCHANGED losses
    BY <1>4 DEF Admit
  <2>3. Records(requests[r].day, requests[r].student)
    BY <1>4, <2>1, <2>2 DEF Admit, Records, Writing
  <2>4. KeyMoves
    BY <2>1, <2>3 DEF KeyMoves
  <2>5. QED BY <1>1, <1>4, <1>n, <2>2, <2>4 DEF Admit
<1>5. QED BY <1>2, <1>3, <1>4

(* The next day back, or the end of the heartbeat. *)
LEMMA EarlierFacts ==
  ASSUME NEW b \in [pc : {"idle", "open", "flush"}, now : Days, back : Nat], b.back <= b.now
  PROVE  \/ Earlier(b) = NoBeat
         \/ /\ Earlier(b) \in [pc : {"idle", "open", "flush"}, now : Days, back : Nat]
            /\ Earlier(b).pc = b.pc /\ Earlier(b).now = b.now
            /\ Earlier(b).back <= b.now
<1>1. b.back \in Nat /\ b.now \in Nat
  BY DaysFacts
<1>2. PICK n \in Nat : n = b.back + 1
  BY <1>1
<1>3. Earlier(b) = NoBeat \/ (Earlier(b) = [b EXCEPT !.back = n] /\ b.back < b.now)
  BY <1>2 DEF Earlier
<1>4. QED BY <1>1, <1>2, <1>3

(* EnsureDay. *)
LEMMA BeatMoves ==
  ASSUME Shape, NEW h \in Heartbeats, BeatStep(h) \/ BeatEnds(h)
  PROVE  WriterMoves /\ BeatsTyped' /\ KeyMoves /\ UNCHANGED <<today, requests, selection>>
<1> DEFINE Beat == [pc : {"idle", "open", "flush"}, now : Days, back : Nat]
           b == heartbeats[h]
<1>d. today \in Days /\ today \in Nat /\ 0 \in Days
  BY DaysFacts, ActivityAssumption DEF Shape, Days
<1>b. heartbeats \in [Heartbeats -> Beat] /\ b \in Beat /\ b.back <= b.now /\ b.now <= today
  BY DEF Shape
<1>n. NoBeat \in Beat /\ NoBeat.pc = "idle" /\ NoBeat.now = 0 /\ NoBeat.back = 0
  BY <1>d DEF NoBeat
<1>1. ASSUME NEW a \in Beat, BeatGoes(h, a), a.pc # "open" \/ a.now = today,
             a.back <= a.now, a.now <= today, UNCHANGED <<today, requests, selection>>
      PROVE  WriterMoves /\ BeatsTyped'
  <2>1. heartbeats'[h] = a /\ \A i \in Heartbeats \ {h} : heartbeats'[i] = heartbeats[i]
    BY <1>1, <1>b DEF BeatGoes
  <2>2. WriterMoves
    BY <1>1, <2>1 DEF WriterMoves
  <2>3. \A i \in Heartbeats : heartbeats'[i].back <= heartbeats'[i].now /\ heartbeats'[i].now <= today
    BY <1>1, <2>1 DEF Shape
  <2>4. heartbeats' \in [Heartbeats -> Beat]
    BY <1>1, <1>b DEF BeatGoes
  <2>5. QED BY <1>1, <2>2, <2>3, <2>4 DEF BeatsTyped
<1>2. CASE StartBeat(h)
  <2>1. [pc |-> "open", now |-> today, back |-> 0] \in Beat
    BY <1>d
  <2>2. UNCHANGED <<startedAt, days, recorded, losses>> /\ UNCHANGED <<today, requests, selection>>
    BY <1>2 DEF StartBeat
  <2>3. WriterMoves /\ BeatsTyped'
    BY <1>1, <1>2, <1>d, <2>1, <2>2 DEF StartBeat
  <2>4. QED BY <2>2, <2>3 DEF KeyMoves
<1>3. CASE OpenFails(h) \/ BeatEnds(h)
  <2>1. UNCHANGED <<startedAt, days, recorded, losses>> /\ UNCHANGED <<today, requests, selection>>
    BY <1>3 DEF OpenFails, BeatEnds
  <2>2. BeatGoes(h, NoBeat)
    BY <1>3 DEF OpenFails, BeatEnds
  <2>3. WriterMoves /\ BeatsTyped'
    BY <1>1, <1>d, <1>n, <2>1, <2>2
  <2>4. QED BY <2>1, <2>3 DEF KeyMoves
<1>4. CASE OpenDay(h)
  <2>1. UNCHANGED <<today, requests, selection>> /\ UNCHANGED losses
    BY <1>4 DEF OpenDay
  <2>2. PICK a \in Beat : a = [b EXCEPT !.pc = "flush"]
    BY <1>b
  <2>3. a.pc = "flush" /\ a.now = b.now /\ a.back = b.back
    BY <1>b, <2>2
  <2>4. BeatGoes(h, a)
    BY <1>4, <2>2 DEF OpenDay
  <2>5. WriterMoves /\ BeatsTyped'
    BY <1>1, <1>b, <2>1, <2>3, <2>4
  <2>6. b.now \in Days /\ Records(b.now, {})
    BY <1>4, <1>b, <2>1 DEF OpenDay, Records, Writing
  <2>7. KeyMoves
    BY <2>6 DEF KeyMoves
  <2>8. QED BY <2>1, <2>5, <2>7
<1>5. CASE FlushDay(h)
  <2> DEFINE d == b.now - b.back
  <2>1. UNCHANGED <<today, requests, selection>> /\ UNCHANGED <<startedAt, recorded, losses>>
    BY <1>5 DEF FlushDay
  <2>2. d \in Days
    <3>1. b.now \in 0 .. MaxDay /\ b.back \in Nat /\ MaxDay \in Nat
      BY <1>b, DaysFacts DEF Days
    <3> HIDE DEF b
    <3>2. QED BY <1>b, <3>1 DEF Days
  <2>3. b.pc = "flush"
    BY <1>5 DEF FlushDay
  <2>e. Earlier(b) \in Beat /\ Earlier(b).pc # "open" /\ Earlier(b).back <= Earlier(b).now
          /\ Earlier(b).now <= today
    <3>1. CASE Earlier(b) = NoBeat
      BY <1>d, <1>n, <3>1
    <3>2. CASE Earlier(b) # NoBeat
      BY <1>b, <2>3, <3>2, EarlierFacts
    <3>3. QED BY <3>1, <3>2
  <2>4. WriterMoves /\ BeatsTyped'
    <3>1. BeatGoes(h, b) \/ BeatGoes(h, Earlier(b))
      BY <1>5 DEF FlushDay
    <3>2. QED BY <1>1, <1>b, <2>1, <2>3, <2>e, <3>1
  <2>5. KeyMoves
    <3>1. CASE UNCHANGED days
      BY <2>1, <3>1 DEF KeyMoves
    <3>2. ASSUME Flushable(days[d]), NEW batch \in Batches(days[d]),
                 days' = [days EXCEPT ![d] = FlushedBy(@, batch, b.back > 0)]
          PROVE  KeyMoves
      <4>1. batch \in SUBSET days[d].pending
        BY <3>2 DEF Batches
      <4>2. days \in [Days -> Keys]
        BY DEF Shape
      <4>3. days'[d] = FlushedBy(days[d], batch, b.back > 0) /\ days' = [days EXCEPT ![d] = days'[d]]
        BY <2>2, <3>2, <4>2
      <4>4. \E c \in {days[d].complete, days[d].count} :
              /\ days'[d] = [days[d] EXCEPT !.members = days[d].members \cup batch,
                                            !.pending = days[d].pending \ batch, !.complete = c]
              /\ c = days[d].complete \/ days[d].pending \ batch = {}
        BY <4>3, Zenon DEF FlushedBy
      <4>5. Flushes(days[d], days'[d])
        BY <4>1, <4>4, Zenon DEF Flushes
      <4>6. FlushesDay(d)
        BY <2>1, <3>2, <4>3, <4>5 DEF FlushesDay
      <4>7. QED BY <2>2, <4>6 DEF KeyMoves
    <3>3. QED BY <1>5, <3>1, <3>2 DEF FlushDay
  <2>6. QED BY <2>1, <2>4, <2>5
<1>6. QED BY <1>2, <1>3, <1>4, <1>5 DEF BeatStep

(* The selection of the white list. *)
LEMMA SelectionMoves ==
  ASSUME Shape, StartSelection \/ SelectDay
  PROVE  SelectionTyped' /\ WriterMoves
           /\ UNCHANGED <<today, startedAt, days, recorded, losses, requests, heartbeats>>
<1> DEFINE Chosen == [pc : {"idle", "read", "done"}, start : Nat, seen : Nat,
                      reads : Seq(SUBSET Students)]
<1>u. UNCHANGED <<today, startedAt, days, recorded, losses, requests, heartbeats>>
  BY DEF StartSelection, SelectDay
<1>w. WriterMoves
  BY <1>u DEF WriterMoves
<1>d. today \in Nat /\ today <= MaxDay /\ WindowDays \in Nat \ {0} /\ MaxDay \in Nat
  BY DaysFacts, ActivityAssumption DEF Shape, Days
<1>1. CASE StartSelection
  <2>1. PICK n \in Nat : n = today - WindowDays
    BY <1>1, <1>d DEF StartSelection
  <2>2. selection' = [pc |-> "read", start |-> n, seen |-> 0, reads |-> <<>>]
    BY <1>1, <2>1 DEF StartSelection
  <2>3. selection' \in Chosen /\ selection'.seen = 0 /\ Len(selection'.reads) = 0
          /\ selection'.pc = "read" /\ selection'.start = n
    BY <2>2
  <2>4. QED BY <1>d, <1>u, <1>w, <2>1, <2>3 DEF SelectionTyped, Windowed
<1>2. CASE SelectDay
  <2>t. /\ selection \in Chosen /\ selection.seen \in Nat /\ selection.start \in Nat
        /\ selection.reads \in Seq(SUBSET Students) /\ selection.seen = Len(selection.reads)
        /\ selection.pc = "read" /\ selection.seen < WindowDays
        /\ selection.start + WindowDays <= today
    BY <1>2 DEF Shape, Windowed, SelectDay
  <2>1. CASE selection' = NoSelection
    <3>1. selection' \in Chosen /\ selection'.seen = 0 /\ Len(selection'.reads) = 0
            /\ selection'.pc = "idle"
      BY <2>1 DEF NoSelection
    <3>2. QED BY <1>u, <1>w, <3>1 DEF SelectionTyped, Windowed
  <2>2. CASE selection' # NoSelection
    <3>d. PICK d \in Days : d = selection.start + selection.seen
      BY <1>d, <2>t DEF Days
    <3>1. PICK m \in SUBSET Students : m = days[d].members
      BY <3>d DEF Shape, Keys
    <3>2. PICK n \in Nat : n = selection.seen + 1
      BY <2>t
    <3>3. PICK p \in {"done", "read"} :
            /\ selection' = [selection EXCEPT !.seen = n, !.reads = Append(selection.reads, m),
                                              !.pc = p]
            /\ p = "done" <=> n = WindowDays
      BY <1>2, <2>t, <2>2, <3>d, <3>1, <3>2 DEF SelectDay
    <3>4. PICK rs \in Seq(SUBSET Students) : rs = Append(selection.reads, m)
      <4>1. Append(selection.reads, m) \in Seq(SUBSET Students)
        BY <2>t, <3>1
      <4>2. QED BY <4>1
    <3>5. Len(rs) = n
      BY <2>t, <3>1, <3>2, <3>4
    <3>6. selection' = [selection EXCEPT !.seen = n, !.reads = rs, !.pc = p]
      BY <3>3, <3>4
    <3>7. /\ selection' \in Chosen /\ selection'.seen = n /\ selection'.reads = rs
          /\ selection'.pc = p /\ selection'.start = selection.start
      BY <2>t, <3>6
    <3>8. n <= WindowDays
      BY <1>d, <2>t, <3>2
    <3>9. Windowed'
      BY <1>d, <1>u, <2>t, <3>3, <3>7, <3>8 DEF Windowed
    <3>10. QED BY <1>u, <1>w, <3>5, <3>7, <3>9 DEF SelectionTyped
  <2>3. QED BY <2>1, <2>2
<1>3. QED BY <1>1, <1>2

(* The same of the state after a step. *)
LEMMA ShapeAfter ==
  (today \in Days)' /\ BeatsTyped' /\ AsksTyped' /\ KeysTyped' /\ SelectionTyped' => Shape'
BY DEF Shape, BeatsTyped, AsksTyped, KeysTyped, SelectionTyped

(* A move of the keys keeps their types. *)
LEMMA KeyMovesTyped ==
  ASSUME Shape, KeyMoves
  PROVE  KeysTyped'
<1>t. /\ startedAt \in 0 .. NoDay /\ days \in [Days -> Keys]
      /\ \A d \in Days : days[d].members \cap days[d].pending = {}
      /\ recorded \in [Days -> SUBSET Students] /\ losses \in [Days -> Nat]
  BY DEF Shape
<1>d. \A d \in Days : d \in 0 .. NoDay
  BY DaysFacts DEF Days, NoDay
<1>n. NoDay \in 0 .. NoDay
  BY DaysFacts
<1>1. CASE UNCHANGED <<startedAt, days, recorded, losses>>
  BY <1>1, <1>t DEF KeysTyped
<1>2. ASSUME NEW d \in Days, NEW ss \in SUBSET Students, Records(d, ss)
      PROVE  KeysTyped'
  <2> DEFINE l == WithRecord(days[d], ss)
  <2>k. days[d] \in Keys /\ days[d].members \cap days[d].pending = {}
    BY <1>t
  <2>1. l \in Keys /\ l.members = days[d].members
          /\ l.pending = days[d].pending \cup (ss \ (days[d].members \cup days[d].pending))
    BY <2>k, RecordFacts
  <2>2. l.members \cap l.pending = {}
    BY <2>k, <2>1
  <2>3. days' = [days EXCEPT ![d] = l] /\ startedAt' \in {startedAt, d}
          /\ recorded' = [recorded EXCEPT ![d] = recorded[d] \cup ss] /\ losses' = losses
    BY <1>2 DEF Records, Recorded
  <2> HIDE DEF l
  <2>4. QED BY <1>t, <1>d, <2>1, <2>2, <2>3 DEF KeysTyped
<1>3. ASSUME NEW d \in Days, FlushesDay(d)
      PROVE  KeysTyped'
  <2>1. days[d] \in Keys /\ days[d].members \cap days[d].pending = {}
    BY <1>t
  <2>2. PICK l : l = days'[d]
    OBVIOUS
  <2>3. l \in Keys /\ l.members \cap l.pending = {}
    BY <1>3, <2>1, <2>2, FlushFacts DEF FlushesDay
  <2>d. days' = [days EXCEPT ![d] = l]
    BY <1>3, <1>t, <2>2 DEF FlushesDay
  <2>4. QED BY <1>3, <1>t, <2>d, <2>3 DEF FlushesDay, KeysTyped
<1>4. ASSUME NEW d \in Days, LoseKey(d)
      PROVE  KeysTyped'
  <2>1. days[d] \in Keys /\ days[d].members \cap days[d].pending = {}
    BY <1>t
  <2>2. PICK l \in Damaged(days[d]) : days' = [days EXCEPT ![d] = l]
    BY <1>4, LoseFacts
  <2>3. l \in Keys /\ l.members \cap l.pending = {}
    BY <2>1, DamageFacts
  <2>4. losses' = [losses EXCEPT ![d] = @ + 1] /\ UNCHANGED <<startedAt, recorded>>
    BY <1>4, LoseFacts
  <2>5. losses' \in [Days -> Nat]
    BY <1>t, <2>4
  <2>6. QED BY <1>t, <2>2, <2>3, <2>4, <2>5 DEF KeysTyped
<1>c. ASSUME NEW d \in Days, LoseCertificate(d)
      PROVE  KeysTyped'
  <2>1. days[d] \in Keys /\ days[d].members \cap days[d].pending = {}
    BY <1>t
  <2>2. PICK l : l = Uncertified(days[d])
    OBVIOUS
  <2>3. l \in Keys /\ l.members \cap l.pending = {}
    BY <2>1, <2>2, UncertifiedFacts
  <2>4. /\ days' = [days EXCEPT ![d] = l] /\ losses' = [losses EXCEPT ![d] = @ + 1]
        /\ UNCHANGED <<startedAt, recorded>>
    BY <1>c, <2>2, CertificateFacts
  <2>5. losses' \in [Days -> Nat]
    BY <1>t, <2>4
  <2>6. QED BY <1>t, <2>3, <2>4, <2>5 DEF KeysTyped
<1>5. CASE LoseAll
  <2>1. losses' \in [Days -> Nat] /\ startedAt' = NoDay /\ days' = [d \in Days |-> NoKeys]
          /\ recorded' = recorded
    BY <1>5, <1>t DEF LoseAll
  <2>2. NoKeys.members \cap NoKeys.pending = {}
    BY DEF NoKeys
  <2>3. QED BY <1>t, <1>n, <2>1, <2>2, NoKeysTyped DEF KeysTyped
<1>6. QED BY <1>1, <1>2, <1>3, <1>4, <1>c, <1>5 DEF KeyMoves

(* Every step moves the keys and the writers in one of these ways. *)
LEMMA Moves ==
  ASSUME Shape, ActivityNext
  PROVE  Shape' /\ KeyMoves /\ WriterMoves /\ today <= today'
<1>d. today \in Days /\ today \in Nat
  BY DaysFacts DEF Shape
<1>1. ASSUME NEW r \in Requests, Admit(r) \/ Refuse(r) \/ \E s \in Students : AskIn(r, s)
      PROVE  Shape' /\ KeyMoves /\ WriterMoves /\ today <= today'
  <2>1. WriterMoves /\ AsksTyped' /\ KeyMoves /\ UNCHANGED <<today, heartbeats, selection>>
    BY <1>1, AskMoves
  <2>2. KeysTyped'
    BY <2>1, KeyMovesTyped
  <2>3. BeatsTyped' /\ SelectionTyped'
    BY <2>1, ShapeParts DEF BeatsTyped, SelectionTyped, Windowed
  <2>4. QED BY <1>d, <2>1, <2>2, <2>3, ShapeAfter
<1>2. ASSUME NEW h \in Heartbeats, BeatStep(h) \/ BeatEnds(h)
      PROVE  Shape' /\ KeyMoves /\ WriterMoves /\ today <= today'
  <2>1. WriterMoves /\ BeatsTyped' /\ KeyMoves /\ UNCHANGED <<today, requests, selection>>
    BY <1>2, BeatMoves
  <2>2. KeysTyped'
    BY <2>1, KeyMovesTyped
  <2>3. AsksTyped' /\ SelectionTyped'
    BY <2>1, ShapeParts DEF AsksTyped, SelectionTyped, Windowed
  <2>4. QED BY <1>d, <2>1, <2>2, <2>3, ShapeAfter
<1>3. CASE StartSelection \/ SelectDay
  <2>1. SelectionTyped' /\ WriterMoves
          /\ UNCHANGED <<today, startedAt, days, recorded, losses, requests, heartbeats>>
    BY <1>3, SelectionMoves
  <2>2. KeyMoves
    BY <2>1 DEF KeyMoves
  <2>3. KeysTyped'
    BY <2>2, KeyMovesTyped
  <2>4. AsksTyped' /\ BeatsTyped'
    BY <2>1, ShapeParts DEF AsksTyped, BeatsTyped
  <2>5. QED BY <1>d, <2>1, <2>2, <2>3, <2>4, ShapeAfter
<1>4. CASE Midnight
  <2>1. today' = today + 1 /\ today' \in Days
          /\ UNCHANGED <<startedAt, days, recorded, losses, requests, heartbeats, selection>>
    BY <1>4, <1>d, DaysFacts DEF Midnight, Days
  <2>2. KeyMoves /\ WriterMoves
    BY <2>1 DEF KeyMoves, WriterMoves
  <2>3. KeysTyped'
    BY <2>2, KeyMovesTyped
  <2>4. AsksTyped'
    <3>1. \A r \in Requests : requests[r].day \in Nat /\ requests[r].day <= today
      BY DaysFacts DEF Shape
    <3>2. \A r \in Requests : requests[r].day <= today + 1
      BY <1>d, <3>1
    <3>3. QED BY <2>1, <3>2, ShapeParts DEF AsksTyped
  <2>5. BeatsTyped'
    <3>1. \A h \in Heartbeats : heartbeats[h].now \in Nat /\ heartbeats[h].now <= today
      BY DaysFacts DEF Shape
    <3>2. \A h \in Heartbeats : heartbeats[h].now <= today + 1
      BY <1>d, <3>1
    <3>3. QED BY <2>1, <3>2, ShapeParts DEF BeatsTyped
  <2>6. SelectionTyped'
    BY <1>d, <2>1, ActivityAssumption, ShapeParts DEF SelectionTyped, Windowed
  <2>7. QED BY <1>d, <2>1, <2>2, <2>3, <2>4, <2>5, <2>6, ShapeAfter
<1>5. CASE LoseAll
  <2>1. UNCHANGED <<today, recorded, requests, heartbeats, selection>>
    BY <1>5 DEF LoseAll
  <2>2. KeyMoves /\ WriterMoves
    BY <1>5, <2>1 DEF KeyMoves, WriterMoves
  <2>3. KeysTyped'
    BY <2>2, KeyMovesTyped
  <2>4. AsksTyped' /\ BeatsTyped' /\ SelectionTyped'
    BY <2>1, ShapeParts DEF AsksTyped, BeatsTyped, SelectionTyped, Windowed
  <2>5. QED BY <1>d, <2>1, <2>2, <2>3, <2>4, ShapeAfter
<1>6. ASSUME NEW d \in Days, LoseKey(d) \/ LoseCertificate(d)
      PROVE  Shape' /\ KeyMoves /\ WriterMoves /\ today <= today'
  <2>1. UNCHANGED <<today, startedAt, recorded, requests, heartbeats, selection>>
    BY <1>6, LoseFacts, CertificateFacts
  <2>2. KeyMoves /\ WriterMoves
    BY <1>6, <2>1 DEF KeyMoves, WriterMoves
  <2>3. KeysTyped'
    BY <2>2, KeyMovesTyped
  <2>4. AsksTyped' /\ BeatsTyped' /\ SelectionTyped'
    BY <2>1, ShapeParts DEF AsksTyped, BeatsTyped, SelectionTyped, Windowed
  <2>5. QED BY <1>d, <2>1, <2>2, <2>3, <2>4, ShapeAfter
<1>7. QED BY <1>1, <1>2, <1>3, <1>4, <1>5, <1>6 DEF ActivityNext

(* The types hold from the start. *)
LEMMA ShapeInit == ActivityInit => Shape
<1> SUFFICES ASSUME ActivityInit PROVE Shape
  OBVIOUS
<1>1. 0 \in Days /\ NoDay \in 0 .. NoDay
  BY DaysFacts DEF Days
<1>2. NoKeys.members \cap NoKeys.pending = {}
  BY DEF NoKeys
<1>3. NoAsk \in [student : SUBSET Students, day : Days] /\ NoAsk.day = 0
  BY <1>1 DEF NoAsk
<1>4. /\ NoBeat \in [pc : {"idle", "open", "flush"}, now : Days, back : Nat]
      /\ NoBeat.back = 0 /\ NoBeat.now = 0
  BY <1>1 DEF NoBeat
<1>5. /\ NoSelection \in [pc : {"idle", "read", "done"}, start : Nat, seen : Nat,
                          reads : Seq(SUBSET Students)]
      /\ NoSelection.seen = 0 /\ Len(NoSelection.reads) = 0 /\ NoSelection.pc = "idle"
  BY DEF NoSelection
<1>6. Windowed
  BY <1>5 DEF ActivityInit, Windowed
<1>7. QED BY <1>1, <1>2, <1>3, <1>4, <1>5, <1>6, NoKeysTyped DEF ActivityInit, Shape

LEMMA ShapeStutters == ASSUME Shape, UNCHANGED activityVars PROVE Shape'
BY DEF Shape, Windowed, activityVars

LEMMA ShapeHolds == ActivitySpec => []Shape
<1>1. Shape /\ [ActivityNext]_activityVars => Shape'
  BY Moves, ShapeStutters
<1>2. QED BY <1>1, ShapeInit, PTL DEF ActivitySpec

(* The keys of every day have their types, a student is in one set of a day *)
(* only, no handler carries a day that has not begun, and a selection has   *)
(* read as many days as it has seen, whatever Redis loses.                  *)
LEMMA ShapeIsTyped == ASSUME Shape PROVE ActivityTypeOK
<1>1. today \in Days /\ startedAt \in 0 .. NoDay
  BY DEF Shape
<1>2. ASSUME NEW d \in Days
      PROVE  LET k == days[d]
             IN /\ k.exists \in BOOLEAN
                /\ k.members \subseteq Students /\ k.pending \subseteq Students
                /\ k.members \cap k.pending = {}
                /\ k.count.n \in Nat /\ k.complete.n \in Nat
  <2>1. days[d] \in Keys /\ days[d].members \cap days[d].pending = {}
    BY DEF Shape
  <2>2. QED BY <2>1 DEF Keys, Mark
<1>3. recorded \in [Days -> SUBSET Students]
  BY DEF Shape
<1>4. \A r \in Requests : requests[r].student \subseteq Students /\ requests[r].day <= today
  BY DEF Shape
<1>5. \A h \in Heartbeats : heartbeats[h].back <= heartbeats[h].now
  BY DEF Shape
<1>6. selection.seen = Len(selection.reads)
  BY DEF Shape
<1>7. QED BY <1>1, <1>2, <1>3, <1>4, <1>5, <1>6 DEF ActivityTypeOK

-----------------------------------------------------------------------------
(* The days that the collection covers *)

(* A covered day is whole, or it has had its loss and is frozen.  While the *)
(* collection has not started, nothing is there, and nobody is about to     *)
(* start it on a day before one on which students were already registered.  *)
Covered(d) ==
  \/ Whole(days[d], recorded[d])
  \/ Frozen(days[d], recorded[d]) /\ losses[d] >= MaxLosses

DayInv ==
  /\ \A d \in Days : d > today => recorded[d] = {}
  /\ \A d \in Days : startedAt < d => Covered(d)
  /\ startedAt = NoDay =>
       \A d \in Days : /\ days[d] = NoKeys
                       /\ recorded[d] # {} => \A e \in Days : Writing(e) => d <= e

(* Nobody writes to a day that has not begun. *)
LEMMA WritersAreBack ==
  ASSUME Shape, NEW d \in Days, Writing(d)
  PROVE  d <= today
BY DEF Shape, Writing

(* Whoever comes to write after a step, writes to today. *)
LEMMA WritersCome ==
  ASSUME Shape, WriterMoves, NEW d \in Days, Writing(d)'
  PROVE  Writing(d) \/ d = today
<1>1. CASE \E r \in Requests : requests'[r] # NoAsk /\ requests'[r].day = d
  BY <1>1 DEF WriterMoves, Writing
<1>2. CASE \E h \in Heartbeats : heartbeats'[h].pc = "open" /\ heartbeats'[h].now = d
  BY <1>2 DEF WriterMoves, Writing
<1>3. QED BY <1>1, <1>2 DEF Writing

(* A day nobody wrote to is whole, and has nothing to lose. *)
LEMMA NothingThere ==
  /\ Whole(NoKeys, {}) /\ ~Flushable(NoKeys) /\ ~Readable(NoKeys)
  /\ \A l \in Damaged(NoKeys) : l = NoKeys
<1>1. Whole(NoKeys, {})
  BY DEF Whole, NoKeys, None
<1>2. ~Flushable(NoKeys) /\ ~Readable(NoKeys)
  BY DEF Flushable, Readable, NoKeys, None
<1>3. ASSUME NEW l \in Damaged(NoKeys) PROVE l = NoKeys
  BY <1>3 DEF Damaged, NoKeys
<1>4. QED BY <1>1, <1>2, <1>3

LEMMA DayInvInit == ASSUME ActivityInit PROVE DayInv
<1>1. \A d \in Days : days[d] = NoKeys /\ recorded[d] = {}
  BY DEF ActivityInit
<1>2. startedAt = NoDay /\ \A d \in Days : ~(NoDay < d)
  BY DaysFacts DEF ActivityInit, Days, NoDay
<1>3. QED BY <1>1, <1>2 DEF DayInv

(* One lost key or member is as much as the counters of a day always show.  *)
LEMMA DayInvStep ==
  ASSUME MaxLosses <= 1, Shape, DayInv, Shape', KeyMoves, WriterMoves, today <= today'
  PROVE  DayInv'
<1>d. /\ today \in Nat /\ today' \in Nat /\ MaxLosses \in Nat /\ NoDay \in Nat
      /\ startedAt \in Nat /\ startedAt <= NoDay
      /\ \A d \in Days : d \in Nat /\ d < NoDay
  BY DaysFacts, ActivityAssumption DEF Shape, Days, NoDay
<1>t. /\ days \in [Days -> Keys] /\ recorded \in [Days -> SUBSET Students]
      /\ losses \in [Days -> Nat]
      /\ \A d \in Days : days[d].members \cap days[d].pending = {}
  BY DEF Shape
(* Nobody registers on a day to come. *)
<1>w. ASSUME NEW d \in Days, NEW e \in Days, recorded' = recorded, recorded[d] # {}, Writing(e)',
             startedAt = NoDay
      PROVE  d <= e
  <2>1. d <= today
    BY <1>w, <1>d DEF DayInv
  <2>2. QED BY <1>w, <2>1, WritersCome DEF DayInv
<1>1. CASE UNCHANGED <<startedAt, days, recorded, losses>>
  <2>1. \A d \in Days : Covered(d)' <=> Covered(d)
    BY <1>1 DEF Covered
  <2>2. \A d \in Days : d > today' => recorded'[d] = {}
    BY <1>1, <1>d DEF DayInv
  <2>3. \A d \in Days : startedAt' < d => Covered(d)'
    BY <1>1, <2>1 DEF DayInv
  <2>4. startedAt' = NoDay =>
          \A d \in Days : /\ days'[d] = NoKeys
                          /\ recorded'[d] # {} => \A e \in Days : Writing(e)' => d <= e
    BY <1>1, <1>w DEF DayInv
  <2>5. QED BY <2>2, <2>3, <2>4 DEF DayInv
<1>2. ASSUME NEW d \in Days, NEW ss \in SUBSET Students, Records(d, ss)
      PROVE  DayInv'
  <2>1. /\ days' = [days EXCEPT ![d] = WithRecord(days[d], ss)]
        /\ recorded' = [recorded EXCEPT ![d] = recorded[d] \cup ss]
        /\ losses' = losses /\ today' = today /\ Recordable(days[d]) /\ Writing(d)
    BY <1>2 DEF Records, Recorded
  <2>2. d <= today
    BY <2>1, WritersAreBack
  <2>3. startedAt' = IF startedAt = NoDay THEN d ELSE startedAt
    BY <1>2 DEF Records, Recorded
  <2>4. \A e \in Days : e > today' => recorded'[e] = {}
    BY <1>d, <1>t, <2>1, <2>2 DEF DayInv
  <2>5. ASSUME NEW e \in Days, startedAt' < e PROVE Covered(e)'
    <3>1. CASE startedAt = NoDay
      <4>1. e # d /\ d < e
        BY <1>d, <2>3, <2>5, <3>1
      <4>2. days'[e] = NoKeys
        BY <1>t, <2>1, <3>1, <4>1 DEF DayInv
      <4>3. recorded'[e] = {}
        <5>1. ~(e <= d)
          BY <1>d, <4>1
        <5>2. recorded[e] = {}
          BY <2>1, <3>1, <5>1 DEF DayInv
        <5>3. QED BY <1>t, <2>1, <4>1, <5>2
      <4>4. QED BY <4>2, <4>3, NothingThere DEF Covered
    <3>2. CASE startedAt # NoDay
      <4>1. Covered(e)
        BY <2>3, <2>5, <3>2 DEF DayInv
      <4>2. CASE e # d
        BY <1>t, <2>1, <4>1, <4>2 DEF Covered
      <4>3. CASE e = d
        <5>1. Whole(days[d], recorded[d])
          BY <2>1, <4>1, <4>3 DEF Covered, Frozen
        <5>2. Whole(WithRecord(days[d], ss), recorded[d] \cup ss)
          BY <1>t, <2>1, <5>1, WholeRecord
        <5>3. days'[d] = WithRecord(days[d], ss) /\ recorded'[d] = recorded[d] \cup ss
          BY <1>t, <2>1
        <5>4. QED BY <4>3, <5>2, <5>3 DEF Covered
      <4>4. QED BY <4>2, <4>3
    <3>3. QED BY <3>1, <3>2
  <2>6. startedAt' # NoDay
    BY <1>d, <2>3
  <2>7. QED BY <2>4, <2>5, <2>6 DEF DayInv
<1>3. ASSUME NEW d \in Days, FlushesDay(d)
      PROVE  DayInv'
  <2>1. /\ Flushable(days[d]) /\ Flushes(days[d], days'[d])
        /\ days' = [days EXCEPT ![d] = days'[d]]
        /\ UNCHANGED <<today, startedAt, recorded, losses>>
    BY <1>3 DEF FlushesDay
  <2>2. \A e \in Days : e > today' => recorded'[e] = {}
    BY <2>1 DEF DayInv
  <2>3. ASSUME NEW e \in Days, startedAt' < e PROVE Covered(e)'
    <3>1. Covered(e)
      BY <2>1, <2>3 DEF DayInv
    <3>2. CASE e # d
      <4>1. days'[e] = days[e]
        BY <1>t, <2>1, <3>2
      <4>2. QED BY <2>1, <3>1, <4>1 DEF Covered
    <3>3. CASE e = d
      <4>1. Whole(days[d], recorded[d])
        BY <2>1, <3>1, <3>3 DEF Covered, Frozen
      <4>2. PICK l : l = days'[d]
        OBVIOUS
      <4>3. Whole(l, recorded[d])
        BY <1>t, <2>1, <4>1, <4>2, WholeFlush
      <4>4. QED BY <2>1, <3>3, <4>2, <4>3 DEF Covered
    <3>4. QED BY <3>2, <3>3
  <2>4. startedAt # NoDay
    BY <2>1, NothingThere DEF DayInv
  <2>5. QED BY <2>1, <2>2, <2>3, <2>4 DEF DayInv
<1>4. ASSUME NEW d \in Days, LoseKey(d)
      PROVE  DayInv'
  <2>1. PICK l \in Damaged(days[d]) : days[d] # l /\ days' = [days EXCEPT ![d] = l]
    BY <1>4, LoseFacts
  <2>2. /\ losses[d] < MaxLosses /\ losses' = [losses EXCEPT ![d] = @ + 1]
        /\ UNCHANGED <<today, startedAt, recorded>>
    BY <1>4, LoseFacts
  <2>3. \A e \in Days : e > today' => recorded'[e] = {}
    BY <2>2 DEF DayInv
  <2>4. ASSUME NEW e \in Days, startedAt' < e PROVE Covered(e)'
    <3>1. Covered(e)
      BY <2>2, <2>4 DEF DayInv
    <3>2. CASE e # d
      BY <1>t, <2>1, <2>2, <3>1, <3>2 DEF Covered
    <3>3. CASE e = d
      <4>1. ~(losses[d] >= MaxLosses)
        BY <1>d, <1>t, <2>2
      <4>2. Whole(days[d], recorded[d])
        BY <3>1, <3>3, <4>1 DEF Covered
      <4>3. Frozen(l, recorded[d])
        BY <1>t, <2>1, <4>2, WholeDamaged
      <4>4. losses'[d] >= MaxLosses
        BY <1>d, <1>t, <2>2
      <4>5. days'[d] = l
        BY <1>t, <2>1
      <4>6. QED BY <2>2, <3>3, <4>3, <4>4, <4>5 DEF Covered
    <3>4. QED BY <3>2, <3>3
  <2>5. startedAt # NoDay
    BY <2>1, NothingThere DEF DayInv
  <2>6. QED BY <2>2, <2>3, <2>4, <2>5 DEF DayInv
<1>c. ASSUME NEW d \in Days, LoseCertificate(d)
      PROVE  DayInv'
  <2>1. PICK l : l = Uncertified(days[d])
    OBVIOUS
  <2>2. /\ days' = [days EXCEPT ![d] = l] /\ days[d] # l /\ losses[d] < MaxLosses
        /\ losses' = [losses EXCEPT ![d] = @ + 1]
        /\ UNCHANGED <<today, startedAt, recorded>>
    BY <1>c, <2>1, CertificateFacts
  <2>3. \A e \in Days : e > today' => recorded'[e] = {}
    BY <2>2 DEF DayInv
  <2>4. ASSUME NEW e \in Days, startedAt' < e PROVE Covered(e)'
    <3>1. Covered(e)
      BY <2>2, <2>4 DEF DayInv
    <3>2. CASE e # d
      BY <1>t, <2>2, <3>1, <3>2 DEF Covered
    <3>3. CASE e = d
      <4>1. Whole(days[d], recorded[d])
        BY <1>d, <1>t, <2>2, <3>1, <3>3 DEF Covered
      <4>2. Whole(l, recorded[d]) /\ days'[d] = l
        BY <1>t, <2>1, <2>2, <4>1, WholeUncertified
      <4>3. QED BY <2>2, <3>3, <4>2 DEF Covered
    <3>4. QED BY <3>2, <3>3
  <2>5. startedAt # NoDay
    <3>1. Uncertified(NoKeys) = NoKeys
      <4>1. NoKeys.complete = None
        BY DEF NoKeys
      <4>2. QED BY <4>1, NoKeysTyped, UncertifiedFacts DEF Keys
    <3>2. days[d] # NoKeys
      BY <2>1, <2>2, <3>1
    <3>3. QED BY <3>2 DEF DayInv
  <2>6. QED BY <2>2, <2>3, <2>4, <2>5 DEF DayInv
<1>5. CASE LoseAll
  <2>1. /\ startedAt' = NoDay /\ days' = [d \in Days |-> NoKeys]
        /\ UNCHANGED <<today, recorded, requests, heartbeats>>
    BY <1>5 DEF LoseAll
  <2>2. \A d \in Days : Writing(d)' => d = today
    BY <1>5, <2>1 DEF LoseAll, Writing
  <2>3. \A d \in Days : recorded[d] # {} => d <= today
    BY <1>d DEF DayInv
  <2>4. \A d \in Days : ~(startedAt' < d)
    BY <1>d, <2>1
  <2>5. \A d \in Days : /\ days'[d] = NoKeys
                        /\ recorded'[d] # {} => \A e \in Days : Writing(e)' => d <= e
    BY <2>1, <2>2, <2>3
  <2>6. \A d \in Days : d > today' => recorded'[d] = {}
    BY <2>1 DEF DayInv
  <2>7. QED BY <2>4, <2>5, <2>6 DEF DayInv
<1>6. QED BY <1>1, <1>2, <1>3, <1>4, <1>c, <1>5 DEF KeyMoves

(* A covered day that reads as complete is all there. *)
LEMMA CoveredReads ==
  ASSUME Shape, DayInv, NEW d \in Days, startedAt < d, Readable(days[d])
  PROVE  days[d].members = recorded[d]
<1>1. Covered(d) /\ days[d] \in Keys
  BY DEF DayInv, Shape
<1>2. QED BY <1>1, WholeReads DEF Covered, Frozen

THEOREM ActivityTyped == ActivitySpec => []ActivityTypeOK
BY ShapeHolds, ShapeIsTyped, PTL

(* The invariant holds of every run in which Redis loses at most one key or *)
(* member of a day.                                                         *)
LEMMA DayInvHolds == ASSUME MaxLosses <= 1 PROVE ActivitySpec => [](Shape /\ DayInv)
<1>1. ActivityInit => Shape /\ DayInv
  BY ShapeInit, DayInvInit
<1>2. Shape /\ DayInv /\ [ActivityNext]_activityVars => (Shape /\ DayInv)'
  <2> SUFFICES ASSUME Shape, DayInv, [ActivityNext]_activityVars PROVE (Shape /\ DayInv)'
    OBVIOUS
  <2>1. CASE ActivityNext
    BY <2>1, Moves, DayInvStep
  <2>2. CASE UNCHANGED activityVars
    <3>1. KeyMoves /\ WriterMoves /\ today' = today
      BY <2>2 DEF activityVars, KeyMoves, WriterMoves
    <3>t. today \in Nat
      BY DaysFacts DEF Shape
    <3>2. Shape' /\ today <= today'
      BY <2>2, <3>1, <3>t, ShapeStutters
    <3>3. QED BY <3>1, <3>2, DayInvStep
  <2>3. QED BY <2>1, <2>2
<1>3. QED BY <1>1, <1>2, PTL DEF ActivitySpec

(* A day that reads as complete, and that the collection has covered from   *)
(* its beginning, holds exactly the students who were admitted on it, when  *)
(* Redis lost one key or member of it, at most, be it the certificate, or   *)
(* all that it had.                                                         *)
THEOREM CertifiedDaysAreExact ==
  ASSUME MaxLosses <= 1
  PROVE  ActivitySpec => []CertifiedIsExact
<1>1. ASSUME Shape, DayInv PROVE CertifiedIsExact
  BY <1>1, ShapeIsTyped, CoveredReads DEF CertifiedIsExact
<1>2. QED BY <1>1, DayInvHolds, PTL

-----------------------------------------------------------------------------
(* The selection of the white list *)

(* Nobody is registered any more for a day of the window: it is certified   *)
(* and covered, or it was lost, or its certificate, and every writer has a  *)
(* later day.                                                               *)
Closed(d) ==
  \/ days[d].complete.set /\ startedAt < d
  \/ /\ days[d] = NoKeys \/ startedAt < d
     /\ \A e \in Days : Writing(e) => d < e

InWindow(d) == selection.start <= d /\ d < selection.start + WindowDays

SelectInv ==
  selection.pc # "idle" =>
    /\ \A d \in Days : InWindow(d) => Closed(d)
    /\ \A i \in 1 .. selection.seen :
         selection.reads[i] = recorded[selection.start + i - 1]

(* A day that is closed stays closed, and nobody else is registered for it. *)
LEMMA ClosedStays ==
  ASSUME Shape, DayInv, KeyMoves, WriterMoves, NEW d \in Days, d < today, Closed(d)
  PROVE  Closed(d)' /\ recorded'[d] = recorded[d]
<1>t. /\ days \in [Days -> Keys] /\ recorded \in [Days -> SUBSET Students]
      /\ today \in Nat /\ startedAt \in Nat /\ startedAt <= NoDay /\ NoDay \in Nat
      /\ \A e \in Days : e \in Nat /\ e < NoDay
  BY DaysFacts DEF Shape, Days, NoDay
<1>n. NoKeys.complete.set = FALSE
  BY DEF NoKeys, None
(* Writers come with a later day. *)
<1>w. ASSUME \A e \in Days : Writing(e) => d < e, NEW e \in Days, Writing(e)'
      PROVE  d < e
  BY <1>w, WritersCome
<1>1. CASE UNCHANGED <<startedAt, days, recorded, losses>>
  BY <1>1, <1>w DEF Closed
<1>2. ASSUME NEW c \in Days, NEW ss \in SUBSET Students, Records(c, ss)
      PROVE  Closed(d)' /\ recorded'[d] = recorded[d]
  <2>1. /\ days' = [days EXCEPT ![c] = WithRecord(days[c], ss)]
        /\ recorded' = [recorded EXCEPT ![c] = recorded[c] \cup ss]
        /\ Recordable(days[c]) /\ Writing(c)
        /\ startedAt' = IF startedAt = NoDay THEN c ELSE startedAt
    BY <1>2 DEF Records, Recorded
  <2>2. c # d
    <3>1. CASE days[d].complete.set
      BY <2>1, <3>1 DEF Recordable
    <3>2. CASE ~days[d].complete.set
      BY <1>t, <2>1, <3>2 DEF Closed
    <3>3. QED BY <3>1, <3>2
  <2>3. days'[d] = days[d] /\ recorded'[d] = recorded[d]
    BY <1>t, <2>1, <2>2
  <2>4. CASE days[d].complete.set /\ startedAt < d
    <3>1. startedAt # NoDay
      BY <1>t, <2>4
    <3>2. QED BY <2>1, <2>3, <2>4, <3>1 DEF Closed
  <2>5. CASE (days[d] = NoKeys \/ startedAt < d) /\ \A e \in Days : Writing(e) => d < e
    <3>1. startedAt < d => startedAt' = startedAt
      BY <1>t, <2>1
    <3>2. days'[d] = NoKeys \/ startedAt' < d
      BY <2>3, <2>5, <3>1
    <3>3. ASSUME NEW e \in Days, Writing(e)' PROVE d < e
      BY <1>w, <2>5, <3>3
    <3>4. QED BY <2>3, <3>2, <3>3 DEF Closed
  <2>6. QED BY <2>3, <2>4, <2>5 DEF Closed
<1>3. ASSUME NEW c \in Days, FlushesDay(c)
      PROVE  Closed(d)' /\ recorded'[d] = recorded[d]
  <2>1. /\ Flushable(days[c]) /\ Flushes(days[c], days'[c])
        /\ days' = [days EXCEPT ![c] = days'[c]] /\ UNCHANGED <<startedAt, recorded>>
    BY <1>3 DEF FlushesDay
  <2>2. PICK l : l = days'[c]
    OBVIOUS
  <2>3. days[c].count.set /\ (l.complete = days[c].complete \/ l.complete = days[c].count)
    BY <1>t, <2>1, <2>2, FlushFacts DEF Flushable
  <2>4. CASE days[d].complete.set /\ startedAt < d
    <3>1. days'[d].complete.set
      BY <1>t, <2>1, <2>2, <2>3, <2>4
    <3>2. QED BY <2>1, <2>4, <3>1 DEF Closed
  <2>5. CASE (days[d] = NoKeys \/ startedAt < d) /\ \A e \in Days : Writing(e) => d < e
    <3>1. days[d] = NoKeys => c # d
      BY <2>1, NothingThere
    <3>2. c # d => days'[d] = days[d]
      BY <1>t, <2>1
    <3>3. days'[d] = NoKeys \/ startedAt' < d
      BY <2>1, <2>5, <3>1, <3>2
    <3>4. QED BY <1>w, <2>1, <2>5, <3>3 DEF Closed
  <2>6. QED BY <2>4, <2>5 DEF Closed
<1>4. ASSUME NEW c \in Days, LoseKey(c)
      PROVE  Closed(d)' /\ recorded'[d] = recorded[d]
  <2>1. PICK l \in Damaged(days[c]) : days[c] # l /\ days' = [days EXCEPT ![c] = l]
    BY <1>4, LoseFacts
  <2>2. UNCHANGED <<startedAt, recorded>>
    BY <1>4, LoseFacts
  <2>3. l.complete = days[c].complete
    BY <1>t, <2>1, DamageFacts
  <2>4. CASE days[d].complete.set /\ startedAt < d
    <3>1. days'[d].complete.set
      BY <1>t, <2>1, <2>3, <2>4
    <3>2. QED BY <2>2, <2>4, <3>1 DEF Closed
  <2>5. CASE (days[d] = NoKeys \/ startedAt < d) /\ \A e \in Days : Writing(e) => d < e
    <3>1. days[d] = NoKeys => c # d
      BY <2>1, NothingThere
    <3>2. c # d => days'[d] = days[d]
      BY <1>t, <2>1
    <3>3. days'[d] = NoKeys \/ startedAt' < d
      BY <2>2, <2>5, <3>1, <3>2
    <3>4. QED BY <1>w, <2>2, <2>5, <3>3 DEF Closed
  <2>6. QED BY <2>4, <2>5 DEF Closed
<1>c. ASSUME NEW c \in Days, LoseCertificate(c)
      PROVE  Closed(d)' /\ recorded'[d] = recorded[d]
  <2>1. /\ days' = [days EXCEPT ![c] = Uncertified(days[c])] /\ days[c] # Uncertified(days[c])
        /\ UNCHANGED <<startedAt, recorded, requests, heartbeats>>
    BY <1>c, CertificateFacts
  <2>2. \A e \in Days : Writing(e)' <=> Writing(e)
    BY <2>1 DEF Writing
  <2>3. CASE c # d
    BY <1>t, <2>1, <2>2, <2>3 DEF Closed
  <2>4. CASE c = d
    <3>1. \A e \in Days : Writing(e) => c < e
      BY <1>c, CertificateFacts DEF Writing
    <3>2. days[c] # NoKeys
      BY <2>1 DEF Uncertified, NoKeys
    <3>3. startedAt' < d
      BY <2>1, <2>4, <3>2 DEF Closed
    <3>4. QED BY <2>1, <2>2, <2>4, <3>1, <3>3 DEF Closed
  <2>5. QED BY <2>3, <2>4
<1>5. CASE LoseAll
  <2>1. /\ days' = [e \in Days |-> NoKeys] /\ UNCHANGED <<recorded, requests, heartbeats>>
    BY <1>5 DEF LoseAll
  <2>2. \A e \in Days : Writing(e)' => e = today
    BY <1>5, <2>1 DEF LoseAll, Writing
  <2>3. QED BY <2>1, <2>2 DEF Closed
<1>6. QED BY <1>1, <1>2, <1>3, <1>4, <1>c, <1>5 DEF KeyMoves

(* What a step does to the selection. *)
SelectMoves ==
  \/ selection' = selection
  \/ selection'.pc = "idle"
  \/ /\ UNCHANGED <<today, startedAt, days, recorded, losses, requests, heartbeats>>
     /\ selection'.pc # "idle" /\ selection'.seen = 0
     /\ \A d \in Days : InWindow(d)' => Readable(days[d]) /\ startedAt < d
  \/ /\ UNCHANGED <<today, startedAt, days, recorded, losses, requests, heartbeats>>
     /\ selection.pc = "read" /\ selection.seen < WindowDays
     /\ selection'.start = selection.start /\ selection'.seen = selection.seen + 1
     /\ \E d \in Days :
          /\ d = selection.start + selection.seen /\ Readable(days[d])
          /\ selection'.reads = Append(selection.reads, days[d].members)

LEMMA SelectionSteps ==
  ASSUME Shape, ActivityNext
  PROVE  SelectMoves
<1>d. today \in Nat /\ today <= MaxDay /\ WindowDays \in Nat \ {0} /\ MaxDay \in Nat
      /\ startedAt \in Nat
  BY DaysFacts, ActivityAssumption DEF Shape, Days
<1>1. CASE StartSelection
  <2>1. PICK n \in Nat : n = today - WindowDays
    BY <1>1, <1>d DEF StartSelection
  <2>2. /\ selection' = [pc |-> "read", start |-> n, seen |-> 0, reads |-> <<>>]
        /\ startedAt < n /\ \A d \in WindowFrom(n) : Readable(days[d])
        /\ UNCHANGED <<today, startedAt, days, recorded, losses, requests, heartbeats>>
    BY <1>1, <2>1 DEF StartSelection
  <2>3. selection'.pc = "read" /\ selection'.seen = 0 /\ selection'.start = n
    BY <2>2
  <2>4. ASSUME NEW d \in Days, InWindow(d)' PROVE Readable(days[d]) /\ startedAt < d
    <3>1. d \in Nat /\ n <= d /\ d < n + WindowDays
      BY <2>3, <2>4, DaysFacts DEF InWindow
    <3>2. d \in WindowFrom(n)
      BY <1>d, <3>1 DEF WindowFrom
    <3>3. QED BY <1>d, <2>2, <3>1, <3>2
  <2>5. QED BY <2>2, <2>3, <2>4 DEF SelectMoves
<1>2. CASE SelectDay
  <2>1. CASE selection' = NoSelection
    BY <2>1 DEF NoSelection, SelectMoves
  <2>2. CASE selection' # NoSelection
    <3>t. /\ selection.seen \in Nat /\ selection.start \in Nat /\ selection.pc = "read"
          /\ selection.seen < WindowDays /\ selection.start + WindowDays <= today
          /\ UNCHANGED <<today, startedAt, days, recorded, losses, requests, heartbeats>>
      BY <1>2 DEF Shape, Windowed, SelectDay
    <3>1. PICK d \in Days : d = selection.start + selection.seen
      BY <1>d, <3>t DEF Days
    <3>2. Readable(days[d])
      BY <1>2, <2>2, <3>1 DEF SelectDay
    <3>3. PICK p : selection' = [selection EXCEPT !.seen = @ + 1,
                                                  !.reads = Append(@, days[d].members), !.pc = p]
      BY <1>2, <3>1, <3>2 DEF SelectDay
    <3>4. /\ selection'.start = selection.start /\ selection'.seen = selection.seen + 1
          /\ selection'.reads = Append(selection.reads, days[d].members)
      BY <3>3 DEF Shape
    <3>5. QED BY <3>t, <3>1, <3>2, <3>4 DEF SelectMoves
  <2>3. QED BY <2>1, <2>2
<1>3. CASE \/ Midnight \/ LoseAll
           \/ \E r \in Requests : Admit(r) \/ Refuse(r) \/ \E s \in Students : AskIn(r, s)
           \/ \E h \in Heartbeats : BeatStep(h) \/ BeatEnds(h)
           \/ \E d \in Days : LoseKey(d) \/ LoseCertificate(d)
  <2>1. selection' = selection
    BY <1>3, AskMoves, BeatMoves, LoseFacts, CertificateFacts DEF Midnight, LoseAll
  <2>2. QED BY <2>1 DEF SelectMoves
<1>4. QED BY <1>1, <1>2, <1>3 DEF ActivityNext

LEMMA SelectInvStep ==
  ASSUME Shape, DayInv, SelectInv, Shape', KeyMoves, WriterMoves, SelectMoves
  PROVE  SelectInv'
<1>d. /\ today \in Nat /\ WindowDays \in Nat \ {0} /\ selection.start \in Nat
      /\ selection.seen \in Nat
      /\ selection.pc # "idle" => selection.start + WindowDays <= today
      /\ selection.seen <= WindowDays \/ selection.pc = "idle"
      /\ Days \subseteq Nat /\ today <= MaxDay /\ MaxDay \in Nat
  <2>1. today \in Days /\ selection.start \in Nat /\ selection.seen \in Nat
        /\ selection.pc \in {"idle", "read", "done"} /\ Windowed
    BY DEF Shape
  <2>2. WindowDays \in Nat \ {0} /\ Days \subseteq Nat /\ MaxDay \in Nat
    BY DaysFacts, ActivityAssumption
  <2>3. today <= MaxDay
    BY <2>1, <2>2 DEF Days
  <2>4. /\ selection.pc # "idle" => selection.start + WindowDays <= today
        /\ selection.seen <= WindowDays \/ selection.pc = "idle"
    BY <2>1, <2>2 DEF Windowed
  <2> QED BY <2>1, <2>2, <2>3, <2>4
<1>1. CASE selection' = selection
  <2> SUFFICES ASSUME selection.pc # "idle" PROVE SelectInv'
    BY <1>1 DEF SelectInv
  <2>1. ASSUME NEW d \in Days, InWindow(d) PROVE Closed(d)' /\ recorded'[d] = recorded[d]
    <3>1. d < today /\ Closed(d)
      BY <1>d, <2>1 DEF InWindow, SelectInv
    <3>2. QED BY <3>1, ClosedStays
  <2>2. ASSUME NEW i \in 1 .. selection.seen
        PROVE  selection.reads[i] = recorded'[selection.start + i - 1]
    <3>1. PICK d \in Days : d = selection.start + i - 1
      BY <1>d DEF Days
    <3>2. InWindow(d)
      BY <1>d, <3>1 DEF InWindow
    <3>3. selection.reads[i] = recorded[d]
      BY <3>1 DEF SelectInv
    <3>4. QED BY <2>1, <3>1, <3>2, <3>3
  <2>3. QED BY <1>1, <2>1, <2>2 DEF SelectInv, InWindow
<1>2. CASE selection'.pc = "idle"
  BY <1>2 DEF SelectInv
<1>3. CASE /\ UNCHANGED <<today, startedAt, days, recorded, losses, requests, heartbeats>>
           /\ selection'.pc # "idle" /\ selection'.seen = 0
           /\ \A d \in Days : InWindow(d)' => Readable(days[d]) /\ startedAt < d
  <2>1. \A d \in Days : InWindow(d)' => Closed(d)'
    BY <1>3 DEF Readable, Closed
  <2>2. QED BY <1>3, <2>1 DEF SelectInv
<1>4. CASE /\ UNCHANGED <<today, startedAt, days, recorded, losses, requests, heartbeats>>
           /\ selection.pc = "read" /\ selection.seen < WindowDays
           /\ selection'.start = selection.start /\ selection'.seen = selection.seen + 1
           /\ \E d \in Days :
                /\ d = selection.start + selection.seen /\ Readable(days[d])
                /\ selection'.reads = Append(selection.reads, days[d].members)
  <2>1. PICK d \in Days : /\ d = selection.start + selection.seen /\ Readable(days[d])
                          /\ selection'.reads = Append(selection.reads, days[d].members)
    BY <1>4
  <2>2. \A e \in Days : Closed(e)' <=> Closed(e)
    BY <1>4 DEF Closed, Writing
  <2>3. \A e \in Days : InWindow(e)' <=> InWindow(e)
    BY <1>4 DEF InWindow
  <2>4. days[d].members = recorded[d]
    <3>1. InWindow(d)
      BY <1>4, <1>d, <2>1 DEF InWindow
    <3>2. Closed(d) /\ days[d] # NoKeys
      BY <1>4, <2>1, <3>1, NothingThere DEF SelectInv
    <3>3. QED BY <2>1, <3>2, CoveredReads DEF Closed
  <2>5. ASSUME NEW i \in 1 .. selection.seen + 1
        PROVE  selection'.reads[i] = recorded[selection.start + i - 1]
    <3>t. selection.reads \in Seq(SUBSET Students) /\ Len(selection.reads) = selection.seen
            /\ days[d].members \in SUBSET Students
      BY DEF Shape, Keys
    <3>1. CASE i = selection.seen + 1
      BY <1>d, <2>1, <2>4, <3>t, <3>1
    <3>2. CASE i # selection.seen + 1
      <4>1. i \in 1 .. selection.seen
        BY <1>d, <3>2
      <4>2. selection'.reads[i] = selection.reads[i]
        BY <1>d, <2>1, <3>t, <4>1
      <4>3. QED BY <1>4, <4>1, <4>2 DEF SelectInv
    <3>3. QED BY <3>1, <3>2
  <2>6. QED BY <1>4, <2>2, <2>3, <2>5 DEF SelectInv
<1>5. QED BY <1>1, <1>2, <1>3, <1>4 DEF SelectMoves

(* As many days of the window have a student as reads that name him. *)
LEMMA DaysCounted ==
  ASSUME Shape, SelectInv, selection.pc = "done", NEW s \in Students
  PROVE  Cardinality({i \in DOMAIN selection.reads : s \in selection.reads[i]})
           = Cardinality({d \in WindowFrom(selection.start) : s \in recorded[d]})
<1> DEFINE S == {i \in DOMAIN selection.reads : s \in selection.reads[i]}
           T == {d \in WindowFrom(selection.start) : s \in recorded[d]}
           f == [i \in S |-> selection.start + i - 1]
<1>d. /\ WindowDays \in Nat \ {0} /\ selection.start \in Nat
      /\ DOMAIN selection.reads = 1 .. WindowDays
  BY ActivityAssumption DEF Shape, Windowed
<1>r. /\ \A i \in 1 .. WindowDays : selection.reads[i] = recorded[selection.start + i - 1]
  BY DEF Shape, Windowed, SelectInv
<1>1. \A i \in S : i \in Nat /\ selection.start + i - 1 \in T
  BY <1>d, <1>r DEF WindowFrom
<1>2. \A i, j \in S : f[i] = f[j] => i = j
  BY <1>d, <1>1
<1>3. ASSUME NEW d \in T PROVE \E i \in S : f[i] = d
  <2>1. d \in Nat /\ selection.start <= d /\ d < selection.start + WindowDays /\ s \in recorded[d]
    BY <1>d DEF WindowFrom
  <2>2. PICK i \in 1 .. WindowDays : i = d - selection.start + 1
    BY <1>d, <2>1
  <2>3. selection.start + i - 1 = d
    BY <1>d, <2>1, <2>2
  <2>4. i \in S
    BY <1>d, <1>r, <2>1, <2>3
  <2>5. QED BY <2>3, <2>4
<1>4. IsFiniteSet(S)
  <2>1. IsFiniteSet(1 .. WindowDays)
    BY <1>d, FS_Interval
  <2>2. QED BY <1>d, <2>1, FS_Subset
<1>5. f \in Bijection(S, T)
  <2>1. f \in [S -> T]
    BY <1>1
  <2> HIDE DEF f, S, T
  <2>2. QED BY <1>2, <1>3, <2>1 DEF Bijection, Injection, IsInjective, Surjection
<1>6. ExistsBijection(S, T)
  BY <1>5 DEF ExistsBijection
<1> HIDE DEF S, T, f
<1>7. Cardinality(S) = Cardinality(T)
  BY <1>4, <1>6, FS_Bijection
<1>8. QED BY <1>7 DEF S, T

(* The users that the strategy "high_activity" selects are exactly those    *)
(* who were admitted on enough of the days of the window, although the days *)
(* are read one after the other while requests, heartbeats and the calendar *)
(* go on, and while Redis loses a key or member of a day, or all it had; a  *)
(* certificate only when nobody is about to be registered for its day.      *)
THEOREM SelectionsAreExact ==
  ASSUME MaxLosses <= 1
  PROVE  ActivitySpec => []SelectionIsExact
<1>1. ActivityInit => SelectInv
  BY DEF ActivityInit, NoSelection, SelectInv
<1>2. Shape /\ DayInv /\ SelectInv /\ [ActivityNext]_activityVars => SelectInv'
  <2> SUFFICES ASSUME Shape, DayInv, SelectInv, [ActivityNext]_activityVars PROVE SelectInv'
    OBVIOUS
  <2>1. CASE ActivityNext
    BY <2>1, Moves, SelectionSteps, SelectInvStep
  <2>2. CASE UNCHANGED activityVars
    <3>1. KeyMoves /\ WriterMoves /\ SelectMoves
      BY <2>2 DEF activityVars, KeyMoves, WriterMoves, SelectMoves
    <3>2. QED BY <2>2, <3>1, ShapeStutters, SelectInvStep
  <2>3. QED BY <2>1, <2>2
<1>3. ASSUME Shape, SelectInv PROVE SelectionIsExact
  BY <1>3, DaysCounted DEF SelectionIsExact, ActiveUsers
<1>4. QED BY <1>1, <1>2, <1>3, DayInvHolds, PTL DEF ActivitySpec

=============================================================================
