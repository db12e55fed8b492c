-------------------------- MODULE UserCredentials --------------------------
(* One student's account in be-user: the stored password, the credentials  *)
(* of the university sites cached for five minutes, the requests that      *)
(* share one fetch per service (singleflight), and the bff handlers that   *)
(* log the student in and delete the account.  The sites are external:     *)
(* they know the password, hand out credentials and drop them at will.     *)
EXTENDS Naturals, FiniteSets

CONSTANTS UserPods,       \* processes of be-user, each with its own singleflight
          Services,       \* the services a credential is kept for
          AsyncServices,  \* those whose cache a goroutine fills (library tokens)
          Clients,        \* handlers of the bff that log in or delete
          MaxPassword,    \* passwords are 1 .. MaxPassword; 0 is no account
          MaxCredentials  \* how many credentials the sites hand out

ASSUME UserCredentialsAssumption ==
  /\ AsyncServices \subseteq Services
  /\ MaxPassword \in Nat \ {0}
  /\ MaxCredentials \in Nat

VARIABLES
  schoolPassword, \* the password the university accepts
  issued,         \* how many credentials were handed out; they are numbered
  valid,          \* those the sites still honour
  account,        \* the password of the row in users; 0 when there is none
  credCache,      \* the Redis keys: a credential and whether its fetch met a deletion
  flights,        \* the running fetch of each process and service
  fills,          \* goroutines that are to fill the cache
  clients,        \* the handlers of the bff
  accepted        \* history: the passwords the university accepted in a login

credentialVars == <<schoolPassword, issued, valid, account, credCache, flights,
                    fills, clients, accepted>>

Passwords == 1 .. MaxPassword
NoEntry == [cred |-> 0, late |-> FALSE]
NoFlight == [pc |-> "idle", password |-> 0, cred |-> 0, late |-> FALSE, live |-> {}]
NoRequest == [op |-> "none", pc |-> "idle", password |-> 0]

CredentialInit ==
  /\ schoolPassword = 1
  /\ issued = 0
  /\ valid = {}
  /\ account = 0
  /\ credCache = [s \in Services |-> NoEntry]
  /\ flights = [p \in UserPods |-> [s \in Services |-> NoFlight]]
  /\ fills = {}
  /\ clients = [c \in Clients |-> NoRequest]
  /\ accepted = {}

----------------------------------------------------------------------------
(* The university. *)

ChangePassword ==
  /\ schoolPassword < MaxPassword
  /\ schoolPassword' = schoolPassword + 1
  /\ UNCHANGED <<issued, valid, account, credCache, flights, fills, clients, accepted>>

DropCredential ==
  /\ \E k \in valid : valid' = valid \ {k}
  /\ UNCHANGED <<schoolPassword, issued, account, credCache, flights, fills, clients,
                 accepted>>

----------------------------------------------------------------------------
(* GetCookie and GetLibraryToken: the function under singleflight. *)

schoolVars == <<schoolPassword, issued, valid>>
handlerVars == <<clients, accepted, account>>

FlightGoes(p, s, f) == flights' = [flights EXCEPT ![p][s] = f]

\* An account is being deleted: its credentials were cleared, its row is there.
Deleting == \E c \in Clients : clients[c].pc = "delete row"

StartFetch(p, s) ==
  /\ flights[p][s].pc = "idle"
  /\ FlightGoes(p, s, [NoFlight EXCEPT !.pc = "read", !.live = valid, !.late = Deleting])
  /\ UNCHANGED <<schoolVars, credCache, fills, handlerVars>>

\* A failed read is a miss for a cookie and an error for a library token.
ReadCredential(p, s) ==
  LET f == flights[p][s]
      k == credCache[s].cred
      miss == [f EXCEPT !.pc = "find", !.live = {}]
      fails == IF s \in AsyncServices THEN NoFlight ELSE miss
      reads == IF k = 0 THEN miss
               ELSE [f EXCEPT !.pc = "check", !.cred = k, !.live = @ \cap {k}]
  IN /\ f.pc = "read"
     /\ \E g \in {fails, reads} : FlightGoes(p, s, g)
     /\ UNCHANGED <<schoolVars, credCache, fills, handlerVars>>

Judged_Trusted(f) == {[f EXCEPT !.pc = "answer"]}

\* What the site says of a cached credential: it answers it, drops it, or
\* cannot tell, and then the callers get an error and the entry stays.
Judged(f) == {NoFlight, IF f.cred \in valid THEN [f EXCEPT !.pc = "answer"]
                                            ELSE [f EXCEPT !.pc = "find", !.cred = 0, !.live = {}]}

CheckCredential(p, s) ==
  /\ flights[p][s].pc = "check"
  /\ \E g \in Judged(flights[p][s]) : FlightGoes(p, s, g)
  /\ UNCHANGED <<schoolVars, credCache, fills, handlerVars>>

FindUser(p, s) ==
  LET f == flights[p][s]
  IN /\ f.pc = "find"
     /\ \/ account # 0 /\ FlightGoes(p, s, [f EXCEPT !.pc = "login", !.password = account])
        \/ FlightGoes(p, s, NoFlight)
     /\ UNCHANGED <<schoolVars, credCache, fills, handlerVars>>

\* A fetch that has yet to read the cache may find the new credential there.
SeenBy(fl, k) ==
  [p \in UserPods |-> [s \in Services |->
     IF fl[p][s].pc = "read" THEN [fl[p][s] EXCEPT !.live = @ \cup {k}]
                             ELSE fl[p][s]]]

FetchCredential(p, s) ==
  LET f == flights[p][s]
      k == issued + 1
      g == [f EXCEPT !.cred = k, !.live = {k}, !.password = 0,
                     !.pc = IF s \in AsyncServices THEN "answer" ELSE "store"]
  IN /\ f.pc = "login"
     /\ f.password = schoolPassword
     /\ issued < MaxCredentials
     /\ issued' = k
     /\ valid' = valid \cup {k}
     /\ flights' = SeenBy([flights EXCEPT ![p][s] = g], k)
     /\ fills' = IF s \in AsyncServices
                 THEN fills \cup {[service |-> s, cred |-> k, late |-> f.late]} ELSE fills
     /\ UNCHANGED <<schoolPassword, credCache, handlerVars>>

\* The password is wrong, or the site stays out of reach for all attempts.
FetchFails(p, s) ==
  /\ flights[p][s].pc = "login"
  /\ FlightGoes(p, s, NoFlight)
  /\ UNCHANGED <<schoolVars, credCache, fills, handlerVars>>

Stores(s, k, late) ==
  credCache' \in {credCache, [credCache EXCEPT ![s] = [cred |-> k, late |-> late]]}

\* SetCookie, before the callers get their answer; a failure is only logged.
StoreCookie(p, s) ==
  LET f == flights[p][s]
  IN /\ f.pc = "store"
     /\ Stores(s, f.cred, f.late)
     /\ FlightGoes(p, s, [f EXCEPT !.pc = "answer"])
     /\ UNCHANGED <<schoolVars, fills, handlerVars>>

AnswerCallers(p, s) ==
  /\ flights[p][s].pc = "answer"
  /\ FlightGoes(p, s, NoFlight)
  /\ UNCHANGED <<schoolVars, credCache, fills, handlerVars>>

\* The goroutine of GetLibraryToken, at any time after the answer or before it.
FillToken ==
  /\ \E f \in fills : fills' = fills \ {f} /\ Stores(f.service, f.cred, f.late)
  /\ UNCHANGED <<schoolVars, flights, handlerVars>>

ExpireCredential(s) ==
  /\ credCache[s].cred # 0
  /\ credCache' = [credCache EXCEPT ![s] = NoEntry]
  /\ UNCHANGED <<schoolVars, flights, fills, handlerVars>>

----------------------------------------------------------------------------
(* LoginByCCNU and DeleteAccount of the bff, with the calls they make. *)

cacheVars == <<credCache, flights, fills>>

ClientGoes(c, r) == clients' = [clients EXCEPT ![c] = r]
ClientAt(c, pc) == [clients[c] EXCEPT !.pc = pc]

BeginRequest(c, op, pw) ==
  /\ clients[c].op = "none"
  /\ ClientGoes(c, [op |-> op, pc |-> "check", password |-> pw])
  /\ UNCHANGED <<schoolVars, cacheVars, accepted, account>>

\* Where a handler goes on once the password is found right.
Granted(c) == ClientAt(c, IF clients[c].op = "login" THEN "find" ELSE "delete find")

CheckAtSchool(c) ==
  /\ clients[c].pc = "check"
  /\ \/ /\ clients[c].password = schoolPassword
        /\ accepted' = accepted \cup {schoolPassword}
        /\ ClientGoes(c, Granted(c))
     \/ /\ ClientGoes(c, NoRequest)    \* a wrong password, or an account to set up first
        /\ UNCHANGED accepted
     \/ /\ ClientGoes(c, ClientAt(c, "check local"))     \* out of reach
        /\ UNCHANGED accepted
  /\ UNCHANGED <<schoolVars, cacheVars, account>>

MatchesRow(c) == account = clients[c].password

CheckLocally(c) ==
  /\ clients[c].pc = "check local"
  /\ ClientGoes(c, IF account # 0 /\ MatchesRow(c) THEN Granted(c) ELSE NoRequest)
  /\ UNCHANGED <<schoolVars, cacheVars, accepted, account>>

SaveFinds(c) ==
  /\ clients[c].pc = "find"
  /\ ClientGoes(c, IF MatchesRow(c) THEN NoRequest ELSE ClientAt(c, "save"))
  /\ UNCHANGED <<schoolVars, cacheVars, accepted, account>>

\* gorm's Save inserts the row when there is none to update.
SaveRow(c) ==
  /\ clients[c].pc = "save"
  /\ account' \in {account, clients[c].password}
  /\ ClientGoes(c, NoRequest)
  /\ UNCHANGED <<schoolVars, cacheVars, accepted>>

\* After ClearToken; it may have failed, and then the handler ended.
DeleteFinds(c) ==
  /\ clients[c].pc = "delete find"
  /\ \/ MatchesRow(c) /\ ClientGoes(c, ClientAt(c, "delete cache"))
     \/ ClientGoes(c, NoRequest)
  /\ UNCHANGED <<schoolVars, cacheVars, accepted, account>>

Cleared == [s \in Services |-> NoEntry]

\* A deletion marks what is on its way to the cache.
MarkLate(fl) ==
  [p \in UserPods |-> [s \in Services |->
     IF fl[p][s].pc = "idle" THEN fl[p][s] ELSE [fl[p][s] EXCEPT !.late = TRUE]]]

DeleteUserData(c) ==
  /\ clients[c].pc = "delete cache"
  /\ credCache' = Cleared
  /\ flights' = MarkLate(flights)
  /\ fills' = {[f EXCEPT !.late = TRUE] : f \in fills}
  /\ ClientGoes(c, ClientAt(c, "delete row"))
  /\ UNCHANGED <<schoolVars, accepted, account>>

DeleteUserDataFails_GoesOn(c) ==
  /\ clients[c].pc = "delete cache"
  /\ ClientGoes(c, ClientAt(c, "delete row"))
  /\ UNCHANGED <<schoolVars, cacheVars, accepted, account>>

\* The credentials could not be cleared: the account stays.
DeleteUserDataFails(c) ==
  /\ clients[c].pc = "delete cache"
  /\ ClientGoes(c, NoRequest)
  /\ UNCHANGED <<schoolVars, cacheVars, accepted, account>>

DeleteRow(c) ==
  /\ clients[c].pc = "delete row"
  /\ account' \in {account, 0}
  /\ ClientGoes(c, NoRequest)
  /\ UNCHANGED <<schoolVars, cacheVars, accepted>>

----------------------------------------------------------------------------
FlightStep(p, s) ==
  \/ StartFetch(p, s) \/ ReadCredential(p, s) \/ CheckCredential(p, s)
  \/ FindUser(p, s) \/ FetchCredential(p, s) \/ FetchFails(p, s)
  \/ StoreCookie(p, s) \/ AnswerCallers(p, s)

ClientStep(c) ==
  \/ \E op \in {"login", "delete"}, pw \in Passwords : BeginRequest(c, op, pw)
  \/ CheckAtSchool(c) \/ CheckLocally(c) \/ SaveFinds(c) \/ SaveRow(c)
  \/ DeleteFinds(c) \/ DeleteUserData(c) \/ DeleteUserDataFails(c) \/ DeleteRow(c)

CredentialNext ==
  \/ ChangePassword \/ DropCredential \/ FillToken
  \/ \E s \in Services : ExpireCredential(s)
  \/ \E p \in UserPods, s \in Services : FlightStep(p, s)
  \/ \E c \in Clients : ClientStep(c)

CredentialSpec == CredentialInit /\ [][CredentialNext]_credentialVars

----------------------------------------------------------------------------
Creds == 0 .. MaxCredentials

\* The types of the account, the cache and the handlers.
CredentialTypeOK ==
  /\ schoolPassword \in Passwords
  /\ issued \in Creds
  /\ valid \subseteq 1 .. issued
  /\ account \in 0 .. MaxPassword
  /\ credCache \in [Services -> [cred : 0 .. issued, late : BOOLEAN]]
  /\ \A p \in UserPods, s \in Services :
       LET f == flights[p][s]
       IN /\ f.pc \in {"idle", "read", "check", "find", "login", "store", "answer"}
          /\ f.password \in 0 .. MaxPassword /\ f.cred \in 0 .. issued
          /\ f.late \in BOOLEAN /\ f.live \subseteq 1 .. issued
          /\ f.pc = "login" => f.password # 0
  /\ \A f \in fills : f.service \in AsyncServices /\ f.cred \in 1 .. issued
  /\ \A c \in Clients : clients[c].password \in 0 .. MaxPassword
  /\ accepted \subseteq Passwords

\* Whoever asks for a cookie or a token gets one that the site honoured at
\* some moment of that request: one that an older goroutine wrote over a
\* newer one, or that was cached before a deletion, is never passed on
\* unseen (user.go:187, user.go:287).
AnswersWereLive ==
  \A p \in UserPods, s \in Services :
    flights[p][s].pc = "answer" => flights[p][s].cred \in flights[p][s].live

\* Without an account no credential is kept, but for one whose fetch was
\* under way when the credentials were cleared: no path of Delete, failed
\* or not, leaves an older one behind (user.go:72).
OrphansMetTheDeletion ==
  account = 0 => \A s \in Services : credCache[s].cred # 0 => credCache[s].late

\* The stored password is one the university once accepted, whatever falls
\* back to the local record while the university is out of reach
\* (user.go:135).
StoredWasAccepted == account # 0 => account \in accepted

\* What is kept of an account stays justified, whichever of its requests
\* fail: the password by the university, the credentials by the account.
AccountJustified == StoredWasAccepted /\ OrphansMetTheDeletion
=============================================================================
