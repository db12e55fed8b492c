--------------------------- MODULE LoginSessions ---------------------------
(* The sessions of the bff: a login hands out a refresh token and a short  *)
(* token under a new session ID, the refresh token yields further short    *)
(* tokens, and a logout writes the session ID to Redis, where the          *)
(* middleware and RefreshToken look it up.  Nothing else is kept of a      *)
(* session: the tokens carry their own expiry.  Time is a counter.         *)
EXTENDS Naturals

CONSTANTS Sessions,     \* session IDs; each is used for one login
          TokenLife,    \* how long a short token is good for (an hour)
          RefreshLife,  \* rcExpiration: refresh tokens and logout records (six months)
          HandlerTime,  \* how long a handler may take from its check to its answer
          MaxTime       \* bound of the clock

ASSUME SessionAssumption ==
  /\ TokenLife \in Nat \ {0} /\ RefreshLife \in Nat /\ HandlerTime \in Nat
  /\ MaxTime \in Nat \ {0}
  /\ HandlerTime + TokenLife <= RefreshLife

VARIABLES
  clock,        \* the time
  refreshUntil, \* when a session's refresh token expires; 0 before its login
  tokenUntil,   \* when its last short token expires
  loggedOutUntil, \* when its logout record expires; 0 without one
  refreshing,   \* since when a RefreshToken has found the session good; MaxTime + 1 for none
  requesting,   \* requests the middleware let through, by session
  loggedOut     \* history: sessions somebody logged out of

sessionVars == <<clock, refreshUntil, tokenUntil, loggedOutUntil, refreshing,
                 requesting, loggedOut>>

Never == MaxTime + 1

SessionInit ==
  /\ clock = 1
  /\ refreshUntil = [s \in Sessions |-> 0]
  /\ tokenUntil = [s \in Sessions |-> 0]
  /\ loggedOutUntil = [s \in Sessions |-> 0]
  /\ refreshing = [s \in Sessions |-> Never]
  /\ requesting = [s \in Sessions |-> FALSE]
  /\ loggedOut = {}

\* CheckSession: there is no record of a logout.
SessionGood(s) == loggedOutUntil[s] <= clock

\* SetLoginToken, after the password was checked.
LogIn(s) ==
  /\ refreshUntil[s] = 0
  /\ refreshUntil' = [refreshUntil EXCEPT ![s] = clock + RefreshLife]
  /\ tokenUntil' = [tokenUntil EXCEPT ![s] = clock + TokenLife]
  /\ UNCHANGED <<clock, loggedOutUntil, refreshing, requesting, loggedOut>>

\* RefreshToken up to its CheckSession; an error of Redis refuses.
BeginRefresh(s) ==
  /\ clock < refreshUntil[s]
  /\ SessionGood(s)
  /\ refreshing[s] = Never
  /\ refreshing' = [refreshing EXCEPT ![s] = clock]
  /\ UNCHANGED <<clock, refreshUntil, tokenUntil, loggedOutUntil, requesting, loggedOut>>

\* SetJWTToken of RefreshToken.
EndRefresh(s) ==
  /\ refreshing[s] # Never
  /\ refreshing' = [refreshing EXCEPT ![s] = Never]
  /\ tokenUntil' = [tokenUntil EXCEPT ![s] = clock + TokenLife]
  /\ UNCHANGED <<clock, refreshUntil, loggedOutUntil, requesting, loggedOut>>

\* LoginMiddleware: the token has not expired and the session is good.
AdmitRequest(s) ==
  /\ clock < tokenUntil[s]
  /\ SessionGood(s)
  /\ ~requesting[s]
  /\ requesting' = [requesting EXCEPT ![s] = TRUE]
  /\ UNCHANGED <<clock, refreshUntil, tokenUntil, loggedOutUntil, refreshing, loggedOut>>

EndRequest(s) ==
  /\ requesting[s]
  /\ requesting' = [requesting EXCEPT ![s] = FALSE]
  /\ UNCHANGED <<clock, refreshUntil, tokenUntil, loggedOutUntil, refreshing, loggedOut>>

LogOut_TokenLife(s) ==
  /\ requesting[s]
  /\ requesting' = [requesting EXCEPT ![s] = FALSE]
  /\ loggedOutUntil' = [loggedOutUntil EXCEPT ![s] = clock + TokenLife]
  /\ loggedOut' = loggedOut \cup {s}
  /\ UNCHANGED <<clock, refreshUntil, tokenUntil, refreshing>>

\* ClearToken, in Logout or DeleteAccount, behind the middleware.
LogOut(s) ==
  /\ requesting[s]
  /\ requesting' = [requesting EXCEPT ![s] = FALSE]
  /\ loggedOutUntil' = [loggedOutUntil EXCEPT ![s] = clock + RefreshLife]
  /\ loggedOut' = loggedOut \cup {s}
  /\ UNCHANGED <<clock, refreshUntil, tokenUntil, refreshing>>

\* No handler takes longer than HandlerTime.
PassTime ==
  /\ clock < MaxTime
  /\ \A s \in Sessions : refreshing[s] # Never => clock < refreshing[s] + HandlerTime
  /\ clock' = clock + 1
  /\ UNCHANGED <<refreshUntil, tokenUntil, loggedOutUntil, refreshing, requesting,
                 loggedOut>>

SessionStep(s) ==
  \/ LogIn(s) \/ BeginRefresh(s) \/ EndRefresh(s)
  \/ AdmitRequest(s) \/ EndRequest(s) \/ LogOut(s)

SessionNext == PassTime \/ \E s \in Sessions : SessionStep(s)

SessionSpec == SessionInit /\ [][SessionNext]_sessionVars
----------------------------------------------------------------------------
\* The types of the tokens' times and of the records.
SessionTypeOK ==
  /\ clock \in 1 .. MaxTime
  /\ refreshUntil \in [Sessions -> Nat] /\ tokenUntil \in [Sessions -> Nat]
  /\ loggedOutUntil \in [Sessions -> Nat]
  /\ \A s \in Sessions : /\ refreshUntil[s] <= clock + RefreshLife
                          /\ tokenUntil[s] <= clock + TokenLife
                          /\ loggedOutUntil[s] <= clock + RefreshLife
  /\ refreshing \in [Sessions -> 1 .. Never]
  /\ requesting \in [Sessions -> BOOLEAN]
  /\ loggedOut \subseteq Sessions

\* Who logged out stays out: after a logout the middleware admits no request
\* of the session and RefreshToken finds it good no more, although the record
\* of the logout expires and a refresh that was under way may still hand out
\* a token after it (redis.go:57, user.go:157-165).
LoggedOutStaysOut ==
  [][\A s \in Sessions :
       s \in loggedOut =>
         /\ (requesting'[s] => requesting[s])
         /\ (refreshing[s] = Never => refreshing'[s] = Never)]_sessionVars
=============================================================================
