---------------------------- MODULE SessionStore ----------------------------
(***************************************************************************)
(* The server-side session store of the console's OIDC login               *)
(* (src/auth/session.go) and the three request handlers that use it        *)
(* (src/auth/auth_oidc.go: login, logout, authenticate).                    *)
(*                                                                         *)
(* The store keeps every session twice: byToken finds it from the cookie,  *)
(* byAge remembers the order of insertion so that the oldest can be        *)
(* dropped.  Each handler is a process; the code it runs between two       *)
(* releases of ss.mux is one action.                                       *)
(*                                                                         *)
(* byAge is a Go slice.  Here it is a set of records that carry the        *)
(* position at which they were appended: deleting from the slice keeps the *)
(* order of the rest, so the order of "at" is the order of the slice.      *)
(***************************************************************************)
EXTENDS Integers, FiniteSets

CONSTANTS
    Request,      \* concurrent HTTP requests
    Token,        \* values randomString(128) can return
    Lifetimes,    \* what an identity provider may put between iat and exp
    MaxSessions,  \* NewSessionStore(maxSessions)
    MaxTime       \* bound: the clock stops there

ASSUME RequestAssumption == IsFiniteSet(Request)
ASSUME LifetimesAssumption == Lifetimes \subseteq Nat
ASSUME MaxSessionsAssumption == MaxSessions \in Nat
ASSUME MaxTimeAssumption == MaxTime \in Nat

NoSession == -1   \* the nil a Go map returns for a missing key

VARIABLES
    now,        \* the wall clock
    byToken,    \* token -> expiry of the login state, or NoSession
    byAge,      \* the slice of oldSession{token, exp}
    added,      \* how many sessions were ever appended
    req,        \* what each request is doing, and its local variables
    issued,     \* history: tokens ever drawn
    signedIn,   \* history: sessions appended whose user has not logged out,
                \* without those a token collision or a crash took
    loggedOut   \* history: tokens whose logout has completed

vars == <<now, byToken, byAge, added, req, issued, signedIn, loggedOut>>
store == <<byToken, byAge, added>>

Stages == {"idle", "lookup", "collision", "insert", "prune",
           "authenticate", "logout", "expired", "delete"}

OldSession == [token : Token, exp : Nat, at : Nat]
Local == [pc : Stages, token : Token \cup {""}, exp : Nat]

\* Outside a request nothing is remembered; a Go string starts empty.
Idle == [pc |-> "idle", token |-> "", exp |-> 0]

Goto(r, stage) ==
    req' = [req EXCEPT ![r] = IF stage = "idle" THEN Idle ELSE [@ EXCEPT !.pc = stage]]

Expired(exp) == exp < now

Init ==
    /\ now = 0
    /\ byToken = [t \in Token |-> NoSession]
    /\ byAge = {}
    /\ added = 0
    /\ req = [r \in Request |-> Idle]
    /\ issued = {}
    /\ signedIn = {}
    /\ loggedOut = {}

-----------------------------------------------------------------------------
(* The critical sections of SessionStore. *)

WithoutToken(sessions, token) == {s \in sessions : s.token # token}

\* Fault: only the map is cleaned.
DeleteSession_MapOnly(token) ==
    /\ byToken' = [byToken EXCEPT ![token] = NoSession]
    /\ UNCHANGED <<byAge, added>>

\* deleteSession: the entry leaves both structures (only the log line of the
\* code tells an entry that byAge did not contain).
DeleteSession(token) ==
    /\ byToken' = [byToken EXCEPT ![token] = NoSession]
    /\ byAge' = WithoutToken(byAge, token)
    /\ UNCHANGED added

\* The loop of pruneSessions deletes byAge[i] and then increments i, so the
\* entry that slides into the hole is not looked at: an expired entry stays
\* exactly when the entry just before it was removed.
NextInSlice(p, s) == p.at < s.at /\ ~\E m \in byAge : p.at < m.at /\ m.at < s.at
ExpiredLoop(removed) ==
    \A s \in byAge : s \in removed <=> Expired(s.exp) /\ ~\E p \in removed : NextInSlice(p, s)

\* Fault: one session too many stays.
OldestOf_OffByOne(kept, old) ==
    /\ \A o \in old, s \in kept \ old : o.at < s.at
    /\ IF Cardinality(kept) <= MaxSessions + 1
         THEN old = {}
         ELSE Cardinality(kept \ old) = MaxSessions + 1

\* Fault: the slice is cut at the wrong end.
OldestOf_Newest(kept, old) ==
    /\ \A o \in old, s \in kept \ old : o.at > s.at
    /\ IF Cardinality(kept) <= MaxSessions
         THEN old = {}
         ELSE Cardinality(kept \ old) = MaxSessions

\* "Still too many sessions": the front of the slice goes until maxSessions fit.
OldestOf(kept, old) ==
    /\ \A o \in old, s \in kept \ old : o.at < s.at
    /\ IF Cardinality(kept) <= MaxSessions
         THEN old = {}
         ELSE Cardinality(kept \ old) = MaxSessions

Drop(gone) ==
    /\ byAge' = byAge \ gone
    /\ byToken' = [t \in Token |-> IF \E s \in gone : s.token = t THEN NoSession ELSE byToken[t]]

PruneSessions ==
    /\ \E removed \in SUBSET byAge :
         /\ ExpiredLoop(removed)
         /\ \E old \in SUBSET (byAge \ removed) :
              /\ OldestOf(byAge \ removed, old)
              /\ Drop(removed \cup old)
    /\ UNCHANGED added

-----------------------------------------------------------------------------
(* login *)

\* The provider's token verified: it is not expired yet.
StartLogin(r) ==
    /\ req[r].pc = "idle"
    /\ \E life \in Lifetimes :
         req' = [req EXCEPT ![r] = [pc |-> "lookup", token |-> "", exp |-> now + life]]
    /\ UNCHANGED <<now, store, issued, signedIn, loggedOut>>

\* addSession draws the token and reads byToken before it takes the lock.
\* randomString never returns the token of an earlier session, but may return
\* one now in the store: the collision addSession tests for.
AddLookup(r) ==
    /\ req[r].pc = "lookup"
    /\ \E t \in Token :
         /\ t \notin issued \/ byToken[t] # NoSession
         /\ req' = [req EXCEPT ![r] =
                [@ EXCEPT !.token = t, !.pc = IF byToken[t] # NoSession THEN "collision" ELSE "insert"]]
         /\ issued' = issued \cup {t}
    /\ UNCHANGED <<now, store, signedIn, loggedOut>>

AddCollision(r) ==
    /\ req[r].pc = "collision"
    /\ DeleteSession(req[r].token)
    /\ signedIn' = WithoutToken(signedIn, req[r].token)
    /\ Goto(r, "idle")
    /\ UNCHANGED <<now, issued, loggedOut>>

NewSession(r) == [token |-> req[r].token, exp |-> req[r].exp, at |-> added]

AddInsert(r) ==
    /\ req[r].pc = "insert"
    /\ byToken' = [byToken EXCEPT ![req[r].token] = req[r].exp]
    /\ byAge' = byAge \cup {NewSession(r)}
    /\ signedIn' = signedIn \cup {NewSession(r)}
    /\ added' = added + 1
    /\ Goto(r, "prune")
    /\ UNCHANGED <<now, issued, loggedOut>>

Prune(r) ==
    /\ req[r].pc = "prune"
    /\ PruneSessions
    /\ Goto(r, "idle")
    /\ UNCHANGED <<now, issued, signedIn, loggedOut>>

-----------------------------------------------------------------------------
(* authenticate and logout: both start with getLoginState *)

\* getSession, with any token a cookie can carry; a miss ends the request.
GetSession(r, stage) ==
    /\ req[r].pc = "idle"
    /\ \E t \in Token :
         /\ byToken[t] # NoSession
         /\ req' = [req EXCEPT ![r] = [pc |-> stage, token |-> t, exp |-> byToken[t]]]
    /\ UNCHANGED <<now, store, issued, signedIn, loggedOut>>

StartAuthenticate(r) == GetSession(r, "authenticate")
StartLogout(r) == GetSession(r, "logout")

\* The expiry is compared after the lock was released.
CheckAuthenticate(r) ==
    /\ req[r].pc = "authenticate"
    /\ Goto(r, IF Expired(req[r].exp) THEN "expired" ELSE "idle")
    /\ UNCHANGED <<now, store, issued, signedIn, loggedOut>>

CheckLogout(r) ==
    /\ req[r].pc = "logout"
    /\ Goto(r, IF Expired(req[r].exp) THEN "expired" ELSE "delete")
    /\ UNCHANGED <<now, store, issued, signedIn, loggedOut>>

DeleteExpired(r) ==
    /\ req[r].pc = "expired"
    /\ DeleteSession(req[r].token)
    /\ Goto(r, "idle")
    /\ UNCHANGED <<now, issued, signedIn, loggedOut>>

\* Fault: logout clears the cookie only.
LogoutDelete_CookieOnly(r) ==
    /\ req[r].pc = "delete"
    /\ loggedOut' = loggedOut \cup {req[r].token}
    /\ signedIn' = WithoutToken(signedIn, req[r].token)
    /\ Goto(r, "idle")
    /\ UNCHANGED <<now, store, issued>>

LogoutDelete(r) ==
    /\ req[r].pc = "delete"
    /\ DeleteSession(req[r].token)
    /\ loggedOut' = loggedOut \cup {req[r].token}
    /\ signedIn' = WithoutToken(signedIn, req[r].token)
    /\ Goto(r, "idle")
    /\ UNCHANGED <<now, issued>>

-----------------------------------------------------------------------------
(* the environment *)

Tick ==
    /\ now < MaxTime
    /\ now' = now + 1
    /\ UNCHANGED <<store, req, issued, signedIn, loggedOut>>

Writing == {"collision", "insert", "prune", "expired", "delete"}

\* The unlocked read of AddLookup races with every writer of the map.  The Go
\* runtime may stop the process with "concurrent map read and map write"; the
\* store is in memory, so the restarted server knows no session.
MapRaceCrash ==
    /\ \E r, w \in Request : r # w /\ req[r].pc = "lookup" /\ req[w].pc \in Writing
    /\ byToken' = [t \in Token |-> NoSession]
    /\ byAge' = {}
    /\ signedIn' = {}
    /\ req' = [r \in Request |-> Idle]
    /\ UNCHANGED <<now, added, issued, loggedOut>>

RequestStep(r) ==
    \/ StartLogin(r) \/ AddLookup(r) \/ AddCollision(r) \/ AddInsert(r) \/ Prune(r)
    \/ StartAuthenticate(r) \/ CheckAuthenticate(r)
    \/ StartLogout(r) \/ CheckLogout(r) \/ DeleteExpired(r) \/ LogoutDelete(r)

Next == Tick \/ MapRaceCrash \/ \E r \in Request : RequestStep(r)

Spec == Init /\ [][Next]_vars

-----------------------------------------------------------------------------
\* What the session store promises its handlers.

TypeOK ==
    /\ now \in Nat
    /\ byToken \in [Token -> Nat \cup {NoSession}]
    /\ byAge \in SUBSET OldSession
    /\ added \in Nat
    /\ req \in [Request -> Local]
    /\ issued \in SUBSET Token
    /\ signedIn \in SUBSET OldSession
    /\ loggedOut \in SUBSET Token

\* byToken and byAge hold the same sessions, each once (checkSessions in
\* session_test.go), whatever the handlers interleave: an entry only in byAge
\* would make a prune log out nobody, one only in byToken could never be
\* evicted.
SameSessions ==
    /\ \A s \in byAge : byToken[s.token] = s.exp
    /\ \A t \in Token : byToken[t] # NoSession => \E s \in byAge : s.token = t
    /\ \A s, u \in byAge : s.token = u.token \/ s.at = u.at => s = u

\* Each login inserts before it prunes, so at most the logins between the two
\* exceed maxSessions (pruneSessions, session.go:82-90).
AtLimit == {r \in Request : req[r].pc = "prune"}
BoundedStore == Cardinality(byAge) <= MaxSessions + Cardinality(AtLimit)

\* Once a logout answered, its token is not in the store again, although
\* other requests may still hold the login state they looked up before.
LoggedOutIsGone == \A t \in loggedOut : byToken[t] = NoSession

\* A session goes only by its own logout, by its expiry, or because at least
\* maxSessions logins were appended after it (session.go:54-95,
\* auth_oidc.go:86-121): no handler deletes the session of another with a
\* login state it looked up before, and no prune takes a younger one first.
PushedOut(s) == added - s.at > MaxSessions
StaysSignedIn ==
    \A s \in signedIn : s \in byAge \/ Expired(s.exp) \/ PushedOut(s)

\* What makes the five above inductive: where the tokens in flight are, ...
HasToken == Stages \ {"idle", "lookup"}
TokensInFlight ==
    /\ \A s \in byAge : s.token \in issued /\ s.at < added
    /\ loggedOut \subseteq issued
    /\ \A r \in Request : req[r].pc \in HasToken => req[r].token \in issued
    /\ \A r \in Request : req[r].pc = "insert" =>
         /\ byToken[req[r].token] = NoSession
         /\ req[r].token \notin loggedOut
         /\ \A o \in Request :
              req[o].pc \in HasToken /\ req[o].token = req[r].token => o = r

\* ... and what the handlers still know of the session they looked up.
LookedUp == {"authenticate", "logout", "expired", "delete"}
SessionsKnown ==
    /\ byAge \subseteq signedIn
    /\ \A s \in signedIn : s.token \in issued
    /\ \A s, u \in signedIn : s.token = u.token => s = u
    /\ \A r \in Request : req[r].pc = "insert" => \A s \in signedIn : s.token # req[r].token
    /\ \A r \in Request : req[r].pc \in LookedUp =>
         \A s \in signedIn : s.token = req[r].token => s.exp = req[r].exp
    /\ \A r \in Request : req[r].pc = "expired" => Expired(req[r].exp)

Inv ==
    /\ TypeOK
    /\ IsFiniteSet(byAge)
    /\ SameSessions
    /\ BoundedStore
    /\ LoggedOutIsGone
    /\ StaysSignedIn
    /\ TokensInFlight
    /\ SessionsKnown

\* "Pruned %v expired sessions" (session.go:81): after pruneSessions no
\* expired session is left. Violated: the loop skips the session behind each
\* one it removes.
PruneDropsExpired ==
    [][ \A r \in Request : Prune(r) => \A s \in byAge' : ~Expired(s.exp) ]_vars
=============================================================================
