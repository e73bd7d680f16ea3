------------------------------- MODULE Login -------------------------------
(***************************************************************************)
(* Logging in and out: the tabs of one browser, which share its cookies    *)
(* and its localStorage (src/frontend/public/co-fetch.js, module/auth.js,  *)
(* tokener.html, components/masthead.tsx), the console's server            *)
(* (src/auth/auth.go, auth_oidc.go, auth_openshift.go, server/middleware.  *)
(* go and server.go) and an identity provider.                             *)
(***************************************************************************)
EXTENDS Integers, FiniteSetsExt

CONSTANTS Tab,
          LoginPath,   \* paths below the console's; "/" is the first page
          MaxUnderway  \* bound of the model: requests on their way

ASSUME LoginAssumption == "/" \in LoginPath /\ "none" \notin LoginPath /\ MaxUnderway \in Nat

VARIABLES
    cookies,  \* the browser's: a session, the page that set csrf-token, that of state-token
    next,     \* localStorage: the path to come back to
    tabs,     \* what each tab shows, at which path, and where it is about to go
    asked     \* how many requests of a tab are on their way, by what they will do

loginVars == <<cookies, next, tabs, asked>>

-----------------------------------------------------------------------------
None == "none"
\* A tab shows a page of the console, is at the provider, sent back from there ("callback"),
\* in tokener.html, or shows something else ("away").  A page of the console that has been
\* told to go somewhere, to the login or away, lives on until that page is
\* there, and its requests are answered.
ErrorPath == "/error"
TabAt(at, path) == [at |-> at, path |-> path, to |-> None]

\* A request to Kubernetes that is going to be refused; a logout, with a path to come back
\* to ("expelled") or from the menu ("leaving"); or a logout given up, which the server may
\* still answer ("late").  Any other answer changes nothing here, nor does a 401 of a
\* service that is proxied (shouldLogout): those requests are left out.
Underway == {"401", "403", "expelled", "leaving", "late"}
NoneUnderway == [a \in Underway |-> 0]
AllUnderway == MapThenSumSet(LAMBDA t : MapThenSumSet(LAMBDA a : asked[t][a], Underway), Tab)
Asks(t, a) ==
    /\ tabs[t].at = "console" /\ AllUnderway < MaxUnderway
    /\ asked' = [asked EXCEPT ![t][a] = @ + 1]
Ends(t, a) == asked' = [asked EXCEPT ![t][a] = @ - 1]
Turns(t, a, b) == asked' = [asked EXCEPT ![t] = [asked[t] EXCEPT ![a] = @ - 1, ![b] = @ + 1]]

\* The session of the cookie is good while the server has it (OIDC) or the API server
\* knows the token (OpenShift).  A session no cookie names is nobody's.
LoginInit ==
    /\ cookies = [session |-> None, csrf |-> None, state |-> None] /\ next = None
    /\ tabs = [t \in Tab |-> TabAt("away", "/")] /\ asked = [t \in Tab |-> NoneUnderway]

WithSession == [cookies EXCEPT !.session = "good"]
WithoutSession == [cookies EXCEPT !.session = None]

\* indexHandler: every page that is loaded sets csrf-token to a value of its own, which
\* is named here for the tab.
PageLoads(t, path) ==
    /\ tabs' = [tabs EXCEPT ![t] = TabAt("console", path)]
    /\ cookies' = [cookies EXCEPT !.csrf = t]
    /\ asked' = [asked EXCEPT ![t] = NoneUnderway]

OpenConsole ==
    /\ \E t \in Tab : tabs[t].at = "away" /\ PageLoads(t, tabs[t].path)
    /\ UNCHANGED next

\* The router: another page of the console without loading it.
Navigate ==
    /\ \E t \in Tab, path \in LoginPath :
          tabs[t].at = "console" /\ tabs' = [tabs EXCEPT ![t].path = path]
    /\ UNCHANGED <<cookies, next, asked>>

\* The page that comes next is there: what the last one had asked for is dropped.
TurnsTo(t, at) ==
    /\ tabs' = [tabs EXCEPT ![t] = TabAt(at, "/")]
    /\ asked' = [asked EXCEPT ![t] = NoneUnderway]

LeaveFor ==
    /\ \E t \in Tab : tabs[t].at \in {"console", "provider"} /\ TurnsTo(t, "away")
    /\ UNCHANGED <<cookies, next>>

-----------------------------------------------------------------------------
\* authMiddlewareWithUser: who is asking, then whether the page is the console's own; then
\* the API server is asked with the token of the session.  That a session has ended is seen
\* first of all with OIDC, last of all with OpenShift.
Refusals(session, csrf) ==
    {a \in {"401", "403"} :
        IF a = "401" THEN session # "good" ELSE session # None /\ csrf # cookies.csrf}

\* coFetch reads csrf-token when it sends.  Fault: what the page was loaded with is sent.
CoFetch_Loaded ==
    /\ \E t \in Tab : \E a \in Refusals(cookies.session, t) : Asks(t, a)
    /\ UNCHANGED <<cookies, next, tabs>>

CoFetch ==
    /\ \E t \in Tab : \E a \in Refusals(cookies.session, cookies.csrf) : Asks(t, a)
    /\ UNCHANGED <<cookies, next, tabs>>

\* setNext: logout without a path to come back to leaves that of another tab.  Fault: it
\* does not.
SetNext_Always(path) == next' = path

SetNext(path) == next' = IF path = None THEN next ELSE path

\* validateStatus: 401 from Kubernetes logs the user out, to come back to the path the page
\* is at by now, whether or not it is being logged out already.
Unauthorized(t) == SetNext(tabs[t].path) /\ Turns(t, "401", "expelled")

FetchAnswered ==
    /\ \E t \in Tab : \E a \in {"401", "403"} :
          /\ asked[t][a] > 0
          /\ IF a = "401" THEN Unauthorized(t) ELSE Ends(t, a) /\ UNCHANGED next
    /\ UNCHANGED <<cookies, tabs>>

\* Logout in the menu, as often as it is clicked.  With OpenShift the token is to be deleted
\* first, by a request the server sends without it: whatever the answer, authSvc.logout
\* goes on.
PressLogout ==
    /\ \E t \in Tab : SetNext(None) /\ Asks(t, "leaving")
    /\ UNCHANGED <<cookies, tabs>>

\* LogoutFunc empties the session's cookie, if the request comes through; with the answer or
\* after 20 s without one the page goes to the login, or to the address for users who log
\* out, where there is one.  The browser sends the cookie to paths below /api/ only: at
\* /auth/logout the server finds no session to delete, which stays in the store until it
\* expires.
LogoutAnswers ==
    /\ \E t \in Tab, a \in {"expelled", "leaving"} :
          /\ asked[t][a] > 0
          /\ \E to \in {"login"} \cup (IF a = "leaving" THEN {"away"} ELSE {}) :
                tabs' = [tabs EXCEPT ![t].to = to]
          /\ \/ Ends(t, a) /\ cookies' \in {cookies, WithoutSession}
             \/ Turns(t, a, "late") /\ UNCHANGED cookies
    /\ UNCHANGED next

\* The answer after all, while the page is still there: its cookie counts.
LateLogout ==
    /\ \E t \in Tab : asked[t]["late"] > 0 /\ Ends(t, "late")
    /\ cookies' = WithoutSession
    /\ UNCHANGED <<next, tabs>>

\* LoginFunc: a new state, in a cookie and in the address of the provider's page, which the
\* tab shows then.
LoginFunc ==
    /\ \E t \in Tab : tabs[t].to = "login" /\ TurnsTo(t, "provider") /\ cookies' = [cookies EXCEPT !.state = t]
    /\ UNCHANGED next

\* The browser shows the page for users who log out.
PageIsLeft ==
    /\ \E t \in Tab : tabs[t].to = "away" /\ TurnsTo(t, "away")
    /\ UNCHANGED <<cookies, next>>

\* The provider knows who it is, and sends the tab back.
ProviderAnswers ==
    /\ \E t \in Tab : tabs[t].at = "provider" /\ tabs' = [tabs EXCEPT ![t].at = "callback"]
    /\ UNCHANGED <<cookies, next, asked>>

\* CallbackFunc: the state is that of the last login this browser began; the code is
\* exchanged for a token, and login makes a session of it and a cookie.  Else, or when the
\* provider has sent an error, that is shown, by a page of the console.
Callback ==
    /\ \E t \in Tab :
          /\ tabs[t].at = "callback"
          /\ \/ PageLoads(t, ErrorPath)
             \/ /\ cookies.state = t /\ cookies' = WithSession
                /\ tabs' = [tabs EXCEPT ![t].at = "tokener"]
                /\ UNCHANGED asked
    /\ UNCHANGED next

\* tokener.html: go where the user was.
Tokener ==
    /\ \E t \in Tab :
          /\ tabs[t].at = "tokener"
          /\ next' = None
          /\ PageLoads(t, IF next = None THEN "/" ELSE next)

\* The session expires, with its cookie or before, or is pruned, the server starts anew, the
\* token is deleted elsewhere.
SessionEnds ==
    /\ cookies.session = "good" /\ cookies' \in {WithoutSession, [cookies EXCEPT !.session = "ended"]}
    /\ UNCHANGED <<next, tabs, asked>>

LoginNext ==
    \/ OpenConsole \/ Navigate \/ LeaveFor
    \/ CoFetch \/ FetchAnswered \/ PressLogout
    \/ LogoutAnswers \/ LateLogout \/ LoginFunc \/ PageIsLeft \/ ProviderAnswers \/ Callback \/ Tokener \/ SessionEnds

LoginSpec == LoginInit /\ [][LoginNext]_loginVars

LoginTypeOK ==
    /\ cookies.session \in {None, "good", "ended"} /\ {cookies.csrf, cookies.state} \subseteq Tab \cup {None}
    /\ next \in LoginPath \cup {None, ErrorPath}
    /\ \A t \in Tab : /\ tabs[t].at \in {"console", "provider", "callback", "tokener", "away"}
                      /\ tabs[t].to \in {None, "login", "away"}
                      /\ tabs[t].at # "console" => tabs[t].to = None /\ asked[t] = NoneUnderway
    /\ asked \in [Tab -> [Underway -> Nat]]

-----------------------------------------------------------------------------
\* A page that was loaded long ago still sends the token the server compares with, although
\* other tabs have replaced the cookie since: requests are refused for want of a session
\* only (co-fetch.js:86, auth.go:422).
FetchesAreAccepted ==
    \A t \in Tab : asked[t]["403"] = 0

\* A path to come back to is kept until a login ends, whatever other tabs do: it gives way
\* only to the path of a page that is refused, there and then, and the tab that takes it
\* goes there (auth.js:11, tokener.html:45).  The last refusal wins, of whichever tab.
NextIsKept ==
    next # None /\ next' # next =>
       \E t \in Tab :
          \/ /\ tabs[t].at = "console" /\ next' = tabs[t].path
             /\ asked'[t]["401"] < asked[t]["401"] /\ asked'[t]["expelled"] > asked[t]["expelled"]
          \/ tabs[t].at = "tokener" /\ tabs'[t].at = "console" /\ tabs'[t].path = next

BackWhereTheyWere == [][NextIsKept]_loginVars

\* "if (window.SERVER_FLAGS.logoutRedirect && !next)" (auth.js:59): a page the user logged
\* out of goes where users go who log out.  Violated: a request that is refused meanwhile
\* logs out once more, with a path, which leads to the login, and that path replaces the one
\* another tab waits to come back to.
LogoutIsQuiet ==
    [][ \A t \in Tab : asked[t]["leaving"] > 0 => asked'[t]["expelled"] <= asked[t]["expelled"] ]_loginVars
=============================================================================
