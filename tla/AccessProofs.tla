---------------------------- MODULE AccessProofs ----------------------------
(***************************************************************************)
(* Who the console asks for: the requests of any number of tabs are those  *)
(* of the page's own cookies and lead back where the user was; whoever is  *)
(* impersonated is so on every way; the server that serves is the one its  *)
(* flags and its file describe; and a rule or a binding grants what its    *)
(* form shows, for any verbs, resources, roles and subjects, each of its   *)
(* type.                                                                   *)
(***************************************************************************)
EXTENDS Login, Impersonation, Bridge, RBAC, SequenceTheorems, TLAPS

Sites == {"console", "provider", "callback", "tokener", "away"}
Goals == {None, "login", "away"}
Locations == [at : Sites, path : LoginPath \cup {ErrorPath}, to : Goals]
CookieJars == [session : {None, "good", "ended"}, csrf : Tab \cup {None}, state : Tab \cup {None}]

\* No answer on its way is a 403, only a page of the console has asked for anything or is
\* about to go elsewhere, and what the tabs and cookies hold has its type.
LoginInv ==
    /\ cookies \in CookieJars
    /\ next \in LoginPath \cup {None, ErrorPath}
    /\ tabs \in [Tab -> Locations]
    /\ asked \in [Tab -> [Underway -> Nat]]
    /\ \A t \in Tab : asked[t]["403"] = 0
    /\ \A t \in Tab : tabs[t].at # "console" => tabs[t].to = None /\ asked[t] = NoneUnderway

\* A tab somewhere is a location.
LEMMA TabAtIsTyped ==
    ASSUME NEW at \in Sites, NEW path \in LoginPath \cup {ErrorPath}
    PROVE  /\ TabAt(at, path) \in Locations /\ TabAt(at, path).at = at /\ TabAt(at, path).path = path
           /\ TabAt(at, path).to = None
BY DEF TabAt, Locations, Goals

\* Nothing asked for is as many requests as there are.
LEMMA NoneUnderwayIsTyped == NoneUnderway \in [Underway -> Nat] /\ NoneUnderway["403"] = 0
BY DEF NoneUnderway, Underway

\* One request more, one less, or one that turns into another: none is a 403.
LEMMA AskedIsTyped ==
    ASSUME LoginInv, NEW t \in Tab, NEW a \in Underway \ {"403"}, NEW b \in Underway \ {"403"},
           \/ asked' = [asked EXCEPT ![t][a] = @ + 1]
           \/ asked[t][a] > 0 /\ a # b /\ (Ends(t, a) \/ Turns(t, a, b))
    PROVE  /\ asked' \in [Tab -> [Underway -> Nat]]
           /\ \A u \in Tab : asked'[u]["403"] = 0
           /\ \A u \in Tab \ {t} : asked'[u] = asked[u]
<1>1. asked \in [Tab -> [Underway -> Nat]] /\ "403" \in Underway /\ asked[t] \in [Underway -> Nat]
  BY DEF LoginInv, Underway
<1>2. \A u \in Tab : asked[u]["403"] = 0
  BY DEF LoginInv
<1>3. PICK counts \in [Underway -> Nat] : counts["403"] = 0 /\ asked' = [asked EXCEPT ![t] = counts]
  <2>1. CASE asked' = [asked EXCEPT ![t][a] = @ + 1]
    <3> DEFINE counts == [asked[t] EXCEPT ![a] = @ + 1]
    <3>1. counts \in [Underway -> Nat] /\ counts["403"] = 0
      BY <1>1, <1>2
    <3>2. asked' = [asked EXCEPT ![t] = counts]
      BY <2>1
    <3> QED
      BY <3>1, <3>2
  <2>2. CASE asked[t][a] > 0 /\ Ends(t, a)
    <3> DEFINE counts == [asked[t] EXCEPT ![a] = @ - 1]
    <3>1. counts \in [Underway -> Nat] /\ counts["403"] = 0
      BY <1>1, <1>2, <2>2
    <3>2. asked' = [asked EXCEPT ![t] = counts]
      BY <2>2 DEF Ends
    <3> QED
      BY <3>1, <3>2
  <2>3. CASE asked[t][a] > 0 /\ a # b /\ Turns(t, a, b)
    <3> DEFINE counts == [asked[t] EXCEPT ![a] = @ - 1, ![b] = @ + 1]
    <3>1. counts \in [Underway -> Nat] /\ counts["403"] = 0
      BY <1>1, <1>2, <2>3
    <3>2. asked' = [asked EXCEPT ![t] = counts]
      BY <2>3 DEF Turns
    <3> QED
      BY <3>1, <3>2
  <2> QED
    BY <2>1, <2>2, <2>3
<1> QED
  BY <1>1, <1>2, <1>3

\* Another page in a tab, loaded from the console or not: its predecessor's requests are gone.
LEMMA PageChanges ==
    ASSUME LoginInv, NEW t \in Tab, NEW at \in Sites, NEW path \in LoginPath \cup {ErrorPath},
           tabs' = [tabs EXCEPT ![t] = TabAt(at, path)], asked' = [asked EXCEPT ![t] = NoneUnderway],
           cookies' \in CookieJars, next' \in LoginPath \cup {None, ErrorPath}
    PROVE  LoginInv' /\ tabs'[t].at = at /\ tabs'[t].path = path
<1>1. TabAt(at, path) \in Locations /\ TabAt(at, path).to = None
  BY TabAtIsTyped
<1>2. tabs' \in [Tab -> Locations] /\ tabs'[t] = TabAt(at, path) /\ \A u \in Tab \ {t} : tabs'[u] = tabs[u]
  BY <1>1 DEF LoginInv
<1>3. /\ asked' \in [Tab -> [Underway -> Nat]] /\ asked'[t] = NoneUnderway
      /\ \A u \in Tab \ {t} : asked'[u] = asked[u]
  BY NoneUnderwayIsTyped DEF LoginInv
<1>4. \A u \in Tab : asked'[u]["403"] = 0
  BY <1>3, NoneUnderwayIsTyped DEF LoginInv
<1>5. \A u \in Tab : tabs'[u].at # "console" => tabs'[u].to = None /\ asked'[u] = NoneUnderway
  BY <1>1, <1>2, <1>3 DEF LoginInv
<1>6. tabs'[t].at = at /\ tabs'[t].path = path
  BY <1>2, TabAtIsTyped
<1> QED
  BY <1>2, <1>3, <1>4, <1>5, <1>6 DEF LoginInv

LEMMA PageLoadsInv ==
    ASSUME LoginInv, NEW t \in Tab, NEW path \in LoginPath \cup {ErrorPath}, PageLoads(t, path),
           next' \in LoginPath \cup {None, ErrorPath}
    PROVE  LoginInv' /\ tabs'[t].at = "console" /\ tabs'[t].path = path
<1>1. cookies' \in CookieJars
  BY DEF PageLoads, LoginInv, CookieJars
<1> QED
  BY <1>1, PageChanges DEF PageLoads, Sites

LEMMA TurnsToInv ==
    ASSUME LoginInv, NEW t \in Tab, NEW at \in Sites, TurnsTo(t, at), cookies' \in CookieJars, UNCHANGED next
    PROVE  LoginInv'
<1>1. "/" \in LoginPath /\ next' \in LoginPath \cup {None, ErrorPath}
  BY LoginAssumption DEF LoginInv
<1> QED
  BY <1>1, PageChanges DEF TurnsTo

\* The token of the page is the cookie's, whatever page has set it last.
LEMMA NotForbidden ==
    ASSUME NEW session
    PROVE  Refusals(session, cookies.csrf) \subseteq {"401"}
BY DEF Refusals

LEMMA LoginInitInv == LoginInit => LoginInv
<1> SUFFICES ASSUME LoginInit PROVE LoginInv
  OBVIOUS
<1>1. TabAt("away", "/") \in Locations /\ TabAt("away", "/").to = None
  BY TabAtIsTyped, LoginAssumption DEF Sites
<1>2. cookies \in CookieJars /\ next \in LoginPath \cup {None, ErrorPath}
  BY DEF LoginInit, CookieJars
<1> QED
  BY <1>1, <1>2, NoneUnderwayIsTyped DEF LoginInit, LoginInv

\* A step that only changes what a page of the console has asked for.
LEMMA AskedInv ==
    ASSUME LoginInv, NEW t \in Tab, tabs[t].at = "console",
           asked' \in [Tab -> [Underway -> Nat]], \A u \in Tab : asked'[u]["403"] = 0,
           \A u \in Tab \ {t} : asked'[u] = asked[u],
           tabs' \in [Tab -> Locations], tabs'[t].at = "console", \A u \in Tab \ {t} : tabs'[u] = tabs[u],
           cookies' \in CookieJars, next' \in LoginPath \cup {None, ErrorPath}
    PROVE  LoginInv'
BY DEF LoginInv

\* Where requests are on their way, or where the tab is told to go, there is a page of the
\* console.
LEMMA AskingIsConsole ==
    ASSUME LoginInv, NEW t \in Tab, NEW a \in Underway, asked[t][a] > 0
    PROVE  tabs[t].at = "console"
<1>1. NoneUnderway[a] = 0
  BY DEF NoneUnderway
<1> QED
  BY <1>1 DEF LoginInv

\* What a step does to the tabs, to the path to come back to and to what is asked.
LEMMA LoginNextInv == LoginInv /\ [LoginNext]_loginVars => LoginInv' /\ (UNCHANGED loginVars \/ NextIsKept)
<1> SUFFICES ASSUME LoginInv, [LoginNext]_loginVars PROVE LoginInv' /\ (UNCHANGED loginVars \/ NextIsKept)
  OBVIOUS
<1>a. /\ cookies \in CookieJars /\ next \in LoginPath \cup {None, ErrorPath} /\ tabs \in [Tab -> Locations]
      /\ asked \in [Tab -> [Underway -> Nat]] /\ \A t \in Tab : asked[t]["403"] = 0
  BY DEF LoginInv
<1>b. \A t \in Tab : tabs[t].path \in LoginPath \cup {ErrorPath}
  BY <1>a DEF Locations
<1>1. CASE OpenConsole
  <2>1. PICK t \in Tab : tabs[t].at = "away" /\ PageLoads(t, tabs[t].path) /\ UNCHANGED next
    BY <1>1 DEF OpenConsole
  <2> QED
    BY <1>a, <1>b, <2>1, PageLoadsInv DEF NextIsKept
<1>2. CASE Navigate
  <2>1. PICK t \in Tab, path \in LoginPath :
          /\ tabs[t].at = "console" /\ tabs' = [tabs EXCEPT ![t].path = path]
          /\ UNCHANGED <<cookies, next, asked>>
    BY <1>2 DEF Navigate
  <2>2. [tabs[t] EXCEPT !.path = path] \in Locations /\ [tabs[t] EXCEPT !.path = path].at = "console"
    BY <1>a, <2>1 DEF Locations
  <2>3. tabs' \in [Tab -> Locations] /\ tabs'[t].at = "console" /\ \A u \in Tab \ {t} : tabs'[u] = tabs[u]
    BY <1>a, <2>1, <2>2
  <2> QED
    BY <1>a, <2>1, <2>3, AskedInv DEF NextIsKept
<1>3. CASE LeaveFor
  <2>1. PICK t \in Tab : TurnsTo(t, "away") /\ UNCHANGED <<cookies, next>>
    BY <1>3 DEF LeaveFor
  <2> QED
    BY <1>a, <2>1, TurnsToInv DEF NextIsKept, Sites
<1>4. CASE CoFetch
  <2>1. PICK t \in Tab : (\E a \in Refusals(cookies.session, cookies.csrf) : Asks(t, a)) /\ UNCHANGED <<cookies, next, tabs>>
    BY <1>4 DEF CoFetch
  <2>2. PICK a \in Refusals(cookies.session, cookies.csrf) : Asks(t, a)
    BY <2>1
  <2>3. a = "401" /\ a \in Underway \ {"403"}
    BY NotForbidden DEF Underway
  <2>4. tabs[t].at = "console" /\ asked' = [asked EXCEPT ![t][a] = @ + 1]
    BY <2>2 DEF Asks
  <2>5. /\ asked' \in [Tab -> [Underway -> Nat]] /\ \A u \in Tab : asked'[u]["403"] = 0
        /\ \A u \in Tab \ {t} : asked'[u] = asked[u]
    BY <2>3, <2>4, AskedIsTyped
  <2> QED
    BY <1>a, <2>1, <2>4, <2>5, AskedInv DEF NextIsKept
<1>5. CASE FetchAnswered
  <2>1. PICK t \in Tab, a \in {"401", "403"} :
          /\ asked[t][a] > 0
          /\ IF a = "401" THEN Unauthorized(t) ELSE Ends(t, a) /\ UNCHANGED next
    BY <1>5 DEF FetchAnswered
  <2>2. a = "401" /\ UNCHANGED <<cookies, tabs>>
    BY <1>5, <1>a, <2>1 DEF FetchAnswered
  <2>3. Turns(t, "401", "expelled") /\ next' = IF tabs[t].path = None THEN next ELSE tabs[t].path
    BY <2>1, <2>2 DEF Unauthorized, SetNext
  <2>4. tabs[t].at = "console"
    BY <2>1, <2>2, AskingIsConsole DEF Underway
  <2>5. "401" \in Underway \ {"403"} /\ "expelled" \in Underway \ {"403"}
    BY DEF Underway
  <2>6. /\ asked' \in [Tab -> [Underway -> Nat]] /\ \A u \in Tab : asked'[u]["403"] = 0
        /\ \A u \in Tab \ {t} : asked'[u] = asked[u]
    BY <2>1, <2>2, <2>3, <2>5, AskedIsTyped
  <2>7. LoginInv'
    BY <1>a, <1>b, <2>2, <2>3, <2>4, <2>6, AskedInv
  <2>8. asked'[t] = [asked[t] EXCEPT !["401"] = @ - 1, !["expelled"] = @ + 1] /\ asked[t] \in [Underway -> Nat]
    BY <1>a, <2>3 DEF Turns
  <2>9. asked'[t]["401"] < asked[t]["401"] /\ asked'[t]["expelled"] > asked[t]["expelled"]
    BY <2>5, <2>8
  <2> QED
    BY <2>3, <2>4, <2>7, <2>9 DEF NextIsKept
<1>6. CASE PressLogout
  <2>1. PICK t \in Tab : Asks(t, "leaving") /\ UNCHANGED <<cookies, next, tabs>>
    BY <1>6 DEF PressLogout, SetNext
  <2>2. tabs[t].at = "console" /\ asked' = [asked EXCEPT ![t]["leaving"] = @ + 1] /\ "leaving" \in Underway \ {"403"}
    BY <2>1 DEF Asks, Underway
  <2>3. /\ asked' \in [Tab -> [Underway -> Nat]] /\ \A u \in Tab : asked'[u]["403"] = 0
        /\ \A u \in Tab \ {t} : asked'[u] = asked[u]
    BY <2>2, AskedIsTyped
  <2> QED
    BY <1>a, <2>1, <2>2, <2>3, AskedInv DEF NextIsKept
<1>7. CASE LogoutAnswers
  <2>1. PICK t \in Tab, a \in {"expelled", "leaving"} :
          /\ asked[t][a] > 0
          /\ \E to \in {"login"} \cup (IF a = "leaving" THEN {"away"} ELSE {}) : tabs' = [tabs EXCEPT ![t].to = to]
          /\ \/ Ends(t, a) /\ cookies' \in {cookies, WithoutSession}
             \/ Turns(t, a, "late") /\ UNCHANGED cookies
    BY <1>7 DEF LogoutAnswers
  <2>2. PICK to \in {"login", "away"} : tabs' = [tabs EXCEPT ![t].to = to]
    BY <2>1
  <2>3. a \in Underway \ {"403"} /\ "late" \in Underway \ {"403"} /\ a # "late"
    BY DEF Underway
  <2>4. tabs[t].at = "console"
    BY <2>1, <2>3, AskingIsConsole
  <2>5. [tabs[t] EXCEPT !.to = to] \in Locations /\ [tabs[t] EXCEPT !.to = to].at = "console"
    BY <1>a, <2>4 DEF Locations, Goals
  <2>6. tabs' \in [Tab -> Locations] /\ tabs'[t].at = "console" /\ \A u \in Tab \ {t} : tabs'[u] = tabs[u]
    BY <1>a, <2>2, <2>5
  <2>7. /\ asked' \in [Tab -> [Underway -> Nat]] /\ \A u \in Tab : asked'[u]["403"] = 0
        /\ \A u \in Tab \ {t} : asked'[u] = asked[u]
    BY <2>1, <2>3, AskedIsTyped
  <2>8. cookies' \in CookieJars /\ UNCHANGED next
    BY <1>7, <1>a, <2>1 DEF LogoutAnswers, WithoutSession, CookieJars
  <2> QED
    BY <1>a, <2>4, <2>6, <2>7, <2>8, AskedInv DEF NextIsKept
<1>8. CASE LateLogout
  <2>1. PICK t \in Tab : asked[t]["late"] > 0 /\ Ends(t, "late")
    BY <1>8 DEF LateLogout
  <2>2. "late" \in Underway \ {"403"} /\ "leaving" \in Underway \ {"403"}
    BY DEF Underway
  <2>3. tabs[t].at = "console"
    BY <2>1, <2>2, AskingIsConsole
  <2>4. /\ asked' \in [Tab -> [Underway -> Nat]] /\ \A u \in Tab : asked'[u]["403"] = 0
        /\ \A u \in Tab \ {t} : asked'[u] = asked[u]
    BY <2>1, <2>2, AskedIsTyped
  <2>5. cookies' \in CookieJars /\ UNCHANGED <<next, tabs>>
    BY <1>8, <1>a DEF LateLogout, WithoutSession, CookieJars
  <2> QED
    BY <1>a, <2>3, <2>4, <2>5, AskedInv DEF NextIsKept
<1>9. CASE LoginFunc
  <2>1. PICK t \in Tab : TurnsTo(t, "provider") /\ cookies' = [cookies EXCEPT !.state = t] /\ UNCHANGED next
    BY <1>9 DEF LoginFunc
  <2>2. cookies' \in CookieJars
    BY <1>a, <2>1 DEF CookieJars
  <2> QED
    BY <2>1, <2>2, TurnsToInv DEF NextIsKept, Sites
<1>10. CASE PageIsLeft
  <2>1. PICK t \in Tab : TurnsTo(t, "away") /\ UNCHANGED <<cookies, next>>
    BY <1>10 DEF PageIsLeft
  <2> QED
    BY <1>a, <2>1, TurnsToInv DEF NextIsKept, Sites
<1>11. CASE ProviderAnswers
  <2>1. PICK t \in Tab : /\ tabs[t].at = "provider" /\ tabs' = [tabs EXCEPT ![t].at = "callback"]
                         /\ UNCHANGED <<cookies, next, asked>>
    BY <1>11 DEF ProviderAnswers
  <2>2. [tabs[t] EXCEPT !.at = "callback"] \in Locations
    BY <1>a DEF Locations, Sites
  <2>3. tabs' \in [Tab -> Locations] /\ tabs'[t].to = tabs[t].to /\ \A u \in Tab \ {t} : tabs'[u] = tabs[u]
    BY <1>a, <2>1, <2>2 DEF Locations
  <2>4. tabs[t].to = None /\ asked[t] = NoneUnderway
    BY <2>1 DEF LoginInv
  <2> QED
    BY <1>a, <2>1, <2>3, <2>4 DEF LoginInv, NextIsKept
<1>12. CASE Callback
  <2>1. PICK t \in Tab : /\ tabs[t].at = "callback" /\ UNCHANGED next
                         /\ \/ PageLoads(t, ErrorPath)
                            \/ /\ cookies' = WithSession
                               /\ tabs' = [tabs EXCEPT ![t].at = "tokener"]
                               /\ UNCHANGED asked
    BY <1>12 DEF Callback
  <2>2. CASE PageLoads(t, ErrorPath)
    BY <1>a, <2>1, <2>2, PageLoadsInv DEF NextIsKept
  <2>3. CASE /\ cookies' = WithSession
             /\ tabs' = [tabs EXCEPT ![t].at = "tokener"] /\ UNCHANGED asked
    <3>1. [tabs[t] EXCEPT !.at = "tokener"] \in Locations
      BY <1>a DEF Locations, Sites
    <3>2. tabs' \in [Tab -> Locations] /\ tabs'[t].to = tabs[t].to /\ \A u \in Tab \ {t} : tabs'[u] = tabs[u]
      BY <1>a, <2>3, <3>1 DEF Locations
    <3>3. tabs[t].to = None /\ asked[t] = NoneUnderway /\ cookies' \in CookieJars
      BY <1>a, <2>1, <2>3 DEF LoginInv, WithSession, CookieJars
    <3> QED
      BY <1>a, <2>1, <2>3, <3>2, <3>3 DEF LoginInv, NextIsKept
  <2> QED
    BY <2>1, <2>2, <2>3
<1>13. CASE Tokener
  <2>1. PICK t \in Tab : tabs[t].at = "tokener" /\ next' = None /\ PageLoads(t, IF next = None THEN "/" ELSE next)
    BY <1>13 DEF Tokener
  <2>2. (IF next = None THEN "/" ELSE next) \in LoginPath \cup {ErrorPath}
    BY <1>a, LoginAssumption
  <2> QED
    BY <2>1, <2>2, PageLoadsInv DEF NextIsKept
<1>14. CASE SessionEnds
  <2>1. cookies' \in CookieJars /\ UNCHANGED <<next, tabs, asked>>
    BY <1>14, <1>a DEF SessionEnds, WithoutSession, CookieJars
  <2> QED
    BY <2>1 DEF LoginInv, NextIsKept
<1>15. CASE UNCHANGED loginVars
  BY <1>15 DEF loginVars, LoginInv
<1> QED
  BY <1>1, <1>2, <1>3, <1>4, <1>5, <1>6, <1>7, <1>8, <1>9, <1>10, <1>11, <1>12, <1>13, <1>14, <1>15 DEF LoginNext

\* What the invariant is for.
LEMMA LoginInvFetches == LoginInv => LoginTypeOK /\ FetchesAreAccepted
BY DEF LoginInv, CookieJars, FetchesAreAccepted, LoginTypeOK, Locations, Sites, Goals

LEMMA LoginInvariant == LoginSpec => []LoginInv
BY LoginInitInv, LoginNextInv, PTL DEF LoginSpec

\* Any number of tabs: what they hold has its type, and no request of a page that was loaded
\* before another tab replaced the token is refused for that (co-fetch.js:86).
THEOREM NobodyIsForbidden == LoginSpec => [](LoginTypeOK /\ FetchesAreAccepted)
BY LoginInvFetches, LoginInvariant, PTL

\* Any number of tabs, each with any number of requests on their way, whether it is being
\* logged out, thrown out or about to go: the path to come back to gives way to the path of
\* a page that is refused and to nothing else, and the login that takes it goes there.
THEOREM ComesBackWhereItWas == LoginSpec => BackWhereTheyWere
<1>1. LoginInv /\ [LoginNext]_loginVars => [NextIsKept]_loginVars
  BY LoginNextInv
<1> QED
  BY <1>1, LoginInvariant, PTL DEF LoginSpec, BackWhereTheyWere

-----------------------------------------------------------------------------
(* Impersonation *)

\* The symbols that are replaced for a subprotocol are put back by the server: a name comes
\* out as it went in, of whatever symbols of base64 it is made.
LEMMA DecodesTheEncoded ==
    ASSUME NEW name \in Names
    PROVE  DecodeSubprotocol(EncodeName(name)) = name
<1>1. PICK n \in NameLength : name \in [1 .. n -> Symbol]
  BY DEF Names
<1> DEFINE encoded == EncodeName(name)
<1>2. DOMAIN name = 1 .. n /\ DOMAIN encoded = 1 .. n
  BY <1>1 DEF EncodeName
<1>3. ASSUME NEW i \in 1 .. n
      PROVE  (CASE encoded[i] = "_" -> "=" [] encoded[i] = "-" -> "/" [] OTHER -> encoded[i]) = name[i]
  <2>1. name[i] \in Symbol /\ name[i] # "_" /\ name[i] # "-"
    BY <1>1, ImpersonationAssumption
  <2>2. encoded[i] = CASE name[i] = "=" -> "_" [] name[i] = "/" -> "-" [] OTHER -> name[i]
    BY <1>2 DEF EncodeName
  <2> HIDE DEF encoded
  <2>3. CASE name[i] = "="
    BY <2>2, <2>3
  <2>4. CASE name[i] = "/"
    BY <2>2, <2>4
  <2>5. CASE name[i] # "=" /\ name[i] # "/"
    BY <2>1, <2>2, <2>5
  <2> QED
    BY <2>3, <2>4, <2>5
<1> HIDE DEF encoded
<1>4. DecodeSubprotocol(encoded) = [i \in 1 .. n |-> name[i]]
  BY <1>2, <1>3 DEF DecodeSubprotocol
<1> QED
  BY <1>1, <1>4 DEF encoded

\* A name is of at least one symbol.
LEMMA NamesAreSome == <<>> \notin Names
<1> SUFFICES ASSUME NEW n \in NameLength, <<>> \in [1 .. n -> Symbol] PROVE FALSE
  BY DEF Names
<1>1. n \in Nat \ {0}
  BY ImpersonationAssumption
<1> QED
  BY <1>1

Protocols(kind, name) == <<[for |-> kind, name |-> EncodeName(name)]>>
\* The subprotocols that are kept are those of the user or group that is impersonated.
Known(who) ==
    \/ who = Myself
    \/ /\ who.kind \in {"User", "Group"} /\ who.name \in Names
       /\ who.subprotocols = Protocols(who.kind, who.name)

ImpersonationInv ==
    /\ Known(impersonate) /\ Known(seen.by)
    /\ encoder \in {"native", "absent"}
    /\ starting \in Seq([kind : {"User", "Group"}, name : Names])
    /\ seen.as.user \in Names \cup {<<>>} /\ seen.as.group \in Names \cup {<<>>}
    /\ ActsAsShown

\* Where one protocol is for a header, it is that one that is decoded.
LEMMA TheOnlyOne ==
    ASSUME NEW kinds, NEW protocols,
           {i \in DOMAIN protocols : protocols[i].for \in kinds} = {1}
    PROVE  LastFor(kinds, protocols) = DecodeSubprotocol(protocols[1].name)
<1>1. Max({1}) = 1
  BY DEF Max
<1> QED
  BY <1>1 DEF LastFor

LEMMA NotOne ==
    ASSUME NEW kinds, NEW protocols, \A i \in DOMAIN protocols : protocols[i].for \notin kinds
    PROVE  LastFor(kinds, protocols) = <<>>
BY DEF LastFor

\* The protocols of an impersonation give the headers that a request has, be there another
\* protocol behind them or not.
LEMMA SocketsAsRequests ==
    ASSUME Known(impersonate), NEW use \in {"list", "terminal"}
    PROVE  Proxied(Subprotocols(use)) = Headers
<1> DEFINE own == Subprotocols(use)
           base64 == [for |-> "base64.channel.k8s.io", name |-> <<>>]
<1> SUFFICES Proxied(own) = Headers
  OBVIOUS
<1>1. own = impersonate.subprotocols \/ own = Append(impersonate.subprotocols, base64)
  BY DEF Subprotocols
<1>2. CASE impersonate = Myself
  <2>1. impersonate.subprotocols = <<>> /\ impersonate.kind = "none"
    BY <1>2 DEF Myself
  <2>2. \A i \in DOMAIN own : own[i].for = "base64.channel.k8s.io"
    BY <1>1, <2>1
  <2>3. LastFor({"User", "Group"}, own) = <<>> /\ LastFor({"Group"}, own) = <<>>
    BY <2>2, NotOne
  <2> QED
    BY <2>1, <2>3 DEF Proxied, Headers
<1>3. CASE impersonate # Myself
  <2> DEFINE kind == impersonate.kind
             name == impersonate.name
             his == [for |-> kind, name |-> EncodeName(name)]
  <2>1. kind \in {"User", "Group"} /\ name \in Names /\ impersonate.subprotocols = <<his>>
    BY <1>3 DEF Known, Protocols
  <2>2. own = <<his>> \/ own = <<his, base64>>
    BY <1>1, <2>1
  <2>3. own[1].name = EncodeName(name) /\ own[1].for = kind
    BY <2>2
  <2>4. \A i \in DOMAIN own : i = 1 \/ own[i].for = "base64.channel.k8s.io"
    BY <2>2
  <2>5. 1 \in DOMAIN own
    BY <2>2
  <2> HIDE DEF own
  <2>6. {i \in DOMAIN own : own[i].for \in {"User", "Group"}} = {1}
    BY <2>1, <2>3, <2>4, <2>5
  <2>7. LastFor({"User", "Group"}, own) = name
    BY <2>1, <2>3, <2>6, TheOnlyOne, DecodesTheEncoded
  <2>8. CASE kind = "Group"
    <3>1. {i \in DOMAIN own : own[i].for \in {"Group"}} = {1}
      BY <2>3, <2>4, <2>5, <2>8
    <3>2. LastFor({"Group"}, own) = name
      BY <2>1, <2>3, <3>1, TheOnlyOne, DecodesTheEncoded
    <3> QED
      BY <2>7, <2>8, <3>2 DEF Proxied, Headers
  <2>9. CASE kind = "User"
    <3>1. \A i \in DOMAIN own : own[i].for \notin {"Group"}
      BY <2>3, <2>4, <2>9
    <3>2. LastFor({"Group"}, own) = <<>>
      BY <3>1, NotOne
    <3> QED
      BY <2>7, <2>9, <3>2 DEF Proxied, Headers
  <2> QED
    BY <2>1, <2>8, <2>9
<1> QED
  BY <1>2, <1>3

\* A socket without them is nobody else's.
LEMMA OtherSockets ==
    ASSUME NEW use \in {"object", "events", "logs"}
    PROVE  Proxied(Subprotocols(use)) = NoOne
<1>1. \A i \in DOMAIN Subprotocols(use) : Subprotocols(use)[i].for \notin {"User", "Group"}
  BY DEF Subprotocols
<1> QED
  BY <1>1, NotOne DEF Proxied, NoOne

\* Whom the headers name is whom the store names.
LEMMA HeadersAsShown ==
    ASSUME Known(impersonate)
    PROVE  /\ Headers.user = impersonate.name
           /\ Headers.group = IF impersonate.kind = "Group" THEN impersonate.name ELSE <<>>
           /\ impersonate.name \in Names \cup {<<>>}
BY DEF Known, Headers, Myself

LEMMA ImpersonationInitInv == ImpersonationInit => ImpersonationInv
BY DEF ImpersonationInit, ImpersonationStarts, ImpersonationInv, Known, ActsAsShown, NoOne, Myself

\* What an impersonation sets.
LEMMA ImpersonatesKnown ==
    ASSUME Known(impersonate), NEW subject \in [kind : {"User", "Group"}, name : Names], Impersonates(subject)
    PROVE  Known(impersonate)'
BY DEF Impersonates, Known, Protocols

LEMMA ImpersonationNextInv == ImpersonationInv /\ [ImpersonationNext]_impersonationVars => ImpersonationInv'
<1> SUFFICES ASSUME ImpersonationInv, [ImpersonationNext]_impersonationVars PROVE ImpersonationInv'
  OBVIOUS
<1> USE DEF ImpersonationInv
<1>1. CASE StartImpersonate
  <2>1. PICK subject \in [kind : {"User", "Group"}, name : Names] :
          IF encoder = "absent" THEN starting' = Append(starting, subject) /\ UNCHANGED impersonate
          ELSE Impersonates(subject) /\ UNCHANGED starting
    BY <1>1 DEF StartImpersonate, Subject
  <2>2. Known(impersonate)'
    <3>1. CASE UNCHANGED impersonate
      BY <3>1 DEF Known
    <3>2. CASE Impersonates(subject)
      BY <3>2, ImpersonatesKnown
    <3> QED
      BY <2>1, <3>1, <3>2
  <2>3. starting' \in Seq([kind : {"User", "Group"}, name : Names])
    <3>1. starting' = Append(starting, subject) \/ starting' = starting
      BY <2>1
    <3> DEFINE Waiting == [kind : {"User", "Group"}, name : Names]
    <3>2. starting \in Seq(Waiting) /\ subject \in Waiting
      OBVIOUS
    <3> HIDE DEF Waiting
    <3>3. starting' \in Seq(Waiting)
      BY <3>1, <3>2
    <3> QED
      BY <3>3 DEF Waiting
  <2> QED
    BY <1>1, <2>2, <2>3 DEF StartImpersonate, ActsAsShown, Known
<1>2. CASE EncoderArrives
  <2>1. starting # <<>> /\ Impersonates(Head(starting)) /\ starting' = Tail(starting)
    BY <1>2 DEF EncoderArrives
  <2> DEFINE Waiting == [kind : {"User", "Group"}, name : Names]
  <2>2. Head(starting) \in Waiting /\ starting' \in Seq(Waiting)
    <3>1. starting \in Seq(Waiting)
      OBVIOUS
    <3> HIDE DEF Waiting
    <3> QED
      BY <2>1, <3>1
  <2>3. Known(impersonate)'
    BY <2>1, <2>2, ImpersonatesKnown
  <2> QED
    BY <1>2, <2>2, <2>3 DEF EncoderArrives, ActsAsShown, Known
<1>3. CASE StopImpersonate
  BY <1>3 DEF StopImpersonate, ActsAsShown, Known
<1>4. CASE SendRequest
  <2>1. seen' = [by |-> impersonate, how |-> "request", as |-> Headers] /\ UNCHANGED <<impersonate, encoder, starting>>
    BY <1>4 DEF SendRequest
  <2> QED
    BY <2>1, HeadersAsShown DEF ActsAsShown, Known
<1>5. CASE OpenSocket
  <2>1. PICK use \in {"list", "terminal", "object", "events", "logs"} :
          seen' = [by |-> impersonate, how |-> use, as |-> Proxied(Subprotocols(use))]
    BY <1>5 DEF OpenSocket
  <2>2. CASE use \in {"list", "terminal"}
    <3>1. seen'.as = Headers /\ seen'.by = impersonate
      BY <2>1, <2>2, SocketsAsRequests
    <3> QED
      BY <1>5, <3>1, HeadersAsShown DEF OpenSocket, ActsAsShown, Known
  <2>3. CASE use \in {"object", "events", "logs"}
    <3>1. seen'.as = NoOne /\ seen'.by = impersonate /\ seen'.how = use
      BY <2>1, <2>3, OtherSockets
    <3> QED
      BY <1>5, <2>3, <3>1 DEF OpenSocket, ActsAsShown, Known, NoOne
  <2> QED
    BY <2>2, <2>3
<1>6. CASE UNCHANGED impersonationVars
  BY <1>6 DEF impersonationVars, ActsAsShown, Known
<1> QED
  BY <1>1, <1>2, <1>3, <1>4, <1>5, <1>6 DEF ImpersonationNext

-----------------------------------------------------------------------------
(* The server *)

Settable ==
    CompleteFile \cup {"secret", "secret-file", "kubectl-id", "kubectl-secret", "kubectl-file", "https", "minTLSVersion"}

AnyFlags ==
    [mode : {"in-cluster", "off-cluster"}, k8sAuth : {"service-account", "bearer-token", "oidc", "openshift"},
     userAuth : {"disabled", "oidc", "openshift"}, malformed : BOOLEAN, given : SUBSET Settable]

Servers ==
    [endpoint : {"", "service", "flag"}, proxied : SUBSET {"kubernetes", "prometheus", "alertmanager"},
     staticUser : {Nobody, "service-account", "bearer-token"}, auther : {"nil", "oidc", "openshift"},
     kubectlAuther : BOOLEAN, kubectlSecret : {"", "flag's", "file's"}, template : {"nil", "", "flag's"},
     https : BOOLEAN]

Contacts == [left : {<<>>, <<"console">>, <<"kubectl", "console">>}, steps : 0 .. MaxSteps]

\* What main has settled, by how far it has come: the file is merged before anything is
\* looked at, users log in with what the flags say and an issuer is OIDC's, and a server that
\* nobody logs in to has a token of its own.
Unbuilt == srv.auther = "nil" /\ srv.staticUser = Nobody /\ srv.kubectlAuther = FALSE /\ srv.template = "nil"
Merged ==
    config # NoFile =>
       flagValues.userAuth = "openshift" /\ flagValues.k8sAuth = "openshift" /\ config.sets \subseteq flagValues.given
LoggedIn ==
    /\ srv.auther = IF flagValues.userAuth = "disabled" THEN "nil" ELSE flagValues.userAuth
    /\ flagValues.userAuth = "disabled" \/ ("issuer" \in flagValues.given <=> flagValues.userAuth = "oidc")
Settled ==
    /\ phase \in {"flags", "validate", "cluster", "users"} => Unbuilt
    /\ phase \notin {"flags", "exited"} => Merged
    /\ phase = "contact" =>
         /\ srv.auther = "nil" /\ srv.staticUser = Nobody /\ flagValues.userAuth # "disabled"
         /\ "issuer" \in flagValues.given <=> flagValues.userAuth = "oidc"
         /\ contacts.left = <<"kubectl", "console">> => Unbuilt
    /\ phase \in {"contact", "tokens", "listen", "serving"} => (srv.kubectlAuther = TRUE <=> srv.template # "nil")
    /\ phase \in {"tokens", "listen", "serving"} => LoggedIn
    /\ phase = "tokens" => srv.staticUser = Nobody
    /\ phase \in {"listen", "serving"} =>
         /\ srv.staticUser = IF flagValues.k8sAuth \in {"oidc", "openshift"} THEN Nobody ELSE flagValues.k8sAuth
         /\ flagValues.k8sAuth \in {"oidc", "openshift"} => flagValues.userAuth # "disabled"
    /\ phase = "serving" => (srv.https = TRUE <=> "https" \in flagValues.given)
    /\ phase # "serving" => sent = NoRequest

BridgeInv ==
    /\ flagValues \in AnyFlags /\ config \in ConfigFiles \cup {NoFile}
    /\ phase \in {"flags", "validate", "cluster", "users", "contact", "tokens", "listen", "serving", "exited"}
    /\ srv \in Servers /\ contacts \in Contacts
    /\ sent \in [by : {"nobody", "a user"}, as : {"none", "refused", "session", "service-account", "bearer-token"}]
    /\ Settled
    /\ SpeaksForSomebody

LEMMA FlagsAreTyped == Flags \cup WrongFlags \subseteq AnyFlags /\ \A c \in ConfigFiles \cup {NoFile} : c.sets \subseteq Settable
<1>1. ASSUME NEW f \in Flags PROVE f \in AnyFlags
  <2>1. f.given \subseteq Settable
    <3>1. \/ \E a \in {{"secret"}, {"secret-file"}},
               k \in {{}, {"kubectl-id", "kubectl-secret"}, {"kubectl-id", "kubectl-file"}} : f.given = CompleteFile \cup a \cup k
          \/ \E a \in {"secret", "secret-file"} : f.given = (CompleteFile \ {"issuer"}) \cup {a}
      BY DEF Flags
    <3> QED
      BY <3>1 DEF Settable
  <2> DEFINE G == {CompleteFile \cup a \cup k : a \in {{"secret"}, {"secret-file"}},
                        k \in {{}, {"kubectl-id", "kubectl-secret"}, {"kubectl-id", "kubectl-file"}}}
                     \cup {(CompleteFile \ {"issuer"}) \cup {a} : a \in {"secret", "secret-file"}}
  <2>2. Flags = [mode : {"in-cluster", "off-cluster"},
                          k8sAuth : {"service-account", "bearer-token", "oidc", "openshift"},
                          userAuth : {"disabled", "oidc", "openshift"}, malformed : {FALSE}, given : G]
    BY DEF Flags
  <2> HIDE DEF G
  <2> QED
    BY <2>1, <2>2 DEF AnyFlags
<1>2. ASSUME NEW f \in WrongFlags PROVE f \in AnyFlags
  <2>1. f.given \subseteq Settable
    <3>1. \/ \E a \in {"base-address", "client-id", "endpoint", "bearer-token", "cert", "secret"} :
                f.given = (CompleteFile \cup {"secret", "https"}) \ {a}
          \/ \E k \in {{"secret", "secret-file"}, {"secret", "kubectl-id"}, {"secret", "kubectl-secret"},
                      {"secret", "kubectl-id", "kubectl-secret", "kubectl-file"}} : f.given = CompleteFile \cup k
      BY DEF WrongFlags
    <3> QED
      BY <3>1 DEF Settable
  <2> QED
    BY <2>1 DEF WrongFlags, AnyFlags
<1>3. ASSUME NEW c \in ConfigFiles \cup {NoFile} PROVE c.sets \subseteq Settable
  <2>1. c.sets \in {{}, {"base-address", "client-id", "secret-file", "https", "cert"}, {"https"}, {"minTLSVersion"}}
    BY DEF ConfigFiles, NoFile
  <2> QED
    BY <2>1 DEF Settable, CompleteFile
<1> QED
  BY <1>1, <1>2, <1>3

LEMMA BridgeAtInv ==
    ASSUME NEW f \in Flags \cup WrongFlags, NEW c \in ConfigFiles \cup {NoFile}, NEW p \in {"flags", "exited"},
           BridgeAt(f, c, p)
    PROVE  BridgeInv
<1>1. flagValues \in AnyFlags /\ config \in ConfigFiles \cup {NoFile}
  BY FlagsAreTyped DEF BridgeAt
<1>2. srv \in Servers
  BY DEF BridgeAt, NoServer, Servers
<1>4. contacts \in Contacts
  BY BridgeAssumption DEF BridgeAt, Contacts
<1>3. sent = NoRequest /\ phase = p /\ Unbuilt
  BY DEF BridgeAt, NoServer, Unbuilt
<1> QED
  BY <1>1, <1>2, <1>3, <1>4 DEF BridgeInv, Settled, SpeaksForSomebody, NoRequest

LEMMA BridgeInitInv == BridgeInit => BridgeInv
BY BridgeAtInv DEF BridgeInit

\* Only main's own steps end a request or start one.
LEMMA StartKeepsRequests ==
    ASSUME BridgeInv, BridgeStartNext
    PROVE  phase # "serving" /\ UNCHANGED <<config, sent>> /\ sent = NoRequest
BY DEF BridgeInv, Settled, BridgeStartNext, Elsewhere, LoadConfig, ValidateFlags, ChooseCluster, ChooseUserAuth,
       ContactSucceeds, ContactFails, ChooseK8sAuth, Listen

\* What main gives up it has not built.
LEMMA ExitsInv ==
    ASSUME BridgeInv, sent = NoRequest, Exits, Elsewhere
    PROVE  BridgeInv'
<1>1. phase' = "exited" /\ UNCHANGED <<flagValues, srv, contacts, config, sent>>
  BY DEF Exits, Elsewhere
<1> QED
  BY <1>1 DEF BridgeInv, Settled, SpeaksForSomebody, NoRequest

\* The file's settings are among those that a flag can have.
LEMMA MergedIsTyped ==
    ASSUME BridgeInv
    PROVE  /\ MergedFlags \in AnyFlags /\ MergedFlags.userAuth = "openshift" /\ MergedFlags.k8sAuth = "openshift"
           /\ config.sets \subseteq MergedFlags.given
<1>1. config.sets \subseteq Settable
  BY FlagsAreTyped DEF BridgeInv
<1> QED
  BY <1>1 DEF BridgeInv, MergedFlags, AnyFlags

\* Facts about the attempts, and about who is still to be contacted.
LEMMA ContactFacts ==
    /\ 0 \in 0 .. MaxSteps
    /\ \A n \in 0 .. MaxSteps : n + 1 <= MaxSteps => n + 1 \in 0 .. MaxSteps
    /\ <<"console">> # <<"kubectl", "console">> /\ <<>> # <<"kubectl", "console">> /\ <<>> # <<"console">>
<1>1. 0 \in 0 .. MaxSteps /\ \A n \in 0 .. MaxSteps : n + 1 <= MaxSteps => n + 1 \in 0 .. MaxSteps
  BY BridgeAssumption
<1>2. Len(<<"console">>) = 1 /\ Len(<<"kubectl", "console">>) = 2 /\ Len(<<>>) = 0
  OBVIOUS
<1> QED
  BY <1>1, <1>2

LEMMA BridgeStartInv == BridgeInv /\ BridgeStartNext => BridgeInv'
<1> SUFFICES ASSUME BridgeInv, BridgeStartNext PROVE BridgeInv'
  OBVIOUS
<1>0. phase # "serving" /\ UNCHANGED <<config, sent>> /\ sent = NoRequest
  BY StartKeepsRequests
<1> USE DEF BridgeInv, SpeaksForSomebody, NoRequest
<1>1. CASE LoadConfig
  <2>1. CASE Exits
    BY <1>0, <1>1, <2>1, ExitsInv DEF LoadConfig
  <2>2. CASE config = NoFile /\ phase' = "validate" /\ UNCHANGED <<flagValues, srv, contacts>>
    BY <1>0, <1>1, <2>2 DEF LoadConfig, Settled, Unbuilt, Merged
  <2>3. CASE flagValues' = MergedFlags /\ phase' = "validate" /\ UNCHANGED <<srv, contacts>>
    BY <1>0, <1>1, <2>3, MergedIsTyped DEF LoadConfig, Settled, Unbuilt, Merged
  <2> QED
    BY <1>1, <2>1, <2>2, <2>3 DEF LoadConfig
<1>2. CASE ValidateFlags
  <2>1. CASE Exits
    BY <1>0, <1>2, <2>1, ExitsInv DEF ValidateFlags
  <2>2. CASE phase' = "cluster" /\ UNCHANGED <<flagValues, srv, contacts>>
    BY <1>0, <1>2, <2>2 DEF ValidateFlags, Settled, Unbuilt, Merged
  <2> QED
    BY <1>2, <2>1, <2>2 DEF ValidateFlags
<1>3. CASE ChooseCluster
  <2>1. CASE Exits
    BY <1>0, <1>3, <2>1, ExitsInv DEF ChooseCluster
  <2>2. CASE phase' = "users" /\ UNCHANGED <<flagValues, contacts>>
    <3>1. PICK e \in {"service", "flag"}, m \in SUBSET {"kubernetes", "prometheus", "alertmanager"} :
            srv' = [srv EXCEPT !.endpoint = e, !.proxied = m]
      BY <1>3, <2>2 DEF ChooseCluster, Exits
    <3>2. srv' \in Servers /\ (Unbuilt => Unbuilt')
      BY <3>1 DEF Servers, Unbuilt
    <3> QED
      BY <1>0, <1>3, <2>2, <3>1, <3>2 DEF ChooseCluster, Settled, Merged
  <2> QED
    BY <1>3, <2>1, <2>2 DEF ChooseCluster
<1>4. CASE ChooseUserAuth
  <2>1. CASE Exits
    BY <1>0, <1>4, <2>1, ExitsInv DEF ChooseUserAuth
  <2>2. CASE flagValues.userAuth = "disabled" /\ phase' = "tokens" /\ UNCHANGED <<flagValues, srv, contacts>>
    BY <1>0, <1>4, <2>2 DEF ChooseUserAuth, Settled, Unbuilt, Merged, LoggedIn
  <2>3. CASE flagValues.userAuth # "disabled" /\ phase' = "contact"
    <3>1. /\ phase = "users" /\ CanAuthenticate /\ UNCHANGED flagValues
          /\ contacts' = [left |-> IF Given("kubectl-id") THEN <<"kubectl", "console">> ELSE <<"console">>, steps |-> 0]
          /\ srv' = IF Given("kubectl-id")
                    THEN [srv EXCEPT !.kubectlSecret = IF Given("kubectl-file") THEN "file's" ELSE "flag's"] ELSE srv
      BY <1>4, <2>3 DEF ChooseUserAuth, Exits
    <3>2. srv' \in Servers /\ (Unbuilt => Unbuilt')
      BY <3>1 DEF Servers, Unbuilt
    <3>3. contacts' \in Contacts
      BY <3>1, ContactFacts DEF Contacts
    <3>4. Unbuilt /\ Merged
      BY <3>1 DEF Settled
    <3>5. "issuer" \in flagValues.given <=> flagValues.userAuth = "oidc"
      BY <3>1 DEF CanAuthenticate, Given
    <3> QED
      BY <1>0, <2>3, <3>1, <3>2, <3>3, <3>4, <3>5 DEF Settled, Merged, Unbuilt
  <2> QED
    BY <1>4, <2>1, <2>2, <2>3 DEF ChooseUserAuth
<1>5. CASE ContactSucceeds
  <2>1. 0 \in 0 .. MaxSteps /\ <<"console">> # <<"kubectl", "console">>
    BY ContactFacts
  <2>2. CASE contacts.left = <<"kubectl", "console">>
    <3>1. /\ phase = "contact" /\ UNCHANGED <<flagValues, phase>>
          /\ contacts' = [left |-> <<"console">>, steps |-> 0]
          /\ srv' = [srv EXCEPT !.kubectlAuther = TRUE, !.template = Template]
      BY <1>5, <2>1, <2>2 DEF ContactSucceeds
    <3>2. Template \in {"", "flag's"}
      BY DEF Template
    <3>3. srv' \in Servers /\ srv'.kubectlAuther = TRUE /\ srv'.template # "nil"
          /\ srv'.auther = srv.auther /\ srv'.staticUser = srv.staticUser
      BY <3>1, <3>2 DEF Servers
    <3>4. contacts' \in Contacts /\ contacts'.left # <<"kubectl", "console">>
      BY <2>1, <3>1 DEF Contacts
    <3> QED
      BY <1>0, <3>1, <3>3, <3>4 DEF Settled, Merged
  <2>3. CASE contacts.left = <<"console">>
    <3>1. /\ phase = "contact" /\ phase' = "tokens" /\ UNCHANGED flagValues
          /\ contacts' = [left |-> <<>>, steps |-> 0]
          /\ srv' = [srv EXCEPT !.auther = flagValues.userAuth]
      BY <1>5, <2>1, <2>3 DEF ContactSucceeds
    <3>2. flagValues.userAuth \in {"oidc", "openshift"}
      BY <3>1 DEF Settled, AnyFlags
    <3>3. /\ srv' \in Servers /\ srv'.auther = flagValues.userAuth
          /\ UNCHANGED <<srv.kubectlAuther, srv.template, srv.staticUser>>
      BY <3>1, <3>2 DEF Servers
    <3>4. contacts' \in Contacts
      BY <2>1, <3>1 DEF Contacts
    <3> QED
      BY <1>0, <3>1, <3>2, <3>3, <3>4 DEF Settled, Merged, LoggedIn
  <2> QED
    BY <1>5, <2>2, <2>3 DEF ContactSucceeds
<1>6. CASE ContactFails
  <2>1. CASE Exits
    BY <1>0, <1>6, <2>1, ExitsInv DEF ContactFails
  <2>2. CASE ~(contacts.steps + 1 > MaxSteps)
    <3>1. /\ phase = "contact" /\ UNCHANGED <<flagValues, phase, srv>>
          /\ contacts' = [contacts EXCEPT !.steps = @ + 1]
      BY <1>6, <2>2 DEF ContactFails
    <3>2. contacts.steps + 1 \in 0 .. MaxSteps
      <4>1. contacts.steps \in 0 .. MaxSteps
        BY DEF Contacts
      <4>2. contacts.steps + 1 <= MaxSteps
        BY ONLY <2>2, <4>1, MaxSteps \in Nat
      <4> QED
        BY <4>1, <4>2, ContactFacts
    <3>3. contacts' \in Contacts /\ contacts'.left = contacts.left
      BY <3>1, <3>2 DEF Contacts
    <3> QED
      BY <1>0, <3>1, <3>3 DEF Settled, Unbuilt, Merged
  <2> QED
    BY <1>6, <2>1, <2>2 DEF ContactFails
<1>7. CASE ChooseK8sAuth
  <2>1. CASE Exits
    BY <1>0, <1>7, <2>1, ExitsInv DEF ChooseK8sAuth
  <2>2. CASE phase' = "listen"
    <3>1. /\ phase = "tokens" /\ UNCHANGED <<flagValues, contacts>>
          /\ flagValues.k8sAuth \in {"oidc", "openshift"} => flagValues.userAuth # "disabled"
          /\ srv' = [srv EXCEPT !.staticUser =
                       IF flagValues.k8sAuth \in {"oidc", "openshift"} THEN Nobody ELSE flagValues.k8sAuth]
      BY <1>7, <2>2 DEF ChooseK8sAuth, Exits
    <3>2. (IF flagValues.k8sAuth \in {"oidc", "openshift"} THEN Nobody ELSE flagValues.k8sAuth)
             \in {Nobody, "service-account", "bearer-token"}
      BY DEF AnyFlags
    <3>3. /\ srv' \in Servers /\ UNCHANGED <<srv.auther, srv.kubectlAuther, srv.template>>
          /\ srv'.staticUser = IF flagValues.k8sAuth \in {"oidc", "openshift"} THEN Nobody ELSE flagValues.k8sAuth
      BY <3>1, <3>2 DEF Servers
    <3> QED
      BY <1>0, <2>2, <3>1, <3>3 DEF Settled, Merged, LoggedIn
  <2> QED
    BY <1>7, <2>1, <2>2 DEF ChooseK8sAuth
<1>8. CASE Listen
  <2>1. CASE Exits
    BY <1>0, <1>8, <2>1, ExitsInv DEF Listen
  <2>2. CASE phase' = "serving"
    <3>1. phase = "listen" /\ UNCHANGED <<flagValues, contacts>> /\ srv' = [srv EXCEPT !.https = Given("https")]
      BY <1>8, <2>2 DEF Listen, Exits
    <3>2. IF "https" \in flagValues.given THEN Given("https") = TRUE ELSE Given("https") = FALSE
      <4>1. "https" \in flagValues.given <=> Given("https")
        BY DEF Given
      <4> QED
        BY ONLY <4>1
    <3>3. /\ srv' \in Servers /\ UNCHANGED <<srv.auther, srv.kubectlAuther, srv.template, srv.staticUser>>
          /\ srv'.https = Given("https")
      BY <3>1, <3>2 DEF Servers
    <3>4. srv'.https = TRUE <=> "https" \in flagValues.given
      BY <3>2, <3>3
    <3>5. srv.auther = "nil" => srv.staticUser # Nobody
      BY <3>1 DEF Settled, LoggedIn, AnyFlags, Nobody
    <3> QED
      BY <1>0, <2>2, <3>1, <3>3, <3>4, <3>5 DEF Settled, Merged, LoggedIn
  <2> QED
    BY <1>8, <2>1, <2>2 DEF Listen, Exits
<1> QED
  BY <1>1, <1>2, <1>3, <1>4, <1>5, <1>6, <1>7, <1>8 DEF BridgeStartNext

\* The start, and then one request after the other.
LEMMA BridgeNextInv == BridgeInv /\ [BridgeNext]_bridgeVars => BridgeInv'
<1> SUFFICES ASSUME BridgeInv, [BridgeNext]_bridgeVars PROVE BridgeInv'
  OBVIOUS
<1>1. CASE BridgeStartNext
  BY <1>1, BridgeStartInv
<1>2. CASE ProxyRequest
  <2>1. PICK by \in {"a user", "nobody"} :
          sent' = [by |-> by, as |-> IF srv.auther = "nil" THEN srv.staticUser
                                     ELSE IF by = "a user" THEN "session" ELSE "refused"]
    BY <1>2 DEF ProxyRequest
  <2>2. phase = "serving" /\ UNCHANGED <<flagValues, config, phase, srv, contacts>>
    BY <1>2 DEF ProxyRequest
  <2>3. srv.auther = "nil" => srv.staticUser \in {"service-account", "bearer-token"}
    BY <2>2 DEF BridgeInv, Servers, SpeaksForSomebody
  <2> QED
    BY <2>1, <2>2, <2>3 DEF BridgeInv, Settled, SpeaksForSomebody, Unbuilt, Merged, LoggedIn, Nobody
<1>3. CASE RequestEnds
  BY <1>3 DEF RequestEnds, BridgeInv, Settled, SpeaksForSomebody, Unbuilt, Merged, LoggedIn, NoRequest
<1>4. CASE UNCHANGED bridgeVars
  <2>1. UNCHANGED <<flagValues, config, phase, srv, contacts, sent>>
    BY <1>4 DEF bridgeVars
  <2>2. /\ UNCHANGED Unbuilt /\ UNCHANGED Merged /\ UNCHANGED LoggedIn
    BY <2>1 DEF Unbuilt, Merged, LoggedIn
  <2>3. Settled'
    BY <2>1, <2>2 DEF BridgeInv, Settled
  <2>4. SpeaksForSomebody'
    BY <2>1 DEF BridgeInv, SpeaksForSomebody
  <2> QED
    BY <2>1, <2>3, <2>4 DEF BridgeInv
<1> QED
  BY <1>1, <1>2, <1>3, <1>4 DEF BridgeNext

\* What main has settled is what the server then does.
LEMMA BridgeInvServes == BridgeInv => ServesAsConfigured
<1> SUFFICES ASSUME BridgeInv PROVE ServesAsConfigured
  OBVIOUS
<1>1. SpeaksForSomebody
  BY DEF BridgeInv
<1>2. FileIsObeyed
  <2> SUFFICES ASSUME phase = "serving", config # NoFile
               PROVE  /\ srv.auther = "openshift" /\ srv.staticUser = Nobody
                      /\ "https" \in config.sets => srv.https
                      /\ ~Given("issuer")
    BY DEF FileIsObeyed
  <2>1. flagValues.userAuth = "openshift" /\ flagValues.k8sAuth = "openshift" /\ config.sets \subseteq flagValues.given
    BY DEF BridgeInv, Settled, Merged
  <2>2. srv.auther = "openshift" /\ srv.staticUser = Nobody
    BY <2>1 DEF BridgeInv, Settled, LoggedIn
  <2>3. "https" \in config.sets => srv.https = TRUE
    BY <2>1 DEF BridgeInv, Settled
  <2>4. ~("issuer" \in flagValues.given)
    BY <2>1 DEF BridgeInv, Settled, LoggedIn
  <2> QED
    BY <2>2, <2>3, <2>4 DEF Given
<1>3. KubectlIsWhole
  <2> SUFFICES ASSUME phase \in {"tokens", "listen", "serving"}
               PROVE  srv.kubectlAuther = (srv.template # "nil")
    BY DEF KubectlIsWhole
  <2>1. srv.kubectlAuther = TRUE <=> srv.template # "nil"
    BY DEF BridgeInv, Settled
  <2>2. srv.kubectlAuther \in BOOLEAN
    BY DEF BridgeInv, Servers
  <2> QED
    BY <2>1, <2>2
<1> QED
  BY <1>1, <1>2, <1>3 DEF ServesAsConfigured
-----------------------------------------------------------------------------
(* Roles and their bindings *)

BindingRecord ==
    [kind : {"RoleBinding", "ClusterRoleBinding"}, name : {"", "b"}, namespace : BindingNs \cup {""},
     role : [kind : {"", "Role", "ClusterRole"}, name : BindingNs \cup ClusterRole \cup {""}],
     subject : [kind : SubjectKind, name : SubjectName \cup {""}, namespace : BindingNs \cup {""},
                apiGroup : BOOLEAN]]

RoleRecord == [kind : {"", "Role", "ClusterRole"}, name : BindingNs \cup ClusterRole \cup {""}]

DropdownRecord ==
    [kind : {"RoleBinding", "ClusterRoleBinding"}, loaded : BOOLEAN, selectedKey : RoleRecord, title : RoleRecord]

\* The dropdown has selected what the binding has, and the namespaces are those of its kind.
BindingInv ==
    /\ binding \in BindingRecord /\ dropdown \in DropdownRecord
    /\ dropdown.selectedKey = binding.role
    /\ ShownRoleIsSent
    /\ binding.kind = "ClusterRoleBinding" => binding.namespace = ""
    /\ binding.subject.kind # "ServiceAccount" => binding.subject.namespace = ""
    /\ bound = "sent" => Filled(binding)

LEMMA RolesAreTyped ==
    /\ NoRole \in RoleRecord
    /\ ClusterRoles \subseteq RoleRecord
    /\ \A n \in BindingNs : RoleIn(n) \in RoleRecord
    /\ \A kind, ns : ns \in BindingNs \cup {""} => RolesFor(kind, ns) \subseteq RoleRecord
<1>1. NoRole \in RoleRecord
  BY DEF NoRole, RoleRecord
<1>2. \A n \in BindingNs : RoleIn(n) \in RoleRecord
  BY DEF RoleIn, RoleRecord
<1>3. ClusterRoles \subseteq RoleRecord
  BY DEF ClusterRoles, RoleRecord
<1>4. ASSUME NEW kind, NEW ns \in BindingNs \cup {""}
      PROVE  RolesFor(kind, ns) \subseteq RoleRecord
  BY <1>2, <1>3 DEF RolesFor
<1> QED
  BY <1>1, <1>2, <1>3, <1>4

SubjectRecord ==
    [kind : SubjectKind, name : SubjectName \cup {""}, namespace : BindingNs \cup {""}, apiGroup : BOOLEAN]

LEMMA SubjectsAreTyped ==
    ASSUME NEW kind \in SubjectKind, NEW name \in SubjectName \cup {""}, NEW ns \in BindingNs \cup {""}
    PROVE  /\ SubjectOf(kind, name, ns) \in SubjectRecord
           /\ SubjectOf(kind, name, ns).kind = kind
           /\ kind # "ServiceAccount" => SubjectOf(kind, name, ns).namespace = ""
BY DEF SubjectOf, SubjectRecord

\* A form that opens with a binding.
LEMMA BindingOpensInv ==
    ASSUME NEW create, NEW fixedKind, NEW fixedNs, NEW fixedRole, NEW d \in BindingRecord,
           BindingOpens(create, fixedKind, fixedNs, fixedRole, d),
           d.kind = "ClusterRoleBinding" => d.namespace = "",
           d.subject.kind # "ServiceAccount" => d.subject.namespace = ""
    PROVE  BindingInv
<1>1. binding = d /\ dropdown = RoleDropdown(d.kind, d.role) /\ bound = "none"
  BY DEF BindingOpens
<1>2. dropdown \in DropdownRecord /\ dropdown.selectedKey = d.role /\ dropdown.title = NoRole
  BY <1>1, RolesAreTyped DEF RoleDropdown, DropdownRecord, BindingRecord, RoleRecord
<1> QED
  BY <1>1, <1>2 DEF BindingInv, ShownRoleIsSent

LEMMA BindingInitInv == BindingInit => BindingInv
<1>1. ASSUME CreateOpens PROVE BindingInv
  <2>1. PICK ns \in BindingNs \cup {""}, role \in ClusterRoles \cup {NoRole} \cup {RoleIn(n) : n \in BindingNs} :
          BindingOpens(TRUE, ns # "" \/ role.kind = "Role", ns # "", role # NoRole, NewBinding(ns, role))
    BY <1>1 DEF CreateOpens
  <2>2. role \in RoleRecord
    BY RolesAreTyped
  <2>3. /\ NewBinding(ns, role) \in BindingRecord
        /\ NewBinding(ns, role).kind = "RoleBinding"
        /\ NewBinding(ns, role).subject.namespace = ""
    BY <2>2 DEF NewBinding, BindingRecord, NewSubject, SubjectKind, RoleRecord
  <2> QED
    BY <2>1, <2>3, BindingOpensInv
<1>2. ASSUME NEW copy \in BOOLEAN, ExistingOpens(copy) PROVE BindingInv
  <2>1. PICK ns \in BindingNs \cup {""}, k \in SubjectKind, n \in SubjectName, m \in BindingNs, index \in 0 .. 1 :
          \E role \in RolesFor(IF ns = "" /\ ~copy THEN "ClusterRoleBinding" ELSE "RoleBinding", ns) :
            BindingOpens(copy, ~copy, ~copy /\ ns # "", ~copy,
                         [kind |-> IF ns = "" /\ ~copy THEN "ClusterRoleBinding" ELSE "RoleBinding", name |-> "b",
                          namespace |-> ns, role |-> role, subject |-> Existing(index, SubjectOf(k, n, m))])
    BY <1>2 DEF ExistingOpens
  <2> DEFINE subject == SubjectOf(k, n, m)
  <2>2. PICK role \in RolesFor(IF ns = "" /\ ~copy THEN "ClusterRoleBinding" ELSE "RoleBinding", ns) :
            BindingOpens(copy, ~copy, ~copy /\ ns # "", ~copy,
                         [kind |-> IF ns = "" /\ ~copy THEN "ClusterRoleBinding" ELSE "RoleBinding", name |-> "b",
                          namespace |-> ns, role |-> role, subject |-> Existing(index, subject)])
    BY <2>1
  <2>3. role \in RoleRecord
    BY RolesAreTyped
  <2>4. subject \in SubjectRecord /\ (subject.kind # "ServiceAccount" => subject.namespace = "")
    BY DEF SubjectOf, SubjectRecord
  <2> HIDE DEF subject
  <2>5. /\ Existing(index, subject) \in SubjectRecord
        /\ Existing(index, subject).kind # "ServiceAccount" => Existing(index, subject).namespace = ""
    BY <2>4 DEF Existing, SubjectRecord
  <2> DEFINE d == [kind |-> IF ns = "" /\ ~copy THEN "ClusterRoleBinding" ELSE "RoleBinding", name |-> "b",
                   namespace |-> ns, role |-> role, subject |-> Existing(index, subject)]
  <2>6. d \in BindingRecord /\ d.subject = Existing(index, subject)
        /\ (d.kind = "ClusterRoleBinding" => d.namespace = "")
    BY <2>3, <2>5 DEF BindingRecord, RoleRecord, SubjectRecord
  <2>7. BindingOpens(copy, ~copy, ~copy /\ ns # "", ~copy, d)
    BY <2>2
  <2> HIDE DEF d
  <2> QED
    BY <2>5, <2>6, <2>7, BindingOpensInv
<1> QED
  BY <1>1, <1>2 DEF BindingInit

LEMMA BindingNextInv == BindingInv /\ [BindingNext]_bindingVars => BindingInv'
<1> SUFFICES ASSUME BindingInv, [BindingNext]_bindingVars PROVE BindingInv'
  OBVIOUS
<1>0. /\ binding \in BindingRecord /\ dropdown \in DropdownRecord
      /\ binding.role \in RoleRecord /\ binding.namespace \in BindingNs \cup {""}
      /\ binding.subject.kind \in SubjectKind /\ binding.subject.name \in SubjectName \cup {""}
      /\ binding.subject.namespace \in BindingNs \cup {""}
  BY DEF BindingInv, BindingRecord, RoleRecord
<1>1. CASE RolesLoad
  <2>1. /\ UNCHANGED <<binding, bound>>
        /\ dropdown' \in DropdownRecord /\ dropdown'.selectedKey = dropdown.selectedKey
        /\ dropdown'.title \in {dropdown.title, dropdown.selectedKey}
    BY <1>0, <1>1 DEF RolesLoad, DropdownRecord
  <2> QED
    BY <2>1 DEF BindingInv, ShownRoleIsSent
<1>2. ASSUME NEW kind \in {"RoleBinding", "ClusterRoleBinding"}, SetKind(kind) PROVE BindingInv'
  <2>1. /\ binding' \in BindingRecord /\ binding'.role = binding.role /\ binding'.subject = binding.subject
        /\ binding'.kind = kind /\ (kind = "ClusterRoleBinding" => binding'.namespace = "")
        /\ bound' = bound /\ bound # "sent"
    BY <1>0, <1>2 DEF SetKind, BindingRecord, FillsIn
  <2>2. dropdown' \in DropdownRecord /\ dropdown'.selectedKey = binding.role /\ dropdown'.title = NoRole
    BY <1>0, <1>2, RolesAreTyped DEF SetKind, RoleDropdown, DropdownRecord
  <2> QED
    BY <2>1, <2>2 DEF BindingInv, ShownRoleIsSent
<1>3. CASE ChangeName
  <2>1. /\ binding' \in BindingRecord /\ binding'.role = binding.role /\ binding'.subject = binding.subject
        /\ binding'.kind = binding.kind /\ binding'.namespace = binding.namespace
        /\ UNCHANGED <<dropdown, bound>> /\ bound # "sent"
    BY <1>0, <1>3 DEF ChangeName, BindingRecord, FillsIn
  <2> QED
    BY <2>1 DEF BindingInv, ShownRoleIsSent
<1>4. ASSUME NEW ns \in BindingNs, ChangeBindingNs(ns) PROVE BindingInv'
  <2>1. /\ binding' \in BindingRecord /\ binding'.role = binding.role /\ binding'.subject = binding.subject
        /\ binding'.kind = "RoleBinding" /\ bound' = bound /\ bound # "sent"
    BY <1>0, <1>4 DEF ChangeBindingNs, BindingRecord, FillsIn
  <2>2. /\ dropdown' \in DropdownRecord /\ dropdown'.selectedKey = dropdown.selectedKey
        /\ dropdown'.title = dropdown.title
    BY <1>0, <1>4 DEF ChangeBindingNs, DropdownRecord
  <2> QED
    BY <2>1, <2>2 DEF BindingInv, ShownRoleIsSent
<1>5. ASSUME NEW role \in RolesFor(binding.kind, binding.namespace), ChangeRoleRef(role) PROVE BindingInv'
  <2>0. role \in RoleRecord
    BY <1>0, RolesAreTyped
  <2>1. /\ binding' \in BindingRecord /\ binding'.role = role /\ binding'.subject = binding.subject
        /\ binding'.kind = binding.kind /\ binding'.namespace = binding.namespace
        /\ bound' = bound /\ bound # "sent"
    BY <1>0, <1>5, <2>0 DEF ChangeRoleRef, BindingRecord, RoleRecord, FillsIn
  <2>2. /\ dropdown' \in DropdownRecord /\ dropdown'.selectedKey = role /\ dropdown'.title = role
    BY <1>0, <1>5, <2>0 DEF ChangeRoleRef, DropdownRecord
  <2> QED
    BY <2>1, <2>2 DEF BindingInv, ShownRoleIsSent
<1>6. ASSUME NEW kind \in SubjectKind, NEW name \in SubjectName \cup {""}, NEW ns \in BindingNs \cup {""},
             SetSubject(kind, name, ns)
      PROVE  BindingInv'
  <2>1. /\ binding' \in BindingRecord /\ binding'.role = binding.role
        /\ binding'.kind = binding.kind /\ binding'.namespace = binding.namespace
        /\ binding'.subject = SubjectOf(kind, name, ns)
        /\ UNCHANGED <<dropdown, bound>> /\ bound # "sent"
    BY <1>0, <1>6, SubjectsAreTyped DEF SetSubject, BindingRecord, SubjectRecord, FillsIn
  <2>2. /\ SubjectOf(kind, name, ns).kind = kind
        /\ kind # "ServiceAccount" => SubjectOf(kind, name, ns).namespace = ""
    BY DEF SubjectOf
  <2>3. binding'.subject.kind # "ServiceAccount" => binding'.subject.namespace = ""
    BY <2>1, <2>2
  <2> QED
    BY <2>1, <2>3 DEF BindingInv, ShownRoleIsSent
<1>7. CASE SaveBinding \/ BindingRefused
  BY <1>7 DEF SaveBinding, BindingRefused, BindingInv, ShownRoleIsSent, Filled
<1>8. CASE UNCHANGED bindingVars
  BY <1>8 DEF bindingVars, BindingInv, ShownRoleIsSent, Filled
<1>9. "ServiceAccount" \in SubjectKind
  BY DEF SubjectKind
<1> QED
  BY <1>0, <1>1, <1>2, <1>3, <1>4, <1>5, <1>6, <1>7, <1>8, <1>9 DEF BindingNext

\* The role on the screen is the one that is sent, and no namespace of another kind is
\* (bindings.jsx:183-240, 391-421).
LEMMA BindingInvSends == BindingInv => ShownRoleIsSent /\ BindingIsWhole
<1> SUFFICES ASSUME BindingInv PROVE ShownRoleIsSent /\ BindingIsWhole
  OBVIOUS
<1>1. binding.kind \in {"RoleBinding", "ClusterRoleBinding"}
  BY DEF BindingInv, BindingRecord
<1> QED
  BY <1>1 DEF BindingInv, BindingIsWhole, Filled


\* The rule that was saved is what the form says, as nothing can be chosen after.
RuleInv == ruleSaved.at => ruleSaved.rule = RuleToSave

LEMMA RuleInitInv == RuleInit => RuleInv
BY DEF RuleInit, RuleOpens, NotSaved, RuleInv

LEMMA RuleNextInv == RuleInv /\ [RuleNext]_ruleVars => RuleInv'
<1> SUFFICES ASSUME RuleInv, [RuleNext]_ruleVars PROVE RuleInv'
  OBVIOUS
<1>1. CASE UNCHANGED ruleVars
  BY <1>1 DEF ruleVars, RuleInv, RuleToSave, SelectedVerbs, SelectedResources, IsVerbSelected, IsResourceSelected,
              AllResources
<1>2. CASE RuleNext /\ SaveTheRule
  <2>1. ruleSaved'.rule = RuleToSave /\ UNCHANGED <<ruleOf, ruleForm, discovered>>
    BY <1>2 DEF SaveTheRule
  <2>2. RuleToSave' = RuleToSave
    BY <2>1 DEF RuleToSave, SelectedVerbs, SelectedResources, IsVerbSelected, IsResourceSelected, AllResources
  <2> QED
    BY <2>1, <2>2 DEF RuleInv
<1>3. CASE RuleNext /\ ~SaveTheRule
  <2>1. ~ruleSaved.at /\ ruleSaved' = ruleSaved
    BY <1>3 DEF RuleNext, RoleArrives, ResourcesArrive, Choose, ToggleVerb, ToggleResource
  <2> QED
    BY <2>1 DEF RuleInv
<1> QED
  BY <1>1, <1>2, <1>3

\* What a rule grants is what its boxes show (edit-rule.jsx:148-170, 358-417).
LEMMA RuleInvGrants == RuleInv => GrantsWhatIsShown
<1> SUFFICES ASSUME RuleInv, ruleSaved.at
             PROVE  LET verbs == ruleSaved.rule.verbs  resources == ruleSaved.rule.resources
                    IN  /\ IF Star \in verbs THEN Checked[1] = VerbBoxes ELSE verbs \cap VerbBoxes = Checked[1]
                        /\ IF Star \in resources THEN Checked[2] = ResourceBoxes
                           ELSE resources \cap ResourceBoxes = Checked[2]
                        /\ ~ruleOf.namespaced =>
                              verbs \ {Star} \subseteq VerbBoxes /\ resources \ {Star} \subseteq ResourceBoxes
  BY DEF GrantsWhatIsShown
<1> DEFINE verbs == ruleSaved.rule.verbs
           resources == ruleSaved.rule.resources
<1>1. /\ verbs = IF ruleForm.verbControl = "ALL" THEN {Star} ELSE SelectedVerbs
      /\ resources = IF ruleForm.resourceControl = "ALL" THEN {Star} ELSE SelectedResources
  BY DEF RuleInv, RuleToSave
<1>2. /\ Checked[1] = {v \in VerbBoxes : IsVerbSelected(v)}
      /\ Checked[2] = {r \in ResourceBoxes : IsResourceSelected(r)}
  BY DEF Checked
<1> HIDE DEF verbs, resources
<1>3. Star \notin AllVerbs /\ Star \notin AllResources
  BY RuleAssumption DEF Star, AllVerbs, AllResources
<1>4. /\ VerbBoxes \subseteq AllVerbs /\ ResourceBoxes \subseteq AllResources
      /\ ~ruleOf.namespaced => VerbBoxes = AllVerbs /\ ResourceBoxes = AllResources
  BY DEF VerbBoxes, ResourceBoxes
<1>5. /\ IF Star \in verbs THEN Checked[1] = VerbBoxes ELSE verbs \cap VerbBoxes = Checked[1]
      /\ ~ruleOf.namespaced => verbs \ {Star} \subseteq VerbBoxes
  <2>1. CASE ruleForm.verbControl = "ALL"
    <3>1. \A v : IsVerbSelected(v)
      BY <2>1 DEF IsVerbSelected
    <3> QED
      BY <1>1, <1>2, <2>1, <3>1
  <2>2. CASE ruleForm.verbControl # "ALL"
    <3>1. verbs = {v \in AllVerbs : IsVerbSelected(v)}
      BY <1>1, <2>2 DEF SelectedVerbs
    <3> QED
      BY <1>2, <1>3, <1>4, <3>1
  <2> QED
    BY <2>1, <2>2
<1>6. /\ IF Star \in resources THEN Checked[2] = ResourceBoxes ELSE resources \cap ResourceBoxes = Checked[2]
      /\ ~ruleOf.namespaced => resources \ {Star} \subseteq ResourceBoxes
  <2>1. CASE ruleForm.resourceControl = "ALL"
    <3>1. \A r : IsResourceSelected(r)
      BY <2>1 DEF IsResourceSelected
    <3> QED
      BY <1>1, <1>2, <2>1, <3>1
  <2>2. CASE ruleForm.resourceControl # "ALL"
    <3>1. resources = {r \in AllResources : IsResourceSelected(r)}
      BY <1>1, <2>2 DEF SelectedResources
    <3> QED
      BY <1>2, <1>3, <1>4, <3>1
  <2> QED
    BY <2>1, <2>2
<1> QED
  BY <1>5, <1>6 DEF verbs, resources

RuleForms ==
    [role : BOOLEAN, verbControl : {"RO", "ALL", "CUSTOM"}, resourceControl : {"SAFE", "ALL", "CUSTOM", "NON"},
     verbsSet : SUBSET (AllVerbs \cup {Unlisted}),
     resourceSet : SUBSET (SafeResources \cup AdminResources \cup {Unlisted})]

LEMMA RuleFormInit == RuleInit => ruleForm \in RuleForms
BY DEF RuleInit, RuleOpens, NewForm, RuleForms

LEMMA RuleFormNext == ruleForm \in RuleForms /\ [RuleNext]_ruleVars => ruleForm' \in RuleForms
<1> SUFFICES ASSUME ruleForm \in RuleForms, [RuleNext]_ruleVars PROVE ruleForm' \in RuleForms
  OBVIOUS
<1>1. CASE RoleArrives
  <2>1. CASE ~ruleOf.edits
    BY <1>1, <2>1 DEF RoleArrives, RuleForms
  <2>2. CASE ruleOf.edits
    <3>1. PICK rule \in Rules :
            ruleForm' = [role |-> TRUE,
                         verbControl |-> IF Star \in rule.verbs THEN "ALL" ELSE "CUSTOM",
                         resourceControl |-> IF Star \in rule.resources THEN "ALL" ELSE "CUSTOM",
                         verbsSet |-> rule.verbs \ {Star}, resourceSet |-> rule.resources \ {Star}]
      BY <1>1, <2>2 DEF RoleArrives
    <3>2. /\ rule.verbs \ {Star} \subseteq AllVerbs \cup {Unlisted}
          /\ rule.resources \ {Star} \subseteq SafeResources \cup AdminResources \cup {Unlisted}
      BY DEF Rules
    <3> QED
      BY <3>1, <3>2 DEF RuleForms
  <2> QED
    BY <2>1, <2>2
<1>2. ASSUME NEW value \in {"RO", "ALL", "CUSTOM"}, Choose("verbControl", value)
      PROVE  ruleForm' \in RuleForms
  BY <1>2 DEF Choose, RuleForms
<1>3. ASSUME NEW value \in {"SAFE", "ALL", "CUSTOM", "NON"}, Choose("resourceControl", value)
      PROVE  ruleForm' \in RuleForms
  BY <1>3 DEF Choose, RuleForms
<1>4. ASSUME NEW v \in VerbBoxes, ToggleVerb(v) PROVE ruleForm' \in RuleForms
  <2>1. v \in AllVerbs /\ SelectedVerbs \subseteq AllVerbs
    BY DEF VerbBoxes, SelectedVerbs
  <2> QED
    BY <1>4, <2>1 DEF ToggleVerb, RuleForms
<1>5. ASSUME NEW r \in ResourceBoxes, ToggleResource(r) PROVE ruleForm' \in RuleForms
  <2>1. r \in SafeResources \cup AdminResources /\ SelectedResources \subseteq SafeResources \cup AdminResources
    BY DEF ResourceBoxes, SelectedResources, AllResources
  <2> QED
    BY <1>5, <2>1 DEF ToggleResource, RuleForms
<1>6. CASE ResourcesArrive \/ SaveTheRule \/ UNCHANGED ruleVars
  BY <1>6 DEF ResourcesArrive, SaveTheRule, ruleVars
<1>7. CASE RuleNext
  BY <1>1, <1>2, <1>3, <1>4, <1>5, <1>6, <1>7 DEF RuleNext
<1> QED
  BY <1>6, <1>7

\* A click on a box of a rule changes no other box (edit-rule.jsx:209-247).
LEMMA ClicksOneBox ==
    ASSUME ruleForm \in RuleForms
    PROVE  /\ \A v \in VerbBoxes : ToggleVerb(v) => Checked' = <<Toggled(Checked[1], v), Checked[2]>>
           /\ \A r \in ResourceBoxes : ToggleResource(r) => Checked' = <<Checked[1], Toggled(Checked[2], r)>>
<1>0. /\ Checked = <<{u \in VerbBoxes : IsVerbSelected(u)}, {u \in ResourceBoxes : IsResourceSelected(u)}>>
      /\ Checked' = <<{u \in VerbBoxes' : IsVerbSelected(u)'}, {u \in ResourceBoxes' : IsResourceSelected(u)'}>>
  BY DEF Checked
<1>1. ASSUME NEW v \in VerbBoxes, ToggleVerb(v)
      PROVE  Checked' = <<Toggled(Checked[1], v), Checked[2]>>
  <2> DEFINE base == IF ruleForm.verbControl = "CUSTOM" THEN ruleForm.verbsSet ELSE SelectedVerbs
             new == IF IsVerbSelected(v) THEN base \ {v} ELSE base \cup {v}
  <2>1. /\ ruleForm'.verbControl = "CUSTOM" /\ ruleForm'.verbsSet = new
        /\ ruleForm'.resourceControl = ruleForm.resourceControl /\ ruleForm'.resourceSet = ruleForm.resourceSet
        /\ UNCHANGED <<ruleOf, discovered>>
    BY <1>1 DEF ToggleVerb, RuleForms
  <2>2. VerbBoxes' = VerbBoxes /\ ResourceBoxes' = ResourceBoxes
    BY <2>1 DEF VerbBoxes, ResourceBoxes, AllResources
  <2>3. \A u : IsResourceSelected(u)' = IsResourceSelected(u)
    BY <2>1 DEF IsResourceSelected
  <2>4. \A u \in VerbBoxes : IsVerbSelected(u) <=> u \in base
    BY DEF IsVerbSelected, SelectedVerbs, VerbBoxes
  <2>5. \A u \in VerbBoxes : IsVerbSelected(u)' <=> u \in new
    BY <2>1 DEF IsVerbSelected
  <2>6. {u \in VerbBoxes' : IsVerbSelected(u)'} = Toggled({u \in VerbBoxes : IsVerbSelected(u)}, v)
    BY <2>2, <2>4, <2>5 DEF Toggled
  <2>7. {u \in ResourceBoxes' : IsResourceSelected(u)'} = {u \in ResourceBoxes : IsResourceSelected(u)}
    BY <2>2, <2>3
  <2> QED
    BY <1>0, <2>6, <2>7
<1>2. ASSUME NEW r \in ResourceBoxes, ToggleResource(r)
      PROVE  Checked' = <<Checked[1], Toggled(Checked[2], r)>>
  <2> DEFINE base == IF ruleForm.resourceControl = "CUSTOM" THEN ruleForm.resourceSet ELSE SelectedResources
             new == IF IsResourceSelected(r) THEN base \ {r} ELSE base \cup {r}
  <2>1. /\ ruleForm'.resourceControl = "CUSTOM" /\ ruleForm'.resourceSet = new
        /\ ruleForm'.verbControl = ruleForm.verbControl /\ ruleForm'.verbsSet = ruleForm.verbsSet
        /\ UNCHANGED <<ruleOf, discovered>>
    BY <1>2 DEF ToggleResource, RuleForms
  <2>2. VerbBoxes' = VerbBoxes /\ ResourceBoxes' = ResourceBoxes
    BY <2>1 DEF VerbBoxes, ResourceBoxes, AllResources
  <2>3. \A u : IsVerbSelected(u)' = IsVerbSelected(u)
    BY <2>1 DEF IsVerbSelected
  <2>4. \A u \in ResourceBoxes : IsResourceSelected(u) <=> u \in base
    BY DEF IsResourceSelected, SelectedResources, ResourceBoxes
  <2>5. \A u \in ResourceBoxes : IsResourceSelected(u)' <=> u \in new
    BY <2>1 DEF IsResourceSelected
  <2>6. {u \in ResourceBoxes' : IsResourceSelected(u)'} = Toggled({u \in ResourceBoxes : IsResourceSelected(u)}, r)
    BY <2>2, <2>4, <2>5 DEF Toggled
  <2>7. {u \in VerbBoxes' : IsVerbSelected(u)'} = {u \in VerbBoxes : IsVerbSelected(u)}
    BY <2>2, <2>3
  <2> QED
    BY <1>0, <2>6, <2>7
<1> QED
  BY <1>1, <1>2

ObjectRecord == [items : Seq(Item), ver : Nat, there : BOOLEAN]
TaskRecord ==
    [op : {"none", "remove", "delete", "replace", "put"}, index : Nat, item : Item, role : Seq(Item), ver : Nat]

\* A role that is to be written back whole is the server's, if its version is.
ReadAsItWas(t) == t.op = "put" => t.ver <= object.ver /\ (t.ver = object.ver => t.role = object.items)

RbacInv ==
    /\ object \in ObjectRecord /\ listed \in Seq(Item) /\ task \in TaskRecord /\ request \in TaskRecord
    /\ ReadAsItWas(task) /\ ReadAsItWas(request)

LEMMA NoTaskIsTyped == NoTask \in TaskRecord /\ NoTask.op = "none"
<1>1. (CHOOSE i \in Item : TRUE) \in Item /\ <<>> \in Seq(Item)
  BY RBACAssumption
<1> QED
  BY <1>1 DEF NoTask, TaskRecord

LEMMA ItemsAreTyped == Items \subseteq Seq(Item)
<1>1. ASSUME NEW n \in 0 .. MaxItems, NEW s \in [1 .. n -> Item] PROVE s \in Seq(Item)
  BY RBACAssumption, SeqDef
<1> QED
  BY <1>1 DEF Items

LEMMA RbacOpensInv ==
    ASSUME NEW kind, NEW its \in Seq(Item), RbacOpens(kind, its)
    PROVE  RbacInv
BY NoTaskIsTyped DEF RbacOpens, RbacInv, ObjectRecord, ReadAsItWas

LEMMA RbacNextInv == RbacInv /\ [RbacNext]_rbacVars => RbacInv'
<1> SUFFICES ASSUME RbacInv, [RbacNext]_rbacVars PROVE RbacInv'
  OBVIOUS
<1>0. /\ object.items \in Seq(Item) /\ object.ver \in Nat /\ object.there \in BOOLEAN
      /\ listed \in Seq(Item) /\ task \in TaskRecord /\ request \in TaskRecord
  BY DEF RbacInv, ObjectRecord
<1>1. CASE OthersEdit
  <2>1. PICK its \in Items \ {object.items} : object' = [object EXCEPT !.items = its, !.ver = @ + 1]
    BY <1>1 DEF OthersEdit
  <2>2. object' \in ObjectRecord /\ object'.ver = object.ver + 1
    <3>1. its \in Seq(Item)
      BY ItemsAreTyped
    <3>2. object \in ObjectRecord
      BY DEF RbacInv
    <3>3. object' = [items |-> its, ver |-> object.ver + 1, there |-> object.there]
      BY <2>1, <3>2 DEF ObjectRecord
    <3> QED
      BY <1>0, <3>1, <3>3 DEF ObjectRecord
  <2>3. UNCHANGED <<listed, task, request>>
    BY <1>1 DEF OthersEdit
  <2>4. ReadAsItWas(task)' /\ ReadAsItWas(request)'
    BY <1>0, <2>2, <2>3 DEF RbacInv, ReadAsItWas, TaskRecord
  <2> QED
    BY <2>2, <2>3, <2>4 DEF RbacInv
<1>2. CASE Noticed
  BY <1>0, <1>2 DEF Noticed, RbacInv, ReadAsItWas
<1>3. ASSUME NEW i \in DOMAIN listed, AskToRemove(i) \/ EditSubject(i) PROVE RbacInv'
  <2>1. listed[i] \in Item /\ i \in Nat
    BY <1>0
  <2>2. task' \in TaskRecord /\ task'.op # "put"
    BY <1>3, <2>1, NoTaskIsTyped DEF AskToRemove, EditSubject, MenuAction, TaskRecord
  <2>3. UNCHANGED <<object, listed, request>>
    BY <1>3 DEF AskToRemove, EditSubject
  <2> QED
    BY <2>2, <2>3 DEF RbacInv, ReadAsItWas
<1>4. ASSUME NEW i \in 0 .. MaxItems, EditRule(i) PROVE RbacInv'
  <2>1. /\ task' = [NoTask EXCEPT !.op = "put", !.index = i, !.role = object.items, !.ver = object.ver]
        /\ UNCHANGED <<object, listed, request>>
    BY <1>4 DEF EditRule
  <2>2. task' \in TaskRecord /\ task'.ver = object.ver /\ task'.role = object.items
    <3>1. i \in Nat
      BY RBACAssumption
    <3> QED
      BY <1>0, <2>1, <3>1, NoTaskIsTyped DEF TaskRecord
  <2> QED
    BY <1>0, <2>1, <2>2 DEF RbacInv, ReadAsItWas
<1>5. CASE CancelTask
  BY <1>5, NoTaskIsTyped DEF CancelTask, RbacInv, ReadAsItWas
<1>6. CASE Submit
  <2>1. task' = NoTask /\ UNCHANGED <<object, listed>>
    BY <1>6 DEF Submit
  <2>2. PICK it \in Item : request' \in {task, [task EXCEPT !.item = it]}
    BY <1>0, <1>6, RBACAssumption DEF Submit, SaveRule
  <2>3. /\ request' \in TaskRecord /\ request'.op = task.op
        /\ request'.ver = task.ver /\ request'.role = task.role
    BY <1>0, <2>2 DEF TaskRecord
  <2>4. ReadAsItWas(request)'
    BY <2>1, <2>3 DEF RbacInv, ReadAsItWas
  <2> QED
    BY <2>1, <2>3, <2>4, NoTaskIsTyped DEF RbacInv, ReadAsItWas
<1>7. CASE ServerAnswers
  <2>1. request' = NoTask /\ UNCHANGED <<listed, task>>
    BY <1>7 DEF ServerAnswers
  <2>2. CASE object' = object
    BY <2>1, <2>2, NoTaskIsTyped DEF RbacInv, ReadAsItWas
  <2>3. CASE Accepted /\ object' = [items |-> Applied, ver |-> object.ver + 1, there |-> request.op # "delete"]
    <3>1. Applied \in Seq(Item)
      <4>1. CASE request.op = "remove"
        <5>1. request.index \in 1 .. Len(object.items)
          BY <1>0, <2>3, <4>1 DEF Accepted
        <5> QED
          BY <1>0, <4>1, <5>1 DEF Applied, RemoveAt
      <4>2. CASE request.op = "replace"
        <5>1. request.item \in Item /\ request.index \in 1 .. Len(object.items)
          BY <1>0, <2>3, <4>2 DEF TaskRecord, Accepted
        <5>2. Applied = [object.items EXCEPT ![request.index] = request.item]
          BY <4>2 DEF Applied
        <5> QED
          BY <1>0, <5>1, <5>2, ExceptSeq
      <4>3. CASE request.op = "put"
        <5>1. request.item \in Item /\ request.role \in Seq(Item)
          BY <1>0 DEF TaskRecord
        <5> QED
          BY <4>3, <5>1 DEF Applied, RoleOf
      <4>4. CASE request.op \notin {"remove", "replace", "put"}
        BY <1>0, <4>4 DEF Applied
      <4> QED
        BY <4>1, <4>2, <4>3, <4>4
    <3>2. object' \in ObjectRecord /\ object'.ver = object.ver + 1
      BY <1>0, <2>3, <3>1 DEF ObjectRecord
    <3>3. ReadAsItWas(task)'
      BY <1>0, <2>1, <3>2 DEF RbacInv, ReadAsItWas, TaskRecord
    <3> QED
      BY <2>1, <3>2, <3>3, NoTaskIsTyped DEF RbacInv, ReadAsItWas
  <2> QED
    BY <1>7, <2>2, <2>3 DEF ServerAnswers
<1>8. CASE UNCHANGED rbacVars
  BY <1>8 DEF rbacVars, RbacInv, ReadAsItWas
<1> QED
  BY <1>1, <1>2, <1>3, <1>4, <1>5, <1>6, <1>7, <1>8 DEF RbacNext

\* The rules beside the one that is saved are the server's, not those that were read
\* (edit-rule.jsx:148-169).
LEMMA RbacStepKeepsRules ==
    ASSUME RbacInv, [RbacNext]_rbacVars, Answering("put")
    PROVE  IF request.index = 0 THEN object'.items = Append(object.items, request.item)
           ELSE object'.items = [object.items EXCEPT ![request.index] = request.item]
<1>1. request.op = "put" /\ object'.ver # object.ver /\ request' = NoTask
  BY DEF Answering
<1>2. ServerAnswers
  <2>1. request' # request
    BY <1>1, NoTaskIsTyped
  <2> QED
    BY <1>1, <2>1, NoTaskIsTyped DEF RbacNext, rbacVars, OthersEdit, Noticed, AskToRemove, EditSubject, EditRule,
                                      CancelTask, Submit
<1>3. Accepted /\ object'.items = Applied
  BY <1>1, <1>2 DEF ServerAnswers
<1>4. request.ver = object.ver
  BY <1>1, <1>3 DEF Accepted
<1>5. request.role = object.items
  BY <1>1, <1>4 DEF RbacInv, ReadAsItWas
<1>6. object'.items = RoleOf(request)
  BY <1>1, <1>3 DEF Applied
<1>7. object.items \in Seq(Item)
  BY DEF RbacInv, ObjectRecord
<1> QED
  BY <1>5, <1>6, <1>7 DEF RoleOf

-----------------------------------------------------------------------------
(* The types of what is asked for and granted *)

\* Who waits for the encoder: two at most.
LEMMA WaitingInit == ImpersonationInit => Len(starting) <= 2
BY DEF ImpersonationInit, ImpersonationStarts

LEMMA WaitingNext ==
    ImpersonationInv /\ Len(starting) <= 2 /\ [ImpersonationNext]_impersonationVars => (Len(starting) <= 2)'
<1> SUFFICES ASSUME ImpersonationInv, Len(starting) <= 2, [ImpersonationNext]_impersonationVars
             PROVE  Len(starting') <= 2
  OBVIOUS
<1> DEFINE Waiting == [kind : {"User", "Group"}, name : Names]
<1>1. starting \in Seq(Waiting)
  BY DEF ImpersonationInv
<1>2. \/ starting' = starting
      \/ Len(starting) < 2 /\ \E subject \in Waiting : starting' = Append(starting, subject)
      \/ starting # <<>> /\ starting' = Tail(starting)
  BY DEF ImpersonationNext, StartImpersonate, EncoderArrives, StopImpersonate, SendRequest, OpenSocket,
         impersonationVars, Subject
<1> HIDE DEF Waiting
<1> QED
  BY <1>1, <1>2

LEMMA ImpersonationIsTyped == ImpersonationInv /\ Len(starting) <= 2 => ImpersonationTypeOK
BY DEF ImpersonationInv, ImpersonationTypeOK, Known, Myself

LEMMA BridgeIsTyped == BridgeInv => BridgeTypeOK
<1> SUFFICES ASSUME BridgeInv PROVE BridgeTypeOK
  OBVIOUS
<1>1. contacts.steps \in 0 .. MaxSteps
  BY DEF BridgeInv, Contacts
<1>2. srv \in Servers /\ flagValues \in AnyFlags
  BY DEF BridgeInv
<1> QED
  BY <1>1, <1>2 DEF BridgeInv, BridgeTypeOK, AnyFlags, Servers

\* A role stays a role, a binding a binding.
LEMMA RbacKindInit == RbacInit => rbacKind \in {"binding", "role"}
BY DEF RbacInit, RbacOpens

LEMMA RbacKindNext == rbacKind \in {"binding", "role"} /\ [RbacNext]_rbacVars => (rbacKind \in {"binding", "role"})'
BY DEF RbacNext, rbacVars, OthersEdit, Noticed, AskToRemove, EditSubject, EditRule, CancelTask, Submit, ServerAnswers

LEMMA RbacIsTyped == RbacInv /\ rbacKind \in {"binding", "role"} => RbacTypeOK
BY DEF RbacInv, RbacTypeOK, ObjectRecord, TaskRecord

\* A rule's form, the discovery under it, and what was saved.
RuleTyped == ruleForm \in RuleForms /\ discovered \in BOOLEAN /\ ruleSaved.at \in BOOLEAN

LEMMA RuleInitTyped == RuleInit => RuleTyped
<1> SUFFICES ASSUME RuleInit PROVE RuleTyped
  OBVIOUS
<1>1. discovered = FALSE /\ ruleSaved = NotSaved
  BY DEF RuleInit, RuleOpens
<1>2. ruleSaved.at = FALSE
  BY <1>1 DEF NotSaved
<1> QED
  BY <1>1, <1>2, RuleFormInit DEF RuleTyped

LEMMA RuleNextTyped == RuleTyped /\ [RuleNext]_ruleVars => RuleTyped'
<1> SUFFICES ASSUME RuleTyped, [RuleNext]_ruleVars PROVE RuleTyped'
  OBVIOUS
<1>1. ruleForm' \in RuleForms
  BY RuleFormNext DEF RuleTyped
<1>2. discovered' \in {discovered, TRUE}
  BY DEF RuleNext, ruleVars, RoleArrives, ResourcesArrive, Choose, ToggleVerb, ToggleResource, SaveTheRule
<1>3. ruleSaved' = ruleSaved \/ ruleSaved' = [at |-> TRUE, rule |-> RuleToSave]
  BY DEF RuleNext, ruleVars, RoleArrives, ResourcesArrive, Choose, ToggleVerb, ToggleResource, SaveTheRule
<1>4. ruleSaved'.at \in BOOLEAN
  <2>1. CASE ruleSaved' = ruleSaved
    BY <2>1 DEF RuleTyped
  <2>2. CASE ruleSaved' = [at |-> TRUE, rule |-> RuleToSave]
    <3>1. ruleSaved'.at = TRUE
      BY <2>2
    <3> QED
      BY <3>1
  <2> QED
    BY <1>3, <2>1, <2>2
<1> QED
  BY <1>1, <1>2, <1>4 DEF RuleTyped

LEMMA RuleIsTyped == RuleTyped => RuleTypeOK
BY DEF RuleTyped, RuleTypeOK, RuleForms

\* How far the save of a binding is.
LEMMA BoundInit == BindingInit => bound \in {"none", "incomplete", "sent"}
<1>1. ASSUME NEW a, NEW b, NEW c, NEW d, NEW e, BindingOpens(a, b, c, d, e) PROVE bound = "none"
  BY <1>1 DEF BindingOpens
<1>2. CreateOpens => bound = "none"
  BY <1>1 DEF CreateOpens
<1>3. ASSUME NEW copy, ExistingOpens(copy) PROVE bound = "none"
  BY <1>1, <1>3 DEF ExistingOpens
<1> QED
  BY <1>2, <1>3 DEF BindingInit

LEMMA BoundNext ==
    bound \in {"none", "incomplete", "sent"} /\ [BindingNext]_bindingVars => (bound \in {"none", "incomplete", "sent"})'
BY DEF BindingNext, bindingVars, RolesLoad, SetKind, ChangeName, ChangeBindingNs, ChangeRoleRef, SetSubject,
       SaveBinding, BindingRefused

LEMMA BindingIsTyped == BindingInv /\ bound \in {"none", "incomplete", "sent"} => BindingTypeOK
BY DEF BindingInv, BindingTypeOK, BindingRecord, DropdownRecord
=============================================================================
