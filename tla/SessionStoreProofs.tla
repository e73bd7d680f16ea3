------------------------- MODULE SessionStoreProofs -------------------------
(***************************************************************************)
(* Inv is inductive, so the five safety properties of the session store    *)
(* hold for every set of requests, every token space and every limit.      *)
(***************************************************************************)
EXTENDS SessionStore, FiniteSetTheorems, TLAPS

\* Only finitely many logins are between insert and prune, and a step that
\* moves one request changes their number by that request alone.
LEMMA AtLimitIsFinite ==
    IsFiniteSet(AtLimit) /\ Cardinality(AtLimit) \in Nat
BY RequestAssumption, FS_Subset, FS_CardinalityType DEF AtLimit

\* Removing entries from byAge together with their tokens keeps the two
\* structures the same, whichever entries go (deleteSession, pruneSessions).
LEMMA DropKeepsSame ==
    ASSUME TypeOK, IsFiniteSet(byAge), SameSessions, LoggedOutIsGone, Cardinality(byAge) \in Nat,
           NEW gone \in SUBSET byAge, Drop(gone)
    PROVE  /\ byToken' \in [Token -> Nat \cup {NoSession}]
           /\ byAge' \in SUBSET OldSession
           /\ IsFiniteSet(byAge') /\ byAge' \subseteq byAge
           /\ Cardinality(byAge') \in Nat /\ Cardinality(byAge') <= Cardinality(byAge)
           /\ SameSessions'
           /\ \A t \in Token : byToken[t] = NoSession => byToken'[t] = NoSession
<1>1. byToken' \in [Token -> Nat \cup {NoSession}] /\ byAge' \in SUBSET OldSession /\ byAge' \subseteq byAge
  BY DEF TypeOK, Drop
<1>2. IsFiniteSet(byAge') /\ Cardinality(byAge') \in Nat /\ Cardinality(byAge') <= Cardinality(byAge)
  BY <1>1, FS_Subset, FS_CardinalityType
<1>3. \A s \in byAge' : byToken'[s.token] = s.exp
  <2> SUFFICES ASSUME NEW s \in byAge' PROVE byToken'[s.token] = s.exp
    OBVIOUS
  <2>1. s \in byAge /\ s \notin gone /\ s.token \in Token
    BY DEF Drop, TypeOK, OldSession
  <2>2. ~\E g \in gone : g.token = s.token
    BY <2>1 DEF SameSessions
  <2> QED BY <2>1, <2>2 DEF Drop, SameSessions
<1>4. \A t \in Token : byToken'[t] # NoSession => \E s \in byAge' : s.token = t
  BY DEF Drop, SameSessions
<1>5. \A s, u \in byAge' : s.token = u.token \/ s.at = u.at => s = u
  BY <1>1 DEF SameSessions
<1>6. \A t \in Token : byToken[t] = NoSession => byToken'[t] = NoSession
  BY DEF Drop
<1> QED BY <1>1, <1>2, <1>3, <1>4, <1>5, <1>6 DEF SameSessions

\* deleteSession is the removal of the one entry the token has, if any.
LEMMA DeleteIsDrop ==
    ASSUME TypeOK, SameSessions, NEW t \in Token, DeleteSession(t)
    PROVE  Drop({s \in byAge : s.token = t}) /\ byToken'[t] = NoSession
<1> DEFINE gone == {s \in byAge : s.token = t}
<1>1. byAge' = byAge \ gone
  BY DEF DeleteSession, WithoutToken
<1>2. byToken' = [u \in Token |-> IF \E s \in gone : s.token = u THEN NoSession ELSE byToken[u]]
  <2>1. ASSUME NEW u \in Token
        PROVE  byToken'[u] = IF \E s \in gone : s.token = u THEN NoSession ELSE byToken[u]
    <3>1. CASE u # t
      <4>1. ~\E s \in gone : s.token = u
        BY <3>1
      <4> QED BY <3>1, <4>1 DEF DeleteSession, TypeOK
    <3>2. CASE u = t
      <4>1. byToken'[u] = NoSession
        BY <3>2 DEF DeleteSession, TypeOK
      <4>2. byToken[u] = NoSession \/ \E s \in gone : s.token = u
        BY <3>2 DEF SameSessions
      <4> QED BY <4>1, <4>2
    <3> QED BY <3>1, <3>2
  <2>2. byToken' = [u \in Token |-> byToken'[u]]
    BY DEF DeleteSession, TypeOK
  <2> QED BY <2>1, <2>2
<1>3. byToken'[t] = NoSession
  BY DEF DeleteSession, TypeOK
<1> QED BY <1>1, <1>2, <1>3 DEF Drop

\* The sessions a prune keeps behind an evicted one were all appended after
\* it, each at a place of its own: there are maxSessions of them.
LEMMA YoungerOnesPushOut ==
    ASSUME TypeOK, SameSessions, \A s \in byAge : s.at < added,
           NEW kept \in SUBSET byAge, IsFiniteSet(kept), Cardinality(kept) = MaxSessions,
           NEW o \in byAge, \A s \in kept : o.at < s.at
    PROVE  PushedOut(o)
<1> DEFINE places == (o.at + 1) .. (added - 1)
           place == [s \in kept |-> s.at]
<1>1. added \in Nat /\ o.at \in Nat /\ o.at < added /\ \A s \in kept : s.at \in Nat
  BY DEF TypeOK, OldSession
<1>2. \A s \in kept : s.at \in places
  BY <1>1
<1>3. \A s, u \in kept : place[s] = place[u] => s = u
  BY DEF SameSessions
<1>4. place \in Injection(kept, places)
  BY <1>2, <1>3 DEF Injection, IsInjective
<1>5. IsFiniteSet(places) /\ Cardinality(places) = added - o.at - 1
  <2>1. o.at + 1 \in Int /\ added - 1 \in Int
    BY <1>1
  <2>2. /\ IsFiniteSet(places)
        /\ Cardinality(places) = IF o.at + 1 > added - 1 THEN 0 ELSE (added - 1) - (o.at + 1) + 1
    BY <2>1, FS_Interval
  <2> QED BY <1>1, <2>2
<1>6. Cardinality(kept) <= Cardinality(places)
  BY <1>4, <1>5, FS_Injection
<1> QED BY <1>1, <1>5, <1>6, MaxSessionsAssumption DEF PushedOut

\* A pruned store is at most maxSessions long, and what a prune drops has
\* expired or has been pushed out.
LEMMA PruneBounds ==
    ASSUME TypeOK, IsFiniteSet(byAge), SameSessions, \A s \in byAge : s.at < added, PruneSessions
    PROVE  /\ \E gone \in SUBSET byAge : Drop(gone) /\ \A s \in gone : Expired(s.exp) \/ PushedOut(s)
           /\ Cardinality(byAge') \in Nat /\ Cardinality(byAge') <= MaxSessions
<1>1. PICK removed \in SUBSET byAge :
        /\ ExpiredLoop(removed)
        /\ \E old \in SUBSET (byAge \ removed) : OldestOf(byAge \ removed, old) /\ Drop(removed \cup old)
  BY DEF PruneSessions
<1>2. PICK old \in SUBSET (byAge \ removed) : OldestOf(byAge \ removed, old) /\ Drop(removed \cup old)
  BY <1>1
<1> DEFINE kept == byAge \ removed
<1>3. IsFiniteSet(kept) /\ Cardinality(kept) \in Nat
  BY FS_Subset, FS_CardinalityType
<1>4. byAge' = kept \ old
  BY <1>2 DEF Drop
<1>5. IsFiniteSet(byAge') /\ Cardinality(byAge') \in Nat
  BY <1>3, <1>4, FS_Subset, FS_CardinalityType
<1>6. Cardinality(byAge') <= MaxSessions
  <2>1. CASE Cardinality(kept) <= MaxSessions
    <3>1. old = {}
      BY <1>2, <2>1 DEF OldestOf
    <3>2. byAge' = kept
      BY <3>1, <1>4
    <3> QED BY <3>2, <2>1
  <2>2. CASE ~(Cardinality(kept) <= MaxSessions)
    <3>1. Cardinality(kept \ old) = MaxSessions
      BY <1>2, <2>2 DEF OldestOf
    <3> QED BY <3>1, <1>4, MaxSessionsAssumption
  <2> QED BY <2>1, <2>2
<1>7. \A s \in removed : Expired(s.exp)
  BY <1>1 DEF ExpiredLoop
<1>8. ASSUME NEW o \in old PROVE PushedOut(o)
  <2>1. Cardinality(kept \ old) = MaxSessions /\ \A s \in kept \ old : o.at < s.at
    BY <1>2 DEF OldestOf
  <2>2. kept \ old \in SUBSET byAge /\ IsFiniteSet(kept \ old) /\ o \in byAge
    BY <1>4, <1>5
  <2> QED BY <2>1, <2>2, YoungerOnesPushOut
<1> QED BY <1>2, <1>5, <1>6, <1>7, <1>8

\* The store at the start is empty.
LEMMA InitInv == Init => Inv
<1> SUFFICES ASSUME Init PROVE Inv
  OBVIOUS
<1>1. TypeOK
  BY DEF Init, TypeOK, Idle, Local, Stages
<1>2. IsFiniteSet(byAge) /\ Cardinality(byAge) = 0
  BY FS_EmptySet DEF Init
<1>3. BoundedStore
  BY <1>2, AtLimitIsFinite, MaxSessionsAssumption DEF BoundedStore
<1>4. SameSessions /\ LoggedOutIsGone
  BY DEF Init, SameSessions, LoggedOutIsGone
<1>5. TokensInFlight
  BY DEF Init, TokensInFlight, Idle, HasToken
<1>6. StaysSignedIn /\ SessionsKnown
  BY DEF Init, StaysSignedIn, SessionsKnown, Idle, LookedUp
<1> QED BY <1>1, <1>2, <1>3, <1>4, <1>5, <1>6 DEF Inv

\* AddLookup draws a token nobody holds unless it reports a collision.
LEMMA LookupInv ==
    ASSUME Inv, NEW r \in Request, AddLookup(r)
    PROVE  Inv'
<1>1. PICK t \in Token :
        /\ t \notin issued \/ byToken[t] # NoSession
        /\ req' = [req EXCEPT ![r] =
              [@ EXCEPT !.token = t, !.pc = IF byToken[t] # NoSession THEN "collision" ELSE "insert"]]
        /\ issued' = issued \cup {t}
  BY DEF AddLookup
<1> DEFINE next == [req[r] EXCEPT !.token = t, !.pc = IF byToken[t] # NoSession THEN "collision" ELSE "insert"]
<1>a. req[r] \in Local /\ req[r].pc = "lookup" /\ req \in [Request -> Local]
  BY DEF Inv, TypeOK, AddLookup
<1>b. /\ next \in Local /\ next.token = t
      /\ next.pc = IF byToken[t] # NoSession THEN "collision" ELSE "insert"
  BY <1>a DEF Local, Stages
<1>c. /\ req' \in [Request -> Local] /\ req'[r] = next
      /\ \A q \in Request \ {r} : req'[q] = req[q]
  BY <1>1, <1>a, <1>b
<1>d. UNCHANGED <<now, store, signedIn, loggedOut>>
  BY DEF AddLookup
<1>2. TypeOK'
  BY <1>1, <1>c, <1>d DEF Inv, TypeOK, store
<1>3. SameSessions' /\ LoggedOutIsGone' /\ IsFiniteSet(byAge')
  BY DEF Inv, SameSessions, LoggedOutIsGone, AddLookup, store
<1>4. BoundedStore'
  <2>1. AtLimit' = AtLimit
    <3>1. next.pc # "prune" /\ req[r].pc # "prune"
      BY <1>a, <1>b
    <3>2. \A q \in Request : req'[q].pc = "prune" <=> req[q].pc = "prune"
      BY <1>c, <3>1
    <3> QED BY <3>2 DEF AtLimit
  <2>2. byAge' = byAge /\ BoundedStore
    BY <1>d DEF Inv, store
  <2> QED BY <2>1, <2>2 DEF BoundedStore
<1>5. TokensInFlight'
  <2>1. /\ \A s \in byAge' : s.token \in issued' /\ s.at < added'
        /\ loggedOut' \subseteq issued'
    BY <1>1, <1>d DEF Inv, TokensInFlight, store
  <2>2. \A q \in Request : req'[q].pc \in HasToken => req'[q].token \in issued'
    BY <1>1, <1>b, <1>c DEF Inv, TokensInFlight
  <2>3. ASSUME NEW q \in Request, req'[q].pc = "insert"
        PROVE  /\ byToken'[req'[q].token] = NoSession
               /\ req'[q].token \notin loggedOut'
               /\ \A o \in Request : req'[o].pc \in HasToken /\ req'[o].token = req'[q].token => o = q
    <3>1. CASE q = r
      <4>1. t \notin issued /\ byToken[t] = NoSession
        BY <1>1, <1>b, <1>c, <2>3, <3>1
      <4>2. byToken'[t] = NoSession /\ t \notin loggedOut'
        BY <4>1, <1>d DEF Inv, TokensInFlight, store
      <4>3. \A o \in Request \ {r} : req'[o].pc \in HasToken => req'[o].token # t
        BY <4>1, <1>c DEF Inv, TokensInFlight
      <4> QED BY <3>1, <4>2, <4>3, <1>b, <1>c
    <3>2. CASE q # r
      <4>1. req'[q] = req[q] /\ req[q].token \in issued /\ byToken[req[q].token] = NoSession
        BY <1>c, <2>3, <3>2 DEF Inv, TokensInFlight, HasToken, Stages
      <4>2. req'[r].token # req[q].token
        BY <1>1, <1>b, <1>c, <4>1 DEF Inv
      <4> QED BY <1>c, <1>d, <2>3, <3>2, <4>1, <4>2 DEF Inv, TokensInFlight, store
    <3> QED BY <3>1, <3>2
  <2> QED BY <2>1, <2>2, <2>3 DEF TokensInFlight
<1>6. StaysSignedIn'
  BY <1>d DEF Inv, StaysSignedIn, Expired, PushedOut, store
<1>7. SessionsKnown'
  <2>1. byAge' \subseteq signedIn' /\ \A s \in signedIn' : s.token \in issued'
    BY <1>1, <1>d DEF Inv, SessionsKnown, store
  <2>2. \A s, u \in signedIn' : s.token = u.token => s = u
    BY <1>d DEF Inv, SessionsKnown
  <2>3. ASSUME NEW q \in Request, req'[q].pc = "insert"
        PROVE  \A s \in signedIn' : s.token # req'[q].token
    <3>1. CASE q = r
      <4>1. t \notin issued /\ req'[q].token = t
        BY <1>1, <1>b, <1>c, <2>3, <3>1
      <4> QED BY <4>1, <1>d DEF Inv, SessionsKnown
    <3>2. CASE q # r
      BY <1>c, <1>d, <2>3, <3>2 DEF Inv, SessionsKnown
    <3> QED BY <3>1, <3>2
  <2>4. ASSUME NEW q \in Request
        PROVE  /\ req'[q].pc \in LookedUp => \A s \in signedIn' : s.token = req'[q].token => s.exp = req'[q].exp
               /\ req'[q].pc = "expired" => req'[q].exp < now'
    <3>1. CASE q = r
      <4>1. req'[q] = next /\ next.pc \in {"collision", "insert"}
        BY <1>b, <1>c, <3>1
      <4> HIDE DEF next
      <4> QED BY <4>1 DEF LookedUp
    <3>2. CASE q # r
      BY <1>c, <1>d, <3>2 DEF Inv, SessionsKnown, Expired
    <3> QED BY <3>1, <3>2
  <2> QED BY <2>1, <2>2, <2>3, <2>4 DEF SessionsKnown, Expired
<1> QED BY <1>2, <1>3, <1>4, <1>5, <1>6, <1>7 DEF Inv

\* Insert: the token is in nobody else's hands, so the new entry duplicates none.
LEMMA InsertInv ==
    ASSUME Inv, NEW r \in Request, AddInsert(r)
    PROVE  Inv'
<1> DEFINE t == req[r].token
           new == [token |-> t, exp |-> req[r].exp, at |-> added]
<1>1. t \in Token /\ t \in issued /\ byToken[t] = NoSession /\ t \notin loggedOut
  BY DEF Inv, TypeOK, TokensInFlight, HasToken, Stages, AddInsert
<1>2. req[r].exp \in Nat /\ new \in OldSession
  BY <1>1 DEF Inv, TypeOK, Local, OldSession
<1>3. new \notin byAge /\ \A s \in byAge : s.token # t /\ s.at # added
  BY <1>1, <1>2 DEF Inv, TypeOK, SameSessions, OldSession, NoSession, TokensInFlight
<1>4. /\ byAge' = byAge \cup {new} /\ byToken' = [byToken EXCEPT ![t] = req[r].exp] /\ added' = added + 1
      /\ signedIn' = signedIn \cup {new}
  BY DEF AddInsert, NewSession
<1> DEFINE next == [req[r] EXCEPT !.pc = "prune"]
<1>a. /\ req' = [req EXCEPT ![r] = next] /\ UNCHANGED <<now, issued, loggedOut>>
      /\ req \in [Request -> Local] /\ req[r].pc = "insert"
  BY DEF AddInsert, Goto, Inv, TypeOK
<1>b. next \in Local /\ next.pc = "prune" /\ next.token = t
  BY <1>a DEF Local, Stages
<1>5. /\ req' \in [Request -> Local] /\ req'[r].pc = "prune" /\ req'[r].token = t
      /\ \A q \in Request \ {r} : req'[q] = req[q]
      /\ UNCHANGED <<now, issued, loggedOut>>
  BY <1>a, <1>b
<1>6. TypeOK'
  <2>1. byToken' \in [Token -> Nat \cup {NoSession}]
    BY <1>2, <1>4 DEF Inv, TypeOK
  <2>2. byAge' \in SUBSET OldSession /\ signedIn' \in SUBSET OldSession /\ added' \in Nat
    BY <1>2, <1>4 DEF Inv, TypeOK
  <2> QED BY <2>1, <2>2, <1>5 DEF Inv, TypeOK
<1>7. IsFiniteSet(byAge') /\ Cardinality(byAge') = Cardinality(byAge) + 1
  BY <1>3, <1>4, FS_AddElement DEF Inv
<1>8. SameSessions'
  <2>1. \A s \in byAge' : byToken'[s.token] = s.exp
    BY <1>1, <1>3, <1>4 DEF Inv, TypeOK, SameSessions, OldSession
  <2>2. \A u \in Token : byToken'[u] # NoSession => \E s \in byAge' : s.token = u
    <3>1. ASSUME NEW u \in Token, byToken'[u] # NoSession
          PROVE  \E s \in byAge' : s.token = u
      <4>1. CASE u = t
        <5>1. new \in byAge' /\ new.token = t
          BY <1>4
        <5> QED BY <4>1, <5>1
      <4>2. CASE u # t
        <5>1. byToken[u] # NoSession
          BY <3>1, <4>2, <1>4 DEF Inv, TypeOK
        <5> QED BY <5>1, <1>4 DEF Inv, SameSessions
      <4> QED BY <4>1, <4>2
    <3> QED BY <3>1
  <2>3. \A s, u \in byAge' : s.token = u.token \/ s.at = u.at => s = u
    BY <1>3, <1>4 DEF Inv, SameSessions
  <2> QED BY <2>1, <2>2, <2>3 DEF SameSessions
<1>9. BoundedStore'
  <2>1. AtLimit' = AtLimit \cup {r} /\ r \notin AtLimit
    BY <1>a, <1>5 DEF AtLimit
  <2>2. Cardinality(AtLimit') = Cardinality(AtLimit) + 1
    BY <2>1, AtLimitIsFinite, FS_AddElement
  <2>3. Cardinality(byAge) \in Nat
    BY FS_CardinalityType DEF Inv
  <2> QED BY <1>7, <2>2, <2>3, AtLimitIsFinite, MaxSessionsAssumption DEF Inv, BoundedStore
<1>10. LoggedOutIsGone'
  BY <1>1, <1>4, <1>5 DEF Inv, TypeOK, LoggedOutIsGone
<1>11. TokensInFlight'
  <2>1. \A s \in byAge' : s.token \in issued' /\ s.at < added'
    BY <1>1, <1>4, <1>5 DEF Inv, TypeOK, OldSession, TokensInFlight
  <2>2. loggedOut' \subseteq issued' /\ \A q \in Request : req'[q].pc \in HasToken => req'[q].token \in issued'
    BY <1>1, <1>5 DEF Inv, TokensInFlight
  <2>3. ASSUME NEW q \in Request, req'[q].pc = "insert"
        PROVE  /\ byToken'[req'[q].token] = NoSession
               /\ req'[q].token \notin loggedOut'
               /\ \A o \in Request : req'[o].pc \in HasToken /\ req'[o].token = req'[q].token => o = q
    <3>1. q # r /\ req'[q] = req[q] /\ req[q].pc = "insert"
      BY <1>5, <2>3
    <3>2. req[q].token # t
      BY <3>1, <1>a DEF Inv, TokensInFlight, HasToken, Stages
    <3>3. \A o \in Request : req'[o].token = req[o].token /\ (req'[o].pc \in HasToken => req[o].pc \in HasToken)
      BY <1>a, <1>5 DEF HasToken, Stages
    <3> QED BY <1>4, <1>5, <3>1, <3>2, <3>3 DEF Inv, TypeOK, TokensInFlight
  <2> QED BY <2>1, <2>2, <2>3 DEF TokensInFlight
<1>12. StaysSignedIn'
  <2> SUFFICES ASSUME NEW s \in signedIn' PROVE s \in byAge' \/ s.exp < now' \/ added' - s.at > MaxSessions
    BY DEF StaysSignedIn, Expired, PushedOut
  <2>1. CASE s = new
    BY <2>1, <1>4
  <2>2. CASE s \in signedIn
    <3>1. s.at \in Nat /\ added \in Nat
      BY <2>2 DEF Inv, TypeOK, OldSession
    <3>2. s \in byAge \/ Expired(s.exp) \/ PushedOut(s)
      BY <2>2 DEF Inv, StaysSignedIn
    <3> QED BY <1>4, <1>5, <3>1, <3>2, MaxSessionsAssumption DEF Expired, PushedOut
  <2> QED BY <2>1, <2>2, <1>4
<1>13. SessionsKnown'
  <2>1. new.token = t /\ \A s \in signedIn : s.token # t
    BY <1>a DEF Inv, SessionsKnown
  <2>2. byAge' \subseteq signedIn' /\ \A s \in signedIn' : s.token \in issued'
    BY <1>1, <1>4, <1>5, <2>1 DEF Inv, SessionsKnown
  <2>3. \A s, u \in signedIn' : s.token = u.token => s = u
    BY <1>4, <2>1 DEF Inv, SessionsKnown
  <2>4. \A q \in Request \ {r} : req[q].pc \in HasToken => req[q].token # t
    BY <1>a DEF Inv, TokensInFlight
  <2>5. \A q \in Request : req'[q].pc = "insert" => \A s \in signedIn' : s.token # req'[q].token
    BY <1>4, <1>5, <2>1, <2>4 DEF Inv, SessionsKnown, HasToken, Stages
  <2>6. \A q \in Request : req'[q].pc \in LookedUp =>
          \A s \in signedIn' : s.token = req'[q].token => s.exp = req'[q].exp
    BY <1>4, <1>5, <2>1, <2>4 DEF Inv, SessionsKnown, HasToken, Stages, LookedUp
  <2>7. \A q \in Request : req'[q].pc = "expired" => req'[q].exp < now'
    BY <1>5 DEF Inv, SessionsKnown, Expired
  <2> QED BY <2>2, <2>3, <2>5, <2>6, <2>7 DEF SessionsKnown, Expired
<1> QED BY <1>6, <1>7, <1>8, <1>9, <1>10, <1>11, <1>12, <1>13 DEF Inv

\* Every other handler step removes some entries from the store (perhaps none)
\* and moves one request to a stage other than "insert" and "prune".
LEMMA RemoveInv ==
    ASSUME Inv, NEW r \in Request, NEW gone \in SUBSET byAge, Drop(gone),
           UNCHANGED <<now, added, issued>>,
           signedIn' \subseteq signedIn, byAge' \subseteq signedIn',
           \A s \in signedIn' \cap gone : Expired(s.exp) \/ PushedOut(s),
           req' \in [Request -> Local], \A q \in Request \ {r} : req'[q] = req[q],
           req'[r].pc \notin {"insert", "prune"},
           req'[r].pc \in HasToken =>
              \/ req[r].pc \in HasToken /\ req'[r].token = req[r].token
              \/ req'[r].token \in Token /\ byToken[req'[r].token] # NoSession,
           req'[r].pc \in LookedUp =>
              \/ req[r].pc \in LookedUp /\ req'[r].token = req[r].token /\ req'[r].exp = req[r].exp
              \/ /\ req'[r].token \in Token /\ byToken[req'[r].token] # NoSession
                 /\ req'[r].exp = byToken[req'[r].token],
           req'[r].pc = "expired" => Expired(req'[r].exp),
           req[r].pc = "prune" => Cardinality(byAge') <= MaxSessions,
           \A t \in loggedOut' \ loggedOut :
              byToken'[t] = NoSession /\ t = req[r].token /\ req[r].pc \in HasToken \ {"insert"}
    PROVE  Inv'
<1>1. Cardinality(byAge) \in Nat
  BY FS_CardinalityType DEF Inv
<1>2. /\ byToken' \in [Token -> Nat \cup {NoSession}]
      /\ byAge' \in SUBSET OldSession /\ IsFiniteSet(byAge') /\ byAge' \subseteq byAge
      /\ Cardinality(byAge') \in Nat /\ Cardinality(byAge') <= Cardinality(byAge)
      /\ SameSessions'
      /\ \A t \in Token : byToken[t] = NoSession => byToken'[t] = NoSession
  BY <1>1, DropKeepsSame DEF Inv
<1>3. /\ \A s \in byAge : s.token \in issued /\ s.at < added
      /\ loggedOut \subseteq issued /\ issued \subseteq Token
      /\ \A q \in Request : req[q].pc \in HasToken => req[q].token \in issued
  BY DEF Inv, TypeOK, TokensInFlight
<1>4. \A q \in Request : req[q].pc = "insert" =>
        /\ byToken[req[q].token] = NoSession
        /\ req[q].token \notin loggedOut
        /\ \A o \in Request : req[o].pc \in HasToken /\ req[o].token = req[q].token => o = q
  BY DEF Inv, TokensInFlight
<1>5. \A t \in Token : byToken[t] # NoSession => t \in issued
  BY <1>3 DEF Inv, SameSessions
<1>6. loggedOut' \subseteq issued
  BY <1>3
<1>7. TypeOK'
  BY <1>2, <1>3, <1>6 DEF Inv, TypeOK
<1>8. LoggedOutIsGone'
  BY <1>2, <1>3 DEF Inv, LoggedOutIsGone
<1>9. BoundedStore'
  <2>1. CASE req[r].pc = "prune"
    <3>1. Cardinality(AtLimit') \in Nat
      <4>1. AtLimit' \subseteq Request
        BY DEF AtLimit
      <4> QED BY <4>1, RequestAssumption, FS_Subset, FS_CardinalityType
    <3> QED BY <1>2, <2>1, <3>1, MaxSessionsAssumption DEF BoundedStore
  <2>2. CASE req[r].pc # "prune"
    <3>1. AtLimit' = AtLimit
      BY <2>2 DEF AtLimit
    <3> QED BY <1>1, <1>2, <3>1, AtLimitIsFinite, MaxSessionsAssumption DEF Inv, BoundedStore
  <2> QED BY <2>1, <2>2
<1>10. TokensInFlight'
  <2>1. \A s \in byAge' : s.token \in issued' /\ s.at < added'
    BY <1>2, <1>3
  <2>2. \A q \in Request : req'[q].pc \in HasToken => req'[q].token \in issued'
    BY <1>3, <1>5
  <2>3. ASSUME NEW q \in Request, req'[q].pc = "insert"
        PROVE  /\ byToken'[req'[q].token] = NoSession
               /\ req'[q].token \notin loggedOut'
               /\ \A o \in Request : req'[o].pc \in HasToken /\ req'[o].token = req'[q].token => o = q
    <3>1. q # r /\ req'[q] = req[q] /\ req[q].pc = "insert"
      BY <2>3
    <3>2. req[q].token \in issued /\ byToken[req[q].token] = NoSession
      BY <1>3, <1>4, <3>1 DEF HasToken, Stages
    <3>3. byToken'[req[q].token] = NoSession
      BY <1>2, <1>3, <3>2
    <3>4. req[q].token \notin loggedOut'
      BY <1>4, <3>1
    <3>5. req'[r].pc \in HasToken => req'[r].token # req[q].token
      BY <1>4, <3>1, <3>2
    <3>6. \A o \in Request : req'[o].pc \in HasToken /\ req'[o].token = req[q].token => o = q
      BY <1>4, <3>1, <3>5
    <3> QED BY <3>1, <3>3, <3>4, <3>6
  <2> QED BY <1>6, <2>1, <2>2, <2>3 DEF TokensInFlight
<1>11. StaysSignedIn'
  <2> SUFFICES ASSUME NEW s \in signedIn' PROVE s \in byAge' \/ Expired(s.exp) \/ PushedOut(s)
    BY DEF StaysSignedIn, Expired, PushedOut
  <2>1. s \in byAge \/ Expired(s.exp) \/ PushedOut(s)
    BY DEF Inv, StaysSignedIn
  <2> QED BY <2>1 DEF Drop
<1>12. SessionsKnown'
  <2>1. /\ byAge \subseteq signedIn /\ \A s \in signedIn : s.token \in issued
        /\ \A s, u \in signedIn : s.token = u.token => s = u
        /\ \A q \in Request : req[q].pc = "insert" => \A s \in signedIn : s.token # req[q].token
        /\ \A q \in Request : req[q].pc \in LookedUp =>
             \A s \in signedIn : s.token = req[q].token => s.exp = req[q].exp
        /\ \A q \in Request : req[q].pc = "expired" => Expired(req[q].exp)
    BY DEF Inv, SessionsKnown
  <2>2. req'[r].pc \in LookedUp => \A s \in signedIn' : s.token = req'[r].token => s.exp = req'[r].exp
    <3> SUFFICES ASSUME req'[r].pc \in LookedUp, NEW s \in signedIn', s.token = req'[r].token
                 PROVE  s.exp = req'[r].exp
      OBVIOUS
    <3>1. CASE req[r].pc \in LookedUp /\ req'[r].token = req[r].token /\ req'[r].exp = req[r].exp
      BY <2>1, <3>1
    <3>2. CASE /\ req'[r].token \in Token /\ byToken[req'[r].token] # NoSession
               /\ req'[r].exp = byToken[req'[r].token]
      <4>1. PICK e \in byAge : e.token = req'[r].token
        BY <3>2 DEF Inv, SameSessions
      <4>2. s = e
        BY <2>1, <4>1
      <4>3. byToken[e.token] = e.exp
        BY <4>1 DEF Inv, SameSessions
      <4> QED BY <3>2, <4>1, <4>2, <4>3
    <3> QED BY <3>1, <3>2
  <2>3. \A q \in Request : req'[q].pc = "insert" => \A s \in signedIn' : s.token # req'[q].token
    BY <2>1
  <2>4. \A q \in Request : req'[q].pc \in LookedUp =>
          \A s \in signedIn' : s.token = req'[q].token => s.exp = req'[q].exp
    BY <2>1, <2>2
  <2>5. \A q \in Request : req'[q].pc = "expired" => req'[q].exp < now'
    BY <2>1 DEF Expired
  <2>6. /\ byAge' \subseteq signedIn' /\ \A s \in signedIn' : s.token \in issued'
        /\ \A s, u \in signedIn' : s.token = u.token => s = u
    BY <2>1
  <2> QED BY <2>3, <2>4, <2>5, <2>6 DEF SessionsKnown, Expired
<1> QED BY <1>2, <1>7, <1>8, <1>9, <1>10, <1>11, <1>12 DEF Inv

\* A step that leaves the store alone removes nothing.
LEMMA KeepIsDrop ==
    ASSUME TypeOK, UNCHANGED <<byToken, byAge>>
    PROVE  Drop({})
BY DEF TypeOK, Drop

\* What Goto does to the moving request and to the others.
LEMMA GotoMoves ==
    ASSUME TypeOK, NEW r \in Request, NEW stage \in Stages, Goto(r, stage)
    PROVE  /\ req' \in [Request -> Local] /\ req'[r].pc = stage
           /\ stage # "idle" => req'[r].token = req[r].token /\ req'[r].exp = req[r].exp
           /\ \A q \in Request \ {r} : req'[q] = req[q]
<1> DEFINE next == IF stage = "idle" THEN Idle ELSE [req[r] EXCEPT !.pc = stage]
<1>1. req \in [Request -> Local] /\ req[r] \in Local
  BY DEF TypeOK
<1>2. next \in Local /\ next.pc = stage
  BY <1>1 DEF Local, Idle, Stages
<1>3. stage # "idle" => next.token = req[r].token /\ next.exp = req[r].exp
  BY <1>1 DEF Local
<1>4. req' = [req EXCEPT ![r] = next]
  BY DEF Goto
<1> QED BY <1>1, <1>2, <1>3, <1>4

LEMMA StepInv ==
    ASSUME Inv, NEW r \in Request, RequestStep(r)
    PROVE  Inv'
<1> USE DEF Inv
<1>a. TypeOK /\ now \in Nat /\ IsFiniteSet(byAge) /\ SameSessions
  BY DEF TypeOK
<1>b. req[r].pc \in HasToken => req[r].token \in Token
  BY DEF TypeOK, TokensInFlight
<1>c. byAge \subseteq signedIn /\ (req[r].pc = "expired" => Expired(req[r].exp))
  BY DEF SessionsKnown
<1>d. \A s \in byAge : s.at < added
  BY DEF TokensInFlight
<1> HIDE DEF Inv
<1>1. CASE StartLogin(r)
  <2>1. PICK life \in Lifetimes : req' = [req EXCEPT ![r] = [pc |-> "lookup", token |-> "", exp |-> now + life]]
    BY <1>1 DEF StartLogin
  <2>3. [pc |-> "lookup", token |-> "", exp |-> now + life] \in Local
    BY <1>a, LifetimesAssumption DEF Local, Stages
  <2>4. /\ req' \in [Request -> Local] /\ req'[r].pc = "lookup"
        /\ \A q \in Request \ {r} : req'[q] = req[q]
    BY <1>a, <2>1, <2>3 DEF TypeOK
  <2>5. req[r].pc = "idle" /\ UNCHANGED <<now, byToken, byAge, added, issued, signedIn, loggedOut>>
    BY <1>1 DEF StartLogin, store
  <2> QED BY <1>a, <1>c, <2>4, <2>5, KeepIsDrop, RemoveInv DEF HasToken, LookedUp
<1>2. CASE AddLookup(r)
  BY <1>2, LookupInv
<1>3. CASE AddCollision(r)
  <2>1. /\ req[r].pc = "collision" /\ DeleteSession(req[r].token) /\ Goto(r, "idle")
        /\ UNCHANGED <<now, added, issued, loggedOut>> /\ signedIn' = WithoutToken(signedIn, req[r].token)
    BY <1>3 DEF AddCollision, DeleteSession
  <2>2. req[r].token \in Token
    BY <1>b, <2>1 DEF HasToken, Stages
  <2> DEFINE gone == {s \in byAge : s.token = req[r].token}
  <2>3. Drop(gone)
    BY <1>a, <2>1, <2>2, DeleteIsDrop
  <2>5. signedIn' \subseteq signedIn /\ byAge' \subseteq signedIn' /\ signedIn' \cap gone = {}
    BY <1>c, <2>1 DEF DeleteSession, WithoutToken
  <2>4. req' \in [Request -> Local] /\ req'[r].pc = "idle" /\ \A q \in Request \ {r} : req'[q] = req[q]
    BY <1>a, <2>1, GotoMoves DEF Stages
  <2> HIDE DEF gone
  <2> QED BY <1>a, <2>1, <2>3, <2>4, <2>5, RemoveInv DEF HasToken, LookedUp, gone
<1>4. CASE AddInsert(r)
  BY <1>4, InsertInv
<1>5. CASE Prune(r)
  <2>1. /\ req[r].pc = "prune" /\ PruneSessions /\ Goto(r, "idle")
        /\ UNCHANGED <<now, added, issued, signedIn, loggedOut>>
    BY <1>5 DEF Prune, PruneSessions
  <2>2. PICK gone \in SUBSET byAge : Drop(gone) /\ \A s \in gone : Expired(s.exp) \/ PushedOut(s)
    BY <1>a, <1>d, <2>1, PruneBounds
  <2>3. Cardinality(byAge') <= MaxSessions
    BY <1>a, <1>d, <2>1, PruneBounds
  <2>5. byAge' \subseteq signedIn'
    BY <1>c, <2>1, <2>2 DEF Drop
  <2>4. req' \in [Request -> Local] /\ req'[r].pc = "idle" /\ \A q \in Request \ {r} : req'[q] = req[q]
    BY <1>a, <2>1, GotoMoves DEF Stages
  <2> QED BY <1>a, <2>1, <2>2, <2>3, <2>4, <2>5, RemoveInv DEF HasToken, LookedUp
<1>6. CASE StartAuthenticate(r) \/ StartLogout(r)
  <2>1. PICK stage \in {"authenticate", "logout"} : GetSession(r, stage)
    BY <1>6 DEF StartAuthenticate, StartLogout
  <2>2. PICK t \in Token :
          byToken[t] # NoSession /\ req' = [req EXCEPT ![r] = [pc |-> stage, token |-> t, exp |-> byToken[t]]]
    BY <2>1 DEF GetSession
  <2>3. byToken[t] \in Nat
    BY <1>a, <2>2 DEF TypeOK
  <2>4. [pc |-> stage, token |-> t, exp |-> byToken[t]] \in Local
    BY <2>3 DEF Local, Stages
  <2>5. /\ req' \in [Request -> Local] /\ req'[r].pc = stage /\ req'[r].token = t /\ req'[r].exp = byToken[t]
        /\ \A q \in Request \ {r} : req'[q] = req[q]
    BY <1>a, <2>2, <2>4 DEF TypeOK
  <2>6. req[r].pc = "idle" /\ UNCHANGED <<now, byToken, byAge, added, issued, signedIn, loggedOut>>
    BY <2>1 DEF GetSession, store
  <2> QED BY <1>a, <1>c, <2>2, <2>5, <2>6, KeepIsDrop, RemoveInv
<1>7. CASE CheckAuthenticate(r) \/ CheckLogout(r)
  <2>1. PICK stage \in {"idle", "expired", "delete"} :
          Goto(r, stage) /\ (stage = "expired" => Expired(req[r].exp))
    BY <1>7 DEF CheckAuthenticate, CheckLogout
  <2>2. req[r].pc \in {"authenticate", "logout"} /\ UNCHANGED <<now, byToken, byAge, added, issued, signedIn, loggedOut>>
    BY <1>7 DEF CheckAuthenticate, CheckLogout, store
  <2>3. /\ req' \in [Request -> Local] /\ req'[r].pc = stage
        /\ stage # "idle" => req'[r].token = req[r].token /\ req'[r].exp = req[r].exp
        /\ \A q \in Request \ {r} : req'[q] = req[q]
    BY <1>a, <2>1, GotoMoves DEF Stages
  <2> QED BY <1>a, <1>c, <2>1, <2>2, <2>3, KeepIsDrop, RemoveInv DEF HasToken, Stages, LookedUp
<1>8. CASE DeleteExpired(r) \/ LogoutDelete(r)
  <2>1. /\ req[r].pc \in {"expired", "delete"} /\ DeleteSession(req[r].token) /\ Goto(r, "idle")
        /\ UNCHANGED <<now, added, issued>> /\ loggedOut' \subseteq loggedOut \cup {req[r].token}
        /\ \/ req[r].pc = "expired" /\ signedIn' = signedIn
           \/ signedIn' = WithoutToken(signedIn, req[r].token)
    BY <1>8 DEF DeleteExpired, LogoutDelete, DeleteSession
  <2>2. req[r].token \in Token
    BY <1>b, <2>1 DEF HasToken, Stages
  <2> DEFINE gone == {s \in byAge : s.token = req[r].token}
  <2>3. Drop(gone)
    BY <1>a, <2>1, <2>2, DeleteIsDrop
  <2>6. signedIn' \subseteq signedIn /\ byAge' \subseteq signedIn'
    BY <1>c, <2>1 DEF DeleteSession, WithoutToken
  <2>7. \A s \in signedIn' \cap gone : Expired(s.exp) \/ PushedOut(s)
    <3>1. CASE req[r].pc = "expired"
      <4>1. \A s \in signedIn : s.token = req[r].token => s.exp = req[r].exp
        BY <3>1 DEF Inv, SessionsKnown, LookedUp
      <4> QED BY <1>c, <2>6, <3>1, <4>1
    <3>2. CASE req[r].pc # "expired"
      BY <2>1, <3>2 DEF WithoutToken
    <3> QED BY <3>1, <3>2
  <2>4. byToken'[req[r].token] = NoSession
    BY <1>a, <2>1, <2>2, DeleteIsDrop
  <2>5. req' \in [Request -> Local] /\ req'[r].pc = "idle" /\ \A q \in Request \ {r} : req'[q] = req[q]
    BY <1>a, <2>1, GotoMoves DEF Stages
  <2>8. gone \in SUBSET byAge
    OBVIOUS
  <2> HIDE DEF gone
  <2> QED BY <1>a, <2>1, <2>3, <2>4, <2>5, <2>6, <2>7, <2>8, RemoveInv DEF HasToken, Stages, LookedUp
<1> QED BY <1>1, <1>2, <1>3, <1>4, <1>5, <1>6, <1>7, <1>8 DEF RequestStep

\* A restart after the map race empties the store; tokens stay spent.
LEMMA CrashInv == Inv /\ MapRaceCrash => Inv'
<1> SUFFICES ASSUME Inv, MapRaceCrash PROVE Inv'
  OBVIOUS
<1>1. /\ byToken' = [t \in Token |-> NoSession] /\ byAge' = {}
      /\ req' = [r \in Request |-> Idle] /\ signedIn' = {} /\ UNCHANGED <<now, added, issued, loggedOut>>
  BY DEF MapRaceCrash
<1>2. TypeOK'
  BY <1>1 DEF Inv, TypeOK, Idle, Local, Stages
<1>3. IsFiniteSet(byAge') /\ Cardinality(byAge') = 0
  BY <1>1, FS_EmptySet
<1>4. BoundedStore'
  <2>1. AtLimit' = {}
    BY <1>1 DEF AtLimit, Idle
  <2> QED BY <1>3, <2>1, FS_EmptySet, MaxSessionsAssumption DEF BoundedStore
<1>5. SameSessions'
  BY <1>1 DEF SameSessions
<1>6. LoggedOutIsGone' /\ TokensInFlight'
  BY <1>1 DEF Inv, TypeOK, LoggedOutIsGone, TokensInFlight, Idle, HasToken
<1>7. StaysSignedIn' /\ SessionsKnown'
  BY <1>1 DEF StaysSignedIn, SessionsKnown, Idle, LookedUp
<1> QED BY <1>2, <1>3, <1>4, <1>5, <1>6, <1>7 DEF Inv

\* The inductive invariant of the store and its handlers.
THEOREM InvHolds == Spec => []Inv
<1>1. Inv /\ [Next]_vars => Inv'
  <2> SUFFICES ASSUME Inv, [Next]_vars PROVE Inv'
    OBVIOUS
  <2>1. CASE Tick
    <3>1. now' \in Nat /\ now \in Nat /\ now <= now' /\ UNCHANGED <<byToken, byAge, added, req, issued, signedIn, loggedOut>>
      BY <2>1 DEF Tick, store, Inv, TypeOK
    <3>2. \A e \in Nat : Expired(e) => Expired(e)'
      BY <3>1 DEF Expired
    <3>3. StaysSignedIn'
      BY <3>1, <3>2 DEF Inv, TypeOK, OldSession, StaysSignedIn, PushedOut
    <3>4. SessionsKnown'
      BY <3>1, <3>2 DEF Inv, TypeOK, Local, SessionsKnown
    <3> QED BY <3>1, <3>3, <3>4
            DEF Inv, TypeOK, SameSessions, BoundedStore, AtLimit, LoggedOutIsGone, TokensInFlight
  <2>2. CASE MapRaceCrash
    BY <2>2, CrashInv
  <2>3. CASE \E r \in Request : RequestStep(r)
    BY <2>3, StepInv
  <2>4. CASE UNCHANGED vars
    BY <2>4 DEF vars, Inv, TypeOK, SameSessions, BoundedStore, AtLimit, LoggedOutIsGone, TokensInFlight,
                StaysSignedIn, PushedOut, Expired, SessionsKnown
  <2> QED BY <2>1, <2>2, <2>3, <2>4 DEF Next
<1> QED BY InitInv, <1>1, PTL DEF Spec

\* byToken and byAge always hold the same sessions (checkSessions of
\* session_test.go), for any number of concurrent handlers.
THEOREM StoreConsistent == Spec => [](TypeOK /\ SameSessions)
<1>1. Inv => TypeOK /\ SameSessions
  BY DEF Inv
<1> QED BY <1>1, InvHolds, PTL

\* The store never holds more than maxSessions and the logins that still have
\* to prune.
THEOREM StoreBounded == Spec => []BoundedStore
<1>1. Inv => BoundedStore
  BY DEF Inv
<1> QED BY <1>1, InvHolds, PTL

\* No interleaving with logins, prunes and stale requests brings back a
\* session whose logout was answered.
THEOREM LogoutIsFinal == Spec => []LoggedOutIsGone
<1>1. Inv => LoggedOutIsGone
  BY DEF Inv
<1> QED BY <1>1, InvHolds, PTL

\* Nobody is signed out by the login, logout or expired cookie of another
\* request, whatever is interleaved: a session goes by its own logout, by its
\* expiry, or behind more than maxSessions younger ones.
THEOREM NobodyElseSignsOut == Spec => []StaysSignedIn
<1>1. Inv => StaysSignedIn
  BY DEF Inv
<1> QED BY <1>1, InvHolds, PTL
=============================================================================
