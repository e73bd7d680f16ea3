--------------------------- MODULE Impersonation ---------------------------
(***************************************************************************)
(* Impersonation: the menu of a role binding's subject and the notice at   *)
(* the top (src/frontend/public/ui/ui-actions.js, ui-reducers.js,          *)
(* components/RBAC/bindings.jsx), the headers of requests (co-fetch.js),   *)
(* the subprotocols of sockets and what the server makes of them           *)
(* (src/pkg/proxy/proxy.go).                                               *)
(***************************************************************************)
EXTENDS Integers, Sequences, FiniteSetsExt

CONSTANTS
    Symbol,     \* symbols of base64 that names are made of
    NameLength  \* and the lengths of these names

ASSUME ImpersonationAssumption ==
    "_" \notin Symbol /\ "-" \notin Symbol /\ NameLength \subseteq Nat \ {0}

VARIABLES
    impersonate, \* UI.impersonate: kind, name and subprotocols, or Myself
    encoder,     \* TextEncoder: the browser's, or the polyfill, once it is loaded
    starting,    \* calls of startImpersonate that wait for the polyfill
    seen         \* who the API server takes the sender of the last request for

impersonationVars == <<impersonate, encoder, starting, seen>>

-----------------------------------------------------------------------------
\* Names in base64, as sequences of its symbols.
Names == UNION {[1 .. n -> Symbol] : n \in NameLength}

NoOne == [user |-> <<>>, group |-> <<>>]
Myself == [kind |-> "none", name |-> <<>>, subprotocols |-> <<>>]

\* Symbols that a subprotocol may not have are replaced, and put back by the server.
EncodeName(name) == [i \in DOMAIN name |-> CASE name[i] = "=" -> "_" [] name[i] = "/" -> "-" [] OTHER -> name[i]]
DecodeSubprotocol(name) == [i \in DOMAIN name |-> CASE name[i] = "_" -> "=" [] name[i] = "-" -> "/" [] OTHER -> name[i]]

Subject == [kind : {"User", "Group", "ServiceAccount"}, name : Names]

ImpersonationStarts(e) ==
    /\ impersonate = Myself /\ encoder = e /\ starting = <<>>
    /\ seen = [by |-> Myself, how |-> "none", as |-> NoOne]
ImpersonationInit == \E e \in {"native", "absent"} : ImpersonationStarts(e)

\* startImpersonate, once there is an encoder: somebody else is not impersonated before
\* the first impersonation is stopped.
Impersonates(subject) ==
    IF impersonate # Myself /\ impersonate.name # subject.name THEN UNCHANGED impersonate
    ELSE impersonate' = [kind |-> subject.kind, name |-> subject.name,
                         subprotocols |-> <<[for |-> subject.kind, name |-> EncodeName(subject.name)]>>]

\* The menu has the entry for users and groups.
StartImpersonate ==
    /\ \E subject \in Subject :
          /\ subject.kind \in {"User", "Group"}
          /\ IF encoder = "absent"
             THEN /\ Len(starting) < 2 /\ starting' = Append(starting, subject)
                  /\ UNCHANGED impersonate
             ELSE Impersonates(subject) /\ UNCHANGED starting
    /\ UNCHANGED <<encoder, seen>>

\* The polyfill arrives; those who wait for it go on one by one.
EncoderArrives ==
    /\ starting # <<>>
    /\ Impersonates(Head(starting)) /\ starting' = Tail(starting)
    /\ UNCHANGED <<encoder, seen>>

StopImpersonate ==
    /\ impersonate # Myself /\ impersonate' = Myself
    /\ UNCHANGED <<encoder, starting, seen>>

-----------------------------------------------------------------------------
\* coFetchJSON: a group's requests name a user too, or the API server would refuse them.
Headers ==
    [user |-> IF impersonate.kind \in {"User", "Group"} THEN impersonate.name ELSE <<>>,
     group |-> IF impersonate.kind = "Group" THEN impersonate.name ELSE <<>>]

\* The protocols a socket asks for, by what it is for: a list and a terminal add theirs to
\* those of the impersonation; an object's watch passes them where k8sWatch does not look,
\* and events and logs have none.
Subprotocols(use) ==
    CASE use = "list" -> impersonate.subprotocols
      [] use = "terminal" -> Append(impersonate.subprotocols, [for |-> "base64.channel.k8s.io", name |-> <<>>])
      [] use = "logs" -> <<[for |-> "base64.binary.k8s.io", name |-> <<>>]>>
      [] OTHER -> <<>>

\* ServeHTTP goes through the protocols, and the last for a header wins.
LastFor(kinds, protocols) ==
    LET those == {i \in DOMAIN protocols : protocols[i].for \in kinds}
    IN  IF those = {} THEN <<>> ELSE DecodeSubprotocol(protocols[Max(those)].name)

\* Fault: a group is not given a user.
Proxied_NoUser(protocols) ==
    [user |-> LastFor({"User"}, protocols), group |-> LastFor({"Group"}, protocols)]

Proxied(protocols) ==
    [user |-> LastFor({"User", "Group"}, protocols), group |-> LastFor({"Group"}, protocols)]

SendRequest ==
    /\ seen' = [by |-> impersonate, how |-> "request", as |-> Headers]
    /\ UNCHANGED <<impersonate, encoder, starting>>

OpenSocket ==
    /\ \E use \in {"list", "terminal", "object", "events", "logs"} :
          seen' = [by |-> impersonate, how |-> use, as |-> Proxied(Subprotocols(use))]
    /\ UNCHANGED <<impersonate, encoder, starting>>

ImpersonationNext ==
    \/ StartImpersonate \/ EncoderArrives \/ StopImpersonate \/ SendRequest \/ OpenSocket

ImpersonationTypeOK ==
    /\ impersonate.kind \in {"none", "User", "Group"} /\ impersonate.name \in Names \cup {<<>>}
    /\ encoder \in {"native", "absent"} /\ Len(starting) <= 2
    /\ seen.as.user \in Names \cup {<<>>} /\ seen.as.group \in Names \cup {<<>>}

-----------------------------------------------------------------------------
\* Requests, lists and terminals are those of the user or group the notice names, who is
\* the same by way of headers (co-fetch.js:118) and by way of subprotocols that are
\* encoded in the browser (ui-actions.js:126) and decoded in the server (proxy.go:138);
\* the sockets of single objects, events and logs are the user's own in any case.
ActsAsShown ==
    LET who == seen.by
    IN seen.how \in {"request", "list", "terminal"} =>
          /\ seen.as.user = who.name
          /\ seen.as.group = IF who.kind = "Group" THEN who.name ELSE <<>>
=============================================================================
