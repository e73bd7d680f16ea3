------------------------------ MODULE Account ------------------------------
(***************************************************************************)
(* The profile of a user: the configuration for kubectl (src/frontend/     *)
(* public/components/modals/kubectl-config.jsx, server/server.go's         *)
(* handleRenderKubeConfig) and the clients that hold a refresh token of    *)
(* the user's (client-tokens.jsx, handleListClients,                       *)
(* handleTokenRevocation), which the provider, Dex, keeps.                 *)
(***************************************************************************)
EXTENDS Integers, SequencesExt

CONSTANTS Client,     \* clients that may hold a token; "kubectl" is one
          MaxGrants,  \* bound of the model: tokens given out behind the page's back
          MaxListings,\* bound of the model: lists on their way when a token is revoked
          MaxStrays   \* bound of the model: requests left behind that are yet to act

ASSUME AccountAssumption ==
    /\ "kubectl" \in Client /\ Client \cap {"none", "unanswered"} = {}
    /\ MaxGrants \in Nat /\ MaxListings \in Nat /\ MaxStrays \in Nat

VARIABLES
    setup,     \* what the server has: an authenticator for kubectl, access to Dex
    granted,   \* the clients that hold a refresh token, at Dex
    listings,  \* requests for the clients, oldest first; Unanswered, or what Dex said
    clients,   \* the list on the page: loading, failed and the clients shown
    revocation,\* the dialog that asks before a token is revoked
    kubectl,   \* the dialog that sets up kubectl: its step, code and result
    strays,    \* requests no dialog waits for any more, which are yet to act
    grants,    \* counts the grants
    revoked,   \* history: the client of the last dialog that closed as done
    renewed,   \* history: clients that got a token since it was last asked to be revoked
    withdrawn  \* history: clients whose token a stray took, and that got none here since

accountVars == <<setup, granted, listings, clients, revocation, kubectl, strays, grants, revoked, renewed,
                 withdrawn>>

-----------------------------------------------------------------------------
NoRevocation == [step |-> "closed", client |-> "none", told |-> FALSE]
NoKubectl == [step |-> "closed", code |-> "none", file |-> FALSE, told |-> FALSE]
ListsClients == [loaded |-> FALSE, failed |-> FALSE, shown |-> {}]
Unanswered == {"unanswered"}

\* componentDidMount: the clients are asked for.
AccountOpens(auther, dex, holders, asked) ==
    /\ setup = [auther |-> auther, dex |-> dex] /\ granted = holders
    /\ listings = asked /\ clients = ListsClients
    /\ revocation = NoRevocation /\ kubectl = NoKubectl
    /\ strays = {} /\ grants = 0 /\ revoked = "none" /\ renewed = {} /\ withdrawn = {}

AccountInit ==
    \E auther, dex \in BOOLEAN, holders \in SUBSET Client : AccountOpens(auther, dex, holders, <<Unanswered>>)

-----------------------------------------------------------------------------
\* handleListClients, at the server: Dex is asked for the tokens of the user.
ListClients ==
    /\ \E i \in 1..Len(listings) :
          /\ listings[i] = Unanswered
          /\ listings' = [listings EXCEPT ![i] = granted]
    /\ UNCHANGED <<setup, granted, clients, revocation, kubectl, strays, grants, revoked, renewed, withdrawn>>

\* _getClients, in the order the answers come.
ClientsArrive ==
    /\ \E i \in 1..Len(listings) :
          /\ listings[i] # Unanswered \/ ~setup.dex
          /\ clients' = IF setup.dex THEN [loaded |-> TRUE, failed |-> clients.failed, shown |-> listings[i]]
                        ELSE [loaded |-> TRUE, failed |-> TRUE, shown |-> {}]
          /\ listings' = RemoveAt(listings, i)
    /\ UNCHANGED <<setup, granted, revocation, kubectl, strays, grants, revoked, renewed, withdrawn>>

\* Dex or the server does not answer.
ClientsFail ==
    /\ \E i \in 1..Len(listings) : listings' = RemoveAt(listings, i)
    /\ clients' = [loaded |-> TRUE, failed |-> TRUE, shown |-> {}]
    /\ UNCHANGED <<setup, granted, revocation, kubectl, strays, grants, revoked, renewed, withdrawn>>

PressRevoke ==
    /\ revocation.step = "closed" /\ kubectl.step = "closed"
    /\ \E c \in clients.shown : revocation' = [step |-> "asking", client |-> c, told |-> FALSE]
    /\ UNCHANGED <<setup, granted, listings, clients, kubectl, strays, grants, revoked, renewed, withdrawn>>

SubmitRevoke ==
    /\ Len(listings) < MaxListings
    /\ revocation.step = "asking" /\ revocation' = [revocation EXCEPT !.step = "sent", !.told = FALSE]
    /\ renewed' = renewed \ {revocation.client} /\ revoked' = "none"
    /\ UNCHANGED <<setup, granted, listings, clients, kubectl, strays, grants, withdrawn>>

\* handleTokenRevocation: RevokeRefresh takes the client's token away, or has none.
RevokeToken ==
    /\ revocation.step = "sent" /\ setup.dex
    /\ revocation' = [revocation EXCEPT !.step = IF revocation.client \in granted THEN "done" ELSE "refused"]
    /\ granted' = granted \ {revocation.client}
    /\ UNCHANGED <<setup, listings, clients, kubectl, strays, grants, revoked, renewed, withdrawn>>

\* A request that is not aborted when it is given up: Dex may act on it at any later time.
\* Of those, there is one of a kind; "heard" says that its answer is still waited for.
Strays == [does : {"revoke", "grant"}, client : Client, heard : BOOLEAN]
Leaves(does, client, heard) ==
    /\ Cardinality(strays) < MaxStrays
    /\ strays' = strays \cup {[does |-> does, client |-> client, heard |-> heard]}

\* There is no answer, from Dex or within 20 s: it may be done all the same, or be yet to be.
RevocationFails ==
    /\ revocation.step \in {"sent", "done"} /\ revocation' = [revocation EXCEPT !.step = "refused"]
    /\ \/ UNCHANGED strays
       \/ revocation.step = "sent" /\ setup.dex /\ Leaves("revoke", revocation.client, FALSE)
    /\ UNCHANGED <<setup, granted, listings, clients, kubectl, grants, revoked, renewed, withdrawn>>

\* The dialog closes and the clients are asked for anew, or it stays with an error.  Fault:
\* executeFn takes any answer for a good one.
RevocationAnswered_Any ==
    /\ revocation.step \in {"done", "refused"}
    /\ revocation' = NoRevocation /\ listings' = Append(listings, Unanswered) /\ revoked' = revocation.client
    /\ UNCHANGED <<setup, granted, clients, kubectl, strays, grants, renewed, withdrawn>>

RevocationAnswered ==
    /\ \/ /\ revocation.step = "done"
          /\ revocation' = NoRevocation /\ listings' = Append(listings, Unanswered)
          /\ revoked' = revocation.client
       \/ /\ revocation.step = "refused"
          /\ revocation' = [revocation EXCEPT !.step = "asking", !.told = TRUE]
          /\ UNCHANGED <<listings, revoked>>
    /\ UNCHANGED <<setup, granted, clients, kubectl, strays, grants, renewed, withdrawn>>

\* A dialog that is dismissed does not take its request back; once it is answered, the
\* clients are asked for.
CancelRevoke ==
    /\ revocation.step # "closed" /\ revocation' = NoRevocation
    /\ \/ UNCHANGED <<strays, listings>>
       \/ /\ revocation.step = "sent" /\ setup.dex /\ Leaves("revoke", revocation.client, TRUE)
          /\ UNCHANGED listings
       \/ /\ revocation.step = "done" /\ listings' = Append(listings, Unanswered)
          /\ UNCHANGED strays
    /\ UNCHANGED <<setup, granted, clients, kubectl, grants, revoked, renewed, withdrawn>>

\* RevokeRefresh for a request that was given up takes the token the client has by now.
StrayRevokes ==
    /\ \E s \in strays :
          /\ s.does = "revoke" /\ strays' = strays \ {s}
          /\ granted' = granted \ {s.client} /\ withdrawn' = withdrawn \cup ({s.client} \cap granted)
          /\ \/ UNCHANGED listings
             \/ s.heard /\ s.client \in granted /\ listings' = Append(listings, Unanswered)
    /\ UNCHANGED <<setup, clients, revocation, kubectl, grants, revoked, renewed>>

-----------------------------------------------------------------------------
OpenKubectl ==
    /\ revocation.step = "closed" /\ kubectl.step = "closed"
    /\ kubectl' = [NoKubectl EXCEPT !.step = "identity"]
    /\ UNCHANGED <<setup, granted, listings, clients, revocation, strays, grants, revoked, renewed, withdrawn>>

\* The provider's page opens in another tab; it shows a code there.
VerifyIdentity ==
    /\ kubectl.step = "identity"
    /\ kubectl' = [kubectl EXCEPT !.step = "code", !.code = IF setup.auther THEN "fresh" ELSE "none"]
    /\ UNCHANGED <<setup, granted, listings, clients, revocation, strays, grants, revoked, renewed, withdrawn>>

VerifyCode ==
    /\ kubectl.step = "code" /\ kubectl' = [kubectl EXCEPT !.step = "sent", !.told = FALSE]
    /\ UNCHANGED <<setup, granted, listings, clients, revocation, strays, grants, revoked, renewed, withdrawn>>

\* handleRenderKubeConfig: the code is exchanged, once, for a token that works offline;
\* Dex has one per client, the newest.  The answer may be lost after that.
RenderKubeConfig ==
    /\ kubectl.step = "sent" /\ kubectl.code = "fresh" /\ setup.auther
    /\ granted' = granted \cup {"kubectl"} /\ renewed' = renewed \cup {"kubectl"}
    /\ withdrawn' = withdrawn \ {"kubectl"}
    /\ \/ kubectl' = [kubectl EXCEPT !.step = "download", !.code = "used", !.file = TRUE]
       \/ kubectl' = [kubectl EXCEPT !.step = "code", !.code = "used", !.told = TRUE]
    /\ UNCHANGED <<setup, listings, clients, revocation, strays, grants, revoked>>

\* The code is given up with a request that may yet be the one to exchange it.
LeavesGrant == kubectl.step = "sent" /\ kubectl.code = "fresh" /\ setup.auther /\ Leaves("grant", "kubectl", FALSE)

KubeConfigFails ==
    /\ kubectl.step = "sent"
    /\ \/ kubectl' = [kubectl EXCEPT !.step = "code", !.told = TRUE] /\ UNCHANGED strays
       \/ kubectl' = [kubectl EXCEPT !.step = "code", !.code = "used", !.told = TRUE] /\ LeavesGrant
    /\ UNCHANGED <<setup, granted, listings, clients, revocation, grants, revoked, renewed, withdrawn>>

\* "I'm Done", or the dialog is dismissed; what is on its way is not stopped, but nobody
\* gets the configuration.
CloseKubectl ==
    /\ kubectl.step # "closed" /\ kubectl' = NoKubectl
    /\ UNCHANGED strays \/ LeavesGrant
    /\ UNCHANGED <<setup, granted, listings, clients, revocation, grants, revoked, renewed, withdrawn>>

StrayGrants ==
    /\ \E s \in strays :
          /\ s.does = "grant" /\ strays' = strays \ {s}
          /\ granted' = granted \cup {s.client} /\ renewed' = renewed \cup {s.client}
    /\ UNCHANGED <<setup, listings, clients, revocation, kubectl, grants, revoked, withdrawn>>

\* The user logs in somewhere else.
GrantElsewhere ==
    /\ grants < MaxGrants /\ grants' = grants + 1
    /\ \E c \in Client : granted' = granted \cup {c} /\ renewed' = renewed \cup {c}
    /\ UNCHANGED <<setup, listings, clients, revocation, kubectl, strays, revoked, withdrawn>>

AccountNext ==
    \/ ListClients \/ ClientsArrive \/ ClientsFail
    \/ PressRevoke \/ SubmitRevoke \/ RevokeToken \/ RevocationFails \/ RevocationAnswered \/ CancelRevoke
    \/ StrayRevokes \/ StrayGrants
    \/ OpenKubectl \/ VerifyIdentity \/ VerifyCode \/ RenderKubeConfig \/ KubeConfigFails \/ CloseKubectl
    \/ GrantElsewhere

AccountSpec == AccountInit /\ [][AccountNext]_accountVars

AccountTypeOK ==
    /\ granted \subseteq Client /\ clients.shown \subseteq Client
    /\ \A i \in 1..Len(listings) : listings[i] = Unanswered \/ listings[i] \subseteq Client
    /\ revocation.step \in {"closed", "asking", "sent", "done", "refused"}
    /\ kubectl.step \in {"closed", "identity", "code", "sent", "download"}
    /\ kubectl.code \in {"none", "fresh", "used"}
    /\ strays \subseteq Strays /\ grants \in 0..MaxGrants
    /\ revoked \in Client \cup {"none"} /\ renewed \cup withdrawn \subseteq Client

-----------------------------------------------------------------------------
\* A dialog that closed as done has had the client's token taken away, which stays so until
\* somebody logs in with it again; and a configuration is offered only while its client
\* holds a token, unless a revocation that was given up before, in an error or unanswered,
\* has come upon the new one.  Answers that fail or are lost leave both dialogs open with an
\* error (client-tokens.jsx:50, server.go:560, kubectl-config.jsx:75).
AccountIsTrue ==
    /\ revoked \notin granted \ renewed
    /\ kubectl.file => "kubectl" \in granted \cup withdrawn

\* "Revoking this client's access token will immediately remove it" (client-tokens.jsx:47).
\* Violated: a revocation that is given up is yet to act, and takes away the token of a
\* configuration that was set up since.
OfferedIsGood == kubectl.file => "kubectl" \in granted
=============================================================================
