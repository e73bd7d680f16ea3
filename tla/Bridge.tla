------------------------------- MODULE Bridge -------------------------------
(***************************************************************************)
(* The start of the console's server and what it serves afterwards         *)
(* (src/cmd/bridge/main.go and config.go, auth/auth.go's NewAuthenticator, *)
(* server/server.go): flags and a configuration file are merged, checked   *)
(* and turned into a server, which then proxies requests with a token.     *)
(***************************************************************************)
EXTENDS Integers, FiniteSets

CONSTANT MaxSteps  \* attempts of NewAuthenticator after the first; 5 in the source

ASSUME BridgeAssumption == MaxSteps \in Nat

VARIABLES
    flagValues, \* values of the flags, with the environment's where none is given
    config,     \* what the configuration file says, or NoFile
    phase,      \* how far main has come, "exited" and "serving" at the end
    srv,        \* the server built so far
    contacts,   \* authenticators still to be made, and the attempts of the first
    sent        \* the last request that was proxied: whose token it carries

bridgeVars == <<flagValues, config, phase, srv, contacts, sent>>

-----------------------------------------------------------------------------
NoFile == [version |-> "none", sets |-> {}]
ConfigFiles ==
    [version : {"v1beta1"}, sets : {{}, {"base-address", "client-id", "secret-file", "https", "cert"}, {"https"}}]
        \cup {[version |-> "v2", sets |-> {}], [version |-> "v1beta1", sets |-> {"minTLSVersion"}]}

\* What is given on the command line.  "given" names the flags with a value; the rest
\* of a combination is well formed.
CompleteFile == {"base-address", "client-id", "issuer", "endpoint", "bearer-token", "cert"}
Flags ==
    [mode : {"in-cluster", "off-cluster"}, k8sAuth : {"service-account", "bearer-token", "oidc", "openshift"},
     userAuth : {"disabled", "oidc", "openshift"}, malformed : {FALSE},
     given : {CompleteFile \cup s \cup k : s \in {{"secret"}, {"secret-file"}},
                                     k \in {{}, {"kubectl-id", "kubectl-secret"}, {"kubectl-id", "kubectl-file"}}}
             \cup {(CompleteFile \ {"issuer"}) \cup {s} : s \in {"secret", "secret-file"}}]

\* Something is missing, given twice or malformed.
WrongFlags ==
    [mode : {"in-cluster", "off-cluster"}, k8sAuth : {"bearer-token", "openshift"}, userAuth : {"disabled", "oidc"},
     malformed : BOOLEAN,
     given : {(CompleteFile \cup {"secret", "https"}) \ {f} : f \in {"base-address", "client-id", "endpoint", "bearer-token", "cert", "secret"}}
             \cup {CompleteFile \cup {"secret", "secret-file"}, CompleteFile \cup {"secret", "kubectl-id"},
                   CompleteFile \cup {"secret", "kubectl-secret"},
                   CompleteFile \cup {"secret", "kubectl-id", "kubectl-secret", "kubectl-file"}}]

\* The tokens a request may carry: nobody's, the pod's service account, the one given
\* with a flag, or that of the session of the user who sends it.
Nobody == "nil"

NoServer ==
    [endpoint |-> "", proxied |-> {}, staticUser |-> Nobody, auther |-> "nil", kubectlAuther |-> FALSE,
     kubectlSecret |-> "", template |-> "nil", https |-> FALSE]

NoRequest == [by |-> "nobody", as |-> "none"]

BridgeAt(f, c, p) ==
    /\ flagValues = f /\ config = c
    /\ phase = p /\ srv = NoServer
    /\ contacts = [left |-> <<>>, steps |-> 0]
    /\ sent = NoRequest

BridgeInit == \E f \in Flags \cup WrongFlags, c \in ConfigFiles \cup {NoFile} : BridgeAt(f, c, "flags")

Exits == phase' = "exited" /\ UNCHANGED <<flagValues, srv, contacts>>
Elsewhere == UNCHANGED <<config, sent>>

-----------------------------------------------------------------------------
\* SetFlagsFromConfig: a file of the version known, without settings of the API type
\* that the console has no support for.
Supported(c) == c.version = "v1beta1" /\ "minTLSVersion" \notin c.sets

\* The file wins over flags; with one, users log in with OpenShift and it gives the
\* tokens for requests.
MergedFlags ==
    [flagValues EXCEPT !.userAuth = "openshift", !.k8sAuth = "openshift", !.given = @ \cup config.sets]

LoadConfig ==
    /\ phase = "flags"
    /\ IF config = NoFile THEN phase' = "validate" /\ UNCHANGED <<flagValues, srv, contacts>>
       ELSE IF ~Supported(config) THEN Exits
       ELSE flagValues' = MergedFlags /\ phase' = "validate" /\ UNCHANGED <<srv, contacts>>
    /\ Elsewhere

Given(f) == f \in flagValues.given
KubectlSecrets == {"kubectl-secret", "kubectl-file"} \cap flagValues.given

\* The flags that are checked whatever the mode; the credentials for kubectl are given
\* together, the secret in one way.
ValidateFlags ==
    /\ phase = "validate"
    /\ IF flagValues.malformed \/ Given("kubectl-id") # (KubectlSecrets # {}) \/ Cardinality(KubectlSecrets) > 1 THEN Exits
       ELSE phase' = "cluster" /\ UNCHANGED <<flagValues, srv, contacts>>
    /\ Elsewhere

\* k8s-mode: in a cluster the environment and the mounted files say where the API
\* server is; Prometheus and Alertmanager are proxied where OpenShift's CA is mounted.
ChooseCluster ==
    /\ phase = "cluster"
    /\ \/ flagValues.mode = "in-cluster" /\ Exits
       \/ flagValues.mode = "off-cluster" /\ ~Given("endpoint") /\ Exits
       \/ /\ flagValues.mode = "in-cluster" /\ phase' = "users"
          /\ \E monitoring \in {{}, {"prometheus", "alertmanager"}} :
                srv' = [srv EXCEPT !.endpoint = "service", !.proxied = {"kubernetes"} \cup monitoring]
          /\ UNCHANGED <<flagValues, contacts>>
       \/ /\ flagValues.mode = "off-cluster" /\ Given("endpoint") /\ phase' = "users"
          /\ srv' = [srv EXCEPT !.endpoint = "flag", !.proxied = {"kubernetes"}]
          /\ UNCHANGED <<flagValues, contacts>>
    /\ Elsewhere

LoginSecrets == {"secret", "secret-file"} \cap flagValues.given

\* Authentication of users asks for an address of the console, an id and a secret, and
\* for an issuer with OIDC only: with OpenShift it is the API server.
CanAuthenticate ==
    /\ Given("base-address") /\ Given("client-id") /\ Cardinality(LoginSecrets) = 1
    /\ Given("issuer") = (flagValues.userAuth = "oidc")

\* The authenticator of kubectl is made first: it is of the default source, OIDC.
ChooseUserAuth ==
    /\ phase = "users"
    /\ IF flagValues.userAuth = "disabled" THEN phase' = "tokens" /\ UNCHANGED <<flagValues, srv, contacts>>
       ELSE IF ~CanAuthenticate THEN Exits
       ELSE /\ contacts' = [left |-> IF Given("kubectl-id") THEN <<"kubectl", "console">> ELSE <<"console">>, steps |-> 0]
            /\ phase' = "contact"
            /\ srv' = IF Given("kubectl-id")
                      THEN [srv EXCEPT !.kubectlSecret = IF Given("kubectl-file") THEN "file's" ELSE "flag's"] ELSE srv
            /\ UNCHANGED flagValues
    /\ Elsewhere

\* The template of the configuration gets the flag's value, whichever way the secret
\* was given.
Template == IF Given("kubectl-secret") THEN "flag's" ELSE ""

ContactSucceeds ==
    /\ phase = "contact"
    /\ \/ /\ contacts.left = <<"kubectl", "console">>
          /\ contacts' = [left |-> <<"console">>, steps |-> 0]
          /\ srv' = [srv EXCEPT !.kubectlAuther = TRUE, !.template = Template]
          /\ UNCHANGED phase
       \/ /\ contacts.left = <<"console">>
          /\ contacts' = [left |-> <<>>, steps |-> 0]
          /\ srv' = [srv EXCEPT !.auther = flagValues.userAuth]
          /\ phase' = "tokens"
    /\ UNCHANGED flagValues /\ Elsewhere

\* The provider is not there or not ready: after a pause, longer each time, it is tried
\* again.
ContactFails ==
    /\ phase = "contact"
    /\ IF contacts.steps + 1 > MaxSteps THEN Exits
       ELSE contacts' = [contacts EXCEPT !.steps = @ + 1] /\ UNCHANGED <<flagValues, phase, srv>>
    /\ Elsewhere

\* k8s-auth: whose token is sent when nobody has to log in.  Fault: where it comes from
\* is not checked.
ChooseK8sAuth_Unchecked ==
    /\ phase = "tokens"
    /\ srv' = [srv EXCEPT !.staticUser = IF flagValues.k8sAuth \in {"oidc", "openshift"} THEN Nobody ELSE flagValues.k8sAuth]
    /\ phase' = "listen" /\ UNCHANGED <<flagValues, contacts>>
    /\ Elsewhere

ChooseK8sAuth ==
    /\ phase = "tokens"
    /\ IF \/ flagValues.k8sAuth = "service-account" /\ flagValues.mode # "in-cluster"
          \/ flagValues.k8sAuth = "bearer-token" /\ ~Given("bearer-token")
          \/ flagValues.k8sAuth \in {"oidc", "openshift"} /\ flagValues.userAuth = "disabled"
       THEN Exits
       ELSE /\ srv' = [srv EXCEPT !.staticUser = IF flagValues.k8sAuth \in {"oidc", "openshift"} THEN Nobody ELSE flagValues.k8sAuth]
            /\ phase' = "listen" /\ UNCHANGED <<flagValues, contacts>>
    /\ Elsewhere

\* The handlers are set up and the port is opened, with TLS where listen is an https URL.
Listen ==
    /\ phase = "listen"
    /\ \/ Exits
       \/ /\ Given("https") => Given("cert")
          /\ srv' = [srv EXCEPT !.https = Given("https")]
          /\ phase' = "serving" /\ UNCHANGED <<flagValues, contacts>>
    /\ Elsewhere

-----------------------------------------------------------------------------
\* authHandlerWithUser: the session's user when there is an authenticator, and 401
\* without a session; else the static user.  The header is the user's token.
ProxyRequest ==
    /\ phase = "serving" /\ sent = NoRequest
    /\ \E by \in {"a user", "nobody"} :
          sent' = [by |-> by, as |-> IF srv.auther = "nil" THEN srv.staticUser
                                     ELSE IF by = "a user" THEN "session" ELSE "refused"]
    /\ UNCHANGED <<flagValues, config, phase, srv, contacts>>

\* One request is looked at, then another.
RequestEnds ==
    /\ sent # NoRequest /\ sent' = NoRequest
    /\ UNCHANGED <<flagValues, config, phase, srv, contacts>>

BridgeStartNext ==
    \/ LoadConfig \/ ValidateFlags \/ ChooseCluster \/ ChooseUserAuth
    \/ ContactSucceeds \/ ContactFails \/ ChooseK8sAuth \/ Listen
BridgeNext == BridgeStartNext \/ ProxyRequest \/ RequestEnds

\* main goes on, and so does a request to a provider, whether it answers or not.
BridgeFairness == WF_bridgeVars(BridgeStartNext)

BridgeTypeOK ==
    /\ flagValues.mode \in {"in-cluster", "off-cluster"} /\ config \in ConfigFiles \cup {NoFile}
    /\ phase \in {"flags", "validate", "cluster", "users", "contact", "tokens", "listen", "serving", "exited"}
    /\ srv.proxied \subseteq {"kubernetes", "prometheus", "alertmanager"}
    /\ srv.auther \in {"nil", "oidc", "openshift"} /\ srv.template \in {"nil", "", "flag's"}
    /\ contacts.steps \in 0..MaxSteps
    /\ sent.as \in {"none", "refused", "session", "service-account", "bearer-token"}

-----------------------------------------------------------------------------
\* A server that nobody logs in to has a user of its own, whose token each handler reads
\* (server.go:153); one that users log in to never lends them a token that is not theirs,
\* whatever k8s-auth and its flags say (main.go:489, middleware.go:32).
SpeaksForSomebody ==
    /\ phase = "serving" /\ srv.auther = "nil" => srv.staticUser # Nobody
    /\ sent.as \in {"service-account", "bearer-token"} => srv.auther = "nil"
    /\ sent.as = "session" => sent.by = "a user"

\* What the file says holds over the command line and to the end: users log in with
\* OpenShift, at the API server, and TLS is used where it asks for it (config.go:152).
FileIsObeyed ==
    phase = "serving" /\ config # NoFile =>
       /\ srv.auther = "openshift" /\ srv.staticUser = Nobody
       /\ "https" \in config.sets => srv.https
       /\ ~Given("issuer")

\* Configurations for kubectl are rendered only by a server that can exchange their codes.
KubectlIsWhole == phase \in {"tokens", "listen", "serving"} => srv.kubectlAuther = (srv.template # "nil")

ServesAsConfigured == SpeaksForSomebody /\ FileIsObeyed /\ KubectlIsWhole

\* The start comes to an end, whatever the provider does (auth.go:165).
StartEnds == []<>(phase \in {"serving", "exited"})
=============================================================================
