------------------------------ MODULE Features ------------------------------
(***************************************************************************)
(* Feature flags (src/frontend/public/features.ts): one request for each   *)
(* flag when the console starts, asked again after 15 s, and the selector  *)
(* of components/namespace.jsx, which sets PROJECTS_AVAILABLE, too.  The   *)
(* cluster may refuse a request for good, and others fail for a while.     *)
(***************************************************************************)
EXTENDS Integers, FiniteSets

CONSTANTS
    Plain,        \* CALICO and the flags of a SelfSubjectAccessReview: all errors go to handleError
    Openshift,    \* flags that are off when the path is unknown
    MaxGlitches,  \* bound: requests that fail and may be repeated
    MaxSwitches   \* bound: changes of whether there are projects

\* The flag of projectrequests has rules of its own; PROJECTS_AVAILABLE is
\* one of the flags of OpenShift.
FeatureAssumption ==
    /\ Plain \cap Openshift = {} /\ "PROJECTS_AVAILABLE" \in Openshift
    /\ "CAN_CREATE_PROJECT" \notin Plain \cup Openshift
    /\ MaxGlitches \in Nat /\ MaxSwitches \in Nat
ASSUME FeatureAssumption

VARIABLES
    flags,     \* the store's flags
    probe,     \* the request of each flag: what it has read, or what it waits for
    refused,   \* flags whose requests the cluster answers with 401, 403 or 500
    isOpenshift, projects, \* the cluster
    allowedFlags,   \* plain flags that are on: what is there, and what the user may list
    selector,  \* what the NamespaceDropdown was given last
    glitches, switches     \* what is left of the bounds

featureCluster == <<refused, isOpenshift, projects, allowedFlags, switches>>
featureVars == <<flags, probe, featureCluster, selector, glitches>>

Flag == Plain \cup Openshift \cup {"CAN_CREATE_PROJECT"}
Value == {"pending", "on", "off"}
Answer == {"none", "yes", "no", "unknown", "refused"}
Waiting == {"idle", "timer", "stopped"}

FeatureInit ==
    /\ flags = [f \in Flag |-> "pending"]
    /\ probe = [f \in Flag |-> "idle"]
    /\ refused = {} /\ isOpenshift = FALSE /\ projects = FALSE /\ allowedFlags = {}
    /\ selector = "none" /\ glitches = MaxGlitches /\ switches = MaxSwitches

\* featureActions are dispatched when the console is loaded, from any cluster.
ConsoleStarts ==
    /\ \A f \in Flag : probe[f] = "idle"
    /\ probe' = [f \in Flag |-> "none"]
    /\ refused' \in SUBSET Flag /\ isOpenshift' \in BOOLEAN /\ projects' \in BOOLEAN
    /\ allowedFlags' \in SUBSET Plain
    /\ UNCHANGED <<flags, selector, glitches, switches>>

\* What the cluster answers now.
Reply(f) ==
    IF f \in refused THEN "refused"
    ELSE IF ~isOpenshift /\ f \notin Plain THEN "unknown"
    ELSE IF (f = "PROJECTS_AVAILABLE" /\ ~projects) \/ f \in Plain \ allowedFlags THEN "no"
    ELSE "yes"

ProbeReads(f) ==
    /\ probe[f] = "none"
    /\ probe' = [probe EXCEPT ![f] = Reply(f)]
    /\ UNCHANGED <<flags, featureCluster, selector, glitches>>

Set(f, value) == flags' = [flags EXCEPT ![f] = value]

\* setFlag of the answer; CAN_CREATE_PROJECT stays undecided where the path is
\* unknown, and is off where it is forbidden.
ProbeAnswers(f) ==
    /\ probe[f] \in {"yes", "no", "unknown"}
    /\ probe' = [probe EXCEPT ![f] = "stopped"]
    /\ IF f = "CAN_CREATE_PROJECT" /\ probe[f] = "unknown"
       THEN UNCHANGED flags
       ELSE Set(f, IF probe[f] = "yes" THEN "on" ELSE "off")
    /\ UNCHANGED <<featureCluster, selector, glitches>>

\* handleError: 403 makes the flag pending, 401 and 500 leave it.  The request
\* of projectrequests is repeated after 401.
ProbeRefused(f, status) ==
    /\ probe[f] = "refused"
    /\ probe' = [probe EXCEPT ![f] = IF f = "CAN_CREATE_PROJECT" /\ status = 401 THEN "timer" ELSE "stopped"]
    /\ IF status # 403 THEN UNCHANGED flags
       ELSE Set(f, IF f = "CAN_CREATE_PROJECT" THEN "off" ELSE "pending")
    /\ UNCHANGED <<featureCluster, selector, glitches>>

Retry(status) == "timer"

\* A request failed: 502 makes the flag pending, another error leaves it.
ProbeFails(f, status) ==
    /\ probe[f] \notin Waiting /\ glitches > 0
    /\ glitches' = glitches - 1
    /\ probe' = [probe EXCEPT ![f] = Retry(status)]
    /\ IF status = 502 /\ f # "CAN_CREATE_PROJECT" THEN Set(f, "pending") ELSE UNCHANGED flags
    /\ UNCHANGED <<featureCluster, selector>>

RetryFires(f) ==
    /\ probe[f] = "timer"
    /\ probe' = [probe EXCEPT ![f] = "none"]
    /\ UNCHANGED <<flags, featureCluster, selector, glitches>>

ProjectsChange ==
    /\ switches > 0 /\ switches' = switches - 1
    /\ \A f \in Flag : probe[f] # "idle"
    /\ projects' = ~projects
    /\ UNCHANGED <<flags, probe, refused, isOpenshift, allowedFlags, selector, glitches>>

\* componentDidUpdate of the NamespaceDropdown, with its list.
SelectorUpdates ==
    /\ \A f \in Flag : probe[f] # "idle"
    /\ selector' = (IF projects THEN "on" ELSE "off") /\ selector' # selector
    /\ Set("PROJECTS_AVAILABLE", selector')
    /\ UNCHANGED <<probe, featureCluster, glitches>>

FeatureNext ==
    \/ ConsoleStarts \/ ProjectsChange \/ SelectorUpdates
    \/ \E f \in Flag :
         \/ ProbeReads(f) \/ ProbeAnswers(f) \/ RetryFires(f)
         \/ (\E status \in {401, 403, 500} : ProbeRefused(f, status))
         \/ (\E status \in {408, 502} : ProbeFails(f, status))

\* Requests are answered and timers fire.
FeatureFairness ==
    \A f \in Flag : WF_featureVars(ProbeReads(f) \/ ProbeAnswers(f) \/ RetryFires(f))

FeatureSpec == FeatureInit /\ [][FeatureNext]_featureVars /\ FeatureFairness

-----------------------------------------------------------------------------
FeatureTypeOK ==
    /\ allowedFlags \subseteq Plain /\ flags \in [Flag -> Value] /\ probe \in [Flag -> Answer \cup Waiting]
    /\ selector \in {"none", "on", "off"} /\ glitches \in 0 .. MaxGlitches /\ switches \in 0 .. MaxSwitches

IsTold(f) == probe[f] # "idle" /\ f \notin refused

\* A flag the cluster does not refuse to tell is decided in the end, a plain one
\* as the cluster says, through gateway errors, timeouts and retries: pages that
\* wait for it are not blank for ever (features.ts:74-82).
FlagsAreDecided ==
    /\ \A f \in Flag \ {"CAN_CREATE_PROJECT"} : <>[](IsTold(f) => flags[f] # "pending")
    /\ \A f \in Plain : <>[](IsTold(f) => flags[f] = IF f \in allowedFlags THEN "on" ELSE "off")

\* PROJECTS_AVAILABLE is what the selector saw last: no older answer of the
\* detection replaces it (namespace.jsx:226-234).
SelectorKnowsBest == selector # "none" => flags["PROJECTS_AVAILABLE"] = selector
=============================================================================
