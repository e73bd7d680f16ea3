----------------------------- MODULE Discovery -----------------------------
(***************************************************************************)
(* API discovery (watchAPIServices and getResources in                     *)
(* src/frontend/public/module/k8s/k8s-actions.ts, get-resources.ts, the    *)
(* RESOURCES entry of k8s-reducers.ts) and a page whose Firehose           *)
(* (components/utils/firehose.jsx) watches one list per API group.         *)
(***************************************************************************)
EXTENDS Integers, Sequences, FiniteSets, SequencesExt

CONSTANTS
    Group,       \* API groups, with one kind each
    MaxFetches,  \* bound: calls of getResources at once
    MaxChanges,  \* bound: changes of the server's groups
    MaxMisses    \* bound: failed requests

ASSUME DiscoveryAssumption ==
    /\ Group # {} /\ IsFiniteSet(Group)
    /\ MaxFetches \in Nat /\ MaxChanges \in Nat /\ MaxMisses \in Nat

VARIABLES
    groups,     \* the API server's groups
    mode,       \* where watchAPIServices is
    notified,   \* the watch of the API services has an event to flush
    known,      \* RESOURCES.apiGroups
    fetches,    \* the groups each running getResources has read
    models,     \* RESOURCES.models
    resources,  \* RESOURCES.allResources
    inFlight,   \* RESOURCES.inFlight
    watched,    \* the kinds the Firehose watches
    misses, changes  \* what is left of the bounds

api == <<groups, notified, changes>>
store == <<known, models, resources, inFlight, watched>>
discoveryVars == <<api, mode, fetches, store, misses>>

DiscoveryInit ==
    /\ groups = {CHOOSE g \in Group : TRUE} /\ changes = MaxChanges
    /\ mode = "off" /\ notified = FALSE
    /\ known = 0 /\ models = {} /\ resources = {} /\ inFlight = FALSE
    /\ watched = {} /\ fetches = <<>> /\ misses = MaxMisses

GroupsChange ==
    /\ changes > 0 /\ changes' = changes - 1
    /\ groups' \in (SUBSET Group) \ {groups}
    /\ notified' = (mode = "watching")
    /\ UNCHANGED <<mode, fetches, store, misses>>

\* shouldComponentUpdate: only a change of inFlight ends all watches and
\* starts those of the kinds that have a model.
Remounted(flight, kinds) ==
    watched' = IF flight THEN {} ELSE IF inFlight THEN kinds ELSE watched

SetInFlight == inFlight' = TRUE /\ Remounted(TRUE, models)

\* getResources: apis is read first.
GetResources ==
    /\ Len(fetches) < MaxFetches
    /\ fetches' = Append(fetches, groups)
    /\ SetInFlight
    /\ UNCHANGED <<models, resources>>

WatchAPIServices ==
    /\ mode = "off"
    /\ mode' = "listing"
    /\ SetInFlight
    /\ UNCHANGED <<api, fetches, known, models, resources, misses>>

\* The list may be read: watchK8sList loads it and calls getResources.
ListAllowed ==
    /\ mode = "listing"
    /\ mode' = "watching"
    /\ GetResources
    /\ UNCHANGED <<api, known, misses>>

ListForbidden ==
    /\ mode = "listing"
    /\ mode' = "polling"
    /\ UNCHANGED <<api, fetches, store, misses>>

\* Fault: the number of groups is compared, as it was meant.
GroupsDiffer_Counted == Cardinality(groups) # known

\* d.length of an object is undefined, and never equal to a number.
GroupsDiffer == TRUE

DiscoveryPolls ==
    /\ mode = "polling"
    /\ IF GroupsDiffer THEN GetResources ELSE UNCHANGED <<fetches, models, resources, inFlight, watched>>
    /\ known' = Cardinality(groups)
    /\ UNCHANGED <<api, mode, misses>>

ServiceEvents ==
    /\ mode = "watching" /\ notified
    /\ notified' = FALSE
    /\ GetResources
    /\ UNCHANGED <<groups, changes, mode, known, misses>>

\* The resources are stored; a group whose request failed is left out.
FetchEnds(i) ==
    /\ \E lost \in SUBSET fetches[i] :
         /\ Cardinality(lost) <= misses
         /\ misses' = misses - Cardinality(lost)
         /\ resources' = fetches[i] \ lost
    /\ models' = models \cup resources'
    /\ inFlight' = FALSE
    /\ Remounted(FALSE, models')
    /\ fetches' = RemoveAt(fetches, i)
    /\ UNCHANGED <<api, mode, known>>

\* The request for apis failed: an error on the console, nothing else.
FetchFails(i) ==
    /\ misses > 0 /\ misses' = misses - 1
    /\ fetches' = RemoveAt(fetches, i)
    /\ UNCHANGED <<api, mode, store>>

DiscoveryNext ==
    \/ GroupsChange \/ WatchAPIServices \/ ListAllowed \/ ListForbidden
    \/ DiscoveryPolls \/ ServiceEvents
    \/ \E i \in DOMAIN fetches : FetchEnds(i) \/ FetchFails(i)

\* The poll fires and requests end.
DiscoveryFairness ==
    /\ WF_discoveryVars(DiscoveryPolls)
    /\ WF_discoveryVars(\E i \in DOMAIN fetches : FetchEnds(i))

DiscoverySpec == DiscoveryInit /\ [][DiscoveryNext]_discoveryVars /\ DiscoveryFairness

-----------------------------------------------------------------------------
DiscoveryTypeOK ==
    /\ groups \subseteq Group /\ models \subseteq Group /\ resources \subseteq models
    /\ mode \in {"off", "listing", "watching", "polling"}
    /\ notified \in BOOLEAN /\ inFlight \in BOOLEAN
    /\ known \in 0 .. Cardinality(Group)
    /\ fetches \in Seq(SUBSET Group) /\ Len(fetches) <= MaxFetches
    /\ watched \subseteq models
    /\ misses \in 0 .. MaxMisses /\ changes \in 0 .. MaxChanges

\* With the poll, a failed or overtaken discovery never leaves the pages empty
\* for good: again and again they watch every kind the server has
\* (k8s-actions.ts:58-68, firehose.jsx:167-184).
PagesAreFilled == <>[](mode = "polling") => []<>(groups \subseteq watched)

\* A poll that finds as many API groups as the one before starts no discovery,
\* which would take every page down (k8s-actions.ts:45-62).
RefetchOnlyOnChange ==
    [][DiscoveryPolls /\ Cardinality(groups) = known => UNCHANGED inFlight]_discoveryVars
=============================================================================
