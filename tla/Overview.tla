------------------------------ MODULE Overview ------------------------------
(***************************************************************************)
(* The overview of a project (src/frontend/public/components/              *)
(* overview.jsx, project-overview.jsx): the workloads of the store, each   *)
(* with its current controller, filtered by name and grouped by a label.   *)
(* All that is derived is kept in the component's state, and derived again *)
(* after an update.  A text to filter by is the names it matches.          *)
(***************************************************************************)
EXTENDS Integers, FiniteSets, FiniteSetsExt, Sequences, SequencesExt

CONSTANTS
    Workload,      \* the names of the deployments of a namespace
    LabelKey,      \* keys of labels, with "app"
    LabelValue,
    MaxLabels,     \* bound: labels of one workload
    Owned,         \* what revisions a workload's replica sets may have; 0 is no annotation
    Fuzzy,         \* the sets of names that a text matches
    MaxNamespaces  \* bound: changes of the namespace

ASSUME OverviewAssumption ==
    /\ {"app"} \subseteq LabelKey /\ IsFiniteSet(LabelKey) /\ "" \notin LabelKey /\ MaxLabels \in Nat
    /\ \A revisions \in Owned : revisions \subseteq Nat /\ IsFiniteSet(revisions)
    /\ Fuzzy \subseteq SUBSET Workload /\ MaxNamespaces \in Nat

VARIABLES
    overviewAt,  \* "flags" while a flag is pending, else what the lists are
    workloads,   \* props: the deployments, and what each of them owns
    items, filteredItems, groupedItems, groupOptions, selectedGroupLabel, filterValue, \* the state
    namespaces   \* changes of the namespace so far

derived == <<items, filteredItems, groupedItems, groupOptions, selectedGroupLabel>>
overviewVars == <<overviewAt, workloads, derived, filterValue, namespaces>>

LabelSets == UNION {[keys -> LabelValue] : keys \in {k \in SUBSET LabelKey : Cardinality(k) <= MaxLabels}}
WorkloadObjects == [labels : LabelSets, owned : Owned]

\* What the lists of a namespace may hold.
ProjectContents == UNION {[names -> WorkloadObjects] : names \in SUBSET Workload}
NoWorkloads == [name \in {} |-> {}]

OverviewInit ==
    /\ overviewAt = "flags" /\ workloads = NoWorkloads
    /\ items = NoWorkloads /\ filteredItems = {} /\ groupedItems = NoWorkloads
    /\ groupOptions = <<>> /\ selectedGroupLabel = "" /\ filterValue = Workload /\ namespaces = 0

-----------------------------------------------------------------------------
\* sortByRevision, descending: whether one is before another.
Compare(left, right) == left # 0 /\ (right = 0 \/ left > right)

\* The head of what getOwnedResources finds, sorted; -1 is undefined.
CurrentController(owned) ==
    IF owned = {} THEN -1 ELSE CHOOSE r \in owned : \A other \in owned \ {r} : Compare(r, other)

\* buildGraphForRootResources.
BuildGraph(objects) ==
    [w \in DOMAIN objects |->
        [labels |-> objects[w].labels, currentController |-> CurrentController(objects[w].owned)]]

FilterItems(its, names) == DOMAIN its \cap names

GroupOf(item, label) == IF label \in DOMAIN item.labels THEN item.labels[label] ELSE "other"

\* groupItems; without a label it returns the items, of which ProjectOverview draws none:
\* they have no items of their own.
GroupItems(its, shown, label) ==
    IF label = "" THEN NoWorkloads
    ELSE [group \in {GroupOf(its[w], label) : w \in shown} |-> {w \in shown : GroupOf(its[w], label) = group}]

\* getGroupOptionsFromLabels: those of before and, in some order, those of the items.
GroupOptions(its, shown) ==
    LET new == (UNION {DOMAIN its[w].labels : w \in shown}) \ ToSet(groupOptions)
    IN  {groupOptions \o keys : keys \in SetToSeqs(new)}

DefaultLabel(options) ==
    IF "app" \in ToSet(options) THEN "app" ELSE IF options = <<>> THEN "" ELSE options[1]

\* createOverviewData.
CreateOverviewData(objects, names) ==
    /\ items' = BuildGraph(objects)
    /\ filteredItems' = FilterItems(items', names)
    /\ groupOptions' \in GroupOptions(items', filteredItems')
    /\ selectedGroupLabel' = DefaultLabel(groupOptions')
    /\ groupedItems' = GroupItems(items', filteredItems', selectedGroupLabel')

-----------------------------------------------------------------------------
\* OverviewPage waits for its two flags; then the lists are loaded.
FlagsAreKnown ==
    /\ overviewAt = "flags" /\ overviewAt' = "loading"
    /\ UNCHANGED <<workloads, derived, filterValue, namespaces>>

\* An event of a watch is of one object.
SameBut(w, before, after) ==
    /\ DOMAIN before \ {w} = DOMAIN after \ {w}
    /\ \A other \in DOMAIN before \ {w} : before[other] = after[other]

\* The props are others: also when it is something else in the store that changed.
ListsArrive ==
    /\ overviewAt \in {"loading", "loaded"}
    /\ overviewAt' = "loaded"
    /\ \E objects \in ProjectContents :
          /\ overviewAt = "loaded" => \E w \in Workload : SameBut(w, workloads, objects)
          /\ workloads' = objects
          /\ CreateOverviewData(objects, filterValue)
    /\ UNCHANGED <<filterValue, namespaces>>

\* The namespace is another, whose lists are not loaded: nothing is derived.
NamespaceChanges ==
    /\ overviewAt = "loaded" /\ namespaces < MaxNamespaces
    /\ overviewAt' = "loading" /\ workloads' = NoWorkloads /\ namespaces' = namespaces + 1
    /\ UNCHANGED <<derived, filterValue>>

HandleFilterChange ==
    /\ overviewAt # "flags"
    /\ \E names \in Fuzzy \cup {Workload} :
          /\ names # filterValue /\ filterValue' = names
          /\ filteredItems' = FilterItems(items, names)
          /\ groupedItems' = GroupItems(items, filteredItems', selectedGroupLabel)
    /\ UNCHANGED <<overviewAt, workloads, items, groupOptions, selectedGroupLabel, namespaces>>

HandleGroupChange ==
    /\ overviewAt # "flags"
    /\ \E label \in ToSet(groupOptions) \ {selectedGroupLabel} :
          /\ selectedGroupLabel' = label
          /\ groupedItems' = GroupItems(items, filteredItems, label)
    /\ UNCHANGED <<overviewAt, workloads, items, filteredItems, groupOptions, filterValue, namespaces>>

OverviewNext == FlagsAreKnown \/ ListsArrive \/ NamespaceChanges \/ HandleFilterChange \/ HandleGroupChange

-----------------------------------------------------------------------------
OverviewTypeOK ==
    /\ overviewAt \in {"flags", "loading", "loaded"} /\ workloads \in ProjectContents
    /\ DOMAIN items \subseteq Workload
    /\ \A w \in DOMAIN items :
          items[w].labels \in LabelSets /\ items[w].currentController \in (UNION Owned) \cup {-1}
    /\ filteredItems \subseteq Workload /\ groupOptions \in Seq(LabelKey) /\ IsInjective(groupOptions)
    /\ selectedGroupLabel \in ToSet(groupOptions) \cup {""} /\ filterValue \in Fuzzy \cup {Workload}
    /\ namespaces \in 0 .. MaxNamespaces

\* What StatusBox and ProjectOverview draw.
Drawn == IF overviewAt = "loaded" THEN UNION {groupedItems[g] : g \in DOMAIN groupedItems} ELSE {}

\* Every workload of the namespace that the text matches is drawn, once, in the group of its
\* label, whatever was typed and picked before, while lists loaded and in another namespace,
\* unless no workload ever had a label (overview.jsx:78-99, 165, 245); and its controller is
\* the one with the latest revision (line 214).
OverviewIsTrue ==
    overviewAt = "loaded" =>
        /\ selectedGroupLabel # "" => Drawn = DOMAIN workloads \cap filterValue
        /\ \A g \in DOMAIN groupedItems : \A w \in groupedItems[g] :
              g = IF selectedGroupLabel \in DOMAIN workloads[w].labels
                  THEN workloads[w].labels[selectedGroupLabel] ELSE "other"
        /\ \A w \in DOMAIN workloads :
              items[w].currentController =
                 IF workloads[w].owned = {} THEN -1 ELSE Max(workloads[w].owned)
=============================================================================
