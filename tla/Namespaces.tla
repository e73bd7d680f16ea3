----------------------------- MODULE Namespaces -----------------------------
(***************************************************************************)
(* The active namespace: the store's copy (src/frontend/public/ui), the    *)
(* one in the path and those remembered in localStorage, kept together by  *)
(* the "two way data binding" of components/app.jsx.  A path is its scope, *)
(* a resource and what follows.                                            *)
(***************************************************************************)
EXTENDS Integers, Sequences, SequencesExt

CONSTANTS
    Project,     \* namespaces
    MaxHistory   \* bound: entries of the browser's history

ASSUME NamespaceAssumption ==
    Project # {} /\ Project \cap {"all", "cluster", "none"} = {} /\ MaxHistory \in Nat \ {0}

VARIABLES
    path,             \* window.location
    backwards,        \* the entries before it
    activeNamespace,  \* UI.activeNamespace
    lastNamespace,    \* LAST_NAMESPACE_NAME_LOCAL_STORAGE_KEY
    favoriteNamespace \* NAMESPACE_LOCAL_STORAGE_KEY

remembered == <<lastNamespace, favoriteNamespace>>
namespaceVars == <<path, backwards, activeNamespace, remembered>>

Choice == Project \cup {"all"}

\* Paths of the console: with a namespace, of the whole cluster or neither.
Paths ==
    [scope : Choice, resource : {"pods"}, tail : {"", "item"}]
    \cup [scope : Choice, resource : {"bindings"}, tail : {"", "new"}]
    \cup [scope : {"cluster"}, resource : {"projects"}, tail : Project \cup {""}]
    \cup [scope : {"cluster"}, resource : {"bindings"}, tail : {"new"}]
    \cup [scope : {"none"}, resource : {""}, tail : {""}]

\* getNamespace; "none" is undefined.
GetNamespace(p) ==
    IF p.scope \in Choice THEN p.scope
    ELSE IF p.resource = "projects" /\ p.tail \in Project THEN p.tail ELSE "none"

\* formatNamespaceRoute: the tail is popped off when the namespace changes.
FormatNamespaceRoute(ns, p) ==
    IF p.scope = "cluster" THEN [scope |-> ns, resource |-> "cluster", tail |-> ""]
    ELSE IF p.scope # ns \/ (ns = "all" /\ p.tail = "new") THEN [p EXCEPT !.scope = ns, !.tail = ""]
    ELSE p

\* The store when the console is loaded.
Loaded(p, favorite, last) ==
    IF GetNamespace(p) # "none" THEN GetNamespace(p)
    ELSE IF favorite # "none" THEN favorite
    ELSE IF last # "none" THEN last ELSE "default"

NamespaceOpens(p) ==
    /\ path = p /\ backwards = <<>>
    /\ lastNamespace = "none" /\ favoriteNamespace = "none"
    /\ activeNamespace = Loaded(p, "none", "none")

NamespaceInit == \E p \in Paths : NamespaceOpens(p)

\* Fault: the location is not bound back to the store.
SetCurrentLocation_Ignored(p) == UNCHANGED activeNamespace

\* App.componentDidUpdate and the reducer's setCurrentLocation.
SetCurrentLocation(p) ==
    activeNamespace' = IF GetNamespace(p) = "none" THEN activeNamespace ELSE GetNamespace(p)

Push(ps) ==
    /\ Len(backwards) + Len(ps) <= MaxHistory
    /\ backwards' = backwards \o <<path>> \o Front(ps)
    /\ path' = Last(ps)

\* A link is followed.
FollowLink(p) ==
    /\ p # path
    /\ Push(<<p>>)
    /\ SetCurrentLocation(p)
    /\ UNCHANGED remembered

Back ==
    /\ backwards # <<>>
    /\ path' = Last(backwards) /\ backwards' = Front(backwards)
    /\ SetCurrentLocation(path')
    /\ UNCHANGED remembered

\* setActiveNamespace by the selector: the same namespace is a noop.
PickNamespace(ns) ==
    /\ path.scope \in Choice
    /\ activeNamespace' = ns
    /\ IF ns = activeNamespace
       THEN UNCHANGED <<path, backwards, lastNamespace>>
       ELSE /\ Push(<<FormatNamespaceRoute(ns, path)>>)
            /\ lastNamespace' = ns
    /\ UNCHANGED favoriteNamespace

\* A role binding was saved in a namespace: it becomes the active one, and the
\* list of its bindings is shown.
BindingSaved(ns) ==
    /\ path.resource = "bindings" /\ path.tail = "new"
    /\ activeNamespace' = ns
    /\ LET there == [scope |-> ns, resource |-> "bindings", tail |-> ""]
       IN  IF ns = activeNamespace
           THEN Push(<<there>>) /\ UNCHANGED lastNamespace
           ELSE Push(<<FormatNamespaceRoute(ns, path), there>>) /\ lastNamespace' = ns
    /\ UNCHANGED favoriteNamespace

\* The star in the selector.
Favorite(ns) ==
    /\ path.scope \in Choice
    /\ favoriteNamespace' = IF favoriteNamespace = ns THEN "none" ELSE ns
    /\ UNCHANGED <<path, backwards, activeNamespace, lastNamespace>>

LoadConsole ==
    /\ activeNamespace' = Loaded(path, favoriteNamespace, lastNamespace)
    /\ UNCHANGED <<path, backwards, remembered>>

NamespaceNext ==
    \/ (\E p \in Paths : FollowLink(p))
    \/ Back \/ LoadConsole
    \/ \E ns \in Choice : PickNamespace(ns) \/ Favorite(ns) \/ (ns # "all" /\ BindingSaved(ns))

NamespaceSpec == NamespaceInit /\ [][NamespaceNext]_namespaceVars

-----------------------------------------------------------------------------
NamespaceTypeOK ==
    /\ activeNamespace \in Choice \cup {"default"}
    /\ lastNamespace \in Choice \cup {"none"} /\ favoriteNamespace \in Choice \cup {"none"}
    /\ path.scope \in Choice \cup {"cluster", "none"} /\ Len(backwards) <= MaxHistory

\* Links, the selector, the browser's buttons and forms that switch the
\* namespace never leave a page of one namespace beside a store with another
\* (app.jsx:111-124, ui-reducers.js:41-56).
PathIsActive == GetNamespace(path) \in {"none", activeNamespace}

\* The namespace that is selected when returning to the console is the one
\* viewed last (ui-actions.js:99-101).
ReturnsToTheViewed == GetNamespace(path) \in Project => lastNamespace = GetNamespace(path)
=============================================================================
