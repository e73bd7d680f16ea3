------------------------------ MODULE Polling ------------------------------
(***************************************************************************)
(* The boxes and graphs that ask Prometheus again and again                *)
(* (src/frontend/public/components/graphs/status.jsx, base.jsx), mounted,  *)
(* given another query and unmounted while requests and timers run.  A     *)
(* chain is a request, the timer its answer sets, the request of that      *)
(* timer, and so on.                                                       *)
(***************************************************************************)
EXTENDS Integers, Sequences, SequencesExt

CONSTANTS
    Query,      \* queries of the box
    MaxQueries  \* bound: changes of the query

ASSUME PollingAssumption == "..." \notin Query /\ Query # {} /\ MaxQueries \in Nat

VARIABLES
    chart,    \* "Status" or "BaseGraph", "none" before it is mounted, "gone" after
    query,    \* props.query; a graph reads it at its next poll
    queryClock, \* this.clock: changes of the query so far
    chains,   \* the chains that run
    interval, \* this.interval: the chain whose timer it is, or 0
    display   \* the query whose result is shown, or "..."

pollingVars == <<chart, query, queryClock, chains, interval, display>>

Chain == [at : {"asked", "timer"}, id : 1 .. MaxQueries + 1, query : Query, clock : 0 .. MaxQueries]

PollingInit ==
    /\ chart = "none" /\ query = (CHOOSE q \in Query : TRUE)
    /\ queryClock = 0 /\ chains = {} /\ interval = 0 /\ display = "..."

Mounted == chart \in {"Status", "BaseGraph"}

\* fetch(): a new chain, or the next request of one.
Fetch(id, q, now) == [at |-> "asked", id |-> id, query |-> q, clock |-> now]

\* componentWillMount.
ChartMounts ==
    /\ chart = "none"
    /\ chart' \in {"Status", "BaseGraph"}
    /\ chains' = {Fetch(1, query, 0)}
    /\ UNCHANGED <<query, queryClock, interval, display>>

\* componentWillReceiveProps: a second chain starts, no timer is cleared.
NewQuery(q) ==
    /\ display' = "..."
    /\ chains' = chains \cup {Fetch(queryClock + 2, q, queryClock + 1)}

QueryChanges(q) ==
    /\ Mounted /\ q # query /\ queryClock < MaxQueries
    /\ query' = q /\ queryClock' = queryClock + 1
    /\ IF chart = "Status" THEN NewQuery(q) ELSE UNCHANGED <<chains, display>>
    /\ UNCHANGED <<chart, interval>>

\* ignorePromise of the Status; a graph has none.
Ignored(c) == chart = "Status" /\ c.clock # queryClock

\* setState is nothing after the unmount, yet the timer is set.
ChartAnswered(c) ==
    /\ c.at = "asked"
    /\ IF Ignored(c)
       THEN chains' = chains \ {c} /\ UNCHANGED <<interval, display>>
       ELSE /\ chains' = (chains \ {c}) \cup {[c EXCEPT !.at = "timer"]}
            /\ interval' = c.id
            /\ display' = IF Mounted THEN c.query ELSE display
    /\ UNCHANGED <<chart, query, queryClock>>

\* Fault: a timer asks whether the box is there or not.
PollsOn_Always == TRUE

PollsOn == Mounted  \* this.isMounted_

TimerFires(c) ==
    /\ c.at = "timer"
    /\ chains' = (chains \ {c}) \cup (IF PollsOn THEN {Fetch(c.id, query, queryClock)} ELSE {})
    /\ UNCHANGED <<chart, query, queryClock, interval, display>>

\* componentWillUnmount clears the last timer that was set.
ChartUnmounts ==
    /\ Mounted
    /\ chart' = "gone"
    /\ chains' = {c \in chains : c.at = "asked" \/ c.id # interval}
    /\ UNCHANGED <<query, queryClock, interval, display>>

PollingNext ==
    \/ ChartMounts \/ ChartUnmounts \/ (\E q \in Query : QueryChanges(q))
    \/ \E c \in chains : ChartAnswered(c) \/ TimerFires(c)

\* Requests are answered, or time out after 20 s, and timers fire.
PollingFairness ==
    \A id \in 1 .. MaxQueries + 1 :
        WF_pollingVars(\E c \in chains : c.id = id /\ (ChartAnswered(c) \/ TimerFires(c)))

PollingSpec == PollingInit /\ [][PollingNext]_pollingVars /\ PollingFairness

-----------------------------------------------------------------------------
PollingTypeOK ==
    /\ chart \in {"none", "Status", "BaseGraph", "gone"} /\ query \in Query
    /\ queryClock \in 0 .. MaxQueries /\ chains \subseteq Chain
    /\ interval \in 0 .. MaxQueries + 1 /\ display \in Query \cup {"..."}

\* A status box never shows the number of another query, whatever answers are
\* still on their way when its query changes (status.jsx:57-70, 77-84).
StatusIsOfItsQuery == chart = "Status" => display \in {query, "..."}

\* A box that is there shows its query's result in the end (status.jsx:84,
\* base.jsx:34-70).
ShowsItsQuery == <>[]Mounted => <>[](display = query)

\* Nothing is asked for ever on behalf of a box that is gone: a timer that the
\* unmount did not know, or that a late answer set, ends its chain
\* (status.jsx:66-70, base.jsx:65-69).
ChartPollsEnd == []<>(chart = "gone" => chains = {})

\* One chain runs for one box (status.jsx:77-84).
OnePoll == \A c \in chains, d \in chains : c.id = d.id

(***************************************************************************)
(* A page whose code is loaded when it is shown                            *)
(* (src/frontend/public/components/utils/async.tsx).  The component stays  *)
(* when the kind of a list or of a details page changes                    *)
(* (resource-list.tsx:44, 69) and gets another loader.                     *)
(***************************************************************************)
CONSTANTS
    Loader,       \* one for each chunk of code
    MaxLoads,     \* bound: calls of loadComponent that are not retries
    MaxLoadFails  \* bound: loads that fail

ASSUME AsyncAssumption == Loader # {} /\ MaxLoads \in Nat /\ MaxLoadFails \in Nat

VARIABLES
    asyncPage,  \* "none", "mounted" or "gone"
    wanted,     \* props.loader, and state.loader
    component,  \* the loader whose component is shown, "none" is the LoadingBox
    loads,      \* loads that run: promises and timers of retries
    loadCount, loadFails,
    crossed     \* history: the loader changed while a load was running

asyncVars == <<asyncPage, wanted, component, loads, loadCount, loadFails, crossed>>

AsyncInit ==
    /\ asyncPage = "none" /\ wanted = (CHOOSE l \in Loader : TRUE) /\ component = "none"
    /\ loads = {} /\ loadCount = 0 /\ loadFails = 0 /\ crossed = FALSE

\* loadComponent: the loader is the one of this moment.
LoadComponent(l) ==
    /\ loadCount < MaxLoads
    /\ loadCount' = loadCount + 1
    /\ loads' = loads \cup {[id |-> loadCount + 1, at |-> "asked", of |-> l]}

AsyncMounts(l) ==
    /\ asyncPage = "none" /\ asyncPage' = "mounted"
    /\ wanted' = l /\ LoadComponent(l)
    /\ UNCHANGED <<component, loadFails, crossed>>

\* getDerivedStateFromProps, and componentDidUpdate, which loads.
LoaderChanges(l) ==
    /\ asyncPage = "mounted" /\ l # wanted
    /\ wanted' = l /\ component' = "none" /\ LoadComponent(l)
    /\ crossed' = (crossed \/ loads # {})
    /\ UNCHANGED <<asyncPage, loadFails>>

\* componentDidUpdate after other props have changed.
AsyncUpdates ==
    /\ asyncPage = "mounted" /\ component = "none" /\ LoadComponent(wanted)
    /\ UNCHANGED <<asyncPage, wanted, component, loadFails, crossed>>

\* setState is nothing after the unmount.
ComponentLoads(x) ==
    /\ x.at = "asked" /\ loads' = loads \ {x}
    /\ component' = IF asyncPage = "mounted" THEN x.of ELSE component
    /\ UNCHANGED <<asyncPage, wanted, loadCount, loadFails, crossed>>

LoadFails(x) ==
    /\ x.at = "asked" /\ loadFails < MaxLoadFails
    /\ loadFails' = loadFails + 1
    /\ loads' = (loads \ {x}) \cup {[x EXCEPT !.at = "timer"]}
    /\ UNCHANGED <<asyncPage, wanted, component, loadCount, crossed>>

\* The timer calls loadComponent, whether the component is there, or loaded, or not.
LoadRetries(x) ==
    /\ x.at = "timer"
    /\ loads' = (loads \ {x}) \cup {[x EXCEPT !.at = "asked", !.of = wanted]}
    /\ UNCHANGED <<asyncPage, wanted, component, loadCount, loadFails, crossed>>

AsyncUnmounts ==
    /\ asyncPage = "mounted" /\ asyncPage' = "gone"
    /\ UNCHANGED <<wanted, component, loads, loadCount, loadFails, crossed>>

AsyncNext ==
    \/ AsyncUpdates \/ AsyncUnmounts
    \/ \E l \in Loader : AsyncMounts(l) \/ LoaderChanges(l)
    \/ \E x \in loads : ComponentLoads(x) \/ LoadFails(x) \/ LoadRetries(x)

\* A chunk is loaded, or is not, and timers fire.
AsyncFairness ==
    \A id \in 1 .. MaxLoads :
        WF_asyncVars(\E x \in loads : x.id = id /\ (ComponentLoads(x) \/ LoadRetries(x)))

AsyncSpec == AsyncInit /\ [][AsyncNext]_asyncVars /\ AsyncFairness

AsyncTypeOK ==
    /\ asyncPage \in {"none", "mounted", "gone"} /\ wanted \in Loader /\ component \in Loader \cup {"none"}
    /\ loads \subseteq [id : 1 .. MaxLoads, at : {"asked", "timer"}, of : Loader]
    /\ loadCount \in 0 .. MaxLoads /\ loadFails \in 0 .. MaxLoadFails /\ crossed \in BOOLEAN

\* The component that is shown in the end is that of the loader, though loads
\* fail and are called again by every update (async.tsx:29-55), unless the
\* loader changes while one is running.
ShowsItsComponent == <>[](asyncPage = "mounted") /\ []~crossed => <>[](component = wanted)

\* A component that is gone loads no more in the end (async.tsx:53).
LoadsEnd == []<>(asyncPage = "gone" => loads = {})

\* Violated: "renders new component if `props.loader` changes" (async.spec.tsx:98).  The
\* load of the loader before sets its component when it ends (async.tsx:47), and
\* nothing replaces it: a page of one kind is shown for another.
ComponentIsWanted == component \in {"none", wanted}
=============================================================================
