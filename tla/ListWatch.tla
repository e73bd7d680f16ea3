----------------------------- MODULE ListWatch -----------------------------
(***************************************************************************)
(* One list of Kubernetes objects kept in the browser: the actions         *)
(* watchK8sList and stopK8sWatch                                           *)
(* (src/frontend/public/module/k8s/k8s-actions.ts:112-241), the reducer    *)
(* entry they maintain (k8s-reducers.ts) and the WebSocket k8sWatch opens. *)
(*                                                                         *)
(* Components mount and unmount; each mount of an unwatched list starts an *)
(* asynchronous pollAndWatch, here a loop.  A loop fetches the pages of    *)
(* the list one request at a time, then opens the WebSocket at the         *)
(* resourceVersion it loaded.  Between two awaits anything may happen: a   *)
(* stopped loop is only noticed when it looks at REF_COUNTS again.         *)
(*                                                                         *)
(* The API server is external: what it stores and a log of the changes,    *)
(* whose length is the current resourceVersion.                            *)
(***************************************************************************)
EXTENDS Integers, Sequences, FiniteSets, K8sList

CONSTANTS
    Loop,        \* pollAndWatch calls that can be under way at once (bound)
    PageLimit,   \* paginationLimit
    BufferMax,   \* bufferMax of k8sWatch
    MaxEvents,   \* bound: changes the server makes
    MaxRefs,     \* bound: components showing the list at once
    MaxWatches,  \* bound: mounts of the list while nobody shows it
    MaxFailures, \* bound: failed requests
    MaxCloses    \* bound: WebSocket disconnections

ASSUME PageLimitAssumption == PageLimit \in Nat \ {0}
ASSUME BufferMaxAssumption == BufferMax \in Nat \ {0}
ASSUME BoundsAssumption ==
    /\ MaxEvents \in Nat /\ MaxRefs \in Nat /\ MaxWatches \in Nat
    /\ MaxFailures \in Nat /\ MaxCloses \in Nat

VARIABLES
    server,     \* what the server stores under each name
    log,        \* its changes
    refCount,   \* REF_COUNTS[id], 0 when the key is missing
    poll,       \* POLLs[id] holds a pending timeout
    ws,         \* WS[id] and the state of its connection
    entry,      \* the reducer's entry for id, its data apart
    list,       \* the entry's data
    loops,      \* the pollAndWatch calls under way
    lost,       \* history: the buffer dropped an event that nothing replays
    budget      \* what is left of the bounds

client == <<refCount, poll, ws, entry, list, lost>>
vars == <<server, log, client, loops, budget>>

\* state: none is a missing WS[id]; from: the resourceVersion in the URL;
\* pos: the last change received; buf: how many of them wait in the buffer.
NoSocket == [state |-> "none", from |-> 0, pos |-> 0, buf |-> 0]
Socket == [state : {"none", "init", "open", "closed"}, from : Nat, pos : Nat, buf : 0..BufferMax]

\* What k8s-reducers.ts keeps under id beside the data.
Entry == [listed : BOOLEAN, loaded : BOOLEAN, loadError : BOOLEAN]
NoEntry == [listed |-> FALSE, loaded |-> FALSE, loadError |-> FALSE]

\* pc: sent and served are the two legs of a request, resolved an
\* incrementallyLoad that returned; snap and rv: the snapshot the server pages
\* and its resourceVersion; paged: the continue token, as the names before it.
IdleLoop == [pc |-> "idle", snap |-> EmptyList, rv |-> 0, paged |-> {}]
LoopState == [pc : {"idle", "sent", "served", "resolved"},
              snap : [Name -> Object \cup {Absent}], rv : Nat, paged : SUBSET Name]

Init ==
    /\ server = EmptyList /\ log = <<>>
    /\ refCount = 0 /\ poll = FALSE /\ ws = NoSocket
    /\ entry = NoEntry /\ list = EmptyList /\ lost = FALSE
    /\ loops = [p \in Loop |-> IdleLoop]
    /\ budget = [watches |-> MaxWatches, failures |-> MaxFailures, closes |-> MaxCloses]

Spend(what) == budget[what] > 0 /\ budget' = [budget EXCEPT ![what] = @ - 1]

-----------------------------------------------------------------------------
(* The API server *)

Revision == Len(log)

Record(type, n, object) ==
    /\ log' = Append(log, [type |-> type, name |-> n, object |-> object])
    /\ server' = [server EXCEPT ![n] = IF type = "DELETED" THEN Absent ELSE object]

Change(n) ==
    LET rv == Revision + 1
    IN  /\ Revision < MaxEvents
        /\ \/ /\ server[n] = Absent
              /\ \E v \in Val : Record("ADDED", n, [uid |-> rv, rv |-> rv, val |-> v])
           \/ /\ server[n] # Absent
              /\ \E v \in Val : Record("MODIFIED", n, [uid |-> server[n].uid, rv |-> rv, val |-> v])
           \/ /\ server[n] # Absent
              /\ Record("DELETED", n, [uid |-> server[n].uid, rv |-> rv, val |-> server[n].val])
        /\ UNCHANGED <<client, loops, budget>>

\* A page: the first PageLimit names that come after the token.
Remaining(p) == {n \in Name \ loops[p].paged : loops[p].snap[n] # Absent}
PageNames(p) == {n \in Remaining(p) : Cardinality({m \in Remaining(p) : m < n}) < PageLimit}
Items(p) == [n \in PageNames(p) |-> loops[p].snap[n]]
HasContinue(p) == PageNames(p) # Remaining(p)

-----------------------------------------------------------------------------
(* Mounting and unmounting *)

\* pollAndWatch up to its first await: incrementallyLoad sends the first
\* request, or returns at once when the list is no longer wanted.
StartLoop(p) ==
    /\ loops[p] = IdleLoop
    /\ loops' = [loops EXCEPT ![p] = [@ EXCEPT !.pc = IF refCount' = 0 THEN "resolved" ELSE "sent"]]

WatchAgain ==
    /\ refCount \in 1..(MaxRefs - 1)
    /\ refCount' = refCount + 1
    /\ UNCHANGED <<server, log, poll, ws, entry, list, lost, loops, budget>>

\* The reducer's watchK8sList keeps an entry it already has.
Watch(p) ==
    /\ refCount = 0
    /\ Spend("watches")
    /\ refCount' = 1
    /\ poll' = FALSE
    /\ entry' = [entry EXCEPT !.listed = TRUE]
    /\ list' = IF entry.listed THEN list ELSE EmptyList
    /\ StartLoop(p)
    /\ UNCHANGED <<server, log, ws, lost>>

\* The cleanup of stopK8sWatch and the reducer's stopK8sWatch.
Cleanup ==
    /\ refCount' = 0
    /\ ws' = NoSocket
    /\ poll' = FALSE
    /\ entry' = NoEntry /\ list' = EmptyList
    /\ lost' = FALSE

Stop ==
    /\ refCount > 0
    /\ \/ refCount > 1 /\ refCount' = refCount - 1 /\ UNCHANGED <<poll, ws, entry, list, lost>>
       \/ refCount = 1 /\ Cleanup
    /\ UNCHANGED <<server, log, loops, budget>>

-----------------------------------------------------------------------------
(* pollAndWatch *)

EndLoop(p) == loops' = [loops EXCEPT ![p] = IdleLoop]

\* Fault: the id of the timeout that fired stays in POLLs.
PollFires_KeepsId(p) ==
    /\ poll
    /\ UNCHANGED <<poll, refCount>>
    /\ StartLoop(p)
    /\ UNCHANGED <<server, log, ws, entry, list, lost, budget>>

\* setTimeout(pollAndWatch, 15 s) fires: POLLs[id] is deleted first.
PollFires(p) ==
    /\ poll
    /\ poll' = FALSE
    /\ UNCHANGED refCount
    /\ StartLoop(p)
    /\ UNCHANGED <<server, log, ws, entry, list, lost, budget>>

\* The server answers: the first page fixes the snapshot of the whole list.
Serve(p) ==
    /\ loops[p].pc = "sent"
    /\ loops' = [loops EXCEPT ![p] =
          IF @.paged = {} THEN [pc |-> "served", snap |-> server, rv |-> Revision, paged |-> {}]
          ELSE [@ EXCEPT !.pc = "served"]]
    /\ UNCHANGED <<server, log, client, budget>>

\* incrementallyLoad after the await.  Only a first page is loaded and only a
\* page with a continue token is added.
ReceivePage(p) ==
    LET first == loops[p].paged = {}
        loaded == IF first THEN LoadList(list, Items(p)) ELSE list
    IN  /\ loops[p].pc = "served" /\ refCount > 0
        /\ list' = IF HasContinue(p) THEN BulkAddToList(loaded, Items(p)) ELSE loaded
        /\ entry' = IF first THEN [entry EXCEPT !.loaded = TRUE, !.loadError = FALSE] ELSE entry
        /\ loops' = [loops EXCEPT ![p] =
              IF HasContinue(p) THEN [@ EXCEPT !.pc = "sent", !.paged = loops[p].paged \cup PageNames(p)]
              ELSE [@ EXCEPT !.pc = "resolved"]]
        /\ UNCHANGED <<server, log, refCount, poll, ws, lost, budget>>

\* The list was given up, while the request was under way or by a component
\* the dispatch unmounted: pollAndWatch cleans up once more.
Abandon(p) ==
    /\ loops[p].pc \in {"served", "resolved"} /\ refCount = 0
    /\ Cleanup
    /\ EndLoop(p)
    /\ UNCHANGED <<server, log, budget>>

\* "Attempted to create multiple websockets for ${id}.  This should never happen."
SecondSocket(p) ==
    /\ loops[p].pc = "resolved" /\ refCount > 0 /\ ws.state # "none"
    /\ EndLoop(p)
    /\ UNCHANGED <<server, log, client, budget>>

\* Fault: REF_COUNTS is not looked at after the await.
OpenWatch_Unchecked(p) ==
    /\ loops[p].pc = "resolved" /\ ws.state = "none"
    /\ ws' = [state |-> "init", from |-> loops[p].rv, pos |-> 0, buf |-> 0]
    /\ lost' = FALSE
    /\ EndLoop(p)
    /\ UNCHANGED <<server, log, refCount, poll, entry, list, budget>>

OpenWatch(p) ==
    /\ loops[p].pc = "resolved" /\ refCount > 0 /\ ws.state = "none"
    /\ ws' = [state |-> "init", from |-> loops[p].rv, pos |-> 0, buf |-> 0]
    /\ lost' = FALSE
    /\ EndLoop(p)
    /\ UNCHANGED <<server, log, refCount, poll, entry, list, budget>>

\* Fault: the error is recorded and nothing retried.
Fail_NoRetry(p) ==
    /\ loops[p].pc \in {"sent", "served"}
    /\ Spend("failures")
    /\ EndLoop(p)
    /\ \/ refCount = 0 /\ Cleanup
       \/ /\ refCount > 0
          /\ entry' = [entry EXCEPT !.loadError = TRUE]
          /\ UNCHANGED <<refCount, poll, ws, list, lost>>
    /\ UNCHANGED <<server, log>>

\* A request fails or its 20 s are over (coFetch): the catch of pollAndWatch.
Fail(p) ==
    /\ loops[p].pc \in {"sent", "served"}
    /\ Spend("failures")
    /\ EndLoop(p)
    /\ \/ refCount = 0 /\ Cleanup
       \/ /\ refCount > 0
          /\ entry' = [entry EXCEPT !.loadError = TRUE]
          /\ poll' = TRUE
          /\ UNCHANGED <<refCount, ws, list, lost>>
    /\ UNCHANGED <<server, log>>

-----------------------------------------------------------------------------
(* The WebSocket: the part of WSFactory a watch without orphaned sockets uses *)

\* Fault: the resourceVersion is missing from the URL.
WsOpen_FromNow ==
    /\ ws.state = "init"
    /\ ws' = [ws EXCEPT !.state = "open", !.pos = Revision]
    /\ UNCHANGED <<server, log, refCount, poll, entry, list, lost, loops, budget>>

WsOpen ==
    /\ ws.state = "init"
    /\ ws' = [ws EXCEPT !.state = "open", !.pos = ws.from]
    /\ UNCHANGED <<server, log, refCount, poll, entry, list, lost, loops, budget>>

\* _triggerEvent buffers the message, and shifts the oldest one out of a full buffer.
WsReceive ==
    /\ ws.state = "open" /\ ws.pos < Revision
    /\ ws' = [ws EXCEPT !.pos = @ + 1, !.buf = IF @ = BufferMax THEN @ ELSE @ + 1]
    /\ lost' = (lost \/ ws.buf = BufferMax)
    /\ UNCHANGED <<server, log, refCount, poll, entry, list, loops, budget>>

\* flushMessageBuffer: onbulkmessage dispatches updateListFromWS.
WsFlush ==
    /\ ws.buf > 0
    /\ list' = UpdateListFromWS(list, SubSeq(log, ws.pos - ws.buf + 1, ws.pos))
    /\ ws' = [ws EXCEPT !.buf = 0]
    /\ UNCHANGED <<server, log, refCount, poll, entry, lost, loops, budget>>

\* A close other than 1006 is left to WSFactory's reconnect.
WsClose ==
    /\ ws.state = "open"
    /\ Spend("closes")
    /\ ws' = [ws EXCEPT !.state = "closed"]
    /\ UNCHANGED <<server, log, refCount, poll, entry, list, lost, loops>>

\* Fault: k8sWatch is called without the reconnect option.
WsReconnect_Off == FALSE /\ UNCHANGED vars

\* _connect empties the buffer and asks for the same resourceVersion again.
WsReconnect ==
    /\ ws.state = "closed"
    /\ ws' = [ws EXCEPT !.state = "init", !.buf = 0]
    /\ lost' = FALSE
    /\ UNCHANGED <<server, log, refCount, poll, entry, list, loops, budget>>

\* Close code 1006: destroy(true), whose handler arms the poll.
WsAbort ==
    /\ ws.state \in {"init", "open"}
    /\ Spend("closes")
    /\ ws' = NoSocket
    /\ poll' = TRUE
    /\ UNCHANGED <<server, log, refCount, entry, list, lost, loops>>

-----------------------------------------------------------------------------
LoopStep(p) ==
    \/ Watch(p) \/ PollFires(p) \/ Serve(p) \/ ReceivePage(p)
    \/ Abandon(p) \/ SecondSocket(p) \/ OpenWatch(p) \/ Fail(p)
SocketStep == WsOpen \/ WsReceive \/ WsFlush \/ WsClose \/ WsReconnect \/ WsAbort

Next ==
    \/ \E n \in Name : Change(n)
    \/ WatchAgain \/ Stop
    \/ \E p \in Loop : LoopStep(p)
    \/ SocketStep

Spec == Init /\ [][Next]_vars

\* Timers fire, requests are answered or fail, sockets connect and deliver.
\* Nothing forces the server to change, components to mount, or failures.
Progress(p) == PollFires(p) \/ Serve(p) \/ ReceivePage(p) \/ Abandon(p) \/ SecondSocket(p) \/ OpenWatch(p)
Fairness ==
    /\ \A p \in Loop : WF_vars(Progress(p))
    /\ WF_vars(WsOpen) /\ WF_vars(WsReceive) /\ WF_vars(WsFlush) /\ WF_vars(WsReconnect)

FairSpec == Spec /\ Fairness

-----------------------------------------------------------------------------
\* What the cached list promises the components that show it.

Snapshots == [Name -> Object \cup {Absent}]
ControlTypeOK ==
    /\ server \in Snapshots
    /\ log \in Seq(Event)
    /\ refCount \in Nat
    /\ poll \in BOOLEAN
    /\ ws \in Socket
    /\ entry \in Entry
    /\ loops \in [Loop -> LoopState]
    /\ lost \in BOOLEAN
TypeOK == ControlTypeOK /\ list \in Snapshots

Active(p) == loops[p].pc # "idle"

\* After the last stopK8sWatch nothing of the list remains, whatever was in
\* flight: no socket, no timer, no reducer entry (k8s-actions.ts:112-128 and
\* the late cleanups at 180 and 197).
NothingLeftBehind ==
    refCount = 0 => ws = NoSocket /\ ~poll /\ entry = NoEntry /\ list = EmptyList

\* A list somebody shows has an entry and is being worked on: its socket is
\* there, or a request is under way, or a timer will start one.
SomebodyWatches ==
    refCount > 0 => entry.listed /\ (ws.state # "none" \/ poll \/ \E p \in Loop : Active(p))

\* The list shows the objects of a snapshot of the server.
Shows(snapshot) == \A n \in Name : SameContents(list[n], snapshot[n])

\* When no request is under way and every change was received, flushed and
\* none dropped by the full buffer, the list is the server's list, across
\* reconnects that replay changes, polls and refetches.
CaughtUp ==
    /\ ws.state = "open" /\ ws.pos = Revision /\ ws.buf = 0 /\ ~lost
    /\ \A p \in Loop : ~Active(p)
Mirror == CaughtUp => Shows(server)

\* "Incrementally fetch list (XHR) using k8s pagination then use its
\* resourceVersion to start listening on a WS" (k8s-actions.ts:163-165): the
\* socket starts from the resourceVersion of what the list shows, else the
\* changes in between are never seen.
WatchStartsFromList == [][ \A p \in Loop : OpenWatch(p) => Shows(loops[p].snap) ]_vars

\* "Attempted to create multiple websockets for ${id}.  This should never
\* happen." (k8s-actions.ts:186)
NeverTwice == [][ \A p \in Loop : ~SecondSocket(p) ]_vars

\* The phase of the cycle the comment at k8s-actions.ts:163-169 describes.
Phase ==
    IF refCount = 0 THEN "off"
    ELSE IF ws.state # "none" THEN "watching"
    ELSE IF poll THEN "waiting" ELSE "loading"

Cycle == INSTANCE WatchCycle WITH phase <- Phase

\* A list mounted once goes through that cycle and no other.
FollowsCycle == Cycle!Spec

\* Once the server stops changing, the list ends up unwatched or equal to the
\* server's for good, unless the full buffer dropped a change that no
\* reconnect has replayed since: nothing fetches the list again then.
EventuallyMirrors == <>[](refCount = 0 \/ lost \/ Shows(server))
=============================================================================
