-------------------------- MODULE ListWatchProofs --------------------------
(***************************************************************************)
(* The life cycle of a watched list, for any number of components, loops,  *)
(* names and changes, with as many mounts, failures and disconnections as  *)
(* there may be; and, for a list that is mounted once, the cycle it        *)
(* implements and what it shows.                                           *)
(***************************************************************************)
EXTENDS ListWatch, FiniteSetTheorems, TLAPS

Inv == ControlTypeOK /\ NothingLeftBehind /\ SomebodyWatches

LEMMA InitInv == Init => Inv
<1> SUFFICES ASSUME Init PROVE Inv
  OBVIOUS
<1>1. ControlTypeOK
  <2>1. EmptyList \in Snapshots
    BY DEF EmptyList, Snapshots
  <2>2. IdleLoop \in LoopState
    BY <2>1 DEF IdleLoop, LoopState, Snapshots
  <2>3. NoSocket \in Socket /\ NoEntry \in Entry
    BY BufferMaxAssumption DEF NoSocket, Socket, NoEntry, Entry
  <2>4. loops \in [Loop -> LoopState]
    BY <2>2 DEF Init
  <2>5. server \in Snapshots /\ ws \in Socket /\ entry \in Entry
    BY <2>1, <2>3 DEF Init
  <2>6. log \in Seq(Event) /\ refCount \in Nat /\ poll \in BOOLEAN /\ lost \in BOOLEAN
    <3>1. <<>> \in Seq(Event)
      OBVIOUS
    <3>2. log = <<>> /\ refCount = 0 /\ poll = FALSE /\ lost = FALSE
      BY DEF Init
    <3> QED BY <3>1, <3>2
  <2> QED BY <2>4, <2>5, <2>6 DEF ControlTypeOK
<1>2. NothingLeftBehind /\ SomebodyWatches
  BY DEF Init, NothingLeftBehind, SomebodyWatches
<1> QED BY <1>1, <1>2 DEF Inv

\* The server's changes touch nothing of the client.
LEMMA ChangeInv ==
    ASSUME Inv, NEW n \in Name, Change(n)
    PROVE  Inv'
<1>1. /\ server \in Snapshots /\ log \in Seq(Event) /\ Len(log) \in Nat
      /\ UNCHANGED <<refCount, poll, ws, entry, list, lost, loops>>
  BY DEF Inv, ControlTypeOK, Change, client
<1> DEFINE rv == Revision + 1
<1>2. rv \in Nat
  BY <1>1 DEF Revision
<1>3. PICK type \in {"ADDED", "MODIFIED", "DELETED"}, object \in Object : Record(type, n, object)
  <2>1. ASSUME NEW v \in Val, server[n] = Absent, Record("ADDED", n, [uid |-> rv, rv |-> rv, val |-> v])
        PROVE  \E type \in {"ADDED", "MODIFIED", "DELETED"}, object \in Object : Record(type, n, object)
    <3>1. [uid |-> rv, rv |-> rv, val |-> v] \in Object
      BY <1>2 DEF Object
    <3> QED BY <2>1, <3>1
  <2>2. ASSUME NEW v \in Val, server[n] # Absent,
               Record("MODIFIED", n, [uid |-> server[n].uid, rv |-> rv, val |-> v])
        PROVE  \E type \in {"ADDED", "MODIFIED", "DELETED"}, object \in Object : Record(type, n, object)
    <3>1. server[n] \in Object
      BY <1>1, <2>2 DEF Snapshots
    <3>2. [uid |-> server[n].uid, rv |-> rv, val |-> v] \in Object
      BY <1>2, <3>1 DEF Object
    <3> QED BY <2>2, <3>2
  <2>3. ASSUME server[n] # Absent,
               Record("DELETED", n, [uid |-> server[n].uid, rv |-> rv, val |-> server[n].val])
        PROVE  \E type \in {"ADDED", "MODIFIED", "DELETED"}, object \in Object : Record(type, n, object)
    <3>1. server[n] \in Object
      BY <1>1, <2>3 DEF Snapshots
    <3>2. [uid |-> server[n].uid, rv |-> rv, val |-> server[n].val] \in Object
      BY <1>2, <3>1 DEF Object
    <3> QED BY <2>3, <3>2
  <2> QED BY <2>1, <2>2, <2>3 DEF Change
<1>4. server' \in Snapshots
  BY <1>1, <1>3 DEF Record, Snapshots
<1>5. log' \in Seq(Event)
  <2>1. [type |-> type, name |-> n, object |-> object] \in Event
    BY DEF Event
  <2> QED BY <1>1, <1>3, <2>1 DEF Record
<1> QED BY <1>1, <1>4, <1>5 DEF Inv, ControlTypeOK, NothingLeftBehind, SomebodyWatches, Active

\* Whatever runs the cleanup of stopK8sWatch leaves nothing behind.
LEMMA CleanupInv ==
    ASSUME Inv, Cleanup, UNCHANGED <<server, log>>, loops' \in [Loop -> LoopState]
    PROVE  Inv'
<1>1. NoSocket \in Socket /\ NoEntry \in Entry
  BY BufferMaxAssumption DEF NoSocket, Socket, NoEntry, Entry
<1>2. ControlTypeOK'
  BY <1>1 DEF Inv, ControlTypeOK, Cleanup
<1>3. NothingLeftBehind' /\ SomebodyWatches'
  BY DEF Cleanup, NothingLeftBehind, SomebodyWatches
<1> QED BY <1>2, <1>3 DEF Inv

\* What a step does to one loop.
LEMMA LoopTypes ==
    ASSUME ControlTypeOK, NEW p \in Loop, NEW next \in LoopState, loops' = [loops EXCEPT ![p] = next]
    PROVE  /\ loops' \in [Loop -> LoopState] /\ loops'[p] = next
           /\ \A q \in Loop \ {p} : loops'[q] = loops[q]
BY DEF ControlTypeOK

LEMMA IdleType == IdleLoop \in LoopState /\ IdleLoop.pc = "idle"
<1>1. EmptyList \in Snapshots
  BY DEF EmptyList, Snapshots
<1> QED BY <1>1 DEF IdleLoop, LoopState, Snapshots

\* Mounts and unmounts.
LEMMA MountInv == Inv /\ (WatchAgain \/ Stop \/ \E p \in Loop : Watch(p)) => Inv'
<1> SUFFICES ASSUME Inv, WatchAgain \/ Stop \/ \E p \in Loop : Watch(p) PROVE Inv'
  OBVIOUS
<1>1. CASE WatchAgain
  <2>1. refCount \in Nat /\ refCount > 0 /\ refCount' = refCount + 1
    BY <1>1, BoundsAssumption DEF WatchAgain, Inv, ControlTypeOK
  <2>2. UNCHANGED <<server, log, poll, ws, entry, list, lost, loops>>
    BY <1>1 DEF WatchAgain
  <2> QED BY <2>1, <2>2 DEF Inv, ControlTypeOK, NothingLeftBehind, SomebodyWatches, Active
<1>2. CASE Stop
  <2>1. CASE refCount = 1 /\ Cleanup
    <3>1. UNCHANGED <<server, log>> /\ loops' \in [Loop -> LoopState]
      BY <1>2 DEF Stop, Inv, ControlTypeOK
    <3> QED BY <2>1, <3>1, CleanupInv
  <2>2. CASE refCount > 1 /\ refCount' = refCount - 1 /\ UNCHANGED <<poll, ws, entry, list, lost>>
    <3>1. refCount' \in Nat /\ refCount' > 0 /\ refCount > 0
      BY <2>2 DEF Inv, ControlTypeOK
    <3>2. UNCHANGED <<server, log, loops>>
      BY <1>2 DEF Stop
    <3> QED BY <2>2, <3>1, <3>2 DEF Inv, ControlTypeOK, NothingLeftBehind, SomebodyWatches, Active
  <2> QED BY <1>2, <2>1, <2>2 DEF Stop
<1>3. ASSUME NEW p \in Loop, Watch(p) PROVE Inv'
  <2>1. /\ refCount = 0 /\ refCount' = 1 /\ poll' = FALSE
        /\ entry' = [entry EXCEPT !.listed = TRUE] /\ UNCHANGED <<server, log, ws, lost>>
    BY <1>3 DEF Watch
  <2> DEFINE next == [IdleLoop EXCEPT !.pc = "sent"]
  <2>2. loops' = [loops EXCEPT ![p] = next]
    BY <1>3, <2>1 DEF Watch, StartLoop
  <2>3. next \in LoopState /\ next.pc = "sent"
    BY IdleType DEF LoopState
  <2>4. loops' \in [Loop -> LoopState] /\ Active(p)'
    BY <2>2, <2>3, LoopTypes DEF Active, Inv
  <2>5. entry' \in Entry /\ entry'.listed
    BY <2>1 DEF Inv, ControlTypeOK, Entry
  <2>6. ControlTypeOK'
    BY <2>1, <2>4, <2>5 DEF Inv, ControlTypeOK
  <2>7. NothingLeftBehind' /\ SomebodyWatches'
    BY <2>1, <2>4, <2>5 DEF NothingLeftBehind, SomebodyWatches
  <2> QED BY <2>6, <2>7 DEF Inv
<1> QED BY <1>1, <1>2, <1>3

\* A step of a loop that goes on: the loop itself is the one that works.
LEMMA LoopContinues ==
    ASSUME Inv, NEW p \in Loop, NEW next \in LoopState,
           loops' = [loops EXCEPT ![p] = next], next.pc # "idle",
           refCount > 0 \/ UNCHANGED <<poll, ws, entry, list>>, UNCHANGED <<server, log, refCount, ws, lost>>,
           entry' \in Entry, entry'.listed = entry.listed, poll' \in BOOLEAN
    PROVE  Inv'
<1>1. loops' \in [Loop -> LoopState] /\ Active(p)'
  BY LoopTypes DEF Inv, Active
<1>2. ControlTypeOK'
  BY <1>1 DEF Inv, ControlTypeOK
<1>3. NothingLeftBehind'
  BY DEF Inv, NothingLeftBehind, ControlTypeOK
<1>4. SomebodyWatches'
  BY <1>1 DEF Inv, SomebodyWatches
<1> QED BY <1>2, <1>3, <1>4 DEF Inv

LEMMA LoopInv ==
    ASSUME Inv, NEW p \in Loop, LoopStep(p)
    PROVE  Inv'
<1>a. loops \in [Loop -> LoopState] /\ loops[p] \in LoopState /\ entry \in Entry /\ server \in Snapshots
      /\ refCount \in Nat /\ poll \in BOOLEAN /\ Len(log) \in Nat
  BY DEF Inv, ControlTypeOK
<1>1. CASE Watch(p)
  BY <1>1, MountInv
<1>2. CASE PollFires(p)
  <2> DEFINE next == [IdleLoop EXCEPT !.pc = IF refCount' = 0 THEN "resolved" ELSE "sent"]
  <2>1. next \in LoopState /\ next.pc # "idle"
    BY IdleType DEF LoopState
  <2>2. loops' = [loops EXCEPT ![p] = next]
    BY <1>2 DEF PollFires, StartLoop
  <2>3. refCount > 0
    BY <1>2, <1>a DEF PollFires, Inv, NothingLeftBehind
  <2>4. UNCHANGED <<server, log, refCount, ws, entry, list, lost>> /\ poll' \in BOOLEAN
    BY <1>2 DEF PollFires
  <2> QED BY <1>a, <2>1, <2>2, <2>3, <2>4, LoopContinues
<1>3. CASE Serve(p)
  <2> DEFINE next == IF loops[p].paged = {}
                       THEN [pc |-> "served", snap |-> server, rv |-> Revision, paged |-> {}]
                       ELSE [loops[p] EXCEPT !.pc = "served"]
  <2>1. [pc |-> "served", snap |-> server, rv |-> Revision, paged |-> {}] \in LoopState
    BY <1>a DEF LoopState, Revision, Snapshots
  <2>2. [loops[p] EXCEPT !.pc = "served"] \in LoopState /\ [loops[p] EXCEPT !.pc = "served"].pc = "served"
    BY <1>a DEF LoopState
  <2>3. next \in LoopState /\ next.pc # "idle"
    BY <2>1, <2>2
  <2>4. loops' = [loops EXCEPT ![p] = next] /\ UNCHANGED <<server, log, refCount, poll, ws, entry, list, lost>>
    BY <1>3 DEF Serve, client
  <2> QED BY <1>a, <2>3, <2>4, LoopContinues
<1>4. CASE ReceivePage(p)
  <2> DEFINE next == IF HasContinue(p) THEN [loops[p] EXCEPT !.pc = "sent", !.paged = loops[p].paged \cup PageNames(p)]
                     ELSE [loops[p] EXCEPT !.pc = "resolved"]
  <2>1. PageNames(p) \subseteq Name
    BY DEF PageNames, Remaining
  <2>2. /\ [loops[p] EXCEPT !.pc = "sent", !.paged = loops[p].paged \cup PageNames(p)] \in LoopState
        /\ [loops[p] EXCEPT !.pc = "sent", !.paged = loops[p].paged \cup PageNames(p)].pc = "sent"
    BY <1>a, <2>1 DEF LoopState
  <2>3. [loops[p] EXCEPT !.pc = "resolved"] \in LoopState /\ [loops[p] EXCEPT !.pc = "resolved"].pc = "resolved"
    BY <1>a DEF LoopState
  <2>4. next \in LoopState /\ next.pc # "idle"
    BY <2>2, <2>3
  <2>5. /\ loops' = [loops EXCEPT ![p] = next] /\ UNCHANGED <<server, log, refCount, poll, ws, lost>>
        /\ refCount > 0
        /\ entry' = IF loops[p].paged = {} THEN [entry EXCEPT !.loaded = TRUE, !.loadError = FALSE] ELSE entry
    <3>1. loops' = [loops EXCEPT ![p] = next]
      BY <1>4 DEF ReceivePage
    <3>2. UNCHANGED <<server, log, refCount, poll, ws, lost>> /\ refCount > 0
      BY <1>4 DEF ReceivePage
    <3>3. entry' = IF loops[p].paged = {} THEN [entry EXCEPT !.loaded = TRUE, !.loadError = FALSE] ELSE entry
      BY <1>4 DEF ReceivePage
    <3> QED BY <3>1, <3>2, <3>3
  <2>6. /\ [entry EXCEPT !.loaded = TRUE, !.loadError = FALSE] \in Entry
        /\ [entry EXCEPT !.loaded = TRUE, !.loadError = FALSE].listed = entry.listed
    BY <1>a DEF Entry
  <2>7. entry' \in Entry /\ entry'.listed = entry.listed
    BY <1>a, <2>5, <2>6
  <2> QED BY <1>a, <2>4, <2>5, <2>7, LoopContinues
<1>5. CASE Abandon(p)
  <2>1. Cleanup /\ UNCHANGED <<server, log>> /\ loops' = [loops EXCEPT ![p] = IdleLoop]
    BY <1>5 DEF Abandon, EndLoop
  <2>2. loops' \in [Loop -> LoopState]
    BY <1>a, <2>1, IdleType
  <2> QED BY <2>1, <2>2, CleanupInv
<1>6. CASE SecondSocket(p) \/ OpenWatch(p)
  <2>1. /\ loops' = [loops EXCEPT ![p] = IdleLoop] /\ refCount > 0 /\ ws'.state # "none" /\ ws' \in Socket
        /\ UNCHANGED <<server, log, refCount, poll, entry, list>> /\ lost' \in BOOLEAN
    <3>1. CASE SecondSocket(p)
      BY <3>1 DEF SecondSocket, EndLoop, client, Inv, ControlTypeOK
    <3>2. CASE OpenWatch(p)
      <4>1. ws' = [state |-> "init", from |-> loops[p].rv, pos |-> 0, buf |-> 0] /\ loops[p].rv \in Nat
        BY <3>2, <1>a DEF OpenWatch, LoopState
      <4>2. ws'.state = "init" /\ ws' \in Socket
        BY <4>1, BufferMaxAssumption DEF Socket
      <4> QED BY <3>2, <4>2 DEF OpenWatch, EndLoop
    <3> QED BY <1>6, <3>1, <3>2
  <2>2. loops' \in [Loop -> LoopState]
    BY <1>a, <2>1, IdleType
  <2> QED BY <1>a, <2>1, <2>2 DEF Inv, ControlTypeOK, NothingLeftBehind, SomebodyWatches
<1>7. CASE Fail(p)
  <2>1. loops' = [loops EXCEPT ![p] = IdleLoop] /\ UNCHANGED <<server, log>>
    BY <1>7 DEF Fail, EndLoop
  <2>2. loops' \in [Loop -> LoopState]
    BY <1>a, <2>1, IdleType
  <2>3. CASE refCount = 0 /\ Cleanup
    BY <2>1, <2>2, <2>3, CleanupInv
  <2>4. CASE /\ refCount > 0 /\ entry' = [entry EXCEPT !.loadError = TRUE] /\ poll' = TRUE
             /\ UNCHANGED <<refCount, ws, list, lost>>
    <3>1. entry' \in Entry /\ entry'.listed = entry.listed
      BY <1>a, <2>4 DEF Entry
    <3> QED BY <1>a, <2>1, <2>2, <2>4, <3>1 DEF Inv, ControlTypeOK, NothingLeftBehind, SomebodyWatches
  <2> QED BY <1>7, <2>3, <2>4 DEF Fail
<1> QED BY <1>1, <1>2, <1>3, <1>4, <1>5, <1>6, <1>7 DEF LoopStep

\* The socket exists only while somebody shows the list, and when it goes the
\* poll takes its place.
LEMMA SocketInv == Inv /\ SocketStep => Inv'
<1> SUFFICES ASSUME Inv, SocketStep PROVE Inv'
  OBVIOUS
<1>a. ws \in Socket /\ refCount \in Nat /\ Len(log) \in Nat /\ lost \in BOOLEAN
  BY DEF Inv, ControlTypeOK
<1>b. NoSocket.state = "none" /\ NoSocket.buf = 0 /\ NoSocket \in Socket
  BY BufferMaxAssumption DEF NoSocket, Socket
<1>1. CASE WsAbort
  <2>1. /\ ws' = NoSocket /\ poll' = TRUE /\ ws.state # "none"
        /\ UNCHANGED <<server, log, refCount, entry, list, lost, loops>>
    BY <1>1 DEF WsAbort
  <2>2. refCount > 0
    BY <1>a, <1>b, <2>1 DEF Inv, NothingLeftBehind
  <2> QED BY <1>b, <2>1, <2>2 DEF Inv, ControlTypeOK, NothingLeftBehind, SomebodyWatches
<1>2. CASE WsOpen \/ WsReceive \/ WsFlush \/ WsClose \/ WsReconnect
  <2>1. /\ UNCHANGED <<server, log, refCount, poll, entry, loops>>
        /\ ws # NoSocket
    BY <1>2, <1>b DEF WsOpen, WsReceive, WsFlush, WsClose, WsReconnect
  <2>2. ws' \in Socket /\ (ws.state # "none" => ws'.state # "none") /\ lost' \in BOOLEAN
    <3>1. CASE WsOpen
      BY <1>a, <3>1 DEF WsOpen, Socket
    <3>2. CASE WsReceive
      <4>1. ws.buf \in 0..BufferMax /\ ws.pos \in Nat
        BY <1>a DEF Socket
      <4>2. (IF ws.buf = BufferMax THEN ws.buf ELSE ws.buf + 1) \in 0..BufferMax /\ ws.pos + 1 \in Nat
        BY <4>1, BufferMaxAssumption
      <4> QED BY <1>a, <3>2, <4>2 DEF WsReceive, Socket
    <3>3. CASE WsFlush
      BY <1>a, <3>3, BufferMaxAssumption DEF WsFlush, Socket
    <3>4. CASE WsClose
      BY <1>a, <3>4 DEF WsClose, Socket
    <3>5. CASE WsReconnect
      <4>1. 0 \in 0..BufferMax
        BY BufferMaxAssumption
      <4> QED BY <1>a, <3>5, <4>1 DEF WsReconnect, Socket
    <3> QED BY <1>2, <3>1, <3>2, <3>3, <3>4, <3>5
  <2>3. refCount > 0
    BY <1>a, <2>1 DEF Inv, NothingLeftBehind
  <2> QED BY <2>1, <2>2, <2>3 DEF Inv, ControlTypeOK, NothingLeftBehind, SomebodyWatches, Active
<1> QED BY <1>1, <1>2 DEF SocketStep

LEMMA InvNext == Inv /\ [Next]_vars => Inv'
<1> SUFFICES ASSUME Inv, [Next]_vars PROVE Inv'
  OBVIOUS
<1>1. CASE UNCHANGED vars
  BY <1>1 DEF vars, client, Inv, ControlTypeOK, NothingLeftBehind, SomebodyWatches, Active
<1>2. CASE Next
  BY <1>2, ChangeInv, MountInv, LoopInv, SocketInv DEF Next
<1> QED BY <1>1, <1>2

THEOREM InvHolds == Spec => []Inv
BY InitInv, InvNext, PTL DEF Spec

\* However mounts, unmounts, requests in flight and disconnections interleave,
\* the last unmount leaves no socket, no timer and no entry.
THEOREM UnmountCleansUp == Spec => []NothingLeftBehind
<1>1. Inv => NothingLeftBehind
  BY DEF Inv
<1> QED BY <1>1, InvHolds, PTL

\* A list somebody shows is never left without a socket, a request or a timer.
THEOREM NeverAbandoned == Spec => []SomebodyWatches
<1>1. Inv => SomebodyWatches
  BY DEF Inv
<1> QED BY <1>1, InvHolds, PTL

-----------------------------------------------------------------------------
(* A list that is mounted once.  A second mount may find a loop of the first   *)
(* still under way, and then there are two.                                    *)

\* One loop or one socket or one timer is at work.
Single ==
    /\ \A p, q \in Loop : Active(p) /\ Active(q) => p = q
    /\ \A p \in Loop : Active(p) => ws.state = "none" /\ ~poll
    /\ poll => ws.state = "none"
    /\ ws.state = "none" => ws.buf = 0
    /\ budget \in [watches : Nat, failures : Nat, closes : Nat] /\ budget.watches \in {0, 1}
    /\ budget.watches = 1 => refCount = 0 /\ \A p \in Loop : ~Active(p)


LEMMA SingleInit == MaxWatches = 1 /\ Init => Single
BY BoundsAssumption DEF Init, Single, Active, IdleLoop, NoSocket

\* Nothing is spent but what a step spends.
LEMMA SpentOn ==
    ASSUME Single, NEW what \in {"watches", "failures", "closes"}, Spend(what)
    PROVE  /\ budget' \in [watches : Nat, failures : Nat, closes : Nat]
           /\ what # "watches" => budget'.watches = budget.watches
           /\ what = "watches" => budget.watches = 1 /\ budget'.watches = 0
BY DEF Single, Spend

\* A step of the loop at work goes on, ends with a socket or a timer, or cleans up.
LEMMA SingleLoop ==
    ASSUME Inv, Single, NEW p \in Loop, LoopStep(p)
    PROVE  Single'
<1>0. /\ loops \in [Loop -> LoopState] /\ refCount \in Nat /\ budget \in [watches : Nat, failures : Nat, closes : Nat]
      /\ IdleLoop.pc = "idle" /\ NoSocket.state = "none" /\ NoSocket.buf = 0
  BY IdleType DEF Inv, ControlTypeOK, Single, NoSocket
<1>1. CASE Watch(p)
  <2>1. Spend("watches") /\ refCount = 0 /\ poll' = FALSE /\ ws' = ws
    BY <1>1 DEF Watch
  <2>2. ws.state = "none"
    BY <2>1, <1>0 DEF Inv, NothingLeftBehind
  <2>3. budget.watches = 1 /\ budget'.watches = 0 /\ budget' \in [watches : Nat, failures : Nat, closes : Nat]
    BY <2>1, SpentOn
  <2>4. PICK next : loops' = [loops EXCEPT ![p] = next]
    BY <1>1 DEF Watch, StartLoop
  <2>5. \A q \in Loop \ {p} : loops'[q].pc = "idle"
    BY <1>0, <2>3, <2>4 DEF Single, Active
  <2> QED
    BY <2>1, <2>2, <2>3, <2>5 DEF Single, Active
<1>2. CASE PollFires(p)
  <2>1. poll /\ poll' = FALSE /\ ws' = ws /\ UNCHANGED <<budget, refCount>>
    BY <1>2 DEF PollFires
  <2>2. ws.state = "none" /\ budget.watches = 0 /\ \A q \in Loop : ~Active(q)
    BY <1>0, <2>1 DEF Single, Inv, NothingLeftBehind
  <2>3. PICK next : loops' = [loops EXCEPT ![p] = next]
    BY <1>2 DEF PollFires, StartLoop
  <2>4. \A q \in Loop \ {p} : loops'[q].pc = "idle"
    BY <1>0, <2>2, <2>3 DEF Active
  <2> QED
    BY <2>1, <2>2, <2>4 DEF Single, Active
<1>3. ASSUME UNCHANGED <<refCount, poll, ws, budget>>, loops[p].pc # "idle",
             NEW next, loops' = [loops EXCEPT ![p] = next]
      PROVE  Single'
  <2>1. \A q \in Loop \ {p} : loops'[q] = loops[q] /\ loops[q].pc = "idle"
    BY <1>0, <1>3 DEF Single, Active
  <2>2. ws.state = "none" /\ ~poll /\ budget.watches # 1
    BY <1>3 DEF Single, Active
  <2> QED
    BY <1>3, <2>1, <2>2 DEF Single, Active
<1>4. CASE Serve(p)
  BY <1>3, <1>4 DEF Serve, client
<1>5. CASE ReceivePage(p)
  BY <1>3, <1>5 DEF ReceivePage
<1>6. ASSUME loops[p].pc # "idle", loops' = [loops EXCEPT ![p] = IdleLoop],
             (ws'.state = "none" /\ ws'.buf = 0) \/ (ws'.state # "none" /\ poll' = FALSE),
             budget' \in [watches : Nat, failures : Nat, closes : Nat], budget'.watches = budget.watches
      PROVE  Single'
  <2>1. \A q \in Loop : loops'[q].pc = "idle"
    BY <1>0, <1>6 DEF Single, Active
  <2>2. budget.watches = 0
    BY <1>6 DEF Single, Active
  <2> QED
    BY <1>6, <2>1, <2>2 DEF Single, Active
<1>7. CASE Abandon(p)
  BY <1>0, <1>6, <1>7 DEF Abandon, Cleanup, EndLoop
<1>8. CASE SecondSocket(p)
  BY <1>8 DEF SecondSocket, Single, Active
<1>9. CASE OpenWatch(p)
  <2>1. loops[p].pc # "idle" /\ loops' = [loops EXCEPT ![p] = IdleLoop] /\ UNCHANGED <<poll, budget>>
    BY <1>9 DEF OpenWatch, EndLoop
  <2>2. poll = FALSE /\ ws'.state # "none"
    BY <1>9, <2>1 DEF OpenWatch, Single, Active, Inv, ControlTypeOK
  <2> QED
    BY <1>0, <1>6, <2>1, <2>2
<1>10. CASE Fail(p)
  <2>1. Spend("failures") /\ loops[p].pc # "idle" /\ loops' = [loops EXCEPT ![p] = IdleLoop]
    BY <1>10 DEF Fail, EndLoop
  <2>2. ws'.state = "none" /\ ws'.buf = 0
    BY <1>0, <1>10, <2>1 DEF Fail, Cleanup, Single, Active
  <2> QED
    BY <1>6, <2>1, <2>2, SpentOn
<1> QED
  BY <1>1, <1>2, <1>4, <1>5, <1>7, <1>8, <1>9, <1>10 DEF LoopStep

\* A socket that connects, receives, flushes or reconnects is one and stays one.
LEMMA SocketStays ==
    ASSUME Inv, Single, WsOpen \/ WsReceive \/ WsFlush \/ WsReconnect
    PROVE  ws.state # "none" /\ ws'.state # "none" /\ UNCHANGED <<refCount, poll, loops, budget>>
<1>1. ws \in Socket
  BY DEF Inv, ControlTypeOK
<1>2. CASE WsOpen \/ WsReceive \/ WsReconnect
  BY <1>1, <1>2 DEF WsOpen, WsReceive, WsReconnect, Socket
<1>3. CASE WsFlush
  BY <1>1, <1>3 DEF WsFlush, Socket, Single
<1> QED
  BY <1>2, <1>3

LEMMA SingleNext == Inv /\ Single /\ [Next]_vars => Single'
<1> SUFFICES ASSUME Inv, Single, [Next]_vars PROVE Single'
  OBVIOUS
<1>0. loops \in [Loop -> LoopState] /\ refCount \in Nat /\ NoSocket.state = "none" /\ NoSocket.buf = 0
  BY DEF Inv, ControlTypeOK, NoSocket
<1>1. CASE UNCHANGED vars
  BY <1>1 DEF vars, client, Single, Active
<1>2. ASSUME NEW n \in Name, Change(n) PROVE Single'
  BY <1>2 DEF Change, client, Single, Active
<1>3. CASE WatchAgain
  <2>1. refCount # 0 /\ UNCHANGED <<poll, ws, loops, budget>>
    BY <1>3, BoundsAssumption DEF WatchAgain
  <2>2. budget.watches # 1
    BY <2>1 DEF Single
  <2> QED
    BY <2>1, <2>2 DEF Single, Active
<1>4. CASE Stop
  <2>1. UNCHANGED <<loops, budget>> /\ refCount # 0
    BY <1>4, <1>0 DEF Stop
  <2>2. (ws'.state = "none" /\ ws'.buf = 0 /\ poll' = FALSE) \/ UNCHANGED <<ws, poll>>
    BY <1>0, <1>4 DEF Stop, Cleanup
  <2>3. budget.watches # 1
    BY <2>1 DEF Single
  <2> QED
    BY <2>1, <2>2, <2>3 DEF Single, Active
<1>5. CASE SocketStep
  <2>1. CASE WsAbort
    <3>1. Spend("closes") /\ ws'.state = "none" /\ ws'.buf = 0 /\ ws.state # "none" /\ UNCHANGED <<refCount, loops>>
      BY <1>0, <2>1 DEF WsAbort
    <3>2. \A p \in Loop : ~Active(p)
      BY <3>1 DEF Single
    <3>3. refCount # 0
      BY <1>0, <3>1 DEF Inv, NothingLeftBehind
    <3> QED
      BY <3>1, <3>2, <3>3, SpentOn DEF Single, Active
  <2>2. CASE WsClose
    <3>1. /\ Spend("closes") /\ ws' = [ws EXCEPT !.state = "closed"] /\ ws.state = "open"
          /\ UNCHANGED <<refCount, poll, loops>>
      BY <2>2 DEF WsClose
    <3>2. ~poll /\ \A p \in Loop : ~Active(p)
      BY <3>1 DEF Single
    <3> QED
      BY <3>1, <3>2, SpentOn DEF Single, Active
  <2>3. CASE WsOpen \/ WsReceive \/ WsFlush \/ WsReconnect
    <3>1. ws.state # "none" /\ ws'.state # "none" /\ UNCHANGED <<refCount, poll, loops, budget>>
      BY <2>3, SocketStays
    <3> QED
      BY <3>1 DEF Single, Active
  <2> QED
    BY <1>5, <2>1, <2>2, <2>3 DEF SocketStep
<1> QED
  BY <1>1, <1>2, <1>3, <1>4, <1>5, SingleLoop DEF Next

\* A list that is mounted once goes through the cycle that the comment at
\* k8s-actions.ts:163-169 describes, whatever fails and however many components show it:
\* ListWatch implements WatchCycle, with the phase as its state.
LEMMA StartsTheCycle == Init => Cycle!Init
BY DEF Init, Cycle!Init, Phase

LEMMA StaysInTheCycle == Inv /\ Single /\ Inv' /\ Single' /\ [Next]_vars => [Cycle!Next]_Phase
<1> SUFFICES ASSUME Inv, Single, Inv', Single', [Next]_vars PROVE [Cycle!Next]_Phase
  OBVIOUS
<1>0. refCount \in Nat /\ refCount' \in Nat /\ NoSocket.state = "none" /\ NoSocket.buf = 0 /\ ws \in Socket
  BY DEF Inv, ControlTypeOK, NoSocket
<1>1. CASE UNCHANGED vars
  BY <1>1 DEF vars, client, Phase
<1>2. CASE refCount' = 0
  BY <1>2 DEF Phase, Cycle!Next, Cycle!Unmount
<1>3. ASSUME refCount' # 0, NEW n \in Name, Change(n) PROVE Phase' = Phase
  BY <1>3 DEF Change, client, Phase
<1>4. CASE refCount' # 0 /\ (WatchAgain \/ Stop)
  <2>1. refCount # 0 /\ UNCHANGED <<ws, poll>>
    BY <1>0, <1>4, BoundsAssumption DEF WatchAgain, Stop, Cleanup
  <2> QED
    BY <1>4, <2>1 DEF Phase
<1>5. ASSUME refCount' # 0, NEW p \in Loop, LoopStep(p) PROVE [Cycle!Next]_Phase
  <2>1. CASE Watch(p)
    <3>1. refCount = 0 /\ ws'.state = "none" /\ ~poll'
      BY <1>0, <2>1 DEF Watch, Inv, NothingLeftBehind
    <3> QED
      BY <1>5, <3>1 DEF Phase, Cycle!Next, Cycle!Mount
  <2>2. CASE PollFires(p)
    <3>1. refCount # 0 /\ ws.state = "none" /\ poll /\ ws' = ws /\ ~poll'
      BY <1>0, <2>2 DEF PollFires, Single, Inv, NothingLeftBehind
    <3> QED
      BY <1>5, <3>1 DEF Phase, Cycle!Next, Cycle!StartOver
  <2>3. CASE Serve(p) \/ ReceivePage(p)
    BY <2>3 DEF Serve, ReceivePage, client, Phase
  <2>4. CASE Abandon(p)
    BY <1>5, <2>4 DEF Abandon, Cleanup
  <2>5. CASE SecondSocket(p)
    BY <2>5 DEF SecondSocket, Single, Active
  <2>6. CASE OpenWatch(p)
    <3>1. Active(p) /\ refCount # 0 /\ ws'.state = "init"
      BY <1>0, <2>6 DEF OpenWatch, Active
    <3> QED
      BY <1>5, <3>1 DEF Single, Phase, Cycle!Next, Cycle!Loaded
  <2>7. CASE Fail(p)
    <3>1. Active(p) /\ refCount # 0 /\ ws' = ws /\ poll'
      BY <1>0, <1>5, <2>7 DEF Fail, Cleanup, Active
    <3> QED
      BY <1>5, <3>1 DEF Single, Phase, Cycle!Next, Cycle!FetchFails
  <2> QED
    BY <1>5, <2>1, <2>2, <2>3, <2>4, <2>5, <2>6, <2>7 DEF LoopStep
<1>6. CASE refCount' # 0 /\ SocketStep
  <2>1. CASE WsAbort
    <3>1. refCount # 0 /\ ws.state # "none" /\ ws'.state = "none" /\ poll'
      BY <1>0, <1>6, <2>1 DEF WsAbort
    <3> QED
      BY <1>6, <3>1 DEF Phase, Cycle!Next, Cycle!Aborts
  <2>2. CASE WsOpen \/ WsReceive \/ WsFlush \/ WsReconnect
    BY <2>2, SocketStays DEF Phase
  <2>3. CASE WsClose
    BY <1>0, <2>3 DEF WsClose, Phase, Socket
  <2> QED
    BY <1>6, <2>1, <2>2, <2>3 DEF SocketStep
<1> QED
  BY <1>1, <1>2, <1>3, <1>4, <1>5, <1>6 DEF Next

THEOREM ListImplementsTheCycle ==
    ASSUME MaxWatches = 1
    PROVE  Spec => FollowsCycle
<1>1. Init => Inv /\ Single
  BY InitInv, SingleInit
<1>2. Inv /\ Single /\ [Next]_vars => Inv' /\ Single'
  BY InvNext, SingleNext
<1>3. Inv /\ Single /\ [Next]_vars => [Cycle!Next]_Phase
  BY <1>2, StaysInTheCycle
<1> QED
  BY <1>1, <1>2, <1>3, StartsTheCycle, PTL DEF Spec, FollowsCycle, Cycle!Spec

-----------------------------------------------------------------------------
(* What the list shows, against the server's log of changes.                  *)

\* What the server has under a name after the first k changes.
StateOf(e) == IF e.type = "DELETED" THEN Absent ELSE e.object
Recorded(changes) == {changes[i].object : i \in 1 .. Len(changes)}
IsLast(changes, i, n, k) == changes[i].name = n /\ \A j \in i + 1 .. k : changes[j].name # n
At(changes, object, n, k) ==
    \/ object = Absent /\ \A i \in 1 .. k : changes[i].name # n
    \/ \E i \in 1 .. k : IsLast(changes, i, n, k) /\ object = StateOf(changes[i])

\* What the server has recorded is what it had.
History(changes) ==
    /\ \A i \in 1 .. Len(changes) : changes[i].object.rv = i /\ changes[i].object.uid \in 1 .. i
    /\ \A i, j \in 1 .. Len(changes) :
          i <= j /\ changes[i].name = changes[j].name => changes[i].object.uid <= changes[j].object.uid
    /\ \A i \in 1 .. Len(changes) : changes[i].type = "ADDED" => At(changes, Absent, changes[i].name, i - 1)
    /\ \A i \in 1 .. Len(changes) : changes[i].type = "MODIFIED" =>
          \E object \in Recorded(changes) : At(changes, object, changes[i].name, i - 1) /\ object.uid = changes[i].object.uid

\* An object of the list has the contents of the server's after k changes; its
\* resourceVersion may be older, for updateList ignores one that differs in nothing else.
Tracks(shown, changes, n, k) ==
    \E object \in Recorded(changes) \cup {Absent} :
        At(changes, object, n, k) /\ SameContents(shown, object) /\ shown.rv <= object.rv
Between(view, changes, from, upto) == \A n \in Name : \E k \in from .. upto : Tracks(view[n], changes, n, k)


LEMMA AtUnique ==
    ASSUME NEW changes, NEW n, NEW k \in Nat, NEW a, NEW b, At(changes, a, n, k), At(changes, b, n, k)
    PROVE  a = b
<1>1. ASSUME NEW i \in 1 .. k, NEW j \in 1 .. k, IsLast(changes, i, n, k), IsLast(changes, j, n, k)
      PROVE  i = j
  BY <1>1 DEF IsLast
<1>2. ASSUME NEW i \in 1 .. k, IsLast(changes, i, n, k)
      PROVE  changes[i].name = n
  BY <1>2 DEF IsLast
<1> QED
  BY <1>1, <1>2 DEF At

\* What is there is what one of the changes recorded.
LEMMA AtRecorded ==
    ASSUME NEW changes \in Seq(Event), NEW k \in 0 .. Len(changes), NEW n, NEW object,
           At(changes, object, n, k), object # Absent
    PROVE  \E i \in 1 .. k : /\ changes[i].name = n /\ object = changes[i].object
                             /\ \A j \in i + 1 .. k : changes[j].name # n
BY DEF At, IsLast, StateOf

LEMMA AtKnown ==
    ASSUME NEW changes \in Seq(Event), NEW k \in 0 .. Len(changes), NEW n, NEW object, At(changes, object, n, k)
    PROVE  object \in Recorded(changes) \cup {Absent}
<1>0. Len(changes) \in Nat
  OBVIOUS
<1>1. CASE object # Absent
  <2>1. PICK i \in 1 .. k : object = changes[i].object
    BY <1>1, AtRecorded
  <2>2. i \in 1 .. Len(changes)
    BY <1>0
  <2> QED
    BY <2>1, <2>2 DEF Recorded
<1> QED
  BY <1>1

\* A change is seen from then on, until the next of its name.
LEMMA AtOwn ==
    ASSUME NEW changes, NEW k \in Nat \ {0}
    PROVE  At(changes, StateOf(changes[k]), changes[k].name, k)
<1>1. IsLast(changes, k, changes[k].name, k) /\ k \in 1 .. k
  BY DEF IsLast
<1> QED
  BY <1>1 DEF At

LEMMA AtOther ==
    ASSUME NEW changes, NEW k \in Nat, NEW n, NEW object, At(changes, object, n, k), changes[k + 1].name # n
    PROVE  At(changes, object, n, k + 1)
<1>1. CASE object = Absent /\ \A i \in 1 .. k : changes[i].name # n
  <2>1. \A i \in 1 .. k + 1 : i \in 1 .. k \/ i = k + 1
    OBVIOUS
  <2> QED
    BY <1>1, <2>1 DEF At
<1>2. ASSUME NEW i \in 1 .. k, IsLast(changes, i, n, k), object = StateOf(changes[i])
      PROVE  At(changes, object, n, k + 1)
  <2>1. \A j \in i + 1 .. k + 1 : j \in i + 1 .. k \/ j = k + 1
    OBVIOUS
  <2>2. IsLast(changes, i, n, k + 1) /\ i \in 1 .. k + 1
    BY <1>2, <2>1 DEF IsLast
  <2> QED
    BY <1>2, <2>2 DEF At
<1> QED
  BY <1>1, <1>2 DEF At

\* The log only grows.
LEMMA AtAppended ==
    ASSUME NEW changes \in Seq(Event), NEW e \in Event, NEW k \in 0 .. Len(changes), NEW n, NEW object
    PROVE  At(changes, object, n, k) <=> At(Append(changes, e), object, n, k)
<1> DEFINE longer == Append(changes, e)
<1>1. \A i \in 1 .. k : longer[i] = changes[i]
  OBVIOUS
<1> HIDE DEF longer
<1>2. \A i \in 1 .. k : IsLast(changes, i, n, k) <=> IsLast(longer, i, n, k)
  <2> TAKE i \in 1 .. k
  <2>1. \A j \in i + 1 .. k : longer[j] = changes[j]
    BY <1>1
  <2> QED
    BY <1>1, <2>1 DEF IsLast
<1>3. At(changes, object, n, k) <=> At(longer, object, n, k)
  BY <1>1, <1>2 DEF At, StateOf
<1> QED
  BY <1>3 DEF longer

\* Objects of one name that are recorded later are not older.
LEMMA RecordedGrow ==
    ASSUME NEW changes \in Seq(Event), History(changes), NEW n,
           NEW k \in 0 .. Len(changes), NEW m \in k .. Len(changes), NEW a, NEW b,
           At(changes, a, n, k), At(changes, b, n, m), a # Absent, b # Absent
    PROVE  /\ a.uid \in Nat \ {0} /\ b.uid \in Nat \ {0} /\ a.rv \in Nat \ {0} /\ b.rv \in Nat \ {0}
           /\ a.uid <= b.uid /\ a.rv <= b.rv
           /\ a.rv = b.rv => a = b
<1>0. Len(changes) \in Nat
  OBVIOUS
<1>1. PICK i \in 1 .. k : changes[i].name = n /\ a = changes[i].object
  BY AtRecorded
<1>2. PICK j \in 1 .. m : changes[j].name = n /\ b = changes[j].object /\ \A h \in j + 1 .. m : changes[h].name # n
  <2>1. m \in 0 .. Len(changes)
    BY <1>0
  <2> QED
    BY <2>1, AtRecorded
<1>3. i \in 1 .. Len(changes) /\ j \in 1 .. Len(changes) /\ i \in 1 .. m
  BY <1>0
<1>4. i <= j
  BY <1>1, <1>2, <1>3
<1>5. changes[i].object.rv = i /\ changes[i].object.uid \in 1 .. i
      /\ changes[j].object.rv = j /\ changes[j].object.uid \in 1 .. j
  BY <1>3 DEF History
<1>6. changes[i].object.uid <= changes[j].object.uid
  BY <1>1, <1>2, <1>3, <1>4 DEF History
<1> QED
  BY <1>1, <1>2, <1>4, <1>5, <1>6

\* The server records a creation of what is not there and a change of what is.
LEMMA HistoryGrows ==
    ASSUME NEW changes \in Seq(Event), History(changes), NEW e \in Event, NEW current,
           At(changes, current, e.name, Len(changes)), e.object.rv = Len(changes) + 1,
           \/ current = Absent /\ e.type = "ADDED" /\ e.object.uid = Len(changes) + 1
           \/ current # Absent /\ e.type # "ADDED" /\ e.object.uid = current.uid
    PROVE  History(Append(changes, e))
<1> DEFINE longer == Append(changes, e)
           last == Len(changes)
<1>0. last \in Nat /\ Len(longer) = last + 1 /\ longer[last + 1] = e /\ \A i \in 1 .. last : longer[i] = changes[i]
  OBVIOUS
<1>1. \A k \in 0 .. last : \A n, object : At(changes, object, n, k) => At(longer, object, n, k)
  BY AtAppended
<1>2. last \in 0 .. last
  BY <1>0
<1>3. current # Absent =>
        \E l \in 1 .. last : /\ changes[l].name = e.name /\ current = changes[l].object
                             /\ \A j \in l + 1 .. last : changes[j].name # e.name
  BY <1>2, AtRecorded
<1> HIDE DEF longer, last
<1>4. \A i \in 1 .. last + 1 : i \in 1 .. last \/ i = last + 1
  BY <1>0
<1>5. \A i \in 1 .. last : changes[i].object.rv = i /\ changes[i].object.uid \in 1 .. i
  BY DEF History, last
<1>6. e.object.rv = last + 1 /\ e.object.uid \in 1 .. last + 1
  <2>1. CASE current = Absent
    BY <1>0, <2>1 DEF last
  <2>2. CASE current # Absent
    <3>1. PICK l \in 1 .. last : current = changes[l].object
      BY <1>3, <2>2
    <3>2. changes[l].object.uid \in 1 .. l
      BY <1>5
    <3> QED
      BY <1>0, <2>2, <3>1, <3>2 DEF last
  <2> QED
    BY <2>1, <2>2
<1>7. \A i \in 1 .. last + 1 : longer[i].object.rv = i /\ longer[i].object.uid \in 1 .. i
  BY <1>0, <1>4, <1>5, <1>6
<1>8. \A i \in 1 .. last : changes[i].name = e.name => changes[i].object.uid <= e.object.uid
  <2> TAKE i \in 1 .. last
  <2> HAVE changes[i].name = e.name
  <2>0. changes[i].object.uid \in 1 .. i
    BY <1>5
  <2>1. CASE current = Absent
    BY <1>0, <2>0, <2>1 DEF last
  <2>2. CASE current # Absent
    <3>1. PICK l \in 1 .. last : /\ changes[l].name = e.name /\ current = changes[l].object
                                 /\ \A j \in l + 1 .. last : changes[j].name # e.name
      BY <1>3, <2>2
    <3>2. i <= l
      BY <1>0, <3>1
    <3>3. changes[i].object.uid <= changes[l].object.uid
      BY <3>1, <3>2 DEF History, last
    <3> QED
      BY <2>2, <3>1, <3>3
  <2> QED
    BY <2>1, <2>2
<1>9. \A i, j \in 1 .. last + 1 :
         i <= j /\ longer[i].name = longer[j].name => longer[i].object.uid <= longer[j].object.uid
  <2> SUFFICES ASSUME NEW i \in 1 .. last + 1, NEW j \in 1 .. last + 1, i <= j, longer[i].name = longer[j].name
               PROVE  longer[i].object.uid <= longer[j].object.uid
    OBVIOUS
  <2>1. CASE j \in 1 .. last
    <3>1. i \in 1 .. last
      BY <1>0, <2>1
    <3> QED
      BY <1>0, <2>1, <3>1 DEF History, last
  <2>2. CASE j = last + 1 /\ i \in 1 .. last
    BY <1>0, <1>8, <2>2
  <2>3. CASE i = last + 1 /\ j = last + 1
    BY <1>0, <1>6, <2>3
  <2> QED
    BY <1>4, <2>1, <2>2, <2>3
<1>10. \A i \in 1 .. last + 1 : i - 1 \in 0 .. last
  BY <1>0
<1>11. \A i \in 1 .. last + 1 : longer[i].type = "ADDED" => At(longer, Absent, longer[i].name, i - 1)
  <2> SUFFICES ASSUME NEW i \in 1 .. last + 1, longer[i].type = "ADDED"
               PROVE  At(longer, Absent, longer[i].name, i - 1)
    OBVIOUS
  <2>1. CASE i \in 1 .. last
    BY <1>0, <1>1, <1>10, <2>1 DEF History, last
  <2>2. CASE i = last + 1
    <3>1. At(changes, Absent, e.name, last)
      BY <1>0, <2>2 DEF last
    <3>2. last \in 0 .. last /\ i - 1 = last
      BY <1>0, <2>2
    <3> QED
      BY <1>0, <1>1, <2>2, <3>1, <3>2
  <2> QED
    BY <1>4, <2>1, <2>2
<1>12. Recorded(changes) \subseteq Recorded(longer)
  <2>1. \A i \in 1 .. last : i \in 1 .. last + 1
    BY <1>0
  <2> QED
    BY <1>0, <2>1 DEF Recorded, last
<1>13. \A i \in 1 .. last + 1 : longer[i].type = "MODIFIED" =>
          \E object \in Recorded(longer) : At(longer, object, longer[i].name, i - 1) /\ object.uid = longer[i].object.uid
  <2> SUFFICES ASSUME NEW i \in 1 .. last + 1, longer[i].type = "MODIFIED"
               PROVE  \E object \in Recorded(longer) :
                         At(longer, object, longer[i].name, i - 1) /\ object.uid = longer[i].object.uid
    OBVIOUS
  <2>1. CASE i \in 1 .. last
    <3>1. PICK object \in Recorded(changes) :
             At(changes, object, changes[i].name, i - 1) /\ object.uid = changes[i].object.uid
      BY <1>0, <2>1 DEF History, last
    <3> QED
      BY <1>0, <1>1, <1>10, <1>12, <2>1, <3>1
  <2>2. CASE i = last + 1
    <3>1. current # Absent /\ e.object.uid = current.uid
      BY <1>0, <2>2
    <3>2. current \in Recorded(longer)
      <4>1. current \in Recorded(changes)
        BY <1>2, <3>1, AtKnown DEF last
      <4> QED
        BY <1>12, <4>1
    <3>3. At(longer, current, e.name, last)
      BY <1>1, <1>2 DEF last
    <3>4. i - 1 = last
      BY <1>0, <2>2
    <3> QED
      BY <1>0, <2>2, <3>1, <3>2, <3>3, <3>4
  <2> QED
    BY <1>4, <2>1, <2>2
<1> QED
  BY <1>0, <1>7, <1>9, <1>11, <1>13 DEF History, longer

\* A change of the server is recorded and done.
LEMMA ChangeIsRecorded ==
    ASSUME Inv, History(log), \A m \in Name : At(log, server[m], m, Len(log)), NEW n \in Name, Change(n)
    PROVE  /\ \E e \in Event : log' = Append(log, e)
           /\ History(log') /\ \A m \in Name : At(log', server'[m], m, Len(log'))
<1>0. log \in Seq(Event) /\ Len(log) \in Nat /\ server \in Snapshots
  BY DEF Inv, ControlTypeOK
<1> DEFINE Fits(e) ==
             /\ e.name = n /\ e.object.rv = Len(log) + 1
             /\ \/ server[n] = Absent /\ e.type = "ADDED" /\ e.object.uid = Len(log) + 1
                \/ server[n] # Absent /\ e.type # "ADDED" /\ e.object.uid = server[n].uid
             /\ log' = Append(log, e) /\ server' = [server EXCEPT ![n] = StateOf(e)]
<1>1. PICK e \in Event : Fits(e)
  <2> DEFINE rv == Revision + 1
  <2>0. rv = Len(log) + 1 /\ rv \in Nat
    BY <1>0 DEF Revision
  <2> HIDE DEF rv
  <2>1. ASSUME NEW v \in Val, server[n] = Absent, Record("ADDED", n, [uid |-> rv, rv |-> rv, val |-> v])
        PROVE  \E e \in Event : Fits(e)
    <3> DEFINE new == [type |-> "ADDED", name |-> n, object |-> [uid |-> rv, rv |-> rv, val |-> v]]
    <3>1. new \in Event
      BY <2>0 DEF Event, Object
    <3>2. log' = Append(log, new) /\ server' = [server EXCEPT ![n] = StateOf(new)]
      BY <2>1 DEF Record, StateOf
    <3> QED
      BY <2>0, <2>1, <3>1, <3>2 DEF Fits
  <2>2. ASSUME NEW v \in Val, server[n] # Absent,
               Record("MODIFIED", n, [uid |-> server[n].uid, rv |-> rv, val |-> v])
        PROVE  \E e \in Event : Fits(e)
    <3> DEFINE new == [type |-> "MODIFIED", name |-> n, object |-> [uid |-> server[n].uid, rv |-> rv, val |-> v]]
    <3>1. server[n] \in Object
      BY <1>0, <2>2 DEF Snapshots
    <3>2. new \in Event
      BY <2>0, <3>1 DEF Event, Object
    <3>3. log' = Append(log, new) /\ server' = [server EXCEPT ![n] = StateOf(new)]
      BY <2>2 DEF Record, StateOf
    <3> QED
      BY <2>0, <2>2, <3>2, <3>3 DEF Fits
  <2>3. ASSUME server[n] # Absent,
               Record("DELETED", n, [uid |-> server[n].uid, rv |-> rv, val |-> server[n].val])
        PROVE  \E e \in Event : Fits(e)
    <3> DEFINE new == [type |-> "DELETED", name |-> n,
                       object |-> [uid |-> server[n].uid, rv |-> rv, val |-> server[n].val]]
    <3>1. server[n] \in Object
      BY <1>0, <2>3 DEF Snapshots
    <3>2. new \in Event
      BY <2>0, <3>1 DEF Event, Object
    <3>3. log' = Append(log, new) /\ server' = [server EXCEPT ![n] = StateOf(new)]
      BY <2>3 DEF Record, StateOf
    <3> QED
      BY <2>0, <2>3, <3>2, <3>3 DEF Fits
  <2> QED
    BY <2>1, <2>2, <2>3 DEF Change, rv
<1> USE DEF Fits
<1>2. History(log')
  BY <1>0, <1>1, HistoryGrows
<1>3. Len(log') = Len(log) + 1 /\ log'[Len(log) + 1] = e
  BY <1>0, <1>1
<1>4. ASSUME NEW m \in Name PROVE At(log', server'[m], m, Len(log) + 1)
  <2>1. CASE m = n
    <3>1. server'[m] = StateOf(e) /\ e.name = m
      BY <1>0, <1>1, <2>1 DEF Snapshots
    <3>2. At(log', StateOf(log'[Len(log) + 1]), log'[Len(log) + 1].name, Len(log) + 1)
      BY <1>0, AtOwn
    <3> QED
      BY <1>3, <3>1, <3>2
  <2>2. CASE m # n
    <3>1. server'[m] = server[m]
      BY <1>0, <1>1, <2>2 DEF Snapshots
    <3>2. At(log', server[m], m, Len(log))
      BY <1>0, <1>1, AtAppended
    <3> QED
      BY <1>0, <1>1, <1>3, <2>2, <3>1, <3>2, AtOther
  <2> QED
    BY <2>1, <2>2
<1> QED
  BY <1>1, <1>2, <1>3, <1>4

\* What a view that follows the log from some change on makes of a later change.
LEMMA ApplyOne ==
    ASSUME NEW changes \in Seq(Event), History(changes), NEW view \in Snapshots,
           NEW j \in 1 .. Len(changes), NEW from \in 0 .. j - 1, NEW n \in Name,
           NEW k \in from .. Len(changes), Tracks(view[n], changes, n, k)
    PROVE  \E m \in from .. Len(changes) :
              Tracks(ApplyEvent(view, changes[j])[n], changes, n, m) /\ (from = j - 1 => m >= j)
<1> DEFINE e == changes[j]
           shown == ApplyEvent(view, e)[n]
           last == Len(changes)
<1>0. last \in Nat /\ j \in 1 .. last /\ e \in Event
  OBVIOUS
<1>1. /\ e.name \in Name /\ e.object \in Object /\ e.type \in {"ADDED", "MODIFIED", "DELETED"}
      /\ view[n] \in Object \cup {Absent} /\ view[e.name] \in Object \cup {Absent}
  BY <1>0 DEF Event, Snapshots
<1>2. PICK object \in Recorded(changes) \cup {Absent} :
         At(changes, object, n, k) /\ SameContents(view[n], object) /\ view[n].rv <= object.rv
  BY DEF Tracks
<1>3. At(changes, StateOf(e), e.name, j)
  BY <1>0, AtOwn
<1>4. e.object.rv = j /\ e.object.uid \in 1 .. j /\ e.object \in Recorded(changes)
  BY <1>0 DEF History, Recorded
<1>5. shown = IF n # e.name THEN view[n]
              ELSE IF e.type = "DELETED" THEN Absent
              ELSE IF view[n] = Absent \/ (MoreRecent(e.object, view[n]) /\ ~SameContents(e.object, view[n]))
                   THEN e.object ELSE view[n]
  BY <1>1 DEF ApplyEvent, RemoveFromList, UpdateList, Snapshots
<1>6. j \in from .. last /\ j >= j
  BY <1>0
<1>7. ASSUME ~(from = j - 1 /\ k = j - 1), shown = view[n]
      PROVE  \E m \in from .. last : Tracks(shown, changes, n, m) /\ (from = j - 1 => m >= j)
  <2>1. from = j - 1 => k >= j
    BY <1>0, <1>7
  <2> QED
    BY <1>7, <2>1
<1> SUFFICES \E m \in from .. last : Tracks(shown, changes, n, m) /\ (from = j - 1 => m >= j)
  OBVIOUS
<1> HIDE DEF shown, last, e
<1>8. CASE n # e.name
  <2>1. CASE from = j - 1 /\ k = j - 1
    <3>1. k \in Nat /\ changes[k + 1].name # n /\ k + 1 = j
      BY <1>0, <1>8, <2>1 DEF e
    <3>2. At(changes, object, n, j)
      BY <1>2, <3>1, AtOther
    <3>3. Tracks(shown, changes, n, j)
      BY <1>2, <1>5, <1>8, <3>2 DEF Tracks
    <3> QED
      BY <1>6, <3>3
  <2> QED
    BY <1>5, <1>7, <1>8, <2>1
<1>9. CASE n = e.name /\ e.type = "DELETED"
  <2>1. shown = Absent /\ At(changes, Absent, n, j)
    BY <1>3, <1>5, <1>9 DEF StateOf
  <2>2. SameContents(Absent, Absent) /\ Absent.rv <= Absent.rv
    BY DEF SameContents, Absent
  <2>3. Tracks(shown, changes, n, j)
    BY <2>1, <2>2 DEF Tracks
  <2> QED
    BY <1>6, <2>3
<1>10. CASE n = e.name /\ e.type # "DELETED"
  <2>0. At(changes, e.object, n, j)
    BY <1>3, <1>10 DEF StateOf
  <2>1. CASE shown = e.object
    <3>1. SameContents(shown, e.object) /\ shown.rv <= e.object.rv
      BY <1>0, <1>4, <2>1 DEF SameContents
    <3>2. Tracks(shown, changes, n, j)
      BY <1>4, <2>0, <3>1 DEF Tracks
    <3> QED
      BY <1>6, <3>2
  <2>2. CASE shown # e.object /\ from = j - 1 /\ k = j - 1
    <3>0. k \in 0 .. Len(changes) /\ k \in Nat
      BY <1>0, <2>2 DEF last
    <3>1. view[n] # Absent /\ ~(MoreRecent(e.object, view[n]) /\ ~SameContents(e.object, view[n])) /\ shown = view[n]
      BY <1>5, <1>10, <2>2
    <3>2. CASE e.type = "ADDED"
      <4>1. At(changes, Absent, n, k)
        BY <1>0, <1>10, <2>2, <3>2 DEF History, e, last
      <4>2. object = Absent
        BY <1>2, <3>0, <4>1, AtUnique
      <4>3. view[n].uid = 0 /\ view[n].val = "absent" /\ view[n].rv <= 0 /\ view[n] \in Object
        BY <1>1, <1>2, <3>1, <4>2 DEF SameContents, Absent
      <4>4. view[n] = Absent
        BY <4>3 DEF Absent, Object
      <4> QED
        BY <3>1, <4>4
    <3>3. CASE e.type = "MODIFIED"
      <4>1. PICK before \in Recorded(changes) : At(changes, before, n, k) /\ before.uid = e.object.uid
        BY <1>0, <1>10, <2>2, <3>3 DEF History, e, last
      <4>2. before = object
        BY <1>2, <3>0, <4>1, AtUnique
      <4>3. object # Absent
        BY <1>4, <4>1, <4>2 DEF Absent
      <4>4. PICK i \in 1 .. k : object = changes[i].object
        BY <1>2, <3>0, <4>3, AtRecorded
      <4>5. object.rv = i
        BY <1>0, <3>0, <4>4 DEF History, last
      <4>6. view[n].uid = e.object.uid /\ e.object.rv > view[n].rv
        <5>1. view[n].uid = e.object.uid
          BY <1>2, <4>1, <4>2 DEF SameContents
        <5>2. view[n].rv <= i /\ i < j /\ view[n].rv \in Int
          BY <1>1, <1>2, <2>2, <3>0, <3>1, <4>5 DEF Object
        <5> QED
          BY <1>0, <1>4, <5>1, <5>2
      <4>7. SameContents(e.object, view[n])
        BY <3>1, <4>6 DEF MoreRecent
      <4>8. SameContents(shown, e.object) /\ shown.rv <= e.object.rv
        <5>1. view[n].rv \in Int /\ e.object.rv \in Int
          BY <1>1, <3>1 DEF Object
        <5> QED
          BY <3>1, <4>6, <4>7, <5>1 DEF SameContents
      <4>9. Tracks(shown, changes, n, j)
        BY <1>4, <2>0, <4>8 DEF Tracks
      <4> QED
        BY <1>6, <4>9
    <3> QED
      BY <1>1, <1>10, <3>2, <3>3
  <2>3. CASE shown # e.object /\ ~(from = j - 1 /\ k = j - 1)
    BY <1>5, <1>7, <1>10, <2>3
  <2> QED
    BY <2>1, <2>2, <2>3
<1> QED
  BY <1>8, <1>9, <1>10

LEMMA ApplyFollows ==
    ASSUME NEW changes \in Seq(Event), History(changes), NEW view \in Snapshots,
           NEW j \in 1 .. Len(changes), NEW from \in 0 .. j - 1, Between(view, changes, from, Len(changes))
    PROVE  /\ ApplyEvent(view, changes[j]) \in Snapshots
           /\ Between(ApplyEvent(view, changes[j]), changes, from, Len(changes))
           /\ from = j - 1 => Between(ApplyEvent(view, changes[j]), changes, j, Len(changes))
<1> DEFINE next == ApplyEvent(view, changes[j])
<1>1. next \in Snapshots
  <2>1. changes[j] \in Event
    OBVIOUS
  <2>2. changes[j].object \in Object /\ changes[j].name \in Name
    BY <2>1 DEF Event
  <2> QED
    BY <2>2 DEF ApplyEvent, RemoveFromList, UpdateList, Snapshots
<1>2. \A n \in Name : \E m \in from .. Len(changes) :
         Tracks(next[n], changes, n, m) /\ (from = j - 1 => m >= j)
  BY ApplyOne DEF Between
<1> HIDE DEF next
<1>3. Between(next, changes, from, Len(changes))
  BY <1>2 DEF Between
<1>4. from = j - 1 => Between(next, changes, j, Len(changes))
  BY <1>2 DEF Between
<1> QED
  BY <1>1, <1>3, <1>4 DEF next

LEMMA EveryNat ==
    ASSUME NEW S, 0 \in S, \A i \in Nat : i \in S => i + 1 \in S
    PROVE  Nat \subseteq S
<1> DEFINE missing == Nat \ S
<1> SUFFICES ASSUME missing # {} PROVE FALSE
  OBVIOUS
<1>1. PICK m \in missing : \A k \in missing : <<k, m>> \notin OpToRel(<, Nat)
  BY NatLessThanWellFounded, WFMin
<1>2. \A k \in missing : ~(k < m)
  BY <1>1 DEF OpToRel
<1>3. m \in Nat \ {0} /\ m - 1 \in Nat /\ m - 1 < m
  <2>1. m \in Nat /\ m \notin S
    OBVIOUS
  <2>2. m # 0
    BY <2>1
  <2> QED
    BY <2>1, <2>2
<1>4. m - 1 \in S
  BY <1>2, <1>3
<1>5. (m - 1) + 1 = m
  BY <1>3
<1> QED
  BY <1>1, <1>3, <1>4, <1>5

\* The views that a batch of events leads to, one after the other.
IsFold(after, view, events, m) ==
    after = [i \in 0 .. m |-> IF i = 0 THEN view ELSE ApplyEvent(after[i - 1], events[i])]

LEMMA FoldExists ==
    ASSUME NEW view, NEW events, NEW m \in Nat
    PROVE  \E after : IsFold(after, view, events, m)
<1> DEFINE S == {i \in Nat : \E after : IsFold(after, view, events, i)}
<1>1. 0 \in S
  <2>1. IsFold([i \in 0 .. 0 |-> view], view, events, 0)
    BY DEF IsFold
  <2> QED
    BY <2>1
<1>2. ASSUME NEW i \in Nat, i \in S PROVE i + 1 \in S
  <2>1. PICK g : IsFold(g, view, events, i)
    BY <1>2
  <2> DEFINE h == [k \in 0 .. i + 1 |-> IF k = i + 1 THEN ApplyEvent(g[i], events[i + 1]) ELSE g[k]]
  <2>2. ASSUME NEW k \in 0 .. i + 1
        PROVE  h[k] = IF k = 0 THEN view ELSE ApplyEvent(h[k - 1], events[k])
    <3>1. CASE k = i + 1
      <4>1. k # 0 /\ k - 1 = i /\ i \in 0 .. i + 1 /\ i # i + 1
        BY <3>1
      <4>2. h[i] = g[i] /\ h[k] = ApplyEvent(g[i], events[i + 1])
        BY <3>1, <4>1
      <4> QED
        BY <3>1, <4>1, <4>2
    <3>2. CASE k # i + 1
      <4>1. k \in 0 .. i /\ h[k] = g[k]
        BY <3>2
      <4>2. g[k] = IF k = 0 THEN view ELSE ApplyEvent(g[k - 1], events[k])
        BY <2>1, <4>1 DEF IsFold
      <4>3. k # 0 => k - 1 \in 0 .. i + 1 /\ k - 1 # i + 1 /\ h[k - 1] = g[k - 1]
        BY <4>1
      <4> QED
        BY <4>1, <4>2, <4>3
    <3> QED
      BY <3>1, <3>2
  <2>3. IsFold(h, view, events, i + 1)
    <3>1. h = [k \in 0 .. i + 1 |-> h[k]]
      OBVIOUS
    <3> HIDE DEF h
    <3> QED
      BY <2>2, <3>1 DEF IsFold
  <2>4. i + 1 \in Nat
    OBVIOUS
  <2> HIDE DEF h
  <2> QED
    BY <2>3, <2>4
<1>3. Nat \subseteq S
  <2> HIDE DEF S
  <2> QED
    BY <1>1, <1>2, EveryNat
<1> QED
  BY <1>3

LEMMA BatchIsFolded ==
    ASSUME NEW view, NEW events, Len(events) \in Nat
    PROVE  \E after : /\ IsFold(after, view, events, Len(events))
                      /\ UpdateListFromWS(view, events) = after[Len(events)]
<1> DEFINE folded == CHOOSE after :
             after = [i \in 0 .. Len(events) |-> IF i = 0 THEN view ELSE ApplyEvent(after[i - 1], events[i])]
<1>1. IsFold(folded, view, events, Len(events))
  BY FoldExists DEF IsFold
<1>2. UpdateListFromWS(view, events) = folded[Len(events)]
  BY DEF UpdateListFromWS
<1> QED
  BY <1>1, <1>2

\* A batch that goes on where the view is leads to where the batch ends; one of
\* older changes leaves the view at or after where it started.
LEMMA BatchFollows ==
    ASSUME NEW changes \in Seq(Event), History(changes), NEW view \in Snapshots,
           NEW b \in 0 .. Len(changes), NEW a \in 0 .. b, NEW from \in 0 .. a,
           Between(view, changes, from, Len(changes))
    PROVE  LET next == UpdateListFromWS(view, SubSeq(changes, a + 1, b))
           IN  /\ next \in Snapshots /\ Between(next, changes, from, Len(changes))
               /\ from = a => Between(next, changes, b, Len(changes))
<1> DEFINE events == SubSeq(changes, a + 1, b)
<1>0. Len(changes) \in Nat
  OBVIOUS
<1>1. Len(events) = b - a /\ Len(events) \in Nat /\ \A i \in 1 .. b - a : events[i] = changes[a + i]
  BY <1>0
<1> HIDE DEF events
<1>2. PICK after : IsFold(after, view, events, b - a) /\ UpdateListFromWS(view, events) = after[b - a]
  BY <1>1, BatchIsFolded
<1> DEFINE Good(i) == /\ after[i] \in Snapshots /\ Between(after[i], changes, from, Len(changes))
                      /\ from = a => Between(after[i], changes, a + i, Len(changes))
           S == {i \in Nat : i <= b - a => Good(i)}
<1>3. 0 \in S
  <2>1. after[0] = view /\ a + 0 = a
    BY <1>0, <1>2 DEF IsFold
  <2>2. Good(0)
    BY <2>1
  <2> HIDE DEF Good
  <2> QED
    BY <2>2
<1>4. ASSUME NEW i \in Nat, i \in S PROVE i + 1 \in S
  <2> SUFFICES ASSUME i + 1 <= b - a PROVE Good(i + 1)
    BY DEF S
  <2>0. b - a \in Nat /\ i <= b - a
    BY <1>0
  <2>1. Good(i)
    BY <1>4, <2>0
  <2> DEFINE j == a + (i + 1)
  <2>2. j \in 1 .. Len(changes) /\ from \in 0 .. j - 1 /\ a + i \in 0 .. j - 1 /\ a + i = j - 1
    BY <1>0, <2>0
  <2>3. after[i + 1] = ApplyEvent(after[i], changes[j])
    <3>1. i + 1 \in 0 .. b - a /\ i + 1 # 0 /\ (i + 1) - 1 = i /\ i + 1 \in 1 .. b - a
      BY <2>0
    <3>2. after[i + 1] = ApplyEvent(after[i], events[i + 1])
      BY <1>2, <3>1 DEF IsFold
    <3> QED
      BY <1>1, <3>1, <3>2
  <2> HIDE DEF j
  <2>4. after[i + 1] \in Snapshots /\ Between(after[i + 1], changes, from, Len(changes))
    BY <2>1, <2>2, <2>3, ApplyFollows
  <2>5. from = a => Between(after[i + 1], changes, j, Len(changes))
    BY <2>1, <2>2, <2>3, ApplyFollows
  <2> QED
    BY <2>4, <2>5 DEF j
<1>5. Nat \subseteq S
  <2> HIDE DEF S
  <2> QED
    BY <1>3, <1>4, EveryNat
<1>6. Good(b - a)
  BY <1>0, <1>5
<1>7. a + (b - a) = b
  BY <1>0
<1> QED
  BY <1>2, <1>6, <1>7 DEF events

\* A list that fits on a page is loaded with one request.
FitsOnAPage == IsFiniteSet(Name) /\ Cardinality(Name) <= PageLimit

LEMMA PageIsWhole ==
    ASSUME FitsOnAPage, NEW p \in Loop
    PROVE  PageNames(p) = Remaining(p) /\ ~HasContinue(p)
<1>1. ASSUME NEW n \in Remaining(p)
      PROVE  Cardinality({m \in Remaining(p) : m < n}) < PageLimit
  <2> DEFINE smaller == {m \in Remaining(p) : m < n}
  <2>1. n \in Name /\ n \in Nat /\ smaller \subseteq Name \ {n}
    BY NameAssumption DEF Remaining
  <2> HIDE DEF smaller
  <2>2. IsFiniteSet(Name \ {n}) /\ Cardinality(Name \ {n}) = Cardinality(Name) - 1
    BY <2>1, FS_RemoveElement DEF FitsOnAPage
  <2>3. Cardinality(smaller) <= Cardinality(Name \ {n}) /\ IsFiniteSet(smaller)
    BY <2>1, <2>2, FS_Subset
  <2>4. Cardinality(smaller) \in Nat /\ Cardinality(Name) \in Nat
    BY <2>3, FS_CardinalityType DEF FitsOnAPage
  <2>5. Cardinality(smaller) < PageLimit
    BY <2>2, <2>3, <2>4, PageLimitAssumption DEF FitsOnAPage
  <2> QED
    BY <2>5 DEF smaller
<1> QED
  BY <1>1 DEF PageNames, HasContinue

\* What is loaded shows the snapshot, if the list knew nothing that is newer and
\* creation times tell the objects of a name apart.
LEMMA LoadShows ==
    ASSUME NEW changes \in Seq(Event), History(changes), VersionsPerSecond = 1,
           NEW view \in Snapshots, NEW rv \in 0 .. Len(changes), NEW snap \in Snapshots,
           \A n \in Name : At(changes, snap[n], n, rv), Between(view, changes, 0, rv)
    PROVE  LET next == LoadList(view, [n \in {m \in Name : snap[m] # Absent} |-> snap[n]])
           IN  next \in Snapshots /\ Between(next, changes, rv, rv)
<1> DEFINE items == [n \in {m \in Name : snap[m] # Absent} |-> snap[n]]
           next == LoadList(view, items)
<1>0. Len(changes) \in Nat /\ rv \in rv .. rv /\ rv \in rv .. Len(changes)
  OBVIOUS
<1>1. \A n \in Name : next[n] = IF snap[n] = Absent THEN Absent
                                ELSE IF view[n] = Absent \/ MoreRecent(snap[n], view[n]) THEN snap[n] ELSE view[n]
  BY DEF LoadList
<1>2. next \in Snapshots
  <2>1. \A n \in Name : snap[n] \in Object \cup {Absent} /\ view[n] \in Object \cup {Absent}
    BY DEF Snapshots
  <2>2. next = [n \in Name |-> next[n]]
    BY DEF LoadList
  <2> HIDE DEF next
  <2> QED
    BY <1>1, <2>1, <2>2 DEF Snapshots
<1> HIDE DEF next, items
<1>3. ASSUME NEW n \in Name PROVE Tracks(next[n], changes, n, rv)
  <2>0. /\ snap[n] \in Object \cup {Absent} /\ view[n] \in Object \cup {Absent}
        /\ At(changes, snap[n], n, rv) /\ snap[n] \in Recorded(changes) \cup {Absent}
    BY AtKnown DEF Snapshots
  <2>1. SameContents(snap[n], snap[n]) /\ snap[n].rv <= snap[n].rv
    BY <2>0 DEF SameContents, Object, Absent
  <2>2. CASE next[n] = snap[n]
    BY <2>0, <2>1, <2>2 DEF Tracks
  <2>3. CASE next[n] # snap[n]
    <3>1. snap[n] # Absent /\ view[n] # Absent /\ ~MoreRecent(snap[n], view[n]) /\ next[n] = view[n]
      BY <1>1, <2>3
    <3>2. PICK k \in 0 .. rv : Tracks(view[n], changes, n, k)
      BY DEF Between
    <3>3. PICK object \in Recorded(changes) \cup {Absent} :
             At(changes, object, n, k) /\ SameContents(view[n], object) /\ view[n].rv <= object.rv
      BY <3>2 DEF Tracks
    <3>4. k \in 0 .. Len(changes) /\ rv \in k .. Len(changes) /\ rv \in Int /\ k \in Int
      BY <1>0
    <3>5. CASE object = Absent
      <4>1. view[n].uid = 0 /\ view[n].val = "absent" /\ view[n].rv <= 0 /\ view[n] \in Object
        BY <2>0, <3>1, <3>3, <3>5 DEF SameContents, Absent
      <4>2. view[n] = Absent
        BY <4>1 DEF Object, Absent
      <4> QED
        BY <3>1, <4>2
    <3>6. CASE object # Absent
      <4>1. /\ object.uid \in Nat \ {0} /\ snap[n].uid \in Nat \ {0} /\ object.rv \in Nat \ {0} /\ snap[n].rv \in Nat \ {0}
            /\ object.uid <= snap[n].uid /\ object.rv <= snap[n].rv
            /\ object.rv = snap[n].rv => object = snap[n]
        BY <2>0, <3>1, <3>3, <3>4, <3>6, RecordedGrow
      <4>2. view[n].uid = object.uid /\ view[n].rv \in Nat
        BY <3>1, <3>3, <2>0 DEF SameContents, Object
      <4>3. CreatedAt(snap[n]) = snap[n].uid /\ CreatedAt(view[n]) = view[n].uid
        <5>1. \A x \in Nat : x \div 1 = x
          OBVIOUS
        <5> QED
          BY <4>1, <4>2, <5>1 DEF CreatedAt
      <4>4. snap[n].uid = view[n].uid
        BY <3>1, <4>1, <4>2, <4>3 DEF MoreRecent
      <4>5. ~(snap[n].rv > view[n].rv)
        BY <3>1, <4>4 DEF MoreRecent
      <4>6. object = snap[n]
        BY <3>3, <4>1, <4>2, <4>5
      <4>7. SameContents(next[n], snap[n]) /\ next[n].rv <= snap[n].rv
        BY <3>1, <3>3, <4>6
      <4> QED
        BY <2>0, <4>7 DEF Tracks
    <3> QED
      BY <3>5, <3>6
  <2> QED
    BY <2>2, <2>3
<1>4. Between(next, changes, rv, rv)
  BY <1>0, <1>3 DEF Between
<1> QED
  BY <1>2, <1>4 DEF next, items

-----------------------------------------------------------------------------
(* The loop at work, the socket and the list, against the log.                *)

\* What a loop was served is the server's state at its resourceVersion; the list is not
\* newer while the loop is under way, and shows it once it is loaded.
LoopIsSynced(loop, view, changes, count) ==
    /\ loop.paged = {}
    /\ loop.pc \in {"served", "resolved"} =>
          loop.rv <= Len(changes) /\ \A n \in Name : At(changes, loop.snap[n], n, loop.rv)
    /\ loop.pc = "served" /\ count > 0 => Between(view, changes, 0, loop.rv)
    /\ loop.pc = "resolved" /\ count > 0 => Between(view, changes, loop.rv, loop.rv)

\* The list has what the socket started from and, unless the buffer dropped something,
\* what was received and flushed: a replay does not take it back before either.
SocketIsSynced(socket, view, changes, isLost) ==
    /\ socket.state # "none" => socket.from <= Len(changes) /\ Between(view, changes, socket.from, Len(changes))
    /\ socket.state = "init" => socket.buf = 0
    /\ socket.state \in {"open", "closed"} =>
          /\ socket.from + socket.buf <= socket.pos /\ socket.pos <= Len(changes)
          /\ ~isLost => Between(view, changes, socket.pos - socket.buf, Len(changes))

Logged == History(log) /\ \A n \in Name : At(log, server[n], n, Len(log))
Viewed == list \in Snapshots /\ Between(list, log, 0, Len(log))
Synced ==
    /\ Logged /\ Viewed
    /\ \A p \in Loop : LoopIsSynced(loops[p], list, log, refCount)
    /\ SocketIsSynced(ws, list, log, lost)

LEMMA BetweenWider ==
    ASSUME NEW view, NEW changes, NEW from \in Int, NEW upto \in Int, NEW lower \in Int, NEW upper \in Int,
           lower <= from, upto <= upper, Between(view, changes, from, upto)
    PROVE  Between(view, changes, lower, upper)
<1>1. \A k \in from .. upto : k \in lower .. upper
  OBVIOUS
<1> QED
  BY <1>1 DEF Between

LEMMA BetweenAppended ==
    ASSUME NEW view, NEW changes \in Seq(Event), NEW e \in Event, NEW from \in Nat, NEW upto \in 0 .. Len(changes),
           Between(view, changes, from, upto)
    PROVE  Between(view, Append(changes, e), from, upto)
<1> DEFINE longer == Append(changes, e)
<1>0. Len(changes) \in Nat /\ Len(longer) = Len(changes) + 1 /\ \A i \in 1 .. Len(changes) : longer[i] = changes[i]
  OBVIOUS
<1>1. \A k \in from .. upto : \A n, object : At(changes, object, n, k) => At(longer, object, n, k)
  BY AtAppended
<1> HIDE DEF longer
<1>2. Recorded(changes) \subseteq Recorded(longer)
  <2>1. \A i \in 1 .. Len(changes) : i \in 1 .. Len(longer)
    BY <1>0
  <2> QED
    BY <1>0, <2>1 DEF Recorded
<1>3. \A k \in from .. upto, n \in Name : Tracks(view[n], changes, n, k) => Tracks(view[n], longer, n, k)
  BY <1>1, <1>2 DEF Tracks
<1>4. Between(view, longer, from, upto)
  BY <1>3 DEF Between
<1> QED
  BY <1>4 DEF longer

LEMMA EmptyIsOld ==
    ASSUME NEW changes, NEW last \in Nat
    PROVE  EmptyList \in Snapshots /\ Between(EmptyList, changes, 0, last)
<1>1. \A n : At(changes, Absent, n, 0)
  BY DEF At
<1>2. \A n \in Name : Tracks(EmptyList[n], changes, n, 0)
  BY <1>1 DEF EmptyList, Tracks, SameContents, Absent
<1>3. 0 \in 0 .. last
  OBVIOUS
<1> QED
  BY <1>2, <1>3 DEF Between, EmptyList, Snapshots

LEMMA IdleIsSynced ==
    ASSUME NEW loop, loop.pc = "idle", loop.paged = {}, NEW view, NEW changes, NEW count
    PROVE  LoopIsSynced(loop, view, changes, count)
BY DEF LoopIsSynced

LEMMA SyncedInit == Init => Synced
<1> SUFFICES ASSUME Init PROVE Synced
  OBVIOUS
<1>1. log = <<>> /\ Len(log) = 0 /\ server = EmptyList /\ list = EmptyList /\ ws.state = "none"
  BY DEF Init, NoSocket
<1>2. History(log)
  BY <1>1 DEF History
<1>3. \A n \in Name : At(log, server[n], n, Len(log))
  BY <1>1 DEF At, EmptyList
<1>4. Viewed
  BY <1>1, EmptyIsOld DEF Viewed
<1>5. \A p \in Loop : LoopIsSynced(loops[p], list, log, refCount)
  BY IdleIsSynced DEF Init, IdleLoop
<1>6. SocketIsSynced(ws, list, log, lost)
  BY <1>1 DEF SocketIsSynced
<1> QED
  BY <1>2, <1>3, <1>4, <1>5, <1>6 DEF Synced, Logged

\* The server goes ahead: what was true of the log so far stays true.
LEMMA ChangeSynced ==
    ASSUME Inv, Synced, NEW n \in Name, Change(n)
    PROVE  Synced'
<1>0. /\ log \in Seq(Event) /\ Len(log) \in Nat /\ loops \in [Loop -> LoopState] /\ ws \in Socket
      /\ UNCHANGED <<refCount, ws, list, lost, loops>>
  BY DEF Inv, ControlTypeOK, Change, client
<1>1. PICK e \in Event : log' = Append(log, e)
  BY ChangeIsRecorded DEF Synced, Logged
<1>2. Logged'
  BY ChangeIsRecorded DEF Synced, Logged
<1>3. Len(log') = Len(log) + 1
  BY <1>0, <1>1
<1>4. ASSUME NEW from \in Nat, Between(list, log, from, Len(log))
      PROVE  Between(list, log', from, Len(log'))
  <2>1. Len(log) \in 0 .. Len(log)
    BY <1>0
  <2>2. Between(list, log', from, Len(log))
    BY <1>0, <1>1, <1>4, <2>1, BetweenAppended
  <2> QED
    BY <1>0, <1>3, <2>2, BetweenWider
<1>5. Viewed'
  BY <1>0, <1>4 DEF Synced, Viewed
<1>6. ASSUME NEW p \in Loop PROVE LoopIsSynced(loops[p], list, log', refCount)
  <2> DEFINE loop == loops[p]
  <2>0. LoopIsSynced(loop, list, log, refCount) /\ loop.rv \in Nat
    BY <1>0 DEF Synced, LoopState
  <2> HIDE DEF loop
  <2>1. ASSUME loop.pc \in {"served", "resolved"}
        PROVE  loop.rv \in 0 .. Len(log) /\ loop.rv <= Len(log') /\ \A m \in Name : At(log', loop.snap[m], m, loop.rv)
    <3>1. loop.rv \in 0 .. Len(log) /\ loop.rv <= Len(log')
      BY <1>0, <1>3, <2>0, <2>1 DEF LoopIsSynced
    <3>2. \A m \in Name : At(log, loop.snap[m], m, loop.rv)
      BY <2>0, <2>1 DEF LoopIsSynced
    <3> QED
      BY <1>0, <1>1, <3>1, <3>2, AtAppended
  <2>2. ASSUME loop.pc = "served", refCount > 0
        PROVE  Between(list, log', 0, loop.rv)
    BY <1>0, <1>1, <2>0, <2>1, <2>2, BetweenAppended DEF LoopIsSynced
  <2>3. ASSUME loop.pc = "resolved", refCount > 0
        PROVE  Between(list, log', loop.rv, loop.rv)
    BY <1>0, <1>1, <2>0, <2>1, <2>3, BetweenAppended DEF LoopIsSynced
  <2>4. loop.paged = {}
    BY <2>0 DEF LoopIsSynced
  <2>5. LoopIsSynced(loop, list, log', refCount)
    BY <2>1, <2>2, <2>3, <2>4 DEF LoopIsSynced
  <2> QED
    BY <2>5 DEF loop
<1>7. SocketIsSynced(ws, list, log', lost)
  <2>0. ws.from \in Nat /\ ws.pos \in Nat /\ ws.buf \in Nat /\ SocketIsSynced(ws, list, log, lost)
    BY <1>0, BufferMaxAssumption DEF Synced, Socket
  <2>1. ASSUME ws.state # "none"
        PROVE  ws.from <= Len(log') /\ Between(list, log', ws.from, Len(log'))
    BY <1>0, <1>3, <1>4, <2>0, <2>1 DEF SocketIsSynced
  <2>2. ASSUME ws.state \in {"open", "closed"}
        PROVE  /\ ws.from + ws.buf <= ws.pos /\ ws.pos <= Len(log')
               /\ ~lost => Between(list, log', ws.pos - ws.buf, Len(log'))
    <3>1. ws.from + ws.buf <= ws.pos /\ ws.pos <= Len(log) /\ (~lost => Between(list, log, ws.pos - ws.buf, Len(log)))
      BY <2>0, <2>2 DEF SocketIsSynced
    <3>2. ws.pos - ws.buf \in Nat
      BY <2>0, <3>1
    <3> QED
      BY <1>0, <1>3, <1>4, <2>0, <3>1, <3>2
  <2> QED
    BY <2>0, <2>1, <2>2 DEF SocketIsSynced
<1> QED
  BY <1>0, <1>2, <1>5, <1>6, <1>7 DEF Synced

\* The last unmount, seen at once or late.
LEMMA CleanupSynced ==
    ASSUME Inv, Synced, Cleanup, UNCHANGED <<server, log>>,
           \A p \in Loop : loops'[p] = loops[p] \/ loops'[p] = IdleLoop
    PROVE  Synced'
<1>0. Len(log) \in Nat /\ NoSocket.state = "none" /\ IdleLoop.pc = "idle" /\ IdleLoop.paged = {}
  BY DEF Inv, ControlTypeOK, NoSocket, IdleLoop
<1>1. list' = EmptyList /\ refCount' = 0 /\ ws'.state = "none"
  BY <1>0 DEF Cleanup
<1>2. Viewed'
  BY <1>0, <1>1, EmptyIsOld DEF Viewed
<1>3. ASSUME NEW p \in Loop PROVE LoopIsSynced(loops'[p], list', log, refCount')
  <2>1. CASE loops'[p] = IdleLoop
    BY <1>0, <2>1, IdleIsSynced
  <2>2. CASE loops'[p] = loops[p]
    BY <1>1, <2>2 DEF Synced, LoopIsSynced
  <2> QED
    BY <2>1, <2>2
<1>4. SocketIsSynced(ws', list', log, lost')
  BY <1>1 DEF SocketIsSynced
<1>5. Logged'
  BY DEF Synced, Logged
<1> QED
  BY <1>2, <1>3, <1>4, <1>5 DEF Synced

\* A loop goes on while the others are idle and there is no socket.
LEMMA LoopGoesOn ==
    ASSUME Inv, Synced, NEW p \in Loop, \A q \in Loop \ {p} : loops[q].pc = "idle",
           NEW next, loops' = [loops EXCEPT ![p] = next], UNCHANGED <<server, log, ws>>, ws.state = "none",
           list' \in Snapshots, Between(list', log, 0, Len(log)), LoopIsSynced(next, list', log, refCount')
    PROVE  Synced'
<1>0. loops \in [Loop -> LoopState]
  BY DEF Inv, ControlTypeOK
<1>1. ASSUME NEW q \in Loop PROVE LoopIsSynced(loops'[q], list', log, refCount')
  <2>1. CASE q = p
    BY <1>0, <2>1
  <2>2. CASE q # p
    <3>1. loops'[q] = loops[q] /\ loops[q].pc = "idle" /\ loops[q].paged = {}
      BY <1>0, <2>2 DEF Synced, LoopIsSynced
    <3> QED
      BY <3>1, IdleIsSynced
  <2> QED
    BY <2>1, <2>2
<1>2. SocketIsSynced(ws', list', log, lost')
  BY DEF SocketIsSynced
<1>3. Logged'
  BY DEF Synced, Logged
<1> QED
  BY <1>1, <1>2, <1>3 DEF Synced, Viewed

LEMMA LoopSynced ==
    ASSUME VersionsPerSecond = 1, FitsOnAPage, Inv, Single, Synced, NEW p \in Loop, LoopStep(p)
    PROVE  Synced'
<1>0. /\ log \in Seq(Event) /\ Len(log) \in Nat /\ loops \in [Loop -> LoopState] /\ server \in Snapshots
      /\ IdleLoop.pc = "idle" /\ IdleLoop.paged = {} /\ IdleLoop \in LoopState /\ NoSocket.state = "none"
  BY IdleType DEF Inv, ControlTypeOK, IdleLoop, NoSocket
<1>a. list \in Snapshots /\ Between(list, log, 0, Len(log)) /\ LoopIsSynced(loops[p], list, log, refCount)
  BY DEF Synced, Viewed
<1>b. ASSUME Active(p) PROVE ws.state = "none" /\ \A q \in Loop \ {p} : loops[q].pc = "idle"
  BY <1>b DEF Single, Active
<1>1. ASSUME refCount' # 0, StartLoop(p), UNCHANGED <<server, log, ws, list>>, ws.state = "none",
             \A q \in Loop : loops[q].pc = "idle"
      PROVE  Synced'
  <2> DEFINE next == [IdleLoop EXCEPT !.pc = "sent"]
  <2>1. loops' = [loops EXCEPT ![p] = next]
    BY <1>1 DEF StartLoop
  <2>2. next.pc = "sent" /\ next.paged = {}
    BY DEF IdleLoop
  <2> HIDE DEF next
  <2>3. LoopIsSynced(next, list', log, refCount')
    BY <2>2 DEF LoopIsSynced
  <2> QED
    BY <1>1, <1>a, <2>1, <2>3, LoopGoesOn
<1>2. CASE Watch(p)
  <2>1. refCount = 0 /\ refCount' = 1 /\ StartLoop(p) /\ UNCHANGED <<server, log, ws>> /\ Spend("watches")
    BY <1>2 DEF Watch
  <2>2. ws.state = "none" /\ entry = NoEntry
    BY <1>0, <2>1 DEF Inv, NothingLeftBehind
  <2>3. list' = list
    BY <1>2, <2>1, <2>2 DEF Watch, Inv, NothingLeftBehind
  <2>4. \A q \in Loop : loops[q].pc = "idle"
    BY <2>1, SpentOn DEF Single, Active
  <2> QED
    BY <1>1, <2>1, <2>2, <2>3, <2>4
<1>3. CASE PollFires(p)
  <2>1. poll /\ StartLoop(p) /\ UNCHANGED <<server, log, ws, list, refCount>>
    BY <1>3 DEF PollFires
  <2>2. refCount # 0 /\ ws.state = "none" /\ \A q \in Loop : loops[q].pc = "idle"
    BY <2>1 DEF Single, Active, Inv, NothingLeftBehind
  <2> QED
    BY <1>1, <2>1, <2>2
<1>4. CASE Serve(p)
  <2> DEFINE next == [pc |-> "served", snap |-> server, rv |-> Revision, paged |-> {}]
  <2>1. loops' = [loops EXCEPT ![p] = next] /\ Active(p) /\ UNCHANGED <<server, log, ws, list, refCount>>
    BY <1>4, <1>a DEF Serve, LoopIsSynced, Active, client
  <2>2. LoopIsSynced(next, list', log, refCount')
    BY <1>0, <1>a, <2>1 DEF Synced, Logged, LoopIsSynced, Revision
  <2> QED
    BY <1>a, <1>b, <2>1, <2>2, LoopGoesOn
<1>5. CASE ReceivePage(p)
  <2> DEFINE next == [loops[p] EXCEPT !.pc = "resolved"]
             snap == loops[p].snap
             rv == loops[p].rv
  <2>1. loops[p].pc = "served" /\ refCount > 0 /\ UNCHANGED <<server, log, ws, refCount>> /\ loops[p].paged = {}
    BY <1>5, <1>a DEF ReceivePage, LoopIsSynced
  <2>2. ~HasContinue(p) /\ PageNames(p) = Remaining(p)
    BY PageIsWhole
  <2>3. loops' = [loops EXCEPT ![p] = next] /\ list' = LoadList(list, Items(p))
    BY <1>5, <2>1, <2>2 DEF ReceivePage
  <2>4. Items(p) = [n \in {m \in Name : snap[m] # Absent} |-> snap[n]]
    BY <2>1, <2>2 DEF Items, Remaining
  <2>5. /\ rv \in 0 .. Len(log) /\ snap \in Snapshots /\ \A n \in Name : At(log, snap[n], n, rv)
        /\ Between(list, log, 0, rv)
    <3>1. rv \in Nat /\ snap \in Snapshots
      BY <1>0 DEF LoopState, Snapshots
    <3> QED
      BY <1>0, <1>a, <2>1, <3>1 DEF LoopIsSynced
  <2>6. next.pc = "resolved" /\ next.paged = {} /\ next.rv = rv /\ next.snap = snap
    BY <1>0, <2>1 DEF LoopState
  <2>h. History(log)
    BY DEF Synced, Logged
  <2> HIDE DEF next, snap, rv
  <2>7. list' \in Snapshots /\ Between(list', log, rv, rv)
    BY <1>0, <1>a, <2>3, <2>4, <2>5, <2>h, LoadShows
  <2>8. Between(list', log, 0, Len(log))
    BY <1>0, <2>5, <2>7, BetweenWider
  <2>9. LoopIsSynced(next, list', log, refCount')
    BY <1>0, <2>5, <2>6, <2>7 DEF LoopIsSynced
  <2>10. Active(p)
    BY <2>1 DEF Active
  <2> QED
    BY <1>b, <2>1, <2>3, <2>7, <2>8, <2>9, <2>10, LoopGoesOn
<1>6. CASE Abandon(p)
  BY <1>0, <1>6, CleanupSynced DEF Abandon, EndLoop
<1>7. CASE SecondSocket(p)
  BY <1>7, <1>b DEF SecondSocket, Active
<1>8. CASE OpenWatch(p)
  <2>1. /\ loops[p].pc = "resolved" /\ refCount > 0 /\ loops' = [loops EXCEPT ![p] = IdleLoop]
        /\ ws' = [state |-> "init", from |-> loops[p].rv, pos |-> 0, buf |-> 0]
        /\ UNCHANGED <<server, log, list, refCount>>
    BY <1>8 DEF OpenWatch, EndLoop
  <2>2. loops[p].rv \in Nat /\ loops[p].rv <= Len(log) /\ Between(list, log, loops[p].rv, loops[p].rv)
    BY <1>0, <1>a, <2>1 DEF LoopIsSynced, LoopState
  <2>3. Between(list, log, loops[p].rv, Len(log))
    BY <1>0, <2>2, BetweenWider
  <2>4. SocketIsSynced(ws', list, log, lost')
    BY <2>1, <2>2, <2>3 DEF SocketIsSynced
  <2>5. ASSUME NEW q \in Loop PROVE LoopIsSynced(loops'[q], list, log, refCount)
    BY <1>0, <2>1, IdleIsSynced DEF Synced
  <2>6. Logged' /\ Viewed'
    BY <2>1 DEF Synced, Logged, Viewed
  <2> QED
    BY <2>1, <2>4, <2>5, <2>6 DEF Synced
<1>9. CASE Fail(p)
  <2>1. loops[p].pc # "idle" /\ loops' = [loops EXCEPT ![p] = IdleLoop] /\ UNCHANGED <<server, log>>
    BY <1>9 DEF Fail, EndLoop
  <2>2. CASE Cleanup
    BY <1>0, <2>1, <2>2, CleanupSynced
  <2>3. CASE UNCHANGED <<refCount, ws, list, lost>>
    <3>1. LoopIsSynced(IdleLoop, list', log, refCount')
      BY <1>0, IdleIsSynced
    <3> QED
      BY <1>a, <1>b, <2>1, <2>3, <3>1, LoopGoesOn DEF Active
  <2> QED
    BY <1>9, <2>2, <2>3 DEF Fail
<1> QED
  BY <1>2, <1>3, <1>4, <1>5, <1>6, <1>7, <1>8, <1>9 DEF LoopStep

\* A step of the socket, when no loop is at work.
LEMMA SocketGoesOn ==
    ASSUME Single, Synced, ws.state # "none", UNCHANGED <<server, log, loops>>, list' \in Snapshots,
           Between(list', log, 0, Len(log)), SocketIsSynced(ws', list', log, lost')
    PROVE  Synced'
<1>1. ASSUME NEW p \in Loop PROVE LoopIsSynced(loops'[p], list', log, refCount')
  <2>1. loops[p].pc = "idle" /\ loops[p].paged = {}
    BY DEF Single, Active, Synced, LoopIsSynced
  <2> QED
    BY <2>1, IdleIsSynced
<1>2. Logged'
  BY DEF Synced, Logged
<1> QED
  BY <1>1, <1>2 DEF Synced, Viewed

LEMMA SocketSynced == Inv /\ Single /\ Synced /\ SocketStep => Synced'
<1> SUFFICES ASSUME Inv, Single, Synced, SocketStep PROVE Synced'
  OBVIOUS
<1>0. /\ log \in Seq(Event) /\ Len(log) \in Nat /\ ws \in Socket /\ NoSocket.state = "none"
      /\ ws.from \in Nat /\ ws.pos \in Nat /\ ws.buf \in 0 .. BufferMax /\ BufferMax \in Nat /\ lost \in BOOLEAN
  BY BufferMaxAssumption DEF Inv, ControlTypeOK, Socket, NoSocket
<1>a. list \in Snapshots /\ Between(list, log, 0, Len(log)) /\ SocketIsSynced(ws, list, log, lost) /\ History(log)
  BY DEF Synced, Viewed, Logged
<1>b. ws.state # "none"
  BY <1>0, SocketStays DEF SocketStep, WsClose, WsAbort
<1>c. UNCHANGED <<server, log, loops>>
  BY DEF SocketStep, WsOpen, WsReceive, WsFlush, WsClose, WsReconnect, WsAbort
<1>1. CASE WsOpen
  <2>1. /\ ws.state = "init" /\ list' = list /\ lost' = lost
        /\ ws'.state = "open" /\ ws'.from = ws.from /\ ws'.pos = ws.from /\ ws'.buf = ws.buf
    BY <1>0, <1>1 DEF WsOpen, Socket
  <2>2. ws.buf = 0 /\ ws.from <= Len(log) /\ Between(list, log, ws.from, Len(log))
    BY <1>a, <2>1 DEF SocketIsSynced
  <2>3. ws'.pos - ws'.buf = ws.from /\ ws'.from + ws'.buf = ws'.pos
    BY <1>0, <2>1, <2>2
  <2>4. SocketIsSynced(ws', list', log, lost')
    BY <1>0, <2>1, <2>2, <2>3 DEF SocketIsSynced
  <2> QED
    BY <1>a, <1>b, <1>c, <2>1, <2>4, SocketGoesOn
<1>2. CASE WsReceive
  <2>1. /\ ws.state = "open" /\ ws.pos < Len(log) /\ list' = list
        /\ ws'.state = "open" /\ ws'.from = ws.from /\ ws'.pos = ws.pos + 1
        /\ ws'.buf = IF ws.buf = BufferMax THEN ws.buf ELSE ws.buf + 1
        /\ lost' = (lost \/ ws.buf = BufferMax)
    BY <1>0, <1>2 DEF WsReceive, Socket, Revision
  <2>2. /\ ws.from + ws.buf <= ws.pos /\ (~lost => Between(list, log, ws.pos - ws.buf, Len(log)))
        /\ ws.from <= Len(log) /\ Between(list, log, ws.from, Len(log))
    BY <1>a, <2>1 DEF SocketIsSynced
  <2>3. ws'.from + ws'.buf <= ws'.pos /\ ws'.pos <= Len(log)
    BY <1>0, <2>1, <2>2
  <2>4. ~lost' => ws'.pos - ws'.buf = ws.pos - ws.buf /\ ~lost
    <3>1. ~lost' => ~lost /\ ws.buf # BufferMax
      BY <2>1
    <3>2. ws.buf # BufferMax => ws'.pos - ws'.buf = ws.pos - ws.buf
      BY <1>0, <2>1
    <3> QED
      BY <3>1, <3>2
  <2>5. SocketIsSynced(ws', list', log, lost')
    BY <2>1, <2>2, <2>3, <2>4 DEF SocketIsSynced
  <2> QED
    BY <1>a, <1>b, <1>c, <2>1, <2>5, SocketGoesOn
<1>3. CASE WsFlush
  <2> DEFINE a == ws.pos - ws.buf
             next == UpdateListFromWS(list, SubSeq(log, a + 1, ws.pos))
  <2>1. /\ ws.buf > 0 /\ list' = next /\ lost' = lost
        /\ ws'.state = ws.state /\ ws'.from = ws.from /\ ws'.pos = ws.pos /\ ws'.buf = 0
    BY <1>0, <1>3 DEF WsFlush, Socket
  <2>2. ws.state \in {"open", "closed"}
    BY <1>0, <1>a, <1>b, <2>1 DEF SocketIsSynced, Socket
  <2>3. /\ ws.from + ws.buf <= ws.pos /\ ws.pos <= Len(log) /\ (~lost => Between(list, log, a, Len(log)))
        /\ ws.from <= Len(log) /\ Between(list, log, ws.from, Len(log))
    BY <1>a, <1>b, <2>2 DEF SocketIsSynced
  <2>4. ws.pos \in 0 .. Len(log) /\ a \in 0 .. ws.pos /\ ws.from \in 0 .. a /\ a \in 0 .. a
    BY <1>0, <2>3
  <2> HIDE DEF a
  <2>5. next \in Snapshots /\ Between(next, log, ws.from, Len(log))
    BY <1>0, <1>a, <2>3, <2>4, BatchFollows
  <2>6. ~lost => Between(next, log, ws.pos, Len(log))
    BY <1>0, <1>a, <2>3, <2>4, BatchFollows
  <2> HIDE DEF next
  <2>7. Between(next, log, 0, Len(log))
    BY <1>0, <2>5, BetweenWider
  <2>8. ws.pos - 0 = ws.pos /\ ws.from + 0 <= ws.pos
    BY <1>0, <2>4
  <2>9. SocketIsSynced(ws', list', log, lost')
    BY <2>1, <2>2, <2>3, <2>5, <2>6, <2>8 DEF SocketIsSynced
  <2> QED
    BY <1>b, <1>c, <2>1, <2>5, <2>7, <2>9, SocketGoesOn
<1>4. CASE WsClose
  <2>1. /\ ws.state = "open" /\ ws'.state = "closed" /\ list' = list /\ lost' = lost
        /\ ws'.from = ws.from /\ ws'.pos = ws.pos /\ ws'.buf = ws.buf
    BY <1>0, <1>4 DEF WsClose, Socket
  <2>2. SocketIsSynced(ws', list', log, lost')
    BY <1>a, <2>1 DEF SocketIsSynced
  <2> QED
    BY <1>a, <1>b, <1>c, <2>1, <2>2, SocketGoesOn
<1>5. CASE WsReconnect
  <2>1. ws.state = "closed" /\ ws'.state = "init" /\ list' = list /\ ws'.from = ws.from /\ ws'.buf = 0
    BY <1>0, <1>5 DEF WsReconnect, Socket
  <2>2. SocketIsSynced(ws', list', log, lost')
    BY <1>a, <2>1 DEF SocketIsSynced
  <2> QED
    BY <1>a, <1>b, <1>c, <2>1, <2>2, SocketGoesOn
<1>6. CASE WsAbort
  <2>1. ws'.state = "none" /\ list' = list
    BY <1>0, <1>6 DEF WsAbort
  <2>2. SocketIsSynced(ws', list', log, lost')
    BY <2>1 DEF SocketIsSynced
  <2> QED
    BY <1>a, <1>b, <1>c, <2>1, <2>2, SocketGoesOn
<1> QED
  BY <1>1, <1>2, <1>3, <1>4, <1>5, <1>6 DEF SocketStep

LEMMA SyncedNext ==
    ASSUME VersionsPerSecond = 1, FitsOnAPage
    PROVE  Inv /\ Single /\ Synced /\ [Next]_vars => Synced'
<1> SUFFICES ASSUME Inv, Single, Synced, [Next]_vars PROVE Synced'
  OBVIOUS
<1>0. refCount \in Nat
  BY DEF Inv, ControlTypeOK
<1>1. CASE UNCHANGED vars
  BY <1>1 DEF vars, client, Synced, Logged, Viewed
<1>2. ASSUME refCount > 0, UNCHANGED <<server, log, ws, list, lost, loops>> PROVE Synced'
  <2>1. \A p \in Loop : LoopIsSynced(loops[p], list, log, refCount')
    BY <1>2 DEF Synced, LoopIsSynced
  <2> QED
    BY <1>2, <2>1 DEF Synced, Logged, Viewed
<1>3. CASE WatchAgain
  BY <1>2, <1>3, BoundsAssumption DEF WatchAgain
<1>4. CASE Stop
  <2>1. CASE Cleanup
    BY <1>4, <2>1, CleanupSynced DEF Stop
  <2>2. CASE ~Cleanup
    BY <1>2, <1>4, <2>2 DEF Stop
  <2> QED
    BY <2>1, <2>2
<1> QED
  BY <1>1, <1>3, <1>4, ChangeSynced, LoopSynced, SocketSynced DEF Next

-----------------------------------------------------------------------------
\* A view that is at one change shows what the server had then.
LEMMA AtOneChange ==
    ASSUME NEW view, NEW changes, NEW k \in Nat, Between(view, changes, k, k), NEW snap,
           \A n \in Name : At(changes, snap[n], n, k)
    PROVE  \A n \in Name : SameContents(view[n], snap[n])
<1> TAKE n \in Name
<1>1. \A i \in k .. k : i = k
  OBVIOUS
<1>2. Tracks(view[n], changes, n, k)
  BY <1>1 DEF Between
<1>3. PICK object \in Recorded(changes) \cup {Absent} : At(changes, object, n, k) /\ SameContents(view[n], object)
  BY <1>2 DEF Tracks
<1>4. object = snap[n]
  BY <1>3, AtUnique
<1> QED
  BY <1>3, <1>4

LEMMA SyncedHolds ==
    ASSUME MaxWatches = 1, VersionsPerSecond = 1, FitsOnAPage
    PROVE  Spec => [](Inv /\ Single /\ Synced)
<1>1. Init => Inv /\ Single /\ Synced
  BY InitInv, SingleInit, SyncedInit
<1>2. Inv /\ Single /\ Synced /\ [Next]_vars => (Inv /\ Single /\ Synced)'
  BY InvNext, SingleNext, SyncedNext
<1> QED
  BY <1>1, <1>2, PTL DEF Spec

\* A list that is mounted once, fits on a page and never has two objects of one name in one
\* second is the server's list whenever the socket has caught up and dropped nothing: through
\* requests that fail, reconnects that replay what the list has seen, aborts and refetches,
\* and any number of changes meanwhile (k8s-reducers.ts:32-80, 175-194).
THEOREM ListMirrorsTheServer ==
    ASSUME MaxWatches = 1, VersionsPerSecond = 1, FitsOnAPage
    PROVE  Spec => []Mirror
<1>1. ASSUME Inv, Single, Synced PROVE Mirror
  <2> SUFFICES ASSUME CaughtUp PROVE Shows(server)
    BY DEF Mirror
  <2>0. Len(log) \in Nat /\ ws.pos = Len(log) /\ ws.buf = 0 /\ ws.state = "open" /\ ~lost
    BY <1>1 DEF CaughtUp, Revision, Inv, ControlTypeOK
  <2>1. ws.pos - ws.buf = Len(log)
    BY <2>0
  <2>2. Between(list, log, Len(log), Len(log))
    BY <1>1, <2>0, <2>1 DEF Synced, SocketIsSynced
  <2> QED
    BY <1>1, <2>0, <2>2, AtOneChange DEF Synced, Logged, Shows
<1> QED
  BY <1>1, SyncedHolds, PTL

\* The socket of such a list starts from the resourceVersion of what the list shows.
THEOREM WatchContinuesTheList ==
    ASSUME MaxWatches = 1, VersionsPerSecond = 1, FitsOnAPage
    PROVE  Spec => WatchStartsFromList
<1>1. ASSUME Inv, Single, Synced, NEW p \in Loop, OpenWatch(p) PROVE Shows(loops[p].snap)
  <2>1. loops[p].pc = "resolved" /\ refCount > 0 /\ loops[p].rv \in Nat
    BY <1>1 DEF OpenWatch, Inv, ControlTypeOK, LoopState
  <2>2. Between(list, log, loops[p].rv, loops[p].rv) /\ \A n \in Name : At(log, loops[p].snap[n], n, loops[p].rv)
    BY <1>1, <2>1 DEF Synced, LoopIsSynced
  <2> QED
    BY <2>1, <2>2, AtOneChange DEF Shows
<1>2. Inv /\ Single /\ Synced => [\A p \in Loop : OpenWatch(p) => Shows(loops[p].snap)]_vars
  BY <1>1
<1> QED
  BY <1>2, SyncedHolds, PTL DEF WatchStartsFromList
=============================================================================
