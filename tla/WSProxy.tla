------------------------------ MODULE WSProxy ------------------------------
(***************************************************************************)
(* One WebSocket through the server's proxy (pkg/proxy/proxy.go,           *)
(* ServeHTTP from the dial on, and copyMsgs): the handler's goroutine,     *)
(* which also pings the browser, and one copier for each direction.        *)
(*                                                                         *)
(* The goroutines share the two connections, a mutex and the channel errc. *)
(* What the handler does before the dial decides on headers only.          *)
(***************************************************************************)
EXTENDS Naturals

CONSTANT
    MaxPeerSteps   \* bound: messages sent and stalls, of both peers together

ASSUME MaxPeerStepsAssumption == MaxPeerSteps \in Nat

Side == {"frontend", "backend"}
Copier == {"toFrontend", "toBackend"}

VARIABLES
    main,     \* where the handler is
    copier,   \* where each copier is
    mutex,    \* who holds writeMutex
    errc,     \* how many errors wait in the channel
    tick,     \* ticker.C holds a tick
    conn,     \* the two connections
    full,     \* the peer does not read: a write blocks
    pending,  \* messages of the peer not read yet
    left      \* what is left of MaxPeerSteps

goroutines == <<main, copier, mutex, errc, tick>>
peers == <<full, left>>
vars == <<goroutines, conn, pending, peers>>

MainStages == {"dial", "upgrade", "select", "lock", "ping", "closeFrontend", "closeBackend", "done"}
CopierStages == {"none", "read", "lock", "write", "send", "ended"}

\* gone: the peer closed or the network failed; closed: by the handler.
ConnStates == {"none", "open", "gone", "closed"}

\* copyMsgs(dest, src)
Dest(c) == IF c = "toFrontend" THEN "frontend" ELSE "backend"
Src(c) == IF c = "toFrontend" THEN "backend" ELSE "frontend"

\* copyMsgs(nil, frontend, backend) and copyMsgs(&writeMutex, backend, frontend)
Guarded(c) == c = "toBackend"

\* Fault: room for one error.
ErrcCap_One == 1

\* make(chan error, 2)
ErrcCap == 2

Init ==
    /\ main = "dial"
    /\ copier = [c \in Copier |-> "none"]
    /\ mutex = "free" /\ errc = 0 /\ tick = FALSE
    /\ conn = [s \in Side |-> "none"]
    /\ full = [s \in Side |-> FALSE]
    /\ pending = [s \in Side |-> 0]
    /\ left = MaxPeerSteps

-----------------------------------------------------------------------------
(* The handler *)

\* Or a header is refused before the dial.
DialFails ==
    /\ main = "dial" /\ main' = "done"
    /\ UNCHANGED <<copier, mutex, errc, tick, conn, pending, peers>>

Dial ==
    /\ main = "dial" /\ main' = "upgrade"
    /\ conn' = [conn EXCEPT !["backend"] = "open"]
    /\ UNCHANGED <<copier, mutex, errc, tick, pending, peers>>

\* Fault: backend.Close is deferred after the upgrade.
UpgradeFails_LeavesBackend ==
    /\ main = "upgrade" /\ main' = "done"
    /\ UNCHANGED <<copier, mutex, errc, tick, conn, pending, peers>>

\* Only the close of the backend is deferred yet.
UpgradeFails ==
    /\ main = "upgrade" /\ main' = "closeBackend"
    /\ UNCHANGED <<copier, mutex, errc, tick, conn, pending, peers>>

Upgrade ==
    /\ main = "upgrade" /\ main' = "select"
    /\ conn' = [conn EXCEPT !["frontend"] = "open"]
    /\ copier' = [c \in Copier |-> "read"]
    /\ UNCHANGED <<mutex, errc, tick, pending, peers>>

TakeError ==
    /\ main = "select" /\ errc > 0
    /\ errc' = errc - 1
    /\ main' = "closeFrontend"
    /\ UNCHANGED <<copier, mutex, tick, conn, pending, peers>>

TakeTick ==
    /\ main = "select" /\ tick
    /\ tick' = FALSE
    /\ main' = "lock"
    /\ UNCHANGED <<copier, mutex, errc, conn, pending, peers>>

LockForPing ==
    /\ main = "lock" /\ mutex = "free"
    /\ mutex' = "main" /\ main' = "ping"
    /\ UNCHANGED <<copier, errc, tick, conn, pending, peers>>

\* WriteControl has a deadline: a browser that does not read makes it fail.
Ping ==
    /\ main = "ping"
    /\ mutex' = "free"
    /\ \/ /\ conn["frontend"] = "gone" \/ full["frontend"]
          /\ main' = "closeFrontend"
       \/ ~full["frontend"] /\ main' = "select"
    /\ UNCHANGED <<copier, errc, tick, conn, pending, peers>>

\* The deferred functions, last one first.
CloseFrontend ==
    /\ main = "closeFrontend" /\ main' = "closeBackend"
    /\ tick' = FALSE
    /\ conn' = [conn EXCEPT !["frontend"] = "closed"]
    /\ UNCHANGED <<copier, mutex, errc, pending, peers>>

CloseBackend ==
    /\ main = "closeBackend" /\ main' = "done"
    /\ conn' = [conn EXCEPT !["backend"] = "closed"]
    /\ UNCHANGED <<copier, mutex, errc, tick, pending, peers>>

-----------------------------------------------------------------------------
(* copyMsgs *)

GoTo(c, stage) == copier' = [copier EXCEPT ![c] = stage]

Read(c) ==
    /\ copier[c] = "read"
    /\ conn[Src(c)] # "closed" /\ pending[Src(c)] > 0
    /\ pending' = [pending EXCEPT ![Src(c)] = pending[Src(c)] - 1]
    /\ GoTo(c, IF Guarded(c) THEN "lock" ELSE "write")
    /\ UNCHANGED <<main, mutex, errc, tick, conn, peers>>

ReadFails(c) ==
    /\ copier[c] = "read"
    /\ conn[Src(c)] \in {"gone", "closed"}
    /\ GoTo(c, "send")
    /\ UNCHANGED <<main, mutex, errc, tick, conn, pending, peers>>

LockForCopy(c) ==
    /\ copier[c] = "lock" /\ mutex = "free"
    /\ mutex' = c
    /\ GoTo(c, "write")
    /\ UNCHANGED <<main, errc, tick, conn, pending, peers>>

Unlocked(c) == IF mutex = c THEN "free" ELSE mutex

\* The first write after the peer has gone may still succeed.
Write(c) ==
    /\ copier[c] = "write"
    /\ conn[Dest(c)] # "closed" /\ ~full[Dest(c)]
    /\ mutex' = Unlocked(c)
    /\ GoTo(c, "read")
    /\ UNCHANGED <<main, errc, tick, conn, pending, peers>>

\* Fault: return before Unlock.
WriteFails_KeepsLock(c) ==
    /\ copier[c] = "write"
    /\ conn[Dest(c)] \in {"gone", "closed"}
    /\ GoTo(c, "send")
    /\ UNCHANGED <<main, mutex, errc, tick, conn, pending, peers>>

WriteFails(c) ==
    /\ copier[c] = "write"
    /\ conn[Dest(c)] \in {"gone", "closed"}
    /\ mutex' = Unlocked(c)
    /\ GoTo(c, "send")
    /\ UNCHANGED <<main, errc, tick, conn, pending, peers>>

\* errc <- copyMsgs(...)
SendError(c) ==
    /\ copier[c] = "send" /\ errc < ErrcCap
    /\ errc' = errc + 1
    /\ GoTo(c, "ended")
    /\ UNCHANGED <<main, mutex, tick, conn, pending, peers>>

-----------------------------------------------------------------------------
(* The ticker and the two peers *)

Tick ==
    /\ main \in {"select", "lock", "ping"} /\ ~tick
    /\ tick' = TRUE
    /\ UNCHANGED <<main, copier, mutex, errc, conn, pending, peers>>

PeerSends(s) ==
    /\ conn[s] = "open"
    /\ left > 0 /\ left' = left - 1
    /\ pending' = [pending EXCEPT ![s] = pending[s] + 1]
    /\ UNCHANGED <<goroutines, conn, full>>

PeerStalls(s) ==
    /\ conn[s] = "open" /\ ~full[s]
    /\ left > 0 /\ left' = left - 1
    /\ full' = [full EXCEPT ![s] = TRUE]
    /\ UNCHANGED <<goroutines, conn, pending>>

PeerResumes(s) ==
    /\ full[s]
    /\ full' = [full EXCEPT ![s] = FALSE]
    /\ UNCHANGED <<goroutines, conn, pending, left>>

PeerGoes(s) ==
    /\ conn[s] = "open"
    /\ conn' = [conn EXCEPT ![s] = "gone"]
    /\ UNCHANGED <<goroutines, pending, peers>>

Handler ==
    \/ DialFails \/ Dial \/ UpgradeFails \/ Upgrade \/ TakeError \/ TakeTick
    \/ LockForPing \/ Ping \/ CloseFrontend \/ CloseBackend
CopyStep(c) ==
    Read(c) \/ ReadFails(c) \/ LockForCopy(c) \/ Write(c) \/ WriteFails(c) \/ SendError(c)
Peer(s) == PeerSends(s) \/ PeerStalls(s) \/ PeerResumes(s) \/ PeerGoes(s)

Next == Handler \/ Tick \/ (\E c \in Copier : CopyStep(c)) \/ (\E s \in Side : Peer(s))

Spec == Init /\ [][Next]_vars

\* Goroutines run, sync.Mutex and select starve nobody, the ticker ticks, and
\* a backend that stalls reads again.  A browser may stall for ever.
FairSpec ==
    /\ Spec
    /\ WF_vars(Handler) /\ SF_vars(LockForPing) /\ SF_vars(TakeError) /\ WF_vars(Tick)
    /\ \A c \in Copier : WF_vars(CopyStep(c)) /\ SF_vars(LockForCopy(c))
    /\ WF_vars(PeerResumes("backend"))

-----------------------------------------------------------------------------
\* What the proxy promises the server it runs in.

TypeOK ==
    /\ main \in MainStages
    /\ copier \in [Copier -> CopierStages]
    /\ mutex \in {"free", "main"} \cup Copier
    /\ errc \in 0 .. ErrcCap
    /\ tick \in BOOLEAN
    /\ conn \in [Side -> ConnStates]
    /\ full \in [Side -> BOOLEAN]
    /\ pending \in [Side -> Nat] /\ left \in Nat

\* However the request ends, at the dial, the upgrade, an error or a ping,
\* the handler leaves no connection open (proxy.go:205, 235-238).
NothingOpen == main = "done" => \A s \in Side : conn[s] \in {"none", "closed"}

\* The mutex is held by a goroutine that will let it go, whichever way its
\* write ends (proxy.go:252-255, 273-275).
HolderWrites ==
    /\ mutex = "main" <=> main = "ping"
    /\ \A c \in Copier : mutex = c <=> Guarded(c) /\ copier[c] = "write"

\* No goroutine outlives the request: errc takes both errors although the
\* handler receives one, or none after a failed ping (proxy.go:240-260).
NoLeak == main = "done" ~> \A c \in Copier : copier[c] \in {"none", "ended"}

\* "Only wait for a single error and let the defers close both connections"
\* (proxy.go:249): when either peer is gone the request ends.
EndsTogether == (\E s \in Side : conn[s] = "gone") ~> main = "done"

\* "Needed because ticker & copy are writing to frontend in separate
\* goroutines" (proxy.go:233): the mutex keeps the two writes apart.
OneWriter == ~(main = "ping" /\ copier["toFrontend"] = "write")
=============================================================================
