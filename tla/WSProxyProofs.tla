--------------------------- MODULE WSProxyProofs ---------------------------
(***************************************************************************)
(* The lock discipline and the closing of the connections, for any number  *)
(* of messages and stalls.                                                 *)
(***************************************************************************)
EXTENDS WSProxy, TLAPS

\* What exists at each stage of the handler: no copier before the upgrade,
\* the frontend from the upgrade on, the backend from the dial on; each
\* connection is closed by its deferred function.
Stages ==
    /\ main \in {"dial", "upgrade"} =>
          copier = [c \in Copier |-> "none"] /\ conn["frontend"] = "none"
    /\ main = "dial" => conn["backend"] = "none"
    /\ main \in {"closeBackend", "done"} => conn["frontend"] \in {"none", "closed"}
    /\ main = "done" => conn["backend"] \in {"none", "closed"}
    /\ copier["toFrontend"] # "lock"

Inv == TypeOK /\ HolderWrites /\ Stages

\* The handler starts before the dial.
LEMMA InitInv == Init => Inv
<1>1. Init => TypeOK
  <2> SUFFICES ASSUME Init PROVE TypeOK
    OBVIOUS
  <2>1. left \in Nat
    BY MaxPeerStepsAssumption DEF Init
  <2>2. copier \in [Copier -> CopierStages] /\ conn \in [Side -> ConnStates]
    BY DEF Init, CopierStages, ConnStates
  <2>3. /\ full \in [Side -> BOOLEAN]
        /\ pending \in [Side -> Nat]
    BY DEF Init
  <2>4. main \in MainStages /\ mutex = "free" /\ errc \in 0 .. ErrcCap
    BY DEF Init, MainStages, ErrcCap
  <2>5. tick \in BOOLEAN
    BY Zenon DEF Init
  <2> QED
    BY <2>1, <2>2, <2>3, <2>4, <2>5 DEF TypeOK
<1>2. Init => HolderWrites
  BY DEF Init, HolderWrites, Copier, Guarded
<1>3. Init => Stages
  BY DEF Init, Stages, Side, Copier
<1> QED
  BY <1>1, <1>2, <1>3 DEF Inv

\* The handler's steps preserve the invariant.
LEMMA HandlerInv == Inv /\ Handler => Inv'
<1> SUFFICES ASSUME Inv, Handler PROVE Inv'
  OBVIOUS
<1> USE DEF Inv, TypeOK, HolderWrites, Stages, peers, MainStages, CopierStages, ConnStates,
            Copier, Side, ErrcCap, Guarded
<1>1. CASE DialFails
  BY <1>1 DEF DialFails
<1>2. CASE Dial
  BY <1>2 DEF Dial
<1>3. CASE UpgradeFails
  BY <1>3 DEF UpgradeFails
<1>4. CASE Upgrade
  BY <1>4 DEF Upgrade
<1>5. CASE TakeError
  BY <1>5 DEF TakeError
<1>6. CASE TakeTick
  BY <1>6 DEF TakeTick
<1>7. CASE LockForPing
  BY <1>7 DEF LockForPing
<1>8. CASE Ping
  BY <1>8 DEF Ping
<1>9. CASE CloseFrontend
  BY <1>9 DEF CloseFrontend
<1>10. CASE CloseBackend
  BY <1>10 DEF CloseBackend
<1> QED
  BY <1>1, <1>2, <1>3, <1>4, <1>5, <1>6, <1>7, <1>8, <1>9, <1>10 DEF Handler

\* So do the copiers': a copier that moves has been started, which the
\* handler does as it leaves the stage before.
LEMMA CopierInv == ASSUME NEW c \in Copier, Inv, CopyStep(c) PROVE Inv'
<1> USE DEF Inv, TypeOK, HolderWrites, Stages, peers, GoTo, MainStages, CopierStages, ConnStates,
            Copier, Side, ErrcCap, Guarded, Src, Dest
<1>1. CASE Read(c)
  BY <1>1 DEF Read
<1>2. CASE ReadFails(c)
  BY <1>2 DEF ReadFails
<1>3. CASE LockForCopy(c)
  BY <1>3 DEF LockForCopy
<1>4. CASE Write(c)
  BY <1>4 DEF Write, Unlocked
<1>5. CASE WriteFails(c)
  BY <1>5 DEF WriteFails, Unlocked
<1>6. CASE SendError(c)
  BY <1>6 DEF SendError
<1> QED
  BY <1>1, <1>2, <1>3, <1>4, <1>5, <1>6 DEF CopyStep

\* The peers touch only their connection, and only while it is open.
LEMMA PeerInv == ASSUME NEW s \in Side, Inv, Peer(s) PROVE Inv'
<1> USE DEF Inv, TypeOK, HolderWrites, Stages, peers, goroutines, MainStages, CopierStages, ConnStates,
            Copier, Side, ErrcCap, Guarded
<1>1. CASE PeerSends(s)
  BY <1>1 DEF PeerSends
<1>2. CASE PeerStalls(s)
  BY <1>2 DEF PeerStalls
<1>3. CASE PeerResumes(s)
  BY <1>3 DEF PeerResumes
<1>4. CASE PeerGoes(s)
  BY <1>4 DEF PeerGoes
<1> QED
  BY <1>1, <1>2, <1>3, <1>4 DEF Peer

\* The invariant of every reachable state.
THEOREM InvHolds == Spec => []Inv
<1>1. Inv /\ [Next]_vars => Inv'
  <2> SUFFICES ASSUME Inv, [Next]_vars PROVE Inv'
    OBVIOUS
  <2>1. CASE Handler
    BY <2>1, HandlerInv
  <2>2. CASE Tick
    BY <2>2 DEF Tick, Inv, TypeOK, HolderWrites, Stages, peers
  <2>3. CASE \E c \in Copier : CopyStep(c)
    BY <2>3, CopierInv
  <2>4. CASE \E s \in Side : Peer(s)
    BY <2>4, PeerInv
  <2>5. CASE UNCHANGED vars
    BY <2>5 DEF vars, goroutines, peers, Inv, TypeOK, HolderWrites, Stages
  <2> QED
    BY <2>1, <2>2, <2>3, <2>4, <2>5 DEF Next
<1> QED
  BY <1>1, InitInv, PTL DEF Spec

\* The mutex is held exactly during a ping or a guarded write, so every
\* path that takes it lets it go (proxy.go:252-255, 273-275).
THEOREM LockIsReleased == Spec => []HolderWrites
<1>1. Inv => HolderWrites
  BY DEF Inv
<1> QED
  BY <1>1, InvHolds, PTL

\* A handler that has returned has closed what it opened, whichever of its
\* returns it took (proxy.go:204, 229, 250, 257).
THEOREM ClosesWhatItOpened == Spec => []NothingOpen
<1>1. Inv => NothingOpen
  BY DEF Inv, Stages, NothingOpen, Side
<1> QED
  BY <1>1, InvHolds, PTL
=============================================================================
