-------------------------- MODULE WSFactoryProofs --------------------------
(***************************************************************************)
(* WSFactory for any number of sockets, any options and any bounds: it is  *)
(* never stuck, its messages stay in order, and a timeout at least as long *)
(* as the longest delay never destroys it.                                 *)
(***************************************************************************)
EXTENDS WSFactory, TLAPS

ControlTypeOK ==
    /\ reconnect \in BOOLEAN /\ timeout \in Timeouts /\ works \in BOOLEAN
    /\ state \in States
    /\ ws \in Socket \cup {"none"}
    /\ sock \in [Socket -> SocketState]
    /\ attempt \in Attempts
    /\ delay \in InitialDelay .. MaxDelay
    /\ options \in BOOLEAN

\* A state that promises events has a socket to bring them.
Alive == works /\ state \in {"init", "open", "error"} => \E s \in Socket : Live(s)

\* No socket was ever opened when new WebSocket throws.
Silent == ~works => state # "open" /\ \A s \in Socket : ~sock[s].bound

\* Before destroy, the id of an attempt is the id of a pending timer, and a
\* closed object that should reconnect has one.
Armed ==
    options =>
        /\ attempt \in {"null", "armed"}
        /\ state # "destroyed"
        /\ reconnect /\ (state = "closed" \/ ~works) => attempt = "armed"

Inv == ControlTypeOK /\ Alive /\ Silent /\ Armed

\* One action or another of a socket, the timer, the buffer or the user.
LEMMA NextCases ==
    ASSUME Next
    PROVE  \/ AttemptThrows \/ AttemptStops \/ AttemptTimesOut \/ AttemptConnects
           \/ \E s \in Socket : OnOpen(s) \/ OnClose(s) \/ OnError(s) \/ OnMessage(s)
           \/ Flush \/ Pause \/ Unpause \/ Destroy
BY DEF Next, Attempt, SocketEvent, User

\* The delay stays in its range however often it grows.
LEMMA LongerInRange ==
    ASSUME NEW d \in InitialDelay .. MaxDelay
    PROVE  Longer(d) \in InitialDelay .. MaxDelay
BY DelayAssumption DEF Longer, Smaller

LEMMA SocketTypes ==
    /\ Unused \in SocketState
    /\ Connecting \in SocketState
BY DEF Unused, Connecting, SocketState, Phases

LEMMA PhaseType ==
    ASSUME NEW f \in [Socket -> SocketState], NEW s \in Socket, NEW p \in Phases
    PROVE  /\ Moved(f, s, p) \in [Socket -> SocketState]
           /\ Moved(f, s, p)[s].phase = p
           /\ Moved(f, s, p)[s].bound = f[s].bound
           /\ \A o \in Socket \ {s} : Moved(f, s, p)[o] = f[o]
BY DEF SocketState, Moved

LEMMA DetachedType ==
    ASSUME ControlTypeOK
    PROVE  /\ Detached \in [Socket -> SocketState]
           /\ \A o \in Socket : Detached[o] \in {sock[o], Unused}
BY SocketTypes, SocketAssumption DEF ControlTypeOK, Detached, Unused

LEMMA InitInv == Init => Inv
<1> SUFFICES ASSUME Init PROVE Inv
  OBVIOUS
<1>1. PICK s \in Socket :
         /\ ws = IF works THEN s ELSE "none"
         /\ sock = [o \in Socket |-> IF works /\ o = s THEN Connecting ELSE Unused]
  BY DEF Init
<1>2. ControlTypeOK
  BY <1>1, SocketTypes, DelayAssumption DEF Init, ControlTypeOK, States, Attempts
<1>3. Alive /\ Silent
  BY <1>1 DEF Init, Alive, Silent, Live, Connecting, Unused
<1>4. Armed
  BY DEF Init, Armed
<1> QED  BY <1>2, <1>3, <1>4 DEF Inv

\* destroy, whoever calls it.
LEMMA TearDownInv ==
    ASSUME Inv, TearDown, sock' \in [Socket -> SocketState],
           \A o \in Socket : sock'[o].bound => sock[o].bound,
           attempt' \in Attempts, delay' = delay, UNCHANGED <<reconnect, timeout, works>>
    PROVE  Inv'
<1>1. ControlTypeOK'
  BY DEF Inv, ControlTypeOK, TearDown, States
<1>2. Alive' /\ Armed'
  BY DEF TearDown, Alive, Armed
<1>3. Silent'
  BY DEF Inv, Silent, TearDown
<1> QED  BY <1>1, <1>2, <1>3 DEF Inv

LEMMA AttemptInv ==
    ASSUME Inv, AttemptThrows \/ AttemptStops \/ AttemptTimesOut \/ AttemptConnects
    PROVE  Inv'
<1>0. ControlTypeOK
  BY DEF Inv
<1>1. CASE AttemptThrows
  <2>1. ControlTypeOK'
    BY <1>0, <1>1 DEF AttemptThrows, ControlTypeOK, Attempts
  <2>2. Alive' /\ Silent' /\ Armed'
    BY <1>1 DEF Inv, AttemptThrows, Alive, Silent, Armed, Live
  <2> QED  BY <2>1, <2>2 DEF Inv
<1>2. CASE AttemptStops
  <2>1. ControlTypeOK'
    BY <1>0, <1>2 DEF AttemptStops, ControlTypeOK, Attempts
  <2>2. Alive' /\ Silent'
    BY <1>2 DEF Inv, AttemptStops, Alive, Silent, Live
  <2>3. reconnect => works
    <3>1. state = "open" \/ ~reconnect
      BY <1>2 DEF AttemptStops
    <3> QED  BY <3>1, <1>2 DEF Inv, AttemptStops, Silent, Alive, Armed, Live
  <2>4. Armed'
    BY <1>2, <2>3 DEF Inv, AttemptStops, Armed
  <2> QED  BY <2>1, <2>2, <2>4 DEF Inv
<1>3. CASE AttemptTimesOut
  BY <1>0, <1>3, TearDownInv, DetachedType DEF AttemptTimesOut, Attempts, Unused
<1>4. CASE AttemptConnects
  <2>1. delay' \in InitialDelay .. MaxDelay
    BY <1>0, <1>4, LongerInRange DEF AttemptConnects, ControlTypeOK
  <2>2. state' = "init" /\ UNCHANGED <<reconnect, timeout, works, options, attempt>>
    BY <1>4 DEF AttemptConnects, Connect
  <2>3. attempt = "armed"
    BY <1>4 DEF AttemptConnects, Trying
  <2>4. Armed'
    BY <2>2, <2>3 DEF Inv, Armed
  <2>5. CASE works
    <3>1. PICK s \in Socket : ws' = s /\ sock' = [sock EXCEPT ![s] = Connecting]
      BY <1>4, <2>5 DEF AttemptConnects, Connect
    <3>2. ControlTypeOK'
      BY <1>0, <2>1, <2>2, <3>1, SocketTypes DEF ControlTypeOK, States
    <3>3. Alive' /\ Silent'
      BY <1>0, <2>2, <2>5, <3>1 DEF ControlTypeOK, Alive, Silent, Live, Connecting
    <3> QED  BY <2>4, <3>2, <3>3 DEF Inv
  <2>6. CASE ~works
    <3>1. UNCHANGED <<ws, sock>>
      BY <1>4, <2>6 DEF AttemptConnects, Connect
    <3>2. ControlTypeOK'
      BY <1>0, <2>1, <2>2, <3>1 DEF ControlTypeOK, States
    <3>3. Alive' /\ Silent'
      BY <2>2, <2>6, <3>1 DEF Inv, Alive, Silent
    <3> QED  BY <2>4, <3>2, <3>3 DEF Inv
  <2> QED  BY <2>5, <2>6
<1> QED  BY <1>1, <1>2, <1>3, <1>4

LEMMA SocketInv ==
    ASSUME Inv, NEW s \in Socket, OnOpen(s) \/ OnClose(s) \/ OnError(s) \/ OnMessage(s)
    PROVE  Inv'
<1>0. ControlTypeOK
  BY DEF Inv
<1>1. sock[s].bound /\ works /\ UNCHANGED <<reconnect, timeout, works>>
  BY DEF OnOpen, OnClose, OnError, OnMessage, Live, Connecting, Inv, ControlTypeOK, Silent
<1>2. Silent'
  BY <1>1 DEF Silent
<1>3. CASE OnOpen(s)
  <2>1. sock' = Moved(sock, s, "open") /\ "open" \in Phases
    BY <1>3 DEF OnOpen, Phases
  <2>2. ControlTypeOK'
    BY <1>0, <1>1, <1>3, <2>1, PhaseType DEF OnOpen, ControlTypeOK, States, Attempts
  <2>3. Live(s)'
    BY <1>0, <1>1, <2>1, PhaseType DEF Live, ControlTypeOK
  <2>4. Alive' /\ Armed'
    BY <1>1, <1>3, <2>3 DEF Alive, OnOpen, Armed
  <2> QED  BY <1>2, <2>2, <2>4 DEF Inv
<1>4. CASE OnError(s)
  <2>1. sock' = Moved(sock, s, "failing") /\ "failing" \in Phases
    BY <1>4 DEF OnError, Phases
  <2>2. ControlTypeOK'
    BY <1>0, <1>1, <1>4, <2>1, PhaseType DEF OnError, ControlTypeOK, States
  <2>3. Live(s)'
    BY <1>0, <1>1, <2>1, PhaseType DEF Live, ControlTypeOK
  <2>4. Alive' /\ Armed'
    BY <1>1, <1>4, <2>3 DEF Inv, Alive, OnError, Armed
  <2> QED  BY <1>2, <2>2, <2>4 DEF Inv
<1>5. CASE OnMessage(s)
  <2>1. UNCHANGED <<reconnect, timeout, works, ws, sock, attempt, delay, options>>
    BY <1>5 DEF OnMessage
  <2>2. state' = (IF state \in {"destroyed", "closed"} THEN state ELSE "open")
    BY <1>5 DEF OnMessage
  <2>3. ControlTypeOK'
    BY <1>0, <2>1, <2>2 DEF ControlTypeOK, States
  <2>4. Alive' /\ Armed'
    BY <1>0, <2>1, <2>2 DEF Inv, Alive, Armed, Live, ControlTypeOK, States
  <2> QED  BY <1>2, <2>3, <2>4 DEF Inv
<1>6. CASE OnClose(s)
  <2>0. "closed" \in Phases
    BY DEF Phases
  <2>1. CASE /\ state' = "closed"
             /\ sock' = Moved(sock, s, "closed")
             /\ StartSeries
             /\ UNCHANGED <<ws, options, buffer, mark>>
    <3>1. ControlTypeOK'
      BY <1>0, <1>1, <2>0, <2>1, PhaseType, DelayAssumption
         DEF StartSeries, ControlTypeOK, States, Attempts
    <3>2. Alive' /\ Armed'
      BY <1>1, <2>1 DEF Inv, StartSeries, Alive, Armed
    <3> QED  BY <1>2, <3>1, <3>2 DEF Inv
  <2>2. CASE /\ TearDown
             /\ sock' = Moved(Detached, s, "closed")
             /\ attempt' = Cleared
             /\ UNCHANGED delay
    <3>1. sock' \in [Socket -> SocketState]
      BY <1>0, <2>0, <2>2, DetachedType, PhaseType
    <3>2. ASSUME NEW o \in Socket PROVE sock'[o].bound => sock[o].bound
      <4>1. Detached[o].bound => sock[o].bound
        BY <1>0, DetachedType DEF Unused
      <4>2. sock'[o].bound = Detached[o].bound
        <5>1. Detached \in [Socket -> SocketState] /\ sock' = Moved(Detached, s, "closed")
          BY <1>0, <2>2, DetachedType
        <5>2. CASE o = s
          BY <2>0, <5>1, <5>2, PhaseType
        <5>3. CASE o # s
          BY <2>0, <5>1, <5>3, PhaseType
        <5> QED  BY <5>2, <5>3
      <4> QED  BY <4>1, <4>2
    <3>3. attempt' \in Attempts
      BY <1>0, <2>2 DEF Cleared, ControlTypeOK, Attempts
    <3> QED  BY <1>1, <2>2, <3>1, <3>2, <3>3, TearDownInv
  <2> QED  BY <1>6, <2>1, <2>2 DEF OnClose
<1> QED  BY <1>3, <1>4, <1>5, <1>6

LEMMA UserInv ==
    ASSUME Inv, Flush \/ Pause \/ Unpause \/ Destroy
    PROVE  Inv'
<1>0. ControlTypeOK
  BY DEF Inv
<1>1. CASE Flush \/ Pause \/ Unpause
  BY <1>1 DEF Flush, Pause, Unpause, conn, Inv, ControlTypeOK, Alive, Silent, Armed, Live
<1>2. CASE Destroy
  <2>1. Cleared \in Attempts
    BY <1>0 DEF Cleared, ControlTypeOK, Attempts
  <2> QED  BY <1>0, <1>2, <2>1, TearDownInv, DetachedType DEF Destroy, Unused
<1> QED  BY <1>1, <1>2

LEMMA StepInv == Inv /\ [Next]_vars => Inv'
<1> SUFFICES ASSUME Inv, [Next]_vars PROVE Inv'
  OBVIOUS
<1>1. CASE Next
  BY <1>1, NextCases, AttemptInv, SocketInv, UserInv
<1>2. CASE UNCHANGED vars
  BY <1>2 DEF vars, conn, Inv, ControlTypeOK, Alive, Silent, Armed, Live
<1> QED  BY <1>1, <1>2

THEOREM InvHolds == Spec => []Inv
<1> QED  BY InitInv, StepInv, PTL DEF Spec

\* An object that should reconnect always has an attempt pending or a socket
\* that can still report, whatever its sockets do (ws-factory.js:65-92).
THEOREM AlwaysRecovers == Spec => []NeverStuck
<1>1. Inv => NeverStuck
  BY DEF Inv, ControlTypeOK, Alive, Armed, States, NeverStuck
<1> QED  BY <1>1, InvHolds, PTL

\* With a timeout no shorter than the longest delay, 60000 ms and 60000 ms
\* for k8sWatch, only the user destroys the object (ws-factory.js:78-86).
THEOREM TimeoutNeverFires == Spec => UserDestroys
<1>1. Inv /\ [Next]_vars =>
        [MaxDelay <= timeout /\ options /\ ~options'
           => Destroy \/ \E s \in Socket : OnClose(s)]_vars
  <2> SUFFICES ASSUME Inv, Next, MaxDelay <= timeout, options, ~options'
               PROVE  Destroy \/ \E s \in Socket : OnClose(s)
    OBVIOUS
  <2>1. ~AttemptTimesOut
    BY NumbersAssumption, DelayAssumption DEF Inv, ControlTypeOK, AttemptTimesOut
  <2>2. ~AttemptThrows /\ ~AttemptStops /\ ~AttemptConnects
    BY DEF AttemptThrows, AttemptStops, AttemptConnects
  <2>3. ~Flush /\ ~Pause /\ ~Unpause
    BY DEF Flush, Pause, Unpause, conn
  <2>4. \A s \in Socket : ~OnOpen(s) /\ ~OnError(s) /\ ~OnMessage(s)
    BY DEF OnOpen, OnError, OnMessage
  <2> QED  BY <2>1, <2>2, <2>3, <2>4, NextCases
<1> QED  BY <1>1, InvHolds, PTL DEF Spec, UserDestroys
-----------------------------------------------------------------------------
(* The order of the messages *)

Before(first, second) ==
    \A i \in DOMAIN first, j \in DOMAIN second : first[i] < second[j]

UpTo(seq, n) == \A i \in DOMAIN seq : seq[i] <= n

Sorted ==
    /\ received \in Nat /\ buffer \in Seq(Nat) /\ delivered \in Seq(Nat)
    /\ Increasing(delivered) /\ Increasing(buffer)
    /\ Before(delivered, buffer)
    /\ UpTo(delivered, received) /\ UpTo(buffer, received)
    /\ BufferMax = 0 => buffer = <<>>

\* What is put behind sorted numbers is sorted when it is larger.
LEMMA AppendSorted ==
    ASSUME NEW q \in Seq(Nat), NEW n \in Nat, Increasing(q), UpTo(q, n)
    PROVE  /\ Append(q, n + 1) \in Seq(Nat)
           /\ Increasing(Append(q, n + 1))
           /\ UpTo(Append(q, n + 1), n + 1)
BY DEF Increasing, UpTo

\* The buffer goes to the handlers without a change of order.
LEMMA ConcatSorted ==
    ASSUME NEW p \in Seq(Nat), NEW q \in Seq(Nat), NEW n \in Nat,
           Increasing(p), Increasing(q), Before(p, q), UpTo(p, n), UpTo(q, n)
    PROVE  /\ p \o q \in Seq(Nat)
           /\ Increasing(p \o q)
           /\ UpTo(p \o q, n)
<1>1. /\ p \o q \in Seq(Nat)
      /\ Len(p \o q) = Len(p) + Len(q)
  OBVIOUS
<1>2. \A i \in 1 .. Len(p \o q) :
         (p \o q)[i] = IF i <= Len(p) THEN p[i] ELSE q[i - Len(p)]
  OBVIOUS
<1>3. \A i \in 1 .. Len(p \o q) : i > Len(p) => i - Len(p) \in 1 .. Len(q)
  BY <1>1
<1>4. Increasing(p \o q)
  <2> SUFFICES ASSUME NEW i \in 1 .. Len(p \o q), NEW j \in 1 .. Len(p \o q), i < j
               PROVE  (p \o q)[i] < (p \o q)[j]
    BY <1>1 DEF Increasing
  <2>1. CASE j <= Len(p)
    BY <1>2, <2>1 DEF Increasing
  <2>2. CASE i <= Len(p) /\ j > Len(p)
    BY <1>2, <1>3, <2>2 DEF Before
  <2>3. CASE i > Len(p)
    BY <1>2, <1>3, <2>3 DEF Increasing
  <2> QED  BY <2>1, <2>2, <2>3
<1>5. UpTo(p \o q, n)
  BY <1>1, <1>2, <1>3 DEF UpTo
<1> QED  BY <1>1, <1>4, <1>5

\* shift() takes the oldest message out of the buffer.
LEMMA TailSorted ==
    ASSUME NEW q \in Seq(Nat), NEW n \in Nat, q # <<>>, Increasing(q), UpTo(q, n)
    PROVE  /\ Tail(q) \in Seq(Nat)
           /\ Increasing(Tail(q))
           /\ UpTo(Tail(q), n)
           /\ \A i \in DOMAIN Tail(q) : i + 1 \in DOMAIN q /\ Tail(q)[i] = q[i + 1]
BY DEF Increasing, UpTo

LEMMA SortedStep ==
    ASSUME Sorted, [Next]_vars
    PROVE  Sorted'
<1>0. /\ received \in Nat /\ buffer \in Seq(Nat) /\ delivered \in Seq(Nat)
      /\ Increasing(delivered) /\ Increasing(buffer)
      /\ Before(delivered, buffer)
      /\ UpTo(delivered, received) /\ UpTo(buffer, received)
      /\ BufferMax = 0 => buffer = <<>>
  BY DEF Sorted
<1>1. CASE UNCHANGED <<received, buffer, delivered>>
  BY <1>1 DEF Sorted, Increasing, Before, UpTo
<1>2. CASE buffer' = <<>> /\ UNCHANGED <<received, delivered>>
  <2>1. <<>> \in Seq(Nat) /\ DOMAIN <<>> = {}
    OBVIOUS
  <2> QED  BY <1>2, <2>1 DEF Sorted, Increasing, Before, UpTo
<1>3. CASE Deliver /\ UNCHANGED received
  <2>1. <<>> \in Seq(Nat) /\ DOMAIN <<>> = {}
    OBVIOUS
  <2>2. /\ delivered' \in Seq(Nat)
        /\ Increasing(delivered')
        /\ UpTo(delivered', received)
    BY <1>0, <1>3, ConcatSorted DEF Deliver
  <2>3. buffer' = <<>> /\ received' = received
    BY <1>3 DEF Deliver
  <2> QED  BY <1>0, <2>1, <2>2, <2>3 DEF Sorted, Increasing, Before, UpTo
<1>4. CASE /\ received' = received + 1
           /\ delivered' = Append(delivered, received')
           /\ BufferMax = 0 /\ UNCHANGED buffer
  <2>0. buffer = <<>>
    BY <1>0, <1>4
  <2>1. DOMAIN buffer = {}
    BY <2>0, <1>4
  <2>2. /\ delivered' \in Seq(Nat)
        /\ Increasing(delivered')
        /\ UpTo(delivered', received')
    BY <1>0, <1>4, AppendSorted
  <2> QED  BY <1>0, <1>4, <2>1, <2>2 DEF Sorted, Increasing, Before, UpTo
<1>5. CASE /\ received' = received + 1
           /\ BufferMax # 0
           /\ buffer' = Buffered
           /\ UNCHANGED delivered
  <2> DEFINE kept == IF Len(buffer) = BufferMax THEN Tail(buffer) ELSE buffer
  <2>1. /\ kept \in Seq(Nat)
        /\ Increasing(kept)
        /\ UpTo(kept, received)
        /\ Before(delivered, kept)
    <3>1. CASE Len(buffer) = BufferMax
      <4>1. buffer # <<>>
        BY <1>5, <3>1
      <4> QED  BY <1>0, <3>1, <4>1, TailSorted DEF Before
    <3>2. CASE Len(buffer) # BufferMax
      BY <1>0, <3>2
    <3> QED  BY <3>1, <3>2
  <2>2. buffer' = Append(kept, received + 1)
    BY <1>5 DEF Buffered
  <2> HIDE DEF kept
  <2>3. /\ buffer' \in Seq(Nat)
        /\ Increasing(buffer')
        /\ UpTo(buffer', received + 1)
    BY <1>0, <2>1, <2>2, AppendSorted
  <2>4. UpTo(delivered, received + 1)
    BY <1>0 DEF UpTo
  <2>5. Before(delivered, buffer')
    <3> SUFFICES ASSUME NEW i \in DOMAIN delivered, NEW j \in DOMAIN buffer'
                 PROVE  delivered[i] < buffer'[j]
      BY DEF Before
    <3>0. /\ DOMAIN buffer' = 1 .. Len(kept) + 1
          /\ j \in 1 .. Len(kept) => j \in DOMAIN kept /\ buffer'[j] = kept[j]
          /\ buffer'[Len(kept) + 1] = received + 1
      BY <1>0, <2>1, <2>2
    <3>1. CASE j = Len(kept) + 1
      <4>1. delivered[i] <= received /\ delivered[i] \in Nat
        BY <1>0 DEF UpTo
      <4> QED  BY <1>0, <3>0, <3>1, <4>1
    <3>2. CASE j # Len(kept) + 1
      <4>1. Len(kept) \in Nat
        BY <2>1
      <4>2. j \in 1 .. Len(kept)
        BY <3>0, <3>2, <4>1
      <4> QED  BY <2>1, <3>0, <4>2 DEF Before
    <3> QED  BY <3>1, <3>2
  <2> QED  BY <1>0, <1>5, <2>3, <2>4, <2>5 DEF Sorted, Increasing, Before, UpTo
<1>6. CASE UNCHANGED vars
  BY <1>1, <1>6 DEF vars, data
<1>7. CASE AttemptThrows \/ AttemptStops \/ Pause
  BY <1>1, <1>7 DEF AttemptThrows, AttemptStops, Pause, data
<1>8. CASE AttemptTimesOut \/ Destroy
  BY <1>2, <1>8 DEF AttemptTimesOut, Destroy, TearDown
<1>9. CASE AttemptConnects
  BY <1>2, <1>9 DEF AttemptConnects, Connect
<1>10. CASE Flush \/ Unpause
  BY <1>3, <1>10 DEF Flush, Unpause
<1>11. ASSUME NEW s \in Socket, OnOpen(s) \/ OnError(s)
       PROVE  Sorted'
  BY <1>1, <1>11 DEF OnOpen, OnError, data
<1>12. ASSUME NEW s \in Socket, OnClose(s)
       PROVE  Sorted'
  BY <1>1, <1>2, <1>12 DEF OnClose, TearDown
<1>13. ASSUME NEW s \in Socket, OnMessage(s)
       PROVE  Sorted'
  <2>1. received' = received + 1
    BY <1>13 DEF OnMessage
  <2>2. CASE state = "destroyed"
    <3>1. UNCHANGED <<buffer, delivered>>
      BY <1>13, <2>2 DEF OnMessage
    <3> QED  BY <1>0, <2>1, <3>1 DEF Sorted, Increasing, Before, UpTo
  <2>3. CASE state # "destroyed" /\ BufferMax = 0
    BY <1>4, <1>13, <2>1, <2>3 DEF OnMessage
  <2>4. CASE state # "destroyed" /\ BufferMax # 0
    BY <1>5, <1>13, <2>1, <2>4 DEF OnMessage
  <2> QED  BY <2>2, <2>3, <2>4
<1> QED  BY <1>6, <1>7, <1>8, <1>9, <1>10, <1>11, <1>12, <1>13, NextCases

LEMMA SortedInit == Init => Sorted
<1>1. <<>> \in Seq(Nat) /\ DOMAIN <<>> = {} /\ 0 \in Nat
  OBVIOUS
<1> QED  BY <1>1 DEF Init, Sorted, Increasing, Before, UpTo

\* Every message reaches the handlers at most once and in the order it
\* arrived, for any buffer size (ws-factory.js:159-176, 209-225).
THEOREM MessagesInOrder == Spec => []InOrderOnce
<1>1. Sorted => InOrderOnce
  BY ConcatSorted DEF Sorted, InOrderOnce
<1>2. Sorted /\ [Next]_vars => Sorted'
  BY SortedStep
<1> QED  BY <1>1, <1>2, SortedInit, PTL DEF Spec
-----------------------------------------------------------------------------
(* What the buffer keeps *)

\* Until the object is destroyed its buffer holds the last messages, all of
\* them, and what is neither there nor delivered is too old to be asked for.
Kept ==
    options =>
        /\ \A i \in DOMAIN buffer : buffer[i] = received - Len(buffer) + i
        /\ \A m \in 1 .. received :
              (m > mark /\ m > received - BufferMax) \/ BufferMax = 0
                  => m \in Members(delivered) \/ m \in Members(buffer)

\* The members of two sequences one after the other.
LEMMA MembersOfConcat ==
    ASSUME NEW p \in Seq(Nat), NEW q \in Seq(Nat), NEW m
    PROVE  m \in Members(p \o q) <=> m \in Members(p) \/ m \in Members(q)
<1>1. /\ p \o q \in Seq(Nat)
      /\ Len(p \o q) = Len(p) + Len(q)
      /\ Len(p) \in Nat /\ Len(q) \in Nat
  OBVIOUS
<1>2. \A i \in 1 .. Len(p \o q) :
         (p \o q)[i] = IF i <= Len(p) THEN p[i] ELSE q[i - Len(p)]
  OBVIOUS
<1>3. ASSUME m \in Members(p \o q)
      PROVE  m \in Members(p) \/ m \in Members(q)
  <2>1. PICK i \in 1 .. Len(p \o q) : m = (p \o q)[i]
    BY <1>1, <1>3 DEF Members
  <2>2. CASE i <= Len(p)
    BY <1>2, <2>1, <2>2 DEF Members
  <2>3. CASE i > Len(p)
    <3>1. i - Len(p) \in 1 .. Len(q)
      BY <1>1, <2>3
    <3> QED  BY <1>1, <1>2, <2>1, <2>3, <3>1 DEF Members
  <2> QED  BY <1>1, <2>2, <2>3
<1>4. ASSUME m \in Members(p)
      PROVE  m \in Members(p \o q)
  <2>1. PICK i \in 1 .. Len(p) : m = p[i]
    BY <1>4 DEF Members
  <2>2. i \in 1 .. Len(p \o q) /\ (p \o q)[i] = m
    BY <1>1, <1>2, <2>1
  <2> QED  BY <1>1, <2>2 DEF Members
<1>5. ASSUME m \in Members(q)
      PROVE  m \in Members(p \o q)
  <2>1. PICK i \in 1 .. Len(q) : m = q[i]
    BY <1>5 DEF Members
  <2>2. i + Len(p) \in 1 .. Len(p \o q)
    BY <1>1
  <2>3. (p \o q)[i + Len(p)] = m
    BY <1>1, <1>2, <2>1, <2>2
  <2>4. i + Len(p) \in DOMAIN (p \o q)
    BY <1>1, <2>2
  <2> QED  BY <2>1, <2>3, <2>4 DEF Members
<1> QED  BY <1>3, <1>4, <1>5

LEMMA MembersOfAppend ==
    ASSUME NEW q \in Seq(Nat), NEW n \in Nat
    PROVE  \A m : m \in Members(q) \/ m = n => m \in Members(Append(q, n))
<1>1. /\ DOMAIN Append(q, n) = 1 .. Len(q) + 1
      /\ \A i \in 1 .. Len(q) : Append(q, n)[i] = q[i]
      /\ Append(q, n)[Len(q) + 1] = n
      /\ DOMAIN q = 1 .. Len(q) /\ Len(q) \in Nat
  OBVIOUS
<1>2. 1 .. Len(q) \subseteq 1 .. Len(q) + 1 /\ Len(q) + 1 \in 1 .. Len(q) + 1
  BY <1>1
<1> QED  BY <1>1, <1>2 DEF Members

\* Of a full buffer of the last messages, only the oldest is given up, and
\* with the new one it is no longer among the last bufferMax.
LEMMA BufferedKeeps ==
    ASSUME Sorted, options, Kept, BufferMax \in Nat, BufferMax # 0,
           received' = received + 1, buffer' = Buffered,
           UNCHANGED <<options, delivered, mark>>, mark \in Nat
    PROVE  Kept'
<1>0. received \in Nat /\ buffer \in Seq(Nat) /\ delivered \in Seq(Nat)
  BY DEF Sorted
<1> DEFINE kept == IF Len(buffer) = BufferMax THEN Tail(buffer) ELSE buffer
<1>1. buffer' = Append(kept, received + 1)
  BY DEF Buffered
<1>2. kept \in Seq(Nat) /\ Len(kept) \in Nat
  <2>1. CASE Len(buffer) = BufferMax
    <3>1. buffer # <<>>
      BY <2>1
    <3> QED  BY <1>0, <2>1, <3>1
  <2> QED  BY <1>0, <2>1
<1>3. \A i \in DOMAIN kept : kept[i] = received - Len(kept) + i
  <2>1. CASE Len(buffer) = BufferMax
    <3>1. buffer # <<>>
      BY <2>1
    <3>2. /\ Len(Tail(buffer)) = Len(buffer) - 1
          /\ DOMAIN Tail(buffer) = 1 .. Len(buffer) - 1
          /\ \A i \in DOMAIN Tail(buffer) :
                /\ i \in Int /\ i + 1 \in DOMAIN buffer
                /\ Tail(buffer)[i] = buffer[i + 1]
      BY <1>0, <3>1
    <3>3. Len(buffer) \in Nat
      BY <1>0
    <3> QED  BY <1>0, <2>1, <3>2, <3>3 DEF Kept
  <2> QED  BY <2>1 DEF Kept
<1>4. ASSUME NEW m \in 1 .. received, m \in Members(buffer), m > received + 1 - BufferMax
      PROVE  m \in Members(kept)
  <2>1. CASE Len(buffer) = BufferMax
    <3>1. PICK i \in 1 .. Len(buffer) : m = buffer[i]
      BY <1>0, <1>4 DEF Members
    <3>2. buffer[i] = received - Len(buffer) + i
      BY <1>0, <3>1 DEF Kept
    <3>3. i > 1
      BY <1>0, <1>4, <2>1, <3>1, <3>2
    <3>4. buffer # <<>>
      BY <2>1
    <3>5. i - 1 \in DOMAIN Tail(buffer) /\ Tail(buffer)[i - 1] = buffer[i]
      BY <1>0, <3>1, <3>3, <3>4
    <3> QED  BY <2>1, <3>1, <3>5 DEF Members
  <2> QED  BY <1>4, <2>1
<1> HIDE DEF kept
<1>5. ASSUME NEW i \in DOMAIN buffer'
      PROVE  buffer'[i] = received' - Len(buffer') + i
  <2>1. /\ Len(buffer') = Len(kept) + 1
        /\ DOMAIN buffer' = 1 .. Len(kept) + 1
        /\ DOMAIN kept = 1 .. Len(kept)
        /\ \A j \in 1 .. Len(kept) : buffer'[j] = kept[j]
        /\ buffer'[Len(kept) + 1] = received + 1
    BY <1>0, <1>1, <1>2
  <2>2. CASE i = Len(kept) + 1
    BY <1>0, <1>2, <2>1, <2>2
  <2>3. CASE i # Len(kept) + 1
    <3>1. i \in 1 .. Len(kept)
      BY <1>2, <2>1, <2>3
    <3> QED  BY <1>0, <1>2, <1>3, <2>1, <3>1
  <2> QED  BY <2>2, <2>3
<1>6. ASSUME NEW m \in 1 .. received + 1, m > mark, m > received + 1 - BufferMax
      PROVE  m \in Members(delivered) \/ m \in Members(buffer')
  <2>1. CASE m = received + 1
    BY <1>0, <1>1, <1>2, <2>1, MembersOfAppend
  <2>2. CASE m # received + 1
    <3>1. m \in 1 .. received /\ m > received - BufferMax
      BY <1>0, <1>6, <2>2
    <3>2. m \in Members(delivered) \/ m \in Members(buffer)
      BY <1>6, <3>1 DEF Kept
    <3>3. CASE m \in Members(buffer)
      <4>1. m \in Members(kept)
        BY <1>4, <1>6, <3>1, <3>3
      <4> QED  BY <1>0, <1>1, <1>2, <4>1, MembersOfAppend
    <3> QED  BY <3>2, <3>3
  <2> QED  BY <2>1, <2>2
<1>7. UNCHANGED <<options, delivered, mark>> /\ received' = received + 1
  OBVIOUS
<1>8. \A i \in DOMAIN buffer' : buffer'[i] = received' - Len(buffer') + i
  BY <1>5
<1>9. \A m \in 1 .. received' :
         (m > mark' /\ m > received' - BufferMax) \/ BufferMax = 0
             => m \in Members(delivered') \/ m \in Members(buffer')
  <2> SUFFICES ASSUME NEW m \in 1 .. received', m > mark', m > received' - BufferMax
               PROVE  m \in Members(delivered') \/ m \in Members(buffer')
    OBVIOUS
  <2>1. mark' = mark /\ delivered' = delivered /\ received' = received + 1
    BY <1>7
  <2>2. m \in 1 .. received + 1 /\ m > mark /\ m > received + 1 - BufferMax
    BY <1>0, <2>1
  <2>3. m \in Members(delivered) \/ m \in Members(buffer')
    BY <1>6, <2>2
  <2> QED  BY <2>1, <2>3
<1> QED  BY <1>8, <1>9 DEF Kept

\* What does not touch the messages, or gives up the object, keeps it.
LEMMA KeptStep ==
    ASSUME Armed, Sorted, Kept, mark \in Nat, [Next]_vars
    PROVE  Kept' /\ mark' \in Nat
<1>0. received \in Nat /\ buffer \in Seq(Nat) /\ delivered \in Seq(Nat)
  BY DEF Sorted
<1>1. CASE UNCHANGED <<received, buffer, delivered, mark>> /\ (options' => options)
  BY <1>1 DEF Kept
<1>2. CASE ~options' /\ mark' = mark
  BY <1>2 DEF Kept
<1>3. CASE Deliver /\ UNCHANGED <<received, mark, options>>
  <2>1. delivered' = delivered \o buffer /\ buffer' = <<>> /\ DOMAIN <<>> = {}
    BY <1>3 DEF Deliver
  <2>2. \A m : m \in Members(delivered') <=> m \in Members(delivered) \/ m \in Members(buffer)
    BY <1>0, <2>1, MembersOfConcat
  <2> QED  BY <1>3, <2>1, <2>2 DEF Kept
<1>4. CASE UNCHANGED vars
  BY <1>1, <1>4 DEF vars, conn, data
<1>5. CASE AttemptThrows \/ AttemptStops \/ Pause
  BY <1>1, <1>5 DEF AttemptThrows, AttemptStops, Pause, data, conn
<1>6. CASE AttemptTimesOut \/ Destroy
  BY <1>2, <1>6 DEF AttemptTimesOut, Destroy, TearDown
<1>7. CASE AttemptConnects
  <2>1. /\ buffer' = <<>> /\ mark' = received /\ DOMAIN <<>> = {}
        /\ UNCHANGED <<received, delivered, options>> /\ options
    BY <1>7 DEF AttemptConnects, Connect, Trying
  <2>2. ASSUME NEW m \in 1 .. received', BufferMax = 0
        PROVE  m \in Members(delivered')
    <3>1. buffer = <<>> /\ DOMAIN <<>> = {}
      BY <2>2 DEF Sorted
    <3>2. m \in Members(delivered) \/ m \in Members(buffer)
      BY <2>1, <2>2 DEF Kept
    <3>3. m \notin Members(buffer)
      BY <3>1 DEF Members
    <3> QED  BY <2>1, <3>2, <3>3
  <2>3. \A m \in 1 .. received' : ~(m > mark')
    BY <1>0, <2>1
  <2> QED  BY <1>0, <2>1, <2>2, <2>3 DEF Kept
<1>8. CASE Flush \/ Unpause
  BY <1>3, <1>8 DEF Flush, Unpause, conn
<1>9. ASSUME NEW s \in Socket, OnOpen(s) \/ OnError(s)
      PROVE  Kept' /\ mark' \in Nat
  BY <1>1, <1>9 DEF OnOpen, OnError, data
<1>10. ASSUME NEW s \in Socket, OnClose(s)
       PROVE  Kept' /\ mark' \in Nat
  BY <1>1, <1>2, <1>10 DEF OnClose, TearDown
<1>11. ASSUME NEW s \in Socket, OnMessage(s)
       PROVE  Kept' /\ mark' \in Nat
  <2>1. received' = received + 1 /\ UNCHANGED <<options, mark>>
    BY <1>11 DEF OnMessage
  <2>2. CASE ~options
    BY <2>1, <2>2 DEF Kept
  <2>3. CASE options /\ BufferMax = 0
    <3>1. state # "destroyed"
      BY <2>3 DEF Armed
    <3>2. delivered' = Append(delivered, received + 1) /\ buffer' = buffer
      BY <1>11, <2>1, <2>3, <3>1 DEF OnMessage
    <3>3. buffer = <<>> /\ DOMAIN <<>> = {}
      BY <2>3 DEF Sorted
    <3>4. ASSUME NEW m \in 1 .. received + 1
          PROVE  m \in Members(delivered') \/ m \in Members(buffer')
      <4>1. CASE m = received + 1
        BY <1>0, <3>2, <4>1, MembersOfAppend
      <4>2. CASE m # received + 1
        <5>1. m \in 1 .. received
          BY <1>0, <4>2
        <5>2. m \in Members(delivered) \/ m \in Members(buffer)
          BY <2>3, <5>1 DEF Kept
        <5> QED  BY <1>0, <3>2, <5>2, MembersOfAppend
      <4> QED  BY <4>1, <4>2
    <3> QED  BY <2>1, <3>2, <3>3, <3>4 DEF Kept
  <2>4. CASE options /\ BufferMax # 0
    <3>1. state # "destroyed"
      BY <2>4 DEF Armed
    <3>2. buffer' = Buffered /\ UNCHANGED delivered
      BY <1>11, <2>4, <3>1 DEF OnMessage
    <3> QED  BY <2>1, <2>4, <3>2, BufferedKeeps, NumbersAssumption
  <2> QED  BY <2>2, <2>3, <2>4
<1> QED  BY <1>4, <1>5, <1>6, <1>7, <1>8, <1>9, <1>10, <1>11, NextCases

LEMMA KeptInit == Init => Kept /\ mark \in Nat
<1>1. DOMAIN <<>> = {} /\ 0 \in Nat /\ 1 .. 0 = {}
  OBVIOUS
<1> QED  BY <1>1 DEF Init, Kept

\* Until it is destroyed the object loses only messages that a reconnect or
\* bufferMax newer ones made old, for any size of the buffer and any order of
\* pausing, flushing and reconnecting (ws-factory.js:159-176, 209-225).
THEOREM LastMessagesAreKept == Spec => []RecentKept
<1>1. Sorted /\ Kept => RecentKept
  BY MembersOfConcat DEF Sorted, Kept, RecentKept
<1>2. Inv /\ Sorted /\ (Kept /\ mark \in Nat) /\ [Next]_vars => (Kept /\ mark \in Nat)'
  BY KeptStep DEF Inv
<1>3. Sorted /\ [Next]_vars => Sorted'
  BY SortedStep
<1> QED  BY <1>1, <1>2, <1>3, SortedInit, KeptInit, InvHolds, PTL DEF Spec
-----------------------------------------------------------------------------
(* destroy, where nothing retries *)

OnlyOne ==
    /\ ws \in Socket \cup {"none"}
    /\ ~reconnect => \A s \in Socket : sock[s].bound => s = ws
    /\ state = "destroyed" => ws = "none"

LEMMA OnlyOneStep ==
    ASSUME ControlTypeOK, OnlyOne, [Next]_vars
    PROVE  OnlyOne'
<1>1. CASE UNCHANGED <<reconnect, ws, sock>> /\ (state' = "destroyed" => state = "destroyed")
  BY <1>1 DEF OnlyOne
<1>2. CASE TearDown /\ UNCHANGED reconnect
           /\ \A o \in Socket : sock'[o].bound => sock[o].bound /\ o # ws
  BY <1>2 DEF OnlyOne, TearDown
<1>3. \A o \in Socket : Detached[o].bound => sock[o].bound /\ o # ws
  BY SocketAssumption DEF ControlTypeOK, Detached, Unused
<1>4. CASE UNCHANGED vars
  BY <1>1, <1>4 DEF vars, conn
<1>5. CASE AttemptThrows \/ AttemptStops \/ Flush \/ Pause \/ Unpause
  BY <1>1, <1>5 DEF AttemptThrows, AttemptStops, Flush, Pause, Unpause, conn
<1>6. CASE AttemptTimesOut \/ Destroy
  BY <1>2, <1>3, <1>6 DEF AttemptTimesOut, Destroy
<1>7. CASE AttemptConnects
  <2>1. reconnect /\ reconnect' /\ state' = "init"
    BY <1>7 DEF AttemptConnects, Trying, Connect
  <2>2. ws' \in Socket \cup {"none"}
    BY <1>7 DEF AttemptConnects, Connect, OnlyOne
  <2> QED  BY <2>1, <2>2 DEF OnlyOne
<1>8. ASSUME NEW s \in Socket, OnOpen(s) \/ OnError(s) \/ OnMessage(s)
      PROVE  OnlyOne'
  <2>1. /\ UNCHANGED <<reconnect, ws>>
        /\ state' = "destroyed" => state = "destroyed"
    BY <1>8 DEF OnOpen, OnError, OnMessage
  <2>2. \A o \in Socket : sock'[o].bound = sock[o].bound
    BY <1>8, PhaseType DEF OnOpen, OnError, OnMessage, Moved, ControlTypeOK, Phases
  <2> QED  BY <2>1, <2>2 DEF OnlyOne
<1>9. ASSUME NEW s \in Socket, OnClose(s)
      PROVE  OnlyOne'
  <2>0. "closed" \in Phases /\ UNCHANGED reconnect
    BY <1>9 DEF Phases, OnClose
  <2>1. CASE state' = "closed" /\ sock' = Moved(sock, s, "closed") /\ UNCHANGED ws
    <3>0. sock \in [Socket -> SocketState]
      BY DEF ControlTypeOK
    <3>1. \A o \in Socket : sock'[o].bound = sock[o].bound
      BY <2>1, <3>0 DEF Moved
    <3> QED  BY <2>0, <2>1, <3>1 DEF OnlyOne
  <2>2. CASE TearDown /\ sock' = Moved(Detached, s, "closed")
    <3>1. \A o \in Socket : sock'[o].bound = Detached[o].bound
      BY <2>0, <2>2, PhaseType, DetachedType
    <3> QED  BY <1>2, <1>3, <2>0, <2>2, <3>1
  <2> QED  BY <1>9, <2>1, <2>2 DEF OnClose
<1> QED  BY <1>4, <1>5, <1>6, <1>7, <1>8, <1>9, NextCases

LEMMA OnlyOneInit == Init => OnlyOne
<1> SUFFICES ASSUME Init PROVE OnlyOne
  OBVIOUS
<1>1. PICK s \in Socket :
         /\ ws = IF works THEN s ELSE "none"
         /\ sock = [o \in Socket |-> IF works /\ o = s THEN Connecting ELSE Unused]
  BY DEF Init
<1> QED  BY <1>1 DEF Init, OnlyOne, Unused

\* Where nothing retries, no event brings a destroyed object back to life
\* (ws-factory.js:249-282).
THEOREM DestroyIsFinal == Spec => FinalWithoutRetry
<1>1. OnlyOne /\ [Next]_vars => [~reconnect /\ state = "destroyed" => state' = "destroyed"]_vars
  <2> SUFFICES ASSUME OnlyOne, Next, ~reconnect, state = "destroyed"
               PROVE  state' = "destroyed"
    OBVIOUS
  <2>1. \A s \in Socket : ~sock[s].bound
    BY SocketAssumption DEF OnlyOne
  <2>2. \A s \in Socket : ~OnOpen(s) /\ ~OnClose(s) /\ ~OnError(s) /\ ~OnMessage(s)
    BY <2>1 DEF OnOpen, OnClose, OnError, OnMessage, Live, Connecting
  <2>3. ~AttemptTimesOut /\ ~AttemptConnects
    BY DEF AttemptTimesOut, AttemptConnects, Trying
  <2>4. CASE AttemptThrows \/ AttemptStops \/ Flush \/ Pause \/ Unpause \/ Destroy
    BY <2>4 DEF AttemptThrows, AttemptStops, Flush, Pause, Unpause, Destroy, conn, TearDown
  <2> QED  BY <2>2, <2>3, <2>4, NextCases
<1>2. ControlTypeOK /\ OnlyOne /\ [Next]_vars => OnlyOne'
  BY OnlyOneStep
<1>3. Inv => ControlTypeOK
  BY DEF Inv
<1> QED  BY <1>1, <1>2, <1>3, OnlyOneInit, InvHolds, PTL DEF Spec, FinalWithoutRetry
=============================================================================
