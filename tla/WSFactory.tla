----------------------------- MODULE WSFactory -----------------------------
(***************************************************************************)
(* The reconnecting WebSocket wrapper of the front end                     *)
(* (src/frontend/public/module/ws-factory.js): one WSFactory object, the   *)
(* browser sockets it has opened, its timers and its message buffer.       *)
(*                                                                         *)
(* Every event handler and timer callback runs to its end and is one       *)
(* action.  A retry opens a socket without closing the one before, whose   *)
(* handlers still act on the object: sockets are told apart here.          *)
(***************************************************************************)
EXTENDS Integers, Sequences

CONSTANTS
    Socket,         \* browser sockets, used again once closed (bound)
    Timeouts,       \* the values of options.timeout, 0 when missing
    BufferMax,      \* options.bufferMax, 0 when missing
    InitialDelay,   \* 1000 in _reconnect
    MaxDelay,       \* 60000 in _reconnect
    MaxMessages,    \* bound: messages the server sends
    MaxFailures,    \* bound: closes and errors of sockets
    MaxWait         \* bound: where the history of waiting stops counting

ASSUME NumbersAssumption ==
    /\ Timeouts \subseteq Nat /\ BufferMax \in Nat /\ MaxMessages \in Nat
    /\ MaxFailures \in Nat /\ MaxWait \in Nat
ASSUME DelayAssumption == InitialDelay \in Nat /\ MaxDelay \in Nat /\ InitialDelay <= MaxDelay
ASSUME SocketAssumption == "none" \notin Socket

VARIABLES
    reconnect,  \* options.reconnect
    timeout,    \* options.timeout
    works,      \* new WebSocket(url) returns; FALSE: it throws, each time
    state,      \* this._state
    ws,         \* this.ws
    sock,       \* the browser's sockets
    attempt,    \* this._connectionAttempt
    delay,      \* the delay of the running series of attempts
    paused,     \* this._paused
    buffer,     \* this._messageBuffer
    options,    \* this.options is still there
    received,   \* how many messages arrived; they are numbered by arrival
    delivered,  \* history: the messages given to the handlers, in order
    mark,       \* history: the messages received before the last _connect
    waited,     \* history: time waited since a connection was open
    failures    \* what is left of MaxFailures

conn == <<state, ws, sock, attempt, delay, options>>
data == <<paused, buffer, received, delivered, mark>>
vars == <<reconnect, timeout, works, conn, data, waited, failures>>

States == {"init", "open", "closed", "error", "destroyed"}

\* bound: the socket's four handlers are those of _connect.
Phases == {"connecting", "open", "failing", "closed"}
SocketState == [phase : Phases, bound : BOOLEAN]
Unused == [phase |-> "closed", bound |-> FALSE]
Connecting == [phase |-> "connecting", bound |-> TRUE]

\* null; armed: the id of a pending timeout; spent: an id that was never
\* set to null although its timeout is gone.
Attempts == {"null", "armed", "spent"}

Smaller(a, b) == IF a < b THEN a ELSE b
Longer(d) == Smaller((3 * d + 1) \div 2, MaxDelay)   \* Math.round(1.5 * d)

Moved(f, s, p) == [f EXCEPT ![s] = [phase |-> p, bound |-> f[s].bound]]

Live(s) == sock[s].bound /\ sock[s].phase # "closed"

-----------------------------------------------------------------------------
(* The methods the handlers share.  Each constrains conn, buffer and mark. *)

\* _reconnect
StartSeries ==
    IF attempt # "null" \/ state' = "destroyed"
    THEN UNCHANGED <<attempt, delay>>
    ELSE attempt' = "armed" /\ delay' = InitialDelay

\* _connect once the object exists: the socket before it stays as it is.
Connect ==
    /\ state' = "init"
    /\ buffer' = <<>>
    /\ mark' = received
    /\ IF works
         THEN \E s \in Socket :
                /\ sock[s].phase = "closed"
                /\ ws' = s
                /\ sock' = [sock EXCEPT ![s] = Connecting]
         ELSE UNCHANGED <<ws, sock>>

\* destroy past its early return: only the current socket is closed and
\* loses its handlers; the timer is cleared but its id stays.
TearDown ==
    /\ state' = "destroyed"
    /\ ws' = "none"
    /\ options' = FALSE
    /\ buffer' = <<>>
    /\ UNCHANGED mark

\* Fault: the closed socket keeps its handlers.
Detached_KeepsHandlers == sock

Detached == IF ws = "none" THEN sock ELSE [sock EXCEPT ![ws] = Unused]
Cleared == IF attempt = "armed" THEN "spent" ELSE attempt

Init ==
    /\ reconnect \in BOOLEAN /\ timeout \in Timeouts /\ works \in BOOLEAN
    /\ state = "init"
    /\ \E s \in Socket :
         /\ ws = IF works THEN s ELSE "none"
         /\ sock = [o \in Socket |-> IF works /\ o = s THEN Connecting ELSE Unused]
    /\ attempt = IF works THEN "null" ELSE "armed"
    /\ delay = InitialDelay
    /\ paused = FALSE /\ buffer = <<>> /\ options = TRUE
    /\ received = 0 /\ delivered = <<>> /\ mark = 0
    /\ waited = 0 /\ failures = MaxFailures

-----------------------------------------------------------------------------
(* The timer of _reconnect: attempt() *)

\* destroy deleted this.options: attempt() throws before it re-arms itself.
AttemptThrows ==
    /\ attempt = "armed" /\ ~options
    /\ attempt' = "spent"
    /\ UNCHANGED <<reconnect, timeout, works, state, ws, sock, delay, options, data, waited, failures>>

AttemptStops ==
    /\ attempt = "armed" /\ options
    /\ ~reconnect \/ state = "open"
    /\ attempt' = "null"
    /\ UNCHANGED <<reconnect, timeout, works, state, ws, sock, delay, options, data, waited, failures>>

Trying == attempt = "armed" /\ options /\ reconnect /\ state # "open"

\* Fault: >= in place of >.
AttemptTimesOut_Early ==
    /\ Trying
    /\ timeout # 0 /\ delay >= timeout
    /\ TearDown
    /\ sock' = Detached
    /\ attempt' = "null"
    /\ UNCHANGED <<reconnect, timeout, works, delay, paused, received, delivered, waited, failures>>

AttemptTimesOut ==
    /\ Trying
    /\ timeout # 0 /\ delay > timeout
    /\ TearDown
    /\ sock' = Detached
    /\ attempt' = "null"
    /\ UNCHANGED <<reconnect, timeout, works, delay, paused, received, delivered, waited, failures>>

AttemptConnects ==
    /\ Trying
    /\ timeout = 0 \/ delay <= timeout
    /\ Connect
    /\ delay' = Longer(delay)
    /\ waited' = Smaller(waited + delay, MaxWait)
    /\ UNCHANGED <<reconnect, timeout, works, attempt, options, paused, received, delivered, failures>>

-----------------------------------------------------------------------------
(* The handlers of a socket; destroy takes them away from the current one *)

\* Fault: the timer is cleared, its id is not.
OnOpen_KeepsId(s) ==
    /\ sock[s] = Connecting
    /\ sock' = Moved(sock, s, "open")
    /\ state' = "open"
    /\ attempt' = IF attempt = "armed" THEN "spent" ELSE attempt
    /\ waited' = 0
    /\ UNCHANGED <<reconnect, timeout, works, ws, delay, options, data, failures>>

OnOpen(s) ==
    /\ sock[s] = Connecting
    /\ sock' = Moved(sock, s, "open")
    /\ state' = "open"
    /\ attempt' = "null"
    /\ waited' = 0
    /\ UNCHANGED <<reconnect, timeout, works, ws, delay, options, data, failures>>

\* The close handler of the user may destroy the object (k8s-actions.ts:210,
\* pod-exec.jsx); then _reconnect returns at once.
OnClose(s) ==
    /\ Live(s)
    /\ IF sock[s].phase = "failing" THEN UNCHANGED failures
       ELSE failures > 0 /\ failures' = failures - 1
    /\ \/ /\ state' = "closed"
          /\ sock' = Moved(sock, s, "closed")
          /\ StartSeries
          /\ UNCHANGED <<ws, options, buffer, mark>>
       \/ /\ TearDown
          /\ sock' = Moved(Detached, s, "closed")
          /\ attempt' = Cleared
          /\ UNCHANGED delay
    /\ UNCHANGED <<reconnect, timeout, works, paused, received, delivered, waited>>

\* The browser reports an error, then closes the socket.
OnError(s) ==
    /\ Live(s) /\ sock[s].phase # "failing"
    /\ failures > 0 /\ failures' = failures - 1
    /\ sock' = Moved(sock, s, "failing")
    /\ state' = "error"
    /\ UNCHANGED <<reconnect, timeout, works, ws, attempt, delay, options, data, waited>>

\* Fault: a full buffer refuses the new message.
Buffered_Refuses == IF Len(buffer) = BufferMax THEN buffer ELSE Append(buffer, received')

Buffered == Append(IF Len(buffer) = BufferMax THEN Tail(buffer) ELSE buffer, received')

\* "In some browsers, onmessage can fire after onclose/error."
OnMessage(s) ==
    /\ sock[s].bound /\ sock[s].phase # "connecting"
    /\ received < MaxMessages /\ received' = received + 1
    /\ state' = IF state \in {"destroyed", "closed"} THEN state ELSE "open"
    /\ IF state = "destroyed" THEN UNCHANGED <<buffer, delivered>>
       ELSE IF BufferMax = 0 THEN /\ delivered' = Append(delivered, received')
                                  /\ UNCHANGED buffer
       ELSE /\ buffer' = Buffered
            /\ UNCHANGED delivered
    /\ UNCHANGED <<reconnect, timeout, works, ws, sock, attempt, delay, options, paused, mark, waited, failures>>

-----------------------------------------------------------------------------
(* The buffer and the user *)

\* Fault: the buffer is not emptied.
Deliver_KeepsBuffer ==
    /\ delivered' = delivered \o buffer
    /\ UNCHANGED buffer

\* flushMessageBuffer gives the buffer to the handlers and empties it.
Deliver ==
    /\ delivered' = delivered \o buffer
    /\ buffer' = <<>>

\* The interval of the constructor; destroy clears it.
Flush ==
    /\ options /\ ~paused /\ buffer # <<>>
    /\ Deliver
    /\ UNCHANGED <<reconnect, timeout, works, conn, paused, received, mark, waited, failures>>

Pause ==
    /\ ~paused /\ paused' = TRUE
    /\ UNCHANGED <<reconnect, timeout, works, conn, buffer, received, delivered, mark, waited, failures>>

Unpause ==
    /\ paused /\ paused' = FALSE
    /\ Deliver
    /\ UNCHANGED <<reconnect, timeout, works, conn, received, mark, waited, failures>>

Destroy ==
    /\ state # "destroyed"
    /\ TearDown
    /\ sock' = Detached
    /\ attempt' = Cleared
    /\ UNCHANGED <<reconnect, timeout, works, delay, paused, received, delivered, waited, failures>>

Attempt == AttemptThrows \/ AttemptStops \/ AttemptTimesOut \/ AttemptConnects
SocketEvent(s) == OnOpen(s) \/ OnClose(s) \/ OnError(s) \/ OnMessage(s)
User == Pause \/ Unpause \/ Destroy

Next == Attempt \/ (\E s \in Socket : SocketEvent(s)) \/ Flush \/ User

Spec == Init /\ [][Next]_vars

\* Timers fire, a connecting socket opens unless it fails, one that failed is
\* closed; nothing makes the server send, a socket fail or the user act.
FairSpec ==
    /\ Spec
    /\ WF_vars(Attempt) /\ WF_vars(Flush)
    /\ \A s \in Socket : WF_vars(OnOpen(s)) /\ WF_vars(sock[s].phase = "failing" /\ OnClose(s))

-----------------------------------------------------------------------------
\* What it promises to k8sWatch, pod exec and the log viewer.

\* The shape of the object: its buffer never outgrows bufferMax
\* (ws-factory.js:165-173) and the retry delay never leaves its range.
TypeOK ==
    /\ reconnect \in BOOLEAN /\ timeout \in Timeouts /\ works \in BOOLEAN
    /\ state \in States
    /\ ws \in Socket \cup {"none"}
    /\ sock \in [Socket -> SocketState]
    /\ attempt \in Attempts
    /\ delay \in InitialDelay .. MaxDelay
    /\ paused \in BOOLEAN /\ options \in BOOLEAN
    /\ buffer \in Seq(1 .. MaxMessages) /\ Len(buffer) <= BufferMax
    /\ received \in 0 .. MaxMessages /\ mark \in 0 .. received
    /\ delivered \in Seq(1 .. MaxMessages)
    /\ waited \in 0 .. MaxWait /\ failures \in 0 .. MaxFailures

Increasing(seq) == \A i, j \in DOMAIN seq : i < j => seq[i] < seq[j]

\* Through buffering, pausing, overflow and reconnecting, the handlers get
\* every message at most once and in the order of arrival (flushMessageBuffer,
\* ws-factory.js:209-225).
InOrderOnce == Increasing(delivered \o buffer)

Members(seq) == {seq[i] : i \in DOMAIN seq}

\* Only the oldest messages are lost: the last bufferMax of those that
\* arrived since the last _connect were delivered or wait in the buffer
\* (ws-factory.js:165-173); without a buffer every message was delivered.
RecentKept ==
    options =>
        \A m \in 1 .. received :
            (m > mark /\ m > received - BufferMax) \/ BufferMax = 0
                => m \in Members(delivered \o buffer)

\* An object that should reconnect and was not destroyed is never left with
\* neither a socket that can still report nor a pending attempt, whichever of
\* its sockets closes, in whatever order (_reconnect, ws-factory.js:65-92).
NeverStuck ==
    options /\ reconnect => attempt = "armed" \/ \E s \in Socket : Live(s)

\* When the delay is capped at or below the timeout, as for k8sWatch (both
\* 60000 ms), no attempt destroys the object (ws-factory.js:78-86): it is its
\* user who does, in destroy() or in the close handler.
UserDestroys ==
    [][MaxDelay <= timeout /\ options /\ ~options'
         => Destroy \/ \E s \in Socket : OnClose(s)]_vars

\* Where nothing retries, as in the log viewer, no second socket exists and
\* destroy() is final: it takes the handlers of the only one that could still
\* report (ws-factory.js:264-270).
FinalWithoutRetry == [][~reconnect /\ state = "destroyed" => state' = "destroyed"]_vars

\* destroy() is final: no event of a socket brings the object back to life
\* (ws-factory.js:129, 160: every handler asks for 'destroyed').
DestroyedIsFinal == [][state = "destroyed" => state' = "destroyed"]_vars

\* A connection that cannot be established is given up in a time within
\* reach of options.timeout (ws-factory.js:78-83), here three times as much.
GivesUp == options /\ timeout # 0 => waited <= 3 * timeout

\* So it is where the timeout is below the largest delay.
GivesUpBelow == timeout < MaxDelay => GivesUp

\* A closed connection is open again in the end, or the object is destroyed.
Recovers == (state = "closed" /\ options /\ reconnect) ~> (state = "open" \/ ~options)
=============================================================================
