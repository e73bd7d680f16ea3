------------------------------ MODULE PodPages ------------------------------
(***************************************************************************)
(* The log of a pod: components/pod-logs.jsx chooses the container,        *)
(* utils/resource-log.jsx streams its log, utils/line-buffer.ts cuts it    *)
(* into lines and utils/log-window.jsx shows them.  The socket is a        *)
(* WSFactory that does not reconnect.  A line is the set of the streams    *)
(* its text came from; a message of several lines is several messages.     *)
(***************************************************************************)
EXTENDS Integers, Sequences

CONSTANTS
    Container,   \* containers of the pod
    BufferSize,  \* bufferSize, 1000
    MaxStreams,  \* bound: sockets
    MaxTexts,    \* bound: messages of one socket
    MaxMoves     \* bound: changes of the containers' states

ASSUME LogAssumption ==
    /\ Container # {} /\ BufferSize \in Nat \ {0}
    /\ MaxStreams \in Nat /\ MaxTexts \in Nat /\ MaxMoves \in Nat

VARIABLES
    statuses,  \* the state of each container
    currentKey,\* PodLogs: the container shown
    resource,  \* ResourceLog: state.resourceStatus
    status,    \* ResourceLog: state.status
    notices,   \* ResourceLog: which of state.error and state.stale are set
    logSocket, \* the socket this.ws
    streams,   \* the number of the last stream
    buffer, tail, \* LineBuffer
    lines,     \* ResourceLog: state.lines
    behind,    \* ResourceLog: state.linesBehind
    content,   \* LogWindow: state.content
    texts, moves \* what is left of the bounds

pod == <<statuses, currentKey, moves>>
lineBuffer == <<buffer, tail>>
view == <<resource, status, notices, lines, behind, content>>
logVars == <<pod, view, logSocket, streams, lineBuffer, texts>>

Line == SUBSET (1 .. MaxStreams)
Sources == {"waiting", "running", "restarting", "terminated"}
Logged == Sources \ {"waiting"}

LogInit ==
    /\ statuses = [c \in Container |-> "waiting"]
    /\ currentKey = (CHOOSE c \in Container : TRUE) /\ moves = MaxMoves
    /\ resource = "waiting" /\ status = "loading" /\ notices = {}
    /\ logSocket = "none" /\ streams = 0 /\ texts = MaxTexts
    /\ buffer = <<>> /\ tail = {} /\ lines = <<>> /\ behind = 0 /\ content = <<>>

-----------------------------------------------------------------------------
(* The socket *)

\* _wsDestroy and _wsInit: a container that waits gets no socket.
WsInit(source) ==
    /\ logSocket' = IF source \in Logged THEN "connecting" ELSE "none"
    /\ texts' = MaxTexts

\* The window keeps its content while the stream is paused.
Displayed == content' = IF status' = "paused" THEN content ELSE lines'

\* Fault: the lines of the stream before stay in the buffer.
Opened_Keeps == UNCHANGED lineBuffer

\* clear() keeps the tail.
Opened == buffer' = <<>> /\ UNCHANGED tail

UpdateStatus(new) ==
    /\ status' = new
    /\ behind' = IF status # "streaming" /\ new = "streaming" THEN 0 ELSE behind

LogOpens ==
    /\ logSocket = "connecting" /\ streams < MaxStreams
    /\ logSocket' = "open" /\ streams' = streams + 1
    /\ Opened
    /\ UpdateStatus("streaming")
    /\ UNCHANGED <<pod, resource, notices, lines, texts>>
    /\ Displayed

\* Fault: the buffer drops its first line one line late.
Ingest_Late(ends) ==
    LET line == tail \cup {streams}
        full == Len(buffer) > BufferSize
    IN  IF ends
        THEN tail' = {} /\ buffer' = Append(IF full THEN Tail(buffer) ELSE buffer, line)
        ELSE tail' = line /\ UNCHANGED buffer

\* LineBuffer.ingest of a text that ends its line, or does not.
Ingest(ends) ==
    LET line == tail \cup {streams}
        full == Len(buffer) = BufferSize
    IN  IF ends
        THEN /\ tail' = {}
             /\ buffer' = Append(IF full THEN Tail(buffer) ELSE buffer, line)
        ELSE tail' = line /\ UNCHANGED buffer

LogMessage(ends) ==
    /\ logSocket = "open" /\ texts > 0
    /\ texts' = texts - 1
    /\ Ingest(ends)
    /\ lines' = buffer'
    /\ behind' = IF status = "paused" /\ ends THEN behind + 1 ELSE behind
    /\ UNCHANGED <<pod, resource, status, notices, logSocket, streams>>
    /\ Displayed

\* onclose, after onerror when the connection was not closed cleanly.
LogCloses ==
    /\ logSocket \in {"connecting", "open"}
    /\ logSocket' = "closed"
    /\ status' = "eof"
    /\ \E error \in SUBSET {"error"} : notices' = notices \cup error
    /\ UNCHANGED <<pod, resource, streams, lineBuffer, lines, behind, texts>>
    /\ Displayed

-----------------------------------------------------------------------------
(* The user and the pod *)

RestartStream(source) ==
    /\ status' = "loading" /\ notices' = {}
    /\ lines' = <<>> /\ behind' = 0
    /\ WsInit(source)

Restarts(key, source) == key # currentKey \/ (resource = "waiting" /\ source # "waiting")

\* getDerivedStateFromProps and componentDidUpdate.
Receives(key, source) ==
    /\ resource' = source
    /\ IF Restarts(key, source)
       THEN RestartStream(source)
       ELSE /\ notices' = IF resource = "restarting" /\ source # "restarting"
                          THEN notices \cup {"stale"} ELSE notices
            /\ UNCHANGED <<status, lines, behind, logSocket, texts>>
    /\ UNCHANGED <<streams, lineBuffer>>
    /\ Displayed

SelectContainer(c) ==
    /\ c # currentKey
    /\ currentKey' = c
    /\ Receives(c, statuses[c])
    /\ UNCHANGED <<statuses, moves>>

NextStates == [waiting |-> {"running"}, running |-> {"terminated", "restarting"},
               terminated |-> {"restarting", "running"}, restarting |-> {"running"}]

ContainerMoves(c) ==
    /\ moves > 0 /\ moves' = moves - 1
    /\ \E s \in NextStates[statuses[c]] : statuses' = [statuses EXCEPT ![c] = s]
    /\ Receives(currentKey, statuses'[currentKey])
    /\ UNCHANGED currentKey

\* The buttons beside "may be stale" and "an error occured".
Refresh ==
    /\ notices # {}
    /\ RestartStream(resource)
    /\ UNCHANGED <<pod, resource, streams, lineBuffer>>
    /\ Displayed

\* The window is scrolled, by the user or because its content got shorter.
Scroll(up) ==
    /\ status # "eof" /\ (up => content # <<>>)
    /\ IF up THEN status # "paused" /\ UpdateStatus("paused") ELSE UpdateStatus("streaming")
    /\ UNCHANGED <<pod, resource, notices, lines, logSocket, streams, lineBuffer, texts>>
    /\ Displayed

LogToggle ==
    /\ status \in {"streaming", "paused"}
    /\ UpdateStatus(IF status = "streaming" THEN "paused" ELSE "streaming")
    /\ UNCHANGED <<pod, resource, notices, lines, logSocket, streams, lineBuffer, texts>>
    /\ Displayed

LogNext ==
    \/ LogOpens \/ LogCloses \/ (\E ends \in BOOLEAN : LogMessage(ends))
    \/ (\E c \in Container : SelectContainer(c) \/ ContainerMoves(c))
    \/ Refresh \/ LogToggle \/ (\E up \in BOOLEAN : Scroll(up))

LogSpec == LogInit /\ [][LogNext]_logVars

-----------------------------------------------------------------------------
LogTypeOK ==
    /\ statuses \in [Container -> Sources] /\ currentKey \in Container /\ resource \in Sources
    /\ status \in {"loading", "streaming", "paused", "eof"} /\ notices \subseteq {"error", "stale"}
    /\ logSocket \in {"none", "connecting", "open", "closed"} /\ streams \in 0 .. MaxStreams
    /\ buffer \in Seq(Line) /\ Len(buffer) <= BufferSize /\ tail \in Line
    /\ lines \in Seq(Line) /\ content \in Seq(Line)
    /\ behind \in 0 .. MaxTexts /\ texts \in 0 .. MaxTexts /\ moves \in 0 .. MaxMoves

\* "Resume stream and show n new lines" counts what came since the pause,
\* through closed sockets, other containers and restarts
\* (log-window.jsx:104-106, resource-log.jsx:157-160, 203-212).
BehindIsCounted ==
    status = "paused" /\ Len(lines) < BufferSize => Len(lines) = Len(content) + behind

\* Whatever a container went through, its log has a socket as soon as there is
\* a log, and one that has ended says so (resource-log.jsx:111-119, 220-245).
LogIsFollowed ==
    resource # "waiting" =>
        logSocket # "none" /\ (logSocket = "closed" => status = "eof")

\* All lines on the screen but the first come from the stream that is open
\* (resource-log.jsx:165-182).
LaterLinesAreOurs == \A i \in 2 .. Len(lines) : lines[i] = {streams}

\* Every line on the screen comes from the stream that is open
\* (line-buffer.ts:36-38).
LinesAreOurs == \A i \in 1 .. Len(lines) : lines[i] = {streams}

-----------------------------------------------------------------------------
(***************************************************************************)
(* The terminal of a pod: components/pod-exec.jsx runs a shell over a      *)
(* WSFactory that reconnects (module WSFactory) and components/terminal.jsx*)
(* shows it.  What the terminal shows is the set of sessions, one for each *)
(* socket that opened, whose output is on it.                              *)
(***************************************************************************)

CONSTANTS
    Shell,        \* containers of the pod with a shell
    NoShell,      \* containers without
    MaxSessions   \* bound: sockets that open

ASSUME ExecAssumption == Shell \cup NoShell # {} /\ Shell \cap NoShell = {} /\ MaxSessions \in Nat

VARIABLES
    active,    \* state.activeContainer
    shown,     \* what is rendered: the loading box, state.error or the Terminal
    execLink,  \* the socket this.ws
    session,   \* the number of the last session and its container
    previous,  \* the last data: whether it says that there is no shell
    screen,    \* sessions whose output the terminal shows
    stdin      \* the terminal takes input

execVars == <<active, shown, execLink, session, previous, screen, stdin>>

ExecInit ==
    /\ active = (CHOOSE c \in Shell \cup NoShell : TRUE)
    /\ shown = "loading" /\ execLink = "none"
    /\ session = [no |-> 0, of |-> active] /\ previous = "none"
    /\ screen = {} /\ stdin = TRUE

\* onConnectionClosed of the terminal, when there is one.
ConnectionClosed == stdin' = (stdin /\ shown # "terminal")

\* Fault: onopen leaves the terminal as it is.
Reset_Skipped == UNCHANGED <<screen, stdin>>

\* reset of the terminal, or a new one.
Reset == screen' = {} /\ stdin' = TRUE

\* componentDidMount.
ExecMount ==
    /\ execLink = "none"
    /\ execLink' = "connecting"
    /\ UNCHANGED <<active, shown, session, previous, screen, stdin>>

\* onopen: a terminal that was not there is mounted by setState.
ExecOpens ==
    /\ execLink = "connecting" /\ session.no < MaxSessions
    /\ execLink' = "open"
    /\ session' = [no |-> session.no + 1, of |-> active]
    /\ previous' = "none" /\ shown' = "terminal"
    /\ Reset
    /\ UNCHANGED active

Output ==
    /\ execLink = "open"
    /\ screen' = screen \cup {session.no}
    /\ previous' = IF session.of \in NoShell THEN "no shell" ELSE "other"
    /\ UNCHANGED <<active, shown, execLink, session, stdin>>

\* The error channel after "executable file not found".
NoShellError ==
    /\ execLink = "open" /\ previous = "no shell"
    /\ execLink' = "destroyed"
    /\ screen' = {} /\ ConnectionClosed
    /\ previous' = "none"
    /\ UNCHANGED <<active, shown, session>>

\* onclose: after a clean one the socket reconnects, another is final.
ExecCloses(clean) ==
    /\ execLink = "open" \/ (execLink = "connecting" /\ ~clean)
    /\ IF clean
       THEN execLink' = "connecting" /\ UNCHANGED <<shown, screen, stdin>>
       ELSE execLink' = "destroyed" /\ shown' = "error" /\ screen' = {} /\ UNCHANGED stdin
    /\ UNCHANGED <<active, session, previous>>

\* connect_: the socket before is destroyed; what it wrote stays until onopen.
ChangeContainer(c) ==
    /\ execLink # "none" /\ c # active
    /\ active' = c
    /\ execLink' = "connecting"
    /\ ConnectionClosed
    /\ UNCHANGED <<shown, session, previous, screen>>

ExecNext ==
    \/ ExecMount \/ ExecOpens \/ Output \/ NoShellError
    \/ (\E clean \in BOOLEAN : ExecCloses(clean))
    \/ (\E c \in Shell \cup NoShell : ChangeContainer(c))

ExecSpec == ExecInit /\ [][ExecNext]_execVars

-----------------------------------------------------------------------------
ExecTypeOK ==
    /\ active \in Shell \cup NoShell /\ shown \in {"loading", "error", "terminal"}
    /\ execLink \in {"none", "connecting", "open", "destroyed"}
    /\ session.no \in 0 .. MaxSessions /\ session.of \in Shell \cup NoShell
    /\ previous \in {"none", "other", "no shell"}
    /\ screen \subseteq 1 .. MaxSessions /\ stdin \in BOOLEAN

\* A terminal that is connected shows this session of this container and takes
\* input, whichever way the sessions before it ended
\* (pod-exec.jsx:89-103, terminal.jsx:25-33).
TerminalIsCurrent ==
    execLink = "open" => screen \subseteq {session.no} /\ session.of = active /\ stdin

\* A terminal that takes input is connected: nothing is typed into the void
\* (terminal.jsx:46-56, pod-exec.jsx:95-98, 150-152).
InputIsSent == shown = "terminal" /\ stdin => execLink = "open"
=============================================================================
