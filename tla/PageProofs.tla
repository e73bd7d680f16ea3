----------------------------- MODULE PageProofs -----------------------------
(***************************************************************************)
(* Pages.  The namespace in the path is the active one, for any            *)
(* namespaces and a history of any length; the terminal of a pod shows     *)
(* its own session, for any containers and any number of sessions; its log *)
(* one stream and all of it, for a buffer of any size; and the text of an  *)
(* editor is safe, for any contents, versions, answers and events.  Then,  *)
(* for the pages together (PagesProofs): boxes and graphs, events, a       *)
(* dropdown, the alerts, the navigation, lists and rows that are dragged;  *)
(* what is found by going through a list; the types of their variables.    *)
(***************************************************************************)
EXTENDS Namespaces, PodPages, EditYAML, Discovery, Features, Polling, EventStream, Dropdown, Alerts, Navigation, Listing,
        Environment, Chargeback, Overview, Resources, SequenceTheorems, FiniteSetTheorems, WellFoundedInduction, TLAPS

\* Every path that a handler makes is a record with a scope; formatNamespaceRoute
\* leaves "cluster" where the resource was.
AnyPath ==
    [scope : Choice \cup {"cluster", "none"},
     resource : {"pods", "bindings", "projects", "cluster", ""},
     tail : Project \cup {"", "item", "new"}]

PathInv == path \in AnyPath /\ backwards \in Seq(AnyPath) /\ PathIsActive

\* The paths that are followed are such records.
LEMMA PathsAreTyped == Paths \subseteq AnyPath
BY DEF Paths, AnyPath, Choice

\* A route keeps its form, and has the namespace that it was made for.
LEMMA FormattedRoute ==
    ASSUME NEW n \in Choice, NEW p \in AnyPath
    PROVE  /\ FormatNamespaceRoute(n, p) \in AnyPath
           /\ p.scope \in Choice => GetNamespace(FormatNamespaceRoute(n, p)) = n
<1>1. FormatNamespaceRoute(n, p) \in AnyPath
  BY DEF FormatNamespaceRoute, AnyPath
<1>2. ASSUME p.scope \in Choice
      PROVE  FormatNamespaceRoute(n, p).scope = n
  BY <1>2, NamespaceAssumption DEF FormatNamespaceRoute, AnyPath, Choice
<1>3. ASSUME FormatNamespaceRoute(n, p).scope = n
      PROVE  GetNamespace(FormatNamespaceRoute(n, p)) = n
  BY <1>3 DEF GetNamespace
<1> QED
  BY <1>1, <1>2, <1>3

\* One entry pushed: it is the path, and what was the path is behind it.
LEMMA PushOne ==
    ASSUME NEW p \in AnyPath, PathInv, Push(<<p>>)
    PROVE  path' = p /\ backwards' \in Seq(AnyPath)
<1>1. Last(<<p>>) = p /\ Front(<<p>>) = <<>>
  BY DEF Last, Front
<1>2. <<path>> \in Seq(AnyPath) /\ <<>> \in Seq(AnyPath)
  BY DEF PathInv
<1> QED
  BY <1>1, <1>2 DEF Push, PathInv

\* Two entries pushed: the second is the path.
LEMMA PushTwo ==
    ASSUME NEW p \in AnyPath, NEW q \in AnyPath, PathInv, Push(<<p, q>>)
    PROVE  path' = q /\ backwards' \in Seq(AnyPath)
<1>1. Last(<<p, q>>) = q
  BY DEF Last
<1>2. Front(<<p, q>>) \in Seq(AnyPath)
  BY DEF Front
<1>3. <<path>> \in Seq(AnyPath)
  BY DEF PathInv
<1> QED
  BY <1>1, <1>2, <1>3 DEF Push, PathInv

\* A link, and the button back: the store follows the location.
LEMMA LocationIsBound ==
    ASSUME SetCurrentLocation(path')
    PROVE  PathIsActive'
BY DEF SetCurrentLocation, PathIsActive

\* Each way to change the path or the store keeps the two together.
LEMMA PathNextInv == PathInv /\ [NamespaceNext]_namespaceVars => PathInv'
<1> SUFFICES ASSUME PathInv, [NamespaceNext]_namespaceVars PROVE PathInv'
  OBVIOUS
<1>1. ASSUME NEW p \in Paths, FollowLink(p) PROVE PathInv'
  <2>1. p \in AnyPath
    BY PathsAreTyped
  <2>2. path' = p /\ backwards' \in Seq(AnyPath)
    BY <1>1, <2>1, PushOne DEF FollowLink
  <2>3. PathIsActive'
    BY <1>1, <2>2, LocationIsBound DEF FollowLink
  <2> QED
    BY <2>1, <2>2, <2>3 DEF PathInv
<1>2. CASE Back
  <2>1. path' \in AnyPath /\ backwards' \in Seq(AnyPath)
    BY <1>2 DEF Back, Last, Front, PathInv
  <2>2. PathIsActive'
    BY <1>2, LocationIsBound DEF Back
  <2> QED
    BY <2>1, <2>2 DEF PathInv
<1>3. CASE LoadConsole
  BY <1>3 DEF LoadConsole, Loaded, remembered, PathIsActive, PathInv
<1>4. ASSUME NEW n \in Choice, PickNamespace(n) PROVE PathInv'
  <2>1. CASE n = activeNamespace
    BY <1>4, <2>1 DEF PickNamespace, PathIsActive, PathInv
  <2>2. CASE n # activeNamespace
    <3> DEFINE route == FormatNamespaceRoute(n, path)
    <3>1. route \in AnyPath /\ GetNamespace(route) = n
      BY <1>4, FormattedRoute DEF PickNamespace, PathInv
    <3>2. Push(<<route>>) /\ activeNamespace' = n
      BY <1>4, <2>2 DEF PickNamespace
    <3> HIDE DEF route
    <3>3. path' = route /\ backwards' \in Seq(AnyPath)
      BY <3>1, <3>2, PushOne
    <3> QED
      BY <3>1, <3>2, <3>3 DEF PathIsActive, GetNamespace, PathInv
  <2> QED
    BY <2>1, <2>2
<1>5. ASSUME NEW n \in Choice, Favorite(n) PROVE PathInv'
  BY <1>5 DEF Favorite, PathIsActive, PathInv
<1>6. ASSUME NEW n \in Choice, BindingSaved(n) PROVE PathInv'
  <2> DEFINE there == [scope |-> n, resource |-> "bindings", tail |-> ""]
             route == FormatNamespaceRoute(n, path)
  <2>1. there \in AnyPath /\ GetNamespace(there) = n
    BY DEF AnyPath, GetNamespace
  <2>2. route \in AnyPath
    BY FormattedRoute DEF PathInv
  <2>3. (Push(<<there>>) \/ Push(<<route, there>>)) /\ activeNamespace' = n
    BY <1>6 DEF BindingSaved
  <2> HIDE DEF there, route
  <2>4. path' = there /\ backwards' \in Seq(AnyPath)
    BY <2>1, <2>2, <2>3, PushOne, PushTwo
  <2> QED
    BY <2>1, <2>3, <2>4 DEF PathIsActive, GetNamespace, PathInv
<1>7. CASE UNCHANGED namespaceVars
  BY <1>7 DEF namespaceVars, PathIsActive, PathInv
<1> QED
  BY <1>1, <1>2, <1>3, <1>4, <1>5, <1>6, <1>7 DEF NamespaceNext

\* The store starts with the namespace of the path that the console is loaded at.
LEMMA PathInitInv == NamespaceInit => PathInv
<1> SUFFICES ASSUME NEW p \in Paths, NamespaceOpens(p) PROVE PathInv
  BY DEF NamespaceInit
<1>1. path \in AnyPath
  BY PathsAreTyped DEF NamespaceOpens
<1>2. backwards \in Seq(AnyPath)
  BY DEF NamespaceOpens
<1>3. PathIsActive
  BY DEF NamespaceOpens, Loaded, PathIsActive
<1> QED
  BY <1>1, <1>2, <1>3 DEF PathInv

\* Links, the selector, the browser's buttons and forms never leave a page of one namespace
\* beside a store with another (app.jsx:111-124), for any namespaces and history.
THEOREM PathAndStoreAgree == NamespaceSpec => []PathIsActive
<1>1. PathInv => PathIsActive
  BY DEF PathInv
<1> QED
  BY <1>1, PathInitInv, PathNextInv, PTL DEF NamespaceSpec

-----------------------------------------------------------------------------
(* The terminal *)

\* No more than the property itself is needed: a socket is open only from onopen on, and
\* whatever ends it or changes the container makes it another.
ExecInv == session.no \in Nat /\ TerminalIsCurrent

\* There is no socket at first.
LEMMA ExecInitInv == ExecInit => ExecInv
BY DEF ExecInit, ExecInv, TerminalIsCurrent

\* Every handler keeps a connected terminal the current one.
LEMMA ExecNextInv == ExecInv /\ [ExecNext]_execVars => ExecInv'
<1> SUFFICES ASSUME ExecInv, [ExecNext]_execVars PROVE ExecInv'
  OBVIOUS
<1> USE DEF ExecInv, TerminalIsCurrent
<1>1. CASE ExecMount
  BY <1>1 DEF ExecMount
<1>2. CASE ExecOpens
  BY <1>2 DEF ExecOpens, Reset
<1>3. CASE Output
  BY <1>3 DEF Output
<1>4. CASE NoShellError
  BY <1>4 DEF NoShellError
<1>5. ASSUME NEW clean \in BOOLEAN, ExecCloses(clean) PROVE ExecInv'
  BY <1>5 DEF ExecCloses
<1>6. ASSUME NEW c \in Shell \cup NoShell, ChangeContainer(c) PROVE ExecInv'
  BY <1>6 DEF ChangeContainer
<1>7. CASE UNCHANGED execVars
  BY <1>7 DEF execVars
<1> QED
  BY <1>1, <1>2, <1>3, <1>4, <1>5, <1>6, <1>7 DEF ExecNext

\* A terminal that is connected shows this session of this container and takes input,
\* whichever way the sessions before it ended (pod-exec.jsx:89-103, terminal.jsx:25-33).
THEOREM ConnectedIsCurrent == ExecSpec => []TerminalIsCurrent
<1>1. ExecInv => TerminalIsCurrent
  BY DEF ExecInv
<1> QED
  BY <1>1, ExecInitInv, ExecNextInv, PTL DEF ExecSpec

-----------------------------------------------------------------------------
(* The log of a pod *)

\* While a socket is open the lines are its buffer, of which only the first may be of an older
\* stream; a log without a socket that was opened is empty.
LinesInv ==
    /\ logSocket = "open" => lines = buffer
    /\ logSocket \in {"none", "connecting"} => lines = <<>>
    /\ logSocket = "open" => \A i \in 2 .. Len(buffer) : buffer[i] = {streams}
    /\ logSocket = "open" => streams # 0 /\ (buffer # <<>> => tail \subseteq {streams})

\* The window has the lines unless the stream is paused, and only then are lines behind; the
\* messages of a socket bound them.
WindowInv ==
    /\ status # "paused" => content = lines
    /\ status \in {"loading", "streaming"} => behind = 0
    /\ status = "loading" => logSocket \in {"none", "connecting"}
    /\ behind <= MaxTexts - texts

LogInv ==
    /\ LogTypeOK /\ LinesInv /\ WindowInv
    /\ LaterLinesAreOurs /\ BehindIsCounted /\ LogIsFollowed

LEMMA LogInitInv == LogInit => LogInv
BY LogAssumption, EmptySeq DEF LogInit, LogInv, LogTypeOK, LinesInv, WindowInv, LaterLinesAreOurs, BehindIsCounted,
      LogIsFollowed, Sources, Line

\* What a message does to the buffer: it gets one line longer, or stays as long as it may be,
\* and its later lines are of the stream.
LEMMA IngestedLines ==
    ASSUME LogInv, logSocket = "open", NEW ends \in BOOLEAN, Ingest(ends)
    PROVE  /\ buffer' \in Seq(Line) /\ tail' \in Line
           /\ Len(buffer') = IF ends /\ Len(buffer) < BufferSize THEN Len(buffer) + 1 ELSE Len(buffer)
           /\ \A i \in 2 .. Len(buffer') : buffer'[i] = {streams}
           /\ buffer' # <<>> => tail' \subseteq {streams}
<1> DEFINE line == tail \cup {streams}
<1>1. line \in Line /\ streams \in 1 .. MaxStreams /\ buffer \in Seq(Line) /\ Len(buffer) \in 0 .. BufferSize
  BY LogAssumption DEF LogInv, LogTypeOK, LinesInv, Line
<1>2. buffer # <<>> => line = {streams}
  BY DEF LogInv, LinesInv
<1>3. \A i \in 2 .. Len(buffer) : buffer[i] = {streams}
  BY DEF LogInv, LinesInv
<1>4. CASE ~ends
  <2>1. tail' = line /\ buffer' = buffer
    BY <1>4 DEF Ingest
  <2> HIDE DEF line
  <2> QED
    BY <1>1, <1>2, <1>3, <1>4, <2>1
<1>5. CASE ends /\ Len(buffer) = BufferSize
  <2>1. tail' = {} /\ buffer' = Append(Tail(buffer), line)
    BY <1>5 DEF Ingest
  <2> HIDE DEF line
  <2>2. buffer # <<>>
    BY <1>1, <1>5, LogAssumption
  <2>3. Tail(buffer) \in Seq(Line) /\ Len(Tail(buffer)) = Len(buffer) - 1
    BY <1>1, <2>2
  <2>4. buffer' \in Seq(Line) /\ Len(buffer') = Len(buffer)
    BY <1>1, <2>1, <2>3
  <2>5. ASSUME NEW i \in 2 .. Len(buffer')
        PROVE  buffer'[i] = {streams}
    <3>1. CASE i = Len(buffer)
      BY <3>1, <1>1, <1>2, <2>1, <2>2, <2>3
    <3>2. CASE i # Len(buffer)
      <4>1. i \in 1 .. Len(Tail(buffer)) /\ i + 1 \in 2 .. Len(buffer)
        BY <3>2, <2>4, <2>3, <1>1
      <4>2. buffer'[i] = Tail(buffer)[i]
        BY <4>1, <2>1, <2>3, <1>1
      <4>3. Tail(buffer)[i] = buffer[i + 1]
        BY <4>1, <1>1, <2>2
      <4> QED
        BY <4>1, <4>2, <4>3, <1>3
    <3> QED
      BY <3>1, <3>2
  <2> QED
    BY <1>1, <1>5, <2>1, <2>4, <2>5 DEF Line
<1>6. CASE ends /\ Len(buffer) < BufferSize
  <2>1. tail' = {} /\ buffer' = Append(buffer, line)
    BY <1>6, <1>1 DEF Ingest
  <2> HIDE DEF line
  <2>2. buffer' \in Seq(Line) /\ Len(buffer') = Len(buffer) + 1
    BY <1>1, <2>1
  <2>3. ASSUME NEW i \in 2 .. Len(buffer')
        PROVE  buffer'[i] = {streams}
    <3>1. CASE i = Len(buffer) + 1
      BY <3>1, <1>1, <1>2, <2>1
    <3>2. CASE i # Len(buffer) + 1
      BY <3>2, <1>1, <1>3, <2>1, <2>2
    <3> QED
      BY <3>1, <3>2
  <2> QED
    BY <1>6, <2>1, <2>2, <2>3 DEF Line
<1> QED
  BY <1>1, <1>4, <1>5, <1>6, LogAssumption

LEMMA LogNextInv == LogInv /\ [LogNext]_logVars => LogInv'
<1> SUFFICES ASSUME LogInv, [LogNext]_logVars
             PROVE  LogInv'
  OBVIOUS
<1> USE LogAssumption
<1>1. CASE UNCHANGED logVars
  BY <1>1 DEF logVars, pod, view, lineBuffer, LogInv, LogTypeOK, LinesInv, WindowInv, LaterLinesAreOurs, BehindIsCounted, LogIsFollowed
<1>2. CASE LogOpens
  BY <1>2, EmptySeq DEF LogOpens, Opened, UpdateStatus, Displayed, pod, LogInv, LogTypeOK, LinesInv, WindowInv, LaterLinesAreOurs, BehindIsCounted, LogIsFollowed
<1>3. CASE LogCloses
  BY <1>3 DEF LogCloses, Displayed, pod, lineBuffer, LogInv, LogTypeOK, LinesInv, WindowInv, LaterLinesAreOurs, BehindIsCounted, LogIsFollowed
<1>4. ASSUME NEW ends \in BOOLEAN, LogMessage(ends)
      PROVE  LogInv'
  <2>1. Ingest(ends) /\ logSocket = "open"
    BY <1>4 DEF LogMessage
  <2>2. /\ buffer' \in Seq(Line) /\ tail' \in Line
        /\ Len(buffer') = IF ends /\ Len(buffer) < BufferSize THEN Len(buffer) + 1 ELSE Len(buffer)
        /\ \A i \in 2 .. Len(buffer') : buffer'[i] = {streams}
        /\ buffer' # <<>> => tail' \subseteq {streams}
    BY <2>1, IngestedLines
  <2>3. Len(buffer) \in Nat /\ Len(content) \in Nat /\ lines = buffer /\ buffer \in Seq(Line)
    BY <2>1 DEF LogInv, LinesInv, LogTypeOK
  <2>4. /\ lines' = buffer' /\ logSocket' = "open" /\ status' = status /\ resource' = resource /\ notices' = notices
        /\ texts > 0 /\ texts' = texts - 1 /\ streams' = streams
        /\ behind' = IF status = "paused" /\ ends THEN behind + 1 ELSE behind
        /\ content' = IF status = "paused" THEN content ELSE lines'
        /\ UNCHANGED <<statuses, currentKey, moves>>
    BY <1>4 DEF LogMessage, Displayed, pod
  <2>5. LinesInv'
    BY <2>2, <2>4, <2>1 DEF LinesInv, LogInv
  <2>6. WindowInv'
    BY <2>4, <2>1 DEF WindowInv, LogInv, LogTypeOK
  <2>7. LogTypeOK' /\ LaterLinesAreOurs' /\ LogIsFollowed'
    <3>1. behind' \in 0 .. MaxTexts
      BY <2>4 DEF WindowInv, LogInv, LogTypeOK
    <3>2. Len(buffer') <= BufferSize
      BY <2>2 DEF LogInv, LogTypeOK
    <3> QED
      BY <3>1, <3>2, <2>1, <2>2, <2>4 DEF LogInv, LogTypeOK, LaterLinesAreOurs, LogIsFollowed
  <2>8. BehindIsCounted'
    BY <2>1, <2>2, <2>3, <2>4 DEF LogInv, LogTypeOK, BehindIsCounted
  <2> QED
    BY <2>5, <2>6, <2>7, <2>8 DEF LogInv
<1>5. ASSUME NEW source \in Sources, RestartStream(source), UNCHANGED <<streams, lineBuffer>>, Displayed,
             statuses' \in [Container -> Sources], currentKey' \in Container, moves' \in 0 .. MaxMoves, resource' = source
      PROVE  LogInv'
  BY <1>5, EmptySeq DEF RestartStream, WsInit, Displayed, lineBuffer, Logged, Sources, LogInv, LogTypeOK, LinesInv, WindowInv, LaterLinesAreOurs, BehindIsCounted, LogIsFollowed
<1>6. ASSUME NEW key \in Container, NEW source \in Sources, Receives(key, source), currentKey' = key,
             statuses' \in [Container -> Sources], moves' \in 0 .. MaxMoves
      PROVE  LogInv'
  <2>1. CASE Restarts(key, source)
    BY <1>5, <1>6, <2>1 DEF Receives
  <2>2. CASE ~Restarts(key, source)
    BY <1>6, <2>2 DEF Receives, Restarts, Displayed, lineBuffer, LogInv, LogTypeOK, LinesInv, WindowInv, LaterLinesAreOurs, BehindIsCounted, LogIsFollowed
  <2> QED
    BY <2>1, <2>2
<1>7. ASSUME NEW c \in Container, SelectContainer(c)
      PROVE  LogInv'
  <2>1. statuses[c] \in Sources
    BY DEF LogInv, LogTypeOK
  <2> QED
    BY <1>6, <1>7, <2>1 DEF SelectContainer, LogInv, LogTypeOK
<1>8. ASSUME NEW c \in Container, ContainerMoves(c)
      PROVE  LogInv'
  <2>1. statuses' \in [Container -> Sources] /\ moves' \in 0 .. MaxMoves
    BY <1>8 DEF ContainerMoves, NextStates, LogInv, LogTypeOK, Sources
  <2>2. currentKey' = currentKey /\ currentKey \in Container /\ Receives(currentKey, statuses'[currentKey])
    BY <1>8 DEF ContainerMoves, LogInv, LogTypeOK
  <2> QED
    BY <1>6, <2>1, <2>2
<1>9. CASE Refresh
  BY <1>5, <1>9 DEF Refresh, pod, LogInv, LogTypeOK
<1>10. ASSUME NEW new \in {"streaming", "paused"}, UpdateStatus(new), status \notin {"eof", new} \/ (new = "streaming" /\ status # "eof"),
              new = "paused" => content # <<>> \/ status = "streaming",
              UNCHANGED <<pod, resource, notices, lines, logSocket, streams, lineBuffer, texts>>, Displayed
       PROVE  LogInv'
  <2>1. /\ status' = new /\ content' = IF new = "paused" THEN content ELSE lines
        /\ behind' = IF status # "streaming" /\ new = "streaming" THEN 0 ELSE behind
        /\ UNCHANGED <<statuses, currentKey, moves, resource, notices, lines, logSocket, streams, buffer, tail, texts>>
    BY <1>10 DEF UpdateStatus, Displayed, pod, lineBuffer
  <2>2. status # "eof" /\ (new = "paused" => status = "streaming")
    BY <1>10 DEF LogInv, LogTypeOK, LinesInv, WindowInv
  <2>3. LinesInv' /\ LaterLinesAreOurs'
    BY <2>1 DEF LogInv, LinesInv, LaterLinesAreOurs
  <2>4. WindowInv'
    BY <2>1, <2>2 DEF LogInv, LogTypeOK, WindowInv
  <2>5. LogTypeOK' /\ LogIsFollowed'
    BY <2>1, <2>2 DEF LogInv, LogTypeOK, LogIsFollowed
  <2>6. BehindIsCounted'
    BY <2>1, <2>2 DEF LogInv, LogTypeOK, BehindIsCounted, WindowInv
  <2> QED
    BY <2>3, <2>4, <2>5, <2>6 DEF LogInv
<1>11. CASE LogToggle
  BY <1>10, <1>11 DEF LogToggle
<1>12. ASSUME NEW up \in BOOLEAN, Scroll(up)
       PROVE  LogInv'
  BY <1>10, <1>12 DEF Scroll
<1> QED
  BY <1>1, <1>2, <1>3, <1>4, <1>7, <1>8, <1>9, <1>11, <1>12 DEF LogNext

\* The lines of the log are of the open stream but for the first, those that came since a pause
\* are counted, and a log that has begun is followed until it says that it ended, for any
\* containers, buffer and number of streams.
THEOREM LogIsOneStream == LogSpec => [](LaterLinesAreOurs /\ BehindIsCounted /\ LogIsFollowed /\ LogTypeOK)
<1>1. LogInv => LaterLinesAreOurs /\ BehindIsCounted /\ LogIsFollowed /\ LogTypeOK
  BY DEF LogInv
<1> QED
  BY <1>1, LogInitInv, LogNextInv, PTL DEF LogSpec

-----------------------------------------------------------------------------
(* The editor *)

\* What is said of a version is what the server's copy s held then, unless it is an older one.
Says(ver, val, s) ==
    /\ ver \in Version \cup {0} /\ val \in Val \cup {"none"}
    /\ ver <= s.ver
    /\ ver = s.ver => val = s.val

AnyAnswer == [ok : BOOLEAN, copy : Copy, error : Errors \cup {"none"}]

\* Every copy says what the server's version held: the entry of the store, the
\* answers and events on their way, the text and what is saved.
CopiesAreTrue ==
    /\ server \in Copy
    /\ Says(entry.ver, entry.val, server) /\ (entry.loaded => entry.val \in Val)
    /\ \A a \in answers : a \in AnyAnswer /\ Says(a.copy.ver, a.copy.val, server)
    /\ events \in Seq(Copy)
    /\ \A i \in DOMAIN events : Says(events[i].ver, events[i].val, server)

EditInv ==
    /\ CopiesAreTrue
    /\ editor \in Editor /\ Says(editor.displayed, editor.base, server)
    /\ editor.on => Frame(entry) # "hidden" /\ editor.base \in Val
    /\ editor.typed => editor.on
    /\ save \in Save
    /\ save.phase = "sent" => Says(save.ver, save.base, server) /\ save.val \in Val
    /\ save.phase = "done" => Says(save.ver, save.val, server) /\ save.val \in Val

LEMMA EditInitInv == EditInit => EditInv
<1> SUFFICES ASSUME EditInit
             PROVE  EditInv
  OBVIOUS
<1>1. server \in Copy /\ server.ver = 1
  BY ObjectAssumption DEF EditInit, ObjectInit, Copy, Version
<1>2. entry = NoEntry /\ answers = {} /\ events = <<>>
  BY DEF EditInit, ObjectInit
<1>3. editor = NoEditor /\ save = NoSave
  BY DEF EditInit
<1>4. Says(0, "none", server)
  BY <1>1 DEF Says
<1>5. editor \in Editor /\ save \in Save
  BY <1>3 DEF Editor, NoEditor, Save, NoSave
<1> QED
  BY <1>1, <1>2, <1>3, <1>4, <1>5 DEF EditInv, CopiesAreTrue, NoEntry, NoEditor, NoSave

\* A write leaves what is said so.
LEMMA SaysIsKept ==
    ASSUME NEW ver, NEW val, NEW s \in Copy, NEW t \in Copy, Says(ver, val, s), t = s \/ t.ver = s.ver + 1
    PROVE  Says(ver, val, t)
<1>1. ver \in Int /\ s.ver \in Int
  BY DEF Says, Copy, Version
<1> QED
  BY <1>1 DEF Says, Version

\* The next version, which is of what is written now.
LEMMA WriteIsSaid ==
    ASSUME NEW val \in Val, NEW exists, CopiesAreTrue, Write(val, exists), server.ver <= MaxVersion,
           UNCHANGED <<entry, answers>>
    PROVE  CopiesAreTrue' /\ server'.ver = server.ver + 1 /\ server'.val = val
<1>1. server' = [ver |-> server.ver + 1, val |-> val]
  BY DEF Write
<1>2. server \in Copy /\ server.ver \in Int
  BY DEF CopiesAreTrue, Copy, Version
<1>3. server' \in Copy /\ server'.ver = server.ver + 1
  BY <1>1, <1>2, ObjectAssumption DEF Copy, Version
<1>4. Says(server'.ver, server'.val, server')
  BY <1>3 DEF Says, Copy, Version
<1>5. Says(entry.ver, entry.val, server')
  BY <1>2, <1>3, SaysIsKept DEF CopiesAreTrue
<1>6. \A a \in answers : a \in AnyAnswer /\ Says(a.copy.ver, a.copy.val, server')
  BY <1>2, <1>3, SaysIsKept DEF CopiesAreTrue
<1>7. \A i \in DOMAIN events : Says(events[i].ver, events[i].val, server')
  BY <1>2, <1>3, SaysIsKept DEF CopiesAreTrue
<1>8. events' \in Seq(Copy) /\ \A i \in DOMAIN events' : Says(events'[i].ver, events'[i].val, server')
  <2>1. CASE events' = events
    BY <2>1, <1>7 DEF CopiesAreTrue
  <2>2. CASE events' = Append(events, server')
    <3>1. events \in Seq(Copy)
      BY DEF CopiesAreTrue
    <3>2. events' \in Seq(Copy) /\ Len(events') = Len(events) + 1
      BY <2>2, <3>1, <1>3
    <3>3. \A i \in 1 .. Len(events) : events'[i] = events[i]
      BY <2>2, <3>1
    <3>4. events'[Len(events) + 1] = server'
      BY <2>2, <3>1
    <3>5. DOMAIN events' = DOMAIN events \cup {Len(events) + 1} /\ DOMAIN events = 1 .. Len(events)
      BY <3>1, <3>2
    <3> QED
      BY <3>2, <3>3, <3>4, <3>5, <1>4, <1>7
  <2> QED
    BY <2>1, <2>2 DEF Write
<1> QED
  BY <1>1, <1>3, <1>5, <1>6, <1>8 DEF CopiesAreTrue

\* What a modifyObject leaves is what was there or the copy that it was given.
LEMMA ModifiedSays ==
    ASSUME NEW e, NEW o \in Copy, NEW s, Says(e.ver, e.val, s), Says(o.ver, o.val, s),
           e.loaded => e.val \in Val
    PROVE  /\ Says(ModifyObject(e, o).ver, ModifyObject(e, o).val, s)
           /\ ModifyObject(e, o).loaded => ModifyObject(e, o).val \in Val
  BY DEF ModifyObject, Copy

LEMMA CopiesStayTrue ==
    ASSUME CopiesAreTrue, ObjectStep
    PROVE  CopiesAreTrue' /\ server' \in Copy /\ (server' = server \/ server'.ver = server.ver + 1)
<1>1. server \in Copy /\ server.ver \in Int /\ server.ver >= 1 /\ server.val \in Val
  BY DEF CopiesAreTrue, Copy, Version
<1>2. Says(0, "none", server)
  BY <1>1 DEF Says
<1>3. Says(server.ver, server.val, server)
  BY <1>1 DEF Says, Copy
<1>4. Read \in AnyAnswer /\ Read.copy = server
  BY <1>1 DEF Read, AnyAnswer, Errors
<1>5. CASE OthersWrite \/ OthersDelete
  <2>1. PICK val \in Val, exists \in BOOLEAN : Write(val, exists)
    BY <1>1, <1>5 DEF OthersWrite, OthersDelete
  <2>2. server.ver <= MaxVersion /\ UNCHANGED <<entry, answers>>
    <3>1. server.ver < MaxVersion /\ UNCHANGED <<entry, answers>>
      BY <1>5 DEF OthersWrite, OthersDelete
    <3>2. MaxVersion \in Int
      BY ObjectAssumption
    <3> QED
      BY <1>1, <3>1, <3>2
  <2> QED
    BY <2>1, <2>2, WriteIsSaid DEF CopiesAreTrue
<1>6. CASE WatchFirst \/ WatchAgain \/ ObjectPolls
  <2>1. server' = server /\ events' = events /\ answers' \in {answers, answers \cup {Read}}
    BY <1>6 DEF WatchFirst, WatchAgain, ObjectPolls
  <2>2. entry' = entry \/ entry' = Loading
    BY <1>6 DEF WatchFirst, WatchAgain, ObjectPolls
  <2>3. Says(entry'.ver, entry'.val, server)
    BY <1>2, <2>2 DEF CopiesAreTrue, Loading, NoEntry
  <2>5. entry'.loaded => entry'.val \in Val
    BY <2>2 DEF CopiesAreTrue, Loading, NoEntry
  <2>4. \A a \in answers' : a \in AnyAnswer /\ Says(a.copy.ver, a.copy.val, server)
    BY <1>1, <1>3, <1>4, <2>1 DEF CopiesAreTrue
  <2> QED
    BY <1>1, <2>1, <2>3, <2>4, <2>5 DEF CopiesAreTrue
<1>7. CASE StopWatch
  <2>1. server' = server /\ answers' = answers /\ events' \in {events, <<>>} /\ entry' \in {entry, NoEntry}
    BY <1>7 DEF StopWatch
  <2>2. Says(entry'.ver, entry'.val, server) /\ (entry'.loaded => entry'.val \in Val)
    BY <1>2, <2>1 DEF CopiesAreTrue, NoEntry
  <2>3. events' \in Seq(Copy) /\ \A i \in DOMAIN events' : Says(events'[i].ver, events'[i].val, server)
    <3>1. <<>> \in Seq(Copy) /\ DOMAIN <<>> = {}
      BY EmptySeq
    <3> QED
      BY <2>1, <3>1 DEF CopiesAreTrue
  <2> QED
    BY <2>1, <2>2, <2>3 DEF CopiesAreTrue
<1>8. CASE \E a \in answers : AnswerArrives(a) \/ RequestFails(a)
  <2>1. PICK a \in answers : AnswerArrives(a) \/ RequestFails(a)
    BY <1>8
  <2>2. PICK o : o.copy = a.copy /\ Answered(a, o)
    <3>1. CASE AnswerArrives(a)
      BY <3>1 DEF AnswerArrives
    <3>2. CASE RequestFails(a)
      <4>1. PICK error \in {"failed", "timeout"} : Answered(a, [a EXCEPT !.ok = FALSE, !.error = error])
        BY <3>2 DEF RequestFails
      <4>2. a \in AnyAnswer
        BY DEF CopiesAreTrue
      <4>3. [a EXCEPT !.ok = FALSE, !.error = error].copy = a.copy
        BY <4>2 DEF AnyAnswer
      <4> QED
        BY <4>1, <4>3
    <3> QED
      BY <2>1, <3>1, <3>2
  <2>3. server' = server /\ events' = events /\ answers' = answers \ {a}
    BY <2>2 DEF Answered
  <2>7. o.copy \in Copy /\ Says(o.copy.ver, o.copy.val, server)
    BY <2>2 DEF CopiesAreTrue, AnyAnswer
  <2>4. /\ Says(ModifyObject(entry, o.copy).ver, ModifyObject(entry, o.copy).val, server)
        /\ ModifyObject(entry, o.copy).loaded => ModifyObject(entry, o.copy).val \in Val
    BY <2>7, ModifiedSays DEF CopiesAreTrue
  <2>5. /\ Says(Errored(entry, o.error).ver, Errored(entry, o.error).val, server)
        /\ Errored(entry, o.error).loaded => Errored(entry, o.error).val \in Val
    BY DEF CopiesAreTrue, Errored
  <2>6. Says(entry'.ver, entry'.val, server) /\ (entry'.loaded => entry'.val \in Val)
    BY <2>2, <2>4, <2>5 DEF Answered
  <2> QED
    BY <2>3, <2>6 DEF CopiesAreTrue
<1>9. CASE LinkOpens \/ LinkCloses
  <2>1. server' = server /\ entry' = entry /\ answers' = answers /\ events' \in {<<server>>, <<>>}
    BY <1>9 DEF LinkOpens, LinkCloses
  <2>2. events' \in Seq(Copy) /\ \A i \in DOMAIN events' : Says(events'[i].ver, events'[i].val, server)
    <3>1. <<server>> \in Seq(Copy) /\ DOMAIN <<server>> = {1} /\ <<server>>[1] = server
      BY <1>1
    <3>2. <<>> \in Seq(Copy) /\ DOMAIN <<>> = {}
      BY EmptySeq
    <3> QED
      BY <1>3, <2>1, <3>1, <3>2
  <2> QED
    BY <2>1, <2>2 DEF CopiesAreTrue
<1>10. CASE LinkFlushes
  <2>1. server' = server /\ answers' = answers /\ events' = <<>>
    BY <1>10 DEF LinkFlushes
  <2>2. Says(entry'.ver, entry'.val, server) /\ (entry'.loaded => entry'.val \in Val)
    <3>1. CASE UNCHANGED entry
      BY <3>1 DEF CopiesAreTrue
    <3>2. ASSUME NEW i \in Writing, entry' = ModifyObject(Loading, events[i])
          PROVE  Says(entry'.ver, entry'.val, server) /\ (entry'.loaded => entry'.val \in Val)
      <4>1. events[i] \in Copy /\ Says(events[i].ver, events[i].val, server)
        BY DEF Writing, CopiesAreTrue
      <4>2. Says(Loading.ver, Loading.val, server) /\ ~Loading.loaded
        BY <1>2 DEF Loading, NoEntry
      <4> QED
        BY <3>2, <4>1, <4>2, ModifiedSays DEF CopiesAreTrue
    <3> QED
      BY <1>10, <3>1, <3>2 DEF LinkFlushes
  <2> QED
    BY <2>1, <2>2 DEF CopiesAreTrue
<1> QED
  BY <1>1, <1>5, <1>6, <1>7, <1>8, <1>9, <1>10 DEF ObjectStep

\* An update of the store takes the text away only with the place it is at.
LEMMA EditorFollowsInv ==
    ASSUME EditInv, CopiesAreTrue', server' = server \/ server'.ver = server.ver + 1,
           editor' = EditorAfter
    PROVE  /\ editor' \in Editor /\ Says(editor'.displayed, editor'.base, server')
           /\ editor'.on => Frame(entry') # "hidden" /\ editor'.base \in Val
           /\ editor'.typed => editor'.on
           /\ editor.typed /\ ~editor'.typed => Frame(entry') # Frame(entry)
<1>1. Says(editor.displayed, editor.base, server')
  BY SaysIsKept DEF EditInv, CopiesAreTrue
<1>2. Says(0, "none", server')
  BY DEF CopiesAreTrue, Copy, Version, Says
<1>3. Says(entry'.ver, entry'.val, server') /\ (Frame(entry') # "hidden" => entry'.val \in Val)
  BY DEF CopiesAreTrue, Frame
<1>4. CASE Frame(entry') = "hidden"
  <2>1. editor' = NoEditor
    BY <1>4 DEF EditorAfter
  <2> QED
    BY <1>2, <1>4, <2>1 DEF NoEditor, Editor, EditInv
<1>5. CASE Frame(entry') # "hidden" /\ Frame(entry') # Frame(entry)
  <2>1. editor' = LoadYaml(entry')
    BY <1>5 DEF EditorAfter
  <2> QED
    BY <1>3, <1>5, <2>1 DEF LoadYaml, Editor, Says
<1>6. CASE Frame(entry') # "hidden" /\ Frame(entry') = Frame(entry)
  <2>1. editor' = Receive(editor, entry') \/ editor' = editor
    BY <1>6 DEF EditorAfter
  <2>2. editor \in Editor
    BY DEF EditInv
  <2>3. /\ editor' \in Editor /\ editor'.on = editor.on /\ editor'.typed = editor.typed
        /\ editor'.displayed = editor.displayed /\ editor'.base = editor.base
    BY <2>1, <2>2 DEF Receive, Editor
  <2> QED
    BY <1>1, <1>6, <2>3 DEF EditInv
<1> QED
  BY <1>4, <1>5, <1>6

\* What an EditNext leaves of the server, as far as a save is concerned.
LEMMA EditNextInv ==
    EditInv /\ [EditNext]_editVars =>
        /\ EditInv'
        /\ [editor.typed /\ ~editor'.typed
              => Reload \/ Saved \/ Frame(entry') # Frame(entry)]_editVars
        /\ [save.phase = "sent" /\ save'.phase = "done" => save.base = server.val]_editVars
<1> SUFFICES ASSUME EditInv, [EditNext]_editVars
             PROVE  /\ EditInv'
                    /\ editor.typed /\ ~editor'.typed
                          => Reload \/ Saved \/ Frame(entry') # Frame(entry)
                    /\ save.phase = "sent" /\ save'.phase = "done" => save.base = server.val
  OBVIOUS
<1>1. server \in Copy /\ server.ver \in Int /\ editor \in Editor /\ save \in Save
  BY DEF EditInv, CopiesAreTrue, Copy, Version
<1>2. CASE UNCHANGED editVars
  <2>1. UNCHANGED <<server, entry, answers, events, editor, save>>
    BY <1>2 DEF editVars, objectVars, watch
  <2> QED
    BY <2>1 DEF EditInv, CopiesAreTrue
<1>3. CASE WatchStep
  <2>1. CopiesAreTrue' /\ server' \in Copy /\ (server' = server \/ server'.ver = server.ver + 1)
    BY <1>3, CopiesStayTrue DEF WatchStep, EditInv
  <2>2. editor' = EditorAfter /\ save' = save
    BY <1>3 DEF WatchStep, EditorFollows
  <2>3. /\ save.phase = "sent" => Says(save.ver, save.base, server') /\ save.val \in Val
        /\ save.phase = "done" => Says(save.ver, save.val, server') /\ save.val \in Val
    BY <1>1, <2>1, SaysIsKept DEF EditInv
  <2> QED
    BY <1>1, <2>1, <2>2, <2>3, EditorFollowsInv DEF EditInv
<1>4. CASE Rerender \/ Type
  <2>1. UNCHANGED <<server, entry, answers, events, save>>
    BY <1>4 DEF Rerender, Type, objectVars, watch
  <2>2. editor.on /\ (editor' = [editor EXCEPT !.stale = editor.displayed # entry.ver]
                       \/ editor' = [editor EXCEPT !.typed = TRUE])
    BY <1>4 DEF Rerender, Type, Receive
  <2>3. /\ editor' \in Editor /\ editor'.on = editor.on /\ (editor.typed => editor'.typed)
        /\ editor'.displayed = editor.displayed /\ editor'.base = editor.base
    BY <1>1, <2>2 DEF Editor
  <2> QED
    BY <2>1, <2>2, <2>3 DEF EditInv, CopiesAreTrue
<1>5. CASE Reload
  <2>1. UNCHANGED <<server, entry, answers, events, save>> /\ editor.on /\ editor' = LoadYaml(entry)
    BY <1>5 DEF Reload, objectVars, watch
  <2>2. /\ editor' \in Editor /\ ~editor'.typed
        /\ editor'.displayed = entry.ver /\ editor'.base = entry.val /\ entry.val \in Val
    BY <2>1 DEF LoadYaml, Editor, EditInv, CopiesAreTrue, Says, Frame
  <2> QED
    BY <1>5, <2>1, <2>2 DEF EditInv, CopiesAreTrue
<1>6. CASE SaveText
  <2>1. UNCHANGED <<server, entry, answers, events, editor>> /\ editor.on /\ save = NoSave
    BY <1>6 DEF SaveText, objectVars, watch
  <2>2. PICK val \in Val \cup {editor.base} :
          save' = [phase |-> "sent", ver |-> editor.displayed, base |-> editor.base, val |-> val]
    BY <1>6 DEF SaveText
  <2>3. /\ save' \in Save /\ save'.phase = "sent" /\ save'.val \in Val
        /\ save'.ver = editor.displayed /\ save'.base = editor.base
    BY <1>1, <2>1, <2>2 DEF Save, Editor, EditInv
  <2> QED
    BY <2>1, <2>3 DEF EditInv, CopiesAreTrue, NoSave
<1>7. CASE ServerAccepts
  <2>1. save.phase = "sent" /\ save.ver = server.ver /\ server.ver <= MaxVersion
    BY <1>7 DEF ServerAccepts
  <2>2. UNCHANGED <<entry, answers, editor>> /\ save' = [save EXCEPT !.phase = "done", !.ver = server'.ver]
    BY <1>7 DEF ServerAccepts
  <2>3. save.base = server.val
    BY <2>1 DEF EditInv, Says
  <2>4. CopiesAreTrue' /\ (server' = server \/ server'.ver = server.ver + 1) /\ server'.val = save.val
    <3>1. CASE save.val = server.val
      BY <1>7, <2>2, <3>1 DEF ServerAccepts, EditInv, CopiesAreTrue
    <3>2. CASE save.val # server.val
      <4>1. save.val \in Val
        BY <2>1 DEF EditInv
      <4> QED
        BY <1>7, <2>1, <2>2, <3>2, <4>1, WriteIsSaid DEF ServerAccepts, EditInv
    <3> QED
      BY <3>1, <3>2
  <2>5. Says(editor.displayed, editor.base, server')
    BY <1>1, <2>4, SaysIsKept DEF EditInv, CopiesAreTrue
  <2>6. server' \in Copy /\ Says(server'.ver, server'.val, server')
    BY <2>4 DEF CopiesAreTrue, Says, Copy, Version
  <2>7. save' \in Save /\ save'.phase = "done" /\ save'.ver = server'.ver /\ save'.val = server'.val /\ save'.val \in Val
    BY <1>1, <2>2, <2>4, <2>6 DEF Save, Copy
  <2> QED
    BY <2>2, <2>3, <2>4, <2>5, <2>6, <2>7 DEF EditInv
<1>8. CASE Saved
  <2>1. UNCHANGED <<server, entry, answers, events>> /\ save.phase = "done" /\ save' = NoSave
    BY <1>8 DEF Saved, objectVars, watch
  <2>2. editor' = IF editor.on THEN LoadYaml(save) ELSE editor
    BY <1>8 DEF Saved
  <2>3. LoadYaml(save) \in Editor
    BY <1>1 DEF LoadYaml, Editor, Save
  <2>4. Says(editor'.displayed, editor'.base, server)
    BY <2>1, <2>2 DEF EditInv, LoadYaml
  <2>5. editor' \in Editor /\ editor'.on = editor.on /\ (editor'.typed => editor'.on)
    BY <1>1, <2>2, <2>3 DEF EditInv, LoadYaml
  <2>7. editor'.on => editor'.base \in Val
    BY <2>1, <2>2 DEF EditInv, LoadYaml
  <2>6. save' \in Save /\ save'.phase = "none"
    BY <2>1 DEF Save, NoSave
  <2> QED
    BY <1>8, <2>1, <2>4, <2>5, <2>6, <2>7 DEF EditInv, CopiesAreTrue
<1>9. CASE ServerRefuses \/ SaveRefused
  <2>1. UNCHANGED <<server, entry, answers, events, editor>>
    BY <1>9 DEF ServerRefuses, SaveRefused, objectVars, watch
  <2>2. save' = [save EXCEPT !.phase = "refused"] \/ save' = NoSave
    BY <1>9 DEF ServerRefuses, SaveRefused
  <2>3. save' \in Save /\ save'.phase \in {"refused", "none"}
    BY <1>1, <2>2 DEF Save, NoSave
  <2> QED
    BY <2>1, <2>3 DEF EditInv, CopiesAreTrue
<1> QED
  BY <1>2, <1>3, <1>4, <1>5, <1>6, <1>7, <1>8, <1>9 DEF EditNext

\* The text that the user types goes only when it is reloaded or answered, or its place does, and
\* a save replaces only what the text was made from, whatever else is written (edit-yaml.jsx:246).
THEOREM TextStaysSafe == EditSpec => TextIsSafe
<1>1. EditSpec => EditInit /\ [][EditNext]_editVars
  BY DEF EditSpec
<1> QED
  BY <1>1, EditInitInv, EditNextInv, PTL DEF TextIsSafe, TypedIsKept, NoLostUpdate

-----------------------------------------------------------------------------
(* Boxes, events, menus and alerts *)

\* Of a status, the answer that is not ignored is one to its query.
ChartInv ==
    /\ StatusIsOfItsQuery
    /\ queryClock \in Nat
    /\ \A c \in chains : c.clock \in Nat /\ c.clock <= queryClock
    /\ chart = "Status" => \A c \in chains : c.clock = queryClock => c.query = query
    /\ chart = "none" => chains = {} /\ display = "..." /\ queryClock = 0

LEMMA ChartInitInv == PollingInit => ChartInv
  BY DEF PollingInit, ChartInv, StatusIsOfItsQuery

LEMMA ChartNextInv == ChartInv /\ [PollingNext]_pollingVars => ChartInv'
<1> SUFFICES ASSUME ChartInv, [PollingNext]_pollingVars
             PROVE  ChartInv'
  OBVIOUS
<1> USE DEF ChartInv, StatusIsOfItsQuery
<1>1. CASE UNCHANGED pollingVars
  BY <1>1 DEF pollingVars
<1>2. CASE ChartMounts
  BY <1>2 DEF ChartMounts, Fetch
<1>3. CASE ChartUnmounts
  BY <1>3 DEF ChartUnmounts, Mounted
<1>4. ASSUME NEW q \in Query, QueryChanges(q)
      PROVE  ChartInv'
  <2>1. chart # "none" /\ chart' = chart /\ query' = q /\ queryClock' = queryClock + 1
    BY <1>4 DEF QueryChanges, Mounted
  <2>2. CASE chart = "Status"
    <3>1. display' = "..." /\ chains' = chains \cup {Fetch(queryClock + 2, q, queryClock + 1)}
      BY <1>4, <2>2 DEF QueryChanges, NewQuery
    <3>2. \A c \in chains' : c.clock \in Nat /\ c.clock <= queryClock'
      BY <2>1, <3>1 DEF Fetch
    <3>3. \A c \in chains' : c.clock = queryClock' => c.query = query'
      BY <2>1, <3>1 DEF Fetch
    <3> QED
      BY <2>1, <3>1, <3>2, <3>3
  <2>3. CASE chart # "Status"
    BY <1>4, <2>1, <2>3 DEF QueryChanges
  <2> QED
    BY <2>2, <2>3
<1>5. ASSUME NEW c \in chains, ChartAnswered(c)
      PROVE  ChartInv'
  <2>1. chart' = chart /\ query' = query /\ queryClock' = queryClock
    BY <1>5 DEF ChartAnswered
  <2>2. CASE Ignored(c)
    BY <1>5, <2>1, <2>2 DEF ChartAnswered
  <2>3. CASE ~Ignored(c)
    <3>1. /\ chains' = (chains \ {c}) \cup {[c EXCEPT !.at = "timer"]}
          /\ display' = IF Mounted THEN c.query ELSE display
      BY <1>5, <2>3 DEF ChartAnswered
    <3>2. [c EXCEPT !.at = "timer"].clock = c.clock /\ [c EXCEPT !.at = "timer"].query = c.query
      OBVIOUS
    <3>3. chart = "Status" => c.query = query
      BY <2>3 DEF Ignored
    <3> QED
      BY <2>1, <3>1, <3>2, <3>3 DEF Mounted
  <2> QED
    BY <2>2, <2>3
<1>6. ASSUME NEW c \in chains, TimerFires(c)
      PROVE  ChartInv'
  BY <1>6 DEF TimerFires, Fetch
<1> QED
  BY <1>1, <1>2, <1>3, <1>4, <1>5, <1>6 DEF PollingNext
-----------------------------------------------------------------------------
(* The event stream *)

\* What is shown is what the filter lets pass, and both are parts of the state.
EventInv == FilterApplied /\ {"sorted", "filtered"} \subseteq DOMAIN ui

LEMMA EventInitInv == EventInit => EventInv
  BY DEF EventInit, EventInv, FilterApplied, Filtered

\* What a flush shows of any messages.
LEMMA ShownIsFiltered ==
    ASSUME NEW state, NEW found,
           state.filtered = Filtered(state.sorted, filter), {"sorted", "filtered"} \subseteq DOMAIN state
    PROVE  LET after == Shown(state, found) IN
             after.filtered = Filtered(after.sorted, filter) /\ {"sorted", "filtered"} \subseteq DOMAIN after
  BY DEF Shown

LEMMA EventNextInv == EventInv /\ [EventNext]_eventVars => EventInv'
<1> SUFFICES ASSUME EventInv, [EventNext]_eventVars
             PROVE  EventInv'
  OBVIOUS
<1> USE DEF EventInv, FilterApplied
<1>1. ASSUME UNCHANGED <<ui, filter>>
      PROVE  EventInv'
  BY <1>1
<1>2. CASE UNCHANGED eventVars
  BY <1>1, <1>2 DEF eventVars
<1>3. ASSUME NEW n \in Namespace, NEW u \in Uid, EventSeen(n, u)
      PROVE  EventInv'
  BY <1>1, <1>3 DEF EventSeen
<1>4. ASSUME NEW n \in Namespace, EventExpires(n) \/ ChangeNamespace(n)
      PROVE  EventInv'
  BY <1>1, <1>4 DEF EventExpires, ChangeNamespace
<1>5. CASE StreamOpens
  BY <1>5 DEF StreamOpens, OnOpen, Empty, Filtered
<1>6. CASE StreamCloses
  BY <1>6 DEF StreamCloses, Empty, Filtered
<1>7. CASE StreamFlushes
  <2>1. PICK found : ui' = Shown(ui, found) /\ filter' = filter
    BY <1>7 DEF StreamFlushes, OnBulkMessage
  <2> QED
    BY <2>1, ShownIsFiltered
<1>8. CASE MountStream
  BY <1>1, <1>8 DEF MountStream
<1>9. CASE Toggle
  <2>1. filter' = filter
    BY <1>9 DEF Toggle
  <2>2. CASE ui.active
    BY <1>9, <2>1, <2>2 DEF Toggle
  <2>3. CASE ~ui.active
    <3> DEFINE state == [ui EXCEPT !.active = TRUE]
    <3>1. state.filtered = Filtered(state.sorted, filter) /\ {"sorted", "filtered"} \subseteq DOMAIN state
      OBVIOUS
    <3>2. ui' = state \/ \E found : ui' = Shown(state, found)
      BY <1>9, <2>3 DEF Toggle, OnBulkMessage
    <3> HIDE DEF state
    <3> QED
      BY <2>1, <3>1, <3>2, ShownIsFiltered
  <2> QED
    BY <2>2, <2>3
<1>10. ASSUME NEW f \in Filter, ChangeFilter(f)
       PROVE  EventInv'
  BY <1>10 DEF ChangeFilter, Derived
<1> QED
  BY <1>2, <1>3, <1>4, <1>5, <1>6, <1>7, <1>8, <1>9, <1>10 DEF EventNext

-----------------------------------------------------------------------------
(* The dropdown *)

LEMMA DropdownInitInv == DropdownInit => MenusAreDismissed
  BY DEF DropdownInit, DropdownOpens, MenusAreDismissed

LEMMA DropdownNextInv == MenusAreDismissed /\ [DropdownNext]_menuVars => MenusAreDismissed'
<1> SUFFICES ASSUME MenusAreDismissed, [DropdownNext]_menuVars
             PROVE  MenusAreDismissed'
  OBVIOUS
<1> USE DEF MenusAreDismissed
<1>1. ASSUME UNCHANGED <<menu, listening>>
      PROVE  MenusAreDismissed'
  BY <1>1
<1>2. CASE UNCHANGED menuVars
  BY <1>1, <1>2 DEF menuVars
<1>3. CASE MountMenu
  BY <1>3 DEF MountMenu
<1>4. CASE UnmountMenu \/ Show \/ Hide \/ ClickElsewhere
  BY <1>4 DEF UnmountMenu, Show, Hide, ClickElsewhere
<1>5. ASSUME NEW key \in MenuItem, ClickItem(key)
      PROVE  MenusAreDismissed'
  BY <1>5 DEF ClickItem, Pick
<1>6. CASE PickHovered
  BY <1>6 DEF PickHovered, Pick
<1>7. CASE Arrow(1) \/ Arrow(-1)
  BY <1>1, <1>7 DEF Arrow
<1>8. ASSUME NEW text \in FilterText, TypeText(text)
      PROVE  MenusAreDismissed'
  BY <1>1, <1>8 DEF TypeText
<1>9. ASSUME NEW key \in MenuItem,
             Bookmark(key) \/ UnBookmark(key) \/ StarBookmark(key) \/ OtherTabStores(<<key>>, key)
      PROVE  MenusAreDismissed'
  BY <1>1, <1>9 DEF Bookmark, UnBookmark, StarBookmark, OtherTabStores, SetBookmarks
<1>10. ASSUME NEW key \in MenuItem, NEW listed \in SUBSET MenuItem, ParentChanges(key, listed)
       PROVE  MenusAreDismissed'
  BY <1>1, <1>10 DEF ParentChanges
<1> QED
  BY <1>2, <1>3, <1>4, <1>5, <1>6, <1>7, <1>8, <1>9, <1>10 DEF DropdownNext

\* Only a click on a row, and Enter on the row under the keyboard, close it with another choice.
LEMMA PicksOfTheMenu ==
    [DropdownNext]_menuVars =>
      [menu = "open" /\ menu' = "closed" /\ chosen' # chosen => chosen' \in Range(menuRows)]_menuVars
<1> SUFFICES ASSUME [DropdownNext]_menuVars, menu = "open", menu' = "closed", chosen' # chosen
             PROVE  chosen' \in Range(menuRows)
  OBVIOUS
<1>1. ~UNCHANGED menuVars
  BY DEF menuVars, parentVars
<1>2. CASE MountMenu \/ UnmountMenu
  BY <1>2 DEF MountMenu, UnmountMenu
<1>3. CASE Show \/ Hide \/ ClickElsewhere
  BY <1>3 DEF Show, Hide, ClickElsewhere, parentVars
<1>4. ASSUME NEW key \in MenuItem, ClickItem(key)
      PROVE  chosen' \in Range(menuRows)
  BY <1>4 DEF ClickItem, Pick
<1>5. CASE PickHovered
  BY <1>5 DEF PickHovered, Pick
<1>6. CASE Arrow(1) \/ Arrow(-1)
  BY <1>6 DEF Arrow
<1>7. ASSUME NEW text \in FilterText, TypeText(text)
      PROVE  FALSE
  BY <1>7 DEF TypeText
<1>8. ASSUME NEW key \in MenuItem,
             Bookmark(key) \/ UnBookmark(key) \/ StarBookmark(key) \/ OtherTabStores(<<key>>, key)
      PROVE  FALSE
  BY <1>8 DEF Bookmark, UnBookmark, StarBookmark, OtherTabStores, SetBookmarks
<1>9. ASSUME NEW key \in MenuItem, NEW listed \in SUBSET MenuItem, ParentChanges(key, listed)
      PROVE  FALSE
  BY <1>9 DEF ParentChanges
<1> QED
  BY <1>1, <1>2, <1>3, <1>4, <1>5, <1>6, <1>7, <1>8, <1>9 DEF DropdownNext

-----------------------------------------------------------------------------
(* The alerts *)

\* The rules that there are, in Prometheus, in an answer and in the store, are those it tells
\* apart; an address is made of the labels of the rule whose link it is, and of a series.
AlertsInv ==
    /\ DOMAIN firing \subseteq RuleLabels /\ \A r \in DOMAIN firing : firing[r] \subseteq Series
    /\ \A p \in polls : DOMAIN p.rules \subseteq RuleLabels /\ \A r \in DOMAIN p.rules : p.rules[r] \subseteq Series
    /\ DOMAIN StoredRules \subseteq RuleLabels /\ \A r \in DOMAIN StoredRules : StoredRules[r] \subseteq Series
    /\ alertPage \in {"alert", "rule"} => linked \in RuleLabels /\ linked \subseteq labelsOf

\* The labels of a rule are those of no other with a series.
LEMMA AddressIsOfOne == AlertsInv => DetailsAreTheLinked
<1> SUFFICES ASSUME AlertsInv, alertPage \in {"alert", "rule"}, NEW r \in RuleFound
             PROVE  r = linked
  BY DEF DetailsAreTheLinked
<1>1. linked \in RuleLabels /\ linked \subseteq labelsOf
  BY DEF AlertsInv
<1>2. linked \cap Series = {}
  BY <1>1, AlertsAssumption
<1>3. CASE r \in RulesByAlert
  <2>1. r \in RuleLabels /\ \A s \in StoredRules[r] : s \in Series
    BY <1>3 DEF RulesByAlert, AlertsInv
  <2>2. PICK s \in StoredRules[r] : labelsOf \subseteq AlertLabels(r, s)
    BY <1>3 DEF RulesByAlert
  <2>3. linked \subseteq r
    BY <1>1, <1>2, <2>1, <2>2 DEF AlertLabels
  <2> QED
    BY <1>1, <2>1, <2>3, AlertsAssumption
<1>4. CASE r \in RulesByLabels
  BY <1>1, <1>4, AlertsAssumption DEF RulesByLabels, AlertsInv
<1> QED
  BY <1>3, <1>4 DEF RuleFound

LEMMA AlertsOpenInv == ASSUME NEW configured, AlertsOpen(configured) PROVE AlertsInv
  BY DEF AlertsOpen, AlertsInv, StoredRules, RulesLoading, NoRules

LEMMA AlertsInitInv == AlertsInit => AlertsInv
  BY AlertsOpenInv DEF AlertsInit

\* A rule that a page finds is one there is.
LEMMA FoundIsARule == ASSUME AlertsInv, NEW r \in RuleFound PROVE r \in DOMAIN StoredRules /\ r \in RuleLabels
  BY DEF RuleFound, RulesByAlert, RulesByLabels, AlertsInv

\* A page that is shown, of a rule or none, keeps it, whether it mounts or not.
LEMMA ShownIsKept ==
    ASSUME AlertsInv, NEW p, NEW labels, NEW rule, ShowsAlerts(p, labels, rule),
           p \in {"alert", "rule"} => rule \in RuleLabels /\ rule \subseteq labels
    PROVE  AlertsInv'
<1>1. alertPage' \in {"alert", "rule"} => linked' \in RuleLabels /\ linked' \subseteq labelsOf'
  BY DEF ShowsAlerts
<1>2. firing' = firing
  BY DEF ShowsAlerts
<1>3. DOMAIN NoRules = {}
  BY DEF NoRules
<1>4. \A q \in polls' : q \in polls \/ q.rules = NoRules
  BY DEF ShowsAlerts, PageMounts, Poll
<1>5. StoredRules' = StoredRules \/ StoredRules' = NoRules
  BY DEF ShowsAlerts, PageMounts, StoredRules, RulesLoading, RulesErrored
<1> QED
  BY <1>1, <1>2, <1>3, <1>4, <1>5 DEF AlertsInv

LEMMA AlertsNextInv == AlertsInv /\ [AlertsNext]_alertsVars => AlertsInv'
<1> SUFFICES ASSUME AlertsInv, [AlertsNext]_alertsVars
             PROVE  AlertsInv'
  OBVIOUS
<1>1. CASE UNCHANGED alertsVars
  BY <1>1 DEF alertsVars, AlertsInv, StoredRules
<1>2. CASE OpensList
  BY <1>2, ShownIsKept DEF OpensList
<1>3. CASE LeavesAlerts
  BY <1>3 DEF LeavesAlerts, AlertsInv, StoredRules
<1>4. ASSUME NEW r \in RuleLabels, OpensRule(r) \/ FollowsRow(r) \/ FollowsRule(r)
      PROVE  AlertsInv'
  BY <1>4, ShownIsKept DEF OpensRule, FollowsRow, FollowsRule
<1>5. ASSUME NEW r \in RuleLabels, NEW s \in Series, FollowsAlert(r, s)
      PROVE  AlertsInv'
  BY <1>5, ShownIsKept DEF FollowsAlert, AlertLabels
<1>6. ASSUME NEW r \in RuleLabels, NEW s \in Series, FiringChanges(r, s)
      PROVE  AlertsInv'
  <2>1. /\ firing' = [firing EXCEPT ![r] = IF s \in @ THEN @ \ {s} ELSE @ \cup {s}]
        /\ UNCHANGED <<alertPage, labelsOf, linked, polls, rulesInStore>>
    BY <1>6 DEF FiringChanges
  <2>2. DOMAIN firing' = DOMAIN firing /\ \A t \in DOMAIN firing : firing'[t] \subseteq firing[t] \cup {s}
    BY <2>1 DEF AlertsInv
  <2> QED
    BY <2>1, <2>2 DEF AlertsInv, StoredRules
<1>7. ASSUME NEW p \in polls, PollReads(p)
      PROVE  AlertsInv'
  <2>1. /\ polls' = (polls \ {p}) \cup {[p EXCEPT !.at = "read", !.rules = firing]}
        /\ UNCHANGED <<firing, alertPage, labelsOf, linked, rulesInStore>>
    BY <1>7 DEF PollReads
  <2>2. [p EXCEPT !.at = "read", !.rules = firing].rules \in {firing, p.rules}
    OBVIOUS
  <2> QED
    BY <2>1, <2>2 DEF AlertsInv, StoredRules
<1>8. ASSUME NEW p \in polls, PollAnswered(p) \/ PollFails(p)
      PROVE  AlertsInv'
  <2>1. /\ polls' = (polls \ {p}) \cup {[p EXCEPT !.at = "timer", !.rules = NoRules]}
        /\ rulesInStore' \in {RulesLoaded(p.rules), RulesErrored}
        /\ UNCHANGED <<firing, alertPage, labelsOf, linked>>
    BY <1>8 DEF PollAnswered, PollFails, ToTimer
  <2>2. [p EXCEPT !.at = "timer", !.rules = NoRules].rules \in {NoRules, p.rules}
    OBVIOUS
  <2>3. DOMAIN NoRules = {}
    BY DEF NoRules
  <2>4. StoredRules' \in {p.rules, NoRules}
    BY <2>1 DEF StoredRules, RulesLoaded, RulesErrored
  <2> QED
    BY <2>1, <2>2, <2>3, <2>4 DEF AlertsInv
<1>9. ASSUME NEW p \in polls, PollsAgain(p)
      PROVE  AlertsInv'
  <2>1. \A q \in polls' : q \in polls \/ q.rules = NoRules
    BY <1>9 DEF PollsAgain, Poll
  <2>2. DOMAIN NoRules = {}
    BY DEF NoRules
  <2>3. UNCHANGED <<firing, alertPage, labelsOf, linked, rulesInStore>>
    BY <1>9 DEF PollsAgain
  <2> QED
    BY <2>1, <2>2, <2>3 DEF AlertsInv, StoredRules
<1> QED
  BY <1>1, <1>2, <1>3, <1>4, <1>5, <1>6, <1>7, <1>8, <1>9 DEF AlertsNext

-----------------------------------------------------------------------------
(* The navigation *)

\* What is not there is not folded out.
NavInv ==
    /\ DOMAIN sections = NavSection
    /\ \A s \in NavSection :
          /\ {"mounted", "isOpen", "activeChild"} \subseteq DOMAIN sections[s]
          /\ sections[s].isOpen => sections[s].mounted

LEMMA NavOpensInv == ASSUME NEW p, NavOpens(p) PROVE NavInv
  BY DEF NavOpens, NavInv, Constructed, NoNavSection

LEMMA NavInitInv == NavInit => NavInv
  BY NavOpensInv DEF NavInit

\* Sections that are there stay as they are.
LEMMA SectionsWithInv ==
    ASSUME NavInv, NEW found, NEW features, sections' = SectionsWith(found, features)
    PROVE  /\ NavInv'
           /\ \A s \in NavSection : /\ sections[s].activeChild = "" /\ sections'[s].activeChild # "" => sections'[s].isOpen
                                    /\ sections[s].isOpen => sections'[s].isOpen
  BY DEF NavInv, SectionsWith, Constructed

LEMMA ArrivesInv ==
    ASSUME NavInv, NEW p, Arrives(p)
    PROVE  /\ NavInv'
           /\ \A s \in NavSection : /\ sections[s].activeChild = "" /\ sections'[s].activeChild # "" => sections'[s].isOpen
                                    /\ sections[s].isOpen => sections'[s].isOpen
<1>1. CASE sections' = sections
  BY <1>1 DEF NavInv
<1>2. CASE sections' = [s \in NavSection |->
                          IF sections[s].mounted THEN DidUpdate(sections[s], Children(s, urls, navFlags), p) ELSE sections[s]]
  <2>1. ASSUME NEW s \in NavSection
        PROVE  /\ {"mounted", "isOpen", "activeChild"} \subseteq DOMAIN sections'[s]
               /\ sections'[s].isOpen => sections'[s].mounted
               /\ sections[s].activeChild = "" /\ sections'[s].activeChild # "" => sections'[s].isOpen
               /\ sections[s].isOpen => sections'[s].isOpen
    <3>1. CASE ~sections[s].mounted
      BY <1>2, <3>1 DEF NavInv
    <3>2. CASE sections[s].mounted
      <4> DEFINE child == GetActiveChild(Children(s, urls, navFlags), p)
                 open == sections[s].isOpen \/ (child # "" /\ sections[s].activeChild = "")
      <4>1. sections'[s] = [sections[s] EXCEPT !.activeChild = child, !.isOpen = open]
        BY <1>2, <3>2 DEF DidUpdate
      <4>2. (sections[s].isOpen => open) /\ (child # "" /\ sections[s].activeChild = "" => open)
        OBVIOUS
      <4> HIDE DEF child, open
      <4>3. /\ DOMAIN sections'[s] = DOMAIN sections[s] /\ sections'[s].mounted = sections[s].mounted
            /\ sections'[s].activeChild = child /\ sections'[s].isOpen = open
        BY <4>1 DEF NavInv
      <4> QED
        BY <3>2, <4>2, <4>3 DEF NavInv
    <3> QED
      BY <3>1, <3>2
  <2>2. DOMAIN sections' = NavSection
    BY <1>2
  <2> QED
    BY <2>1, <2>2 DEF NavInv
<1> QED
  BY <1>1, <1>2 DEF Arrives

LEMMA NavNextInv ==
    NavInv /\ [NavNext]_navVars =>
      /\ NavInv'
      /\ [\A s \in NavSection :
            /\ sections[s].activeChild = "" /\ sections'[s].activeChild # "" => sections'[s].isOpen
            /\ sections[s].isOpen /\ ~sections'[s].isOpen =>
                  navPath' = navPath /\ \A other \in NavSection \ {s} : sections'[other] = sections[other]]_navVars
<1> DEFINE Opens(s) == sections[s].activeChild = "" /\ sections'[s].activeChild # "" => sections'[s].isOpen
           Folds(s) == sections[s].isOpen /\ ~sections'[s].isOpen =>
                          navPath' = navPath /\ \A other \in NavSection \ {s} : sections'[other] = sections[other]
<1> SUFFICES ASSUME NavInv, [NavNext]_navVars
             PROVE  NavInv' /\ \A s \in NavSection : Opens(s) /\ Folds(s)
  OBVIOUS
<1>1. CASE sections' = sections
  BY <1>1 DEF NavInv
<1>2. ASSUME NEW p, Arrives(p)
      PROVE  NavInv' /\ \A s \in NavSection : Opens(s) /\ Folds(s)
  BY <1>2, ArrivesInv
<1>3. ASSUME NEW found, NEW features, sections' = SectionsWith(found, features)
      PROVE  NavInv' /\ \A s \in NavSection : Opens(s) /\ Folds(s)
  BY <1>3, SectionsWithInv
<1>4. ASSUME NEW s \in NavSection, TogglesSection(s)
      PROVE  NavInv' /\ \A t \in NavSection : Opens(t) /\ Folds(t)
  <2> DEFINE folded == ~sections[s].isOpen
  <2>1. sections' = [sections EXCEPT ![s].isOpen = folded] /\ navPath' = navPath
    BY <1>4 DEF TogglesSection
  <2>2. sections[s].mounted
    BY <1>4 DEF TogglesSection, CanRender
  <2> HIDE DEF folded
  <2>3. /\ DOMAIN sections' = NavSection /\ DOMAIN sections'[s] = DOMAIN sections[s]
        /\ \A t \in NavSection \ {s} : sections'[t] = sections[t]
        /\ sections'[s].mounted = sections[s].mounted /\ sections'[s].activeChild = sections[s].activeChild
    BY <2>1 DEF NavInv
  <2> QED
    BY <2>1, <2>2, <2>3 DEF NavInv
<1> QED
  BY <1>1, <1>2, <1>3, <1>4 DEF NavNext, navVars, UrlIsFound, TogglesMenu, GoesTo, FollowsNavLink, FlagIsDetected

-----------------------------------------------------------------------------
(* The list *)

ListRecord == [watched : BOOLEAN, loaded : BOOLEAN, text : Typed \cup {NoText}, boxes : SUBSET Boxes]

\* The boxes of the list that is there are those that are shown, its text is the address's but
\* for what a discovery took, and its order is the address's as soon as it is loaded; the
\* others are not there.
ListInv ==
    /\ listNs \in ListNs \cup {"away"} /\ entries \in [ListNs -> ListRecord] /\ DOMAIN listSorts = ListNs
    /\ address \in [text : Typed \cup {NoText}, boxes : SUBSET (Boxes \cup Unknown), order : Orders]
    /\ \A n \in ListNs : n # listNs \/ rediscovers => ~entries[n].watched /\ ~entries[n].loaded
    /\ listNs # "away" =>
         /\ ~rediscovers /\ selected \cap Boxes # {} => entries[listNs].boxes = selected \cap Boxes
         /\ ~textSlipped => entries[listNs].text = address.text
         /\ entries[listNs].loaded /\ address.order # "none" => listSorts[listNs] = address.order

LEMMA ListingInitInv == ListingInit => ListInv
  BY DEF ListingInit, ListInv, NoList, ListRecord, Orders

\* What is mounted, applied or changed of one list.
LEMMA ListOperators ==
    ASSUME NEW e \in ListRecord, NEW ids
    PROVE  /\ ApplyBoxes(e, ids) \in ListRecord
           /\ ApplyBoxes(e, ids).text = e.text /\ ApplyBoxes(e, ids).loaded = e.loaded
           /\ ApplyBoxes(e, ids).watched = e.watched
           /\ ids \cap Boxes # {} => ApplyBoxes(e, ids).boxes = ids \cap Boxes
           /\ WatchList(e) \in ListRecord /\ WatchList(e).text = e.text /\ WatchList(e).boxes = e.boxes
           /\ WatchList(e).loaded = FALSE
           /\ NoList \in ListRecord /\ NoList.watched = FALSE /\ NoList.loaded = FALSE /\ NoList.text = NoText
  BY DEF ApplyBoxes, WatchList, NoList, ListRecord

\* The other lists stay as they are when the one at n is e.
LEMMA OneListChanges ==
    ASSUME ListInv, NEW n \in ListNs, NEW e \in ListRecord, entries' = [entries EXCEPT ![n] = e]
    PROVE  entries' \in [ListNs -> ListRecord] /\ entries'[n] = e /\ \A m \in ListNs \ {n} : entries'[m] = entries[m]
  BY DEF ListInv

LEMMA ListNextInv == ListInv /\ [ListingNext]_listingVars => ListInv'
<1> SUFFICES ASSUME ListInv, [ListingNext]_listingVars
             PROVE  ListInv'
  OBVIOUS
<1>0. "away" \notin ListNs
  BY ListingAssumption
<1>1. CASE UNCHANGED listingVars
  BY <1>1 DEF listingVars, ListInv
<1>2. ASSUME NEW n \in ListNs, NEW a \in Addresses, ListOpens(n, a)
      PROVE  ListInv'
  <2> DEFINE applied == IF a.text = NoText THEN entries[n] ELSE [entries[n] EXCEPT !.text = a.text]
             ids == FromAddress(a)
             mounted == IF rediscovers THEN applied ELSE ApplyBoxes(WatchList(applied), ids)
  <2>1. /\ listNs = "away" /\ listNs' = n /\ address' = a /\ selected' = ids
        /\ rediscovers' = rediscovers /\ listSorts' = listSorts
        /\ entries' = [entries EXCEPT ![n] = mounted]
        /\ textSlipped' = (a.text = NoText /\ entries[n].text # NoText)
    BY <1>2 DEF ListOpens, MountList, ApplyAddress
  <2>2. a.text \in Typed \cup {NoText} /\ a \in [text : Typed \cup {NoText}, boxes : SUBSET (Boxes \cup Unknown), order : Orders]
    BY DEF Addresses, Boxes, Unknown, Orders
  <2>3. /\ entries[n] \in ListRecord /\ applied \in ListRecord /\ ~applied.loaded /\ ~applied.watched
        /\ applied.text = IF a.text = NoText THEN entries[n].text ELSE a.text
    BY <1>0, <2>1, <2>2 DEF ListInv, ListRecord
  <2> HIDE DEF applied, ids
  <2>4. /\ mounted \in ListRecord /\ mounted.text = applied.text /\ ~mounted.loaded
        /\ ~rediscovers /\ ids \cap Boxes # {} => mounted.boxes = ids \cap Boxes
        /\ rediscovers => ~mounted.watched
    <3>1. CASE rediscovers
      BY <2>3, <3>1
    <3>2. CASE ~rediscovers
      <4> DEFINE listed == WatchList(applied)
      <4>1. listed \in ListRecord /\ listed.text = applied.text /\ ~listed.loaded
        BY <2>3, ListOperators
      <4>2. mounted = ApplyBoxes(listed, ids)
        BY <3>2
      <4> HIDE DEF listed, mounted
      <4>3. /\ ApplyBoxes(listed, ids) \in ListRecord /\ ApplyBoxes(listed, ids).text = listed.text
            /\ ApplyBoxes(listed, ids).loaded = listed.loaded
            /\ ids \cap Boxes # {} => ApplyBoxes(listed, ids).boxes = ids \cap Boxes
        BY <4>1, ListOperators
      <4> QED
        BY <3>2, <4>1, <4>2, <4>3
    <3> QED
      BY <3>1, <3>2
  <2> HIDE DEF mounted
  <2>5. entries' \in [ListNs -> ListRecord] /\ entries'[n] = mounted /\ \A m \in ListNs \ {n} : entries'[m] = entries[m]
    BY <2>1, <2>4, OneListChanges
  <2>6. ~textSlipped' => mounted.text = a.text
    BY <2>1, <2>3, <2>4
  <2> QED
    BY <1>0, <2>1, <2>2, <2>4, <2>5, <2>6 DEF ListInv
<1>3. ASSUME NEW n \in ListNs, SwitchesNs(n)
      PROVE  ListInv'
  <2> DEFINE there == IF rediscovers THEN entries[n] ELSE ApplyBoxes(WatchList(entries[n]), selected)
             new == IF address.text = NoText THEN there ELSE [there EXCEPT !.text = address.text]
             old == IF rediscovers THEN entries[listNs] ELSE NoList
  <2>1. /\ listNs \in ListNs /\ n # listNs /\ listNs' = n
        /\ UNCHANGED <<address, selected, listSorts, rediscovers>>
        /\ entries' = [entries EXCEPT ![listNs] = old, ![n] = new]
        /\ textSlipped' = (address.text = NoText /\ entries[n].text # NoText)
    BY <1>3 DEF SwitchesNs, FollowsIds, ApplyAddress, ListInv
  <2>2. /\ entries[n] \in ListRecord /\ there \in ListRecord /\ there.text = entries[n].text /\ ~there.loaded
        /\ ~rediscovers /\ selected \cap Boxes # {} => there.boxes = selected \cap Boxes
        /\ rediscovers => ~there.watched
    <3>1. entries[n] \in ListRecord /\ ~entries[n].loaded /\ ~entries[n].watched
      BY <2>1 DEF ListInv
    <3>2. CASE rediscovers
      BY <3>1, <3>2
    <3>3. CASE ~rediscovers
      <4> DEFINE listed == WatchList(entries[n])
      <4>1. listed \in ListRecord /\ listed.text = entries[n].text /\ ~listed.loaded
        BY <3>1, ListOperators
      <4>2. there = ApplyBoxes(listed, selected)
        BY <3>3
      <4> HIDE DEF listed, there
      <4>3. /\ ApplyBoxes(listed, selected) \in ListRecord /\ ApplyBoxes(listed, selected).text = listed.text
            /\ ApplyBoxes(listed, selected).loaded = listed.loaded
            /\ selected \cap Boxes # {} => ApplyBoxes(listed, selected).boxes = selected \cap Boxes
        BY <4>1, ListOperators
      <4> QED
        BY <3>1, <3>3, <4>1, <4>2, <4>3
    <3> QED
      BY <3>2, <3>3
  <2> HIDE DEF there
  <2>3. /\ new \in ListRecord /\ new.boxes = there.boxes /\ ~new.loaded /\ (rediscovers => ~new.watched)
        /\ new.text = IF address.text = NoText THEN entries[n].text ELSE address.text
    BY <2>2 DEF ListInv, ListRecord
  <2>4. old \in ListRecord /\ ~old.loaded /\ ~old.watched
    BY <2>1, ListOperators DEF ListInv
  <2> HIDE DEF new, old
  <2>5. /\ entries' \in [ListNs -> ListRecord] /\ entries'[n] = new /\ entries'[listNs] = old
        /\ \A m \in ListNs \ {n, listNs} : entries'[m] = entries[m]
    BY <2>1, <2>3, <2>4 DEF ListInv
  <2> QED
    BY <2>1, <2>2, <2>3, <2>4, <2>5 DEF ListInv
<1>4. ASSUME NEW t \in Typed \cup {NoText}, TypesText(t)
      PROVE  ListInv'
  <2> DEFINE new == [entries[listNs] EXCEPT !.text = t]
  <2>1. /\ listNs \in ListNs /\ address' = [address EXCEPT !.text = t]
        /\ entries' = [entries EXCEPT ![listNs] = new]
        /\ UNCHANGED <<listNs, selected, listSorts, rediscovers>>
    BY <1>4 DEF TypesText, ListInv
  <2>2. /\ entries[listNs] \in ListRecord /\ new \in ListRecord /\ new.text = t /\ new.boxes = entries[listNs].boxes
        /\ new.loaded = entries[listNs].loaded /\ new.watched = entries[listNs].watched
    BY <2>1 DEF ListInv, ListRecord
  <2>3. /\ address' \in [text : Typed \cup {NoText}, boxes : SUBSET (Boxes \cup Unknown), order : Orders]
        /\ address'.text = t /\ address'.order = address.order
    BY <2>1 DEF ListInv
  <2> HIDE DEF new
  <2>4. entries' \in [ListNs -> ListRecord] /\ entries'[listNs] = new /\ \A m \in ListNs \ {listNs} : entries'[m] = entries[m]
    BY <2>1, <2>2, OneListChanges
  <2> QED
    BY <2>1, <2>2, <2>3, <2>4 DEF ListInv
<1>5. ASSUME NEW b \in Boxes, Toggles(b)
      PROVE  ListInv'
  <2> DEFINE ids == ToggledBoxes(b)
             new == ApplyBoxes(entries[listNs], ids)
             boxes == IF ids \cap Boxes = {} THEN Unknown ELSE ids \cap Boxes
  <2>1. /\ listNs \in ListNs /\ address' = [address EXCEPT !.boxes = boxes]
        /\ entries' = [entries EXCEPT ![listNs] = new] /\ selected' = ids
        /\ UNCHANGED <<listNs, listSorts, rediscovers, textSlipped>>
    BY <1>5 DEF Toggles, ListInv
  <2>2. boxes \in SUBSET (Boxes \cup Unknown)
    OBVIOUS
  <2>3. entries[listNs] \in ListRecord
    BY <2>1 DEF ListInv
  <2> HIDE DEF ids, boxes
  <2>4. /\ new \in ListRecord /\ new.text = entries[listNs].text
        /\ ids \cap Boxes # {} => new.boxes = ids \cap Boxes
        /\ new.loaded = entries[listNs].loaded /\ new.watched = entries[listNs].watched
    BY <2>3, ListOperators
  <2>5. /\ address' \in [text : Typed \cup {NoText}, boxes : SUBSET (Boxes \cup Unknown), order : Orders]
        /\ address'.text = address.text /\ address'.order = address.order
    BY <2>1, <2>2 DEF ListInv
  <2> HIDE DEF new
  <2>6. entries' \in [ListNs -> ListRecord] /\ entries'[listNs] = new /\ \A m \in ListNs \ {listNs} : entries'[m] = entries[m]
    BY <2>1, <2>4, OneListChanges
  <2> QED
    BY <2>1, <2>4, <2>5, <2>6 DEF ListInv
<1>6. CASE Sorts
  <2> DEFINE order == IF listSorts[listNs] = "asc" THEN "desc" ELSE "asc"
  <2>1. /\ listNs \in ListNs /\ address' = [address EXCEPT !.order = order]
        /\ listSorts' = [listSorts EXCEPT ![listNs] = order]
        /\ UNCHANGED <<listNs, selected, entries, rediscovers, textSlipped>>
    BY <1>6 DEF Sorts, ListInv
  <2>2. order \in Orders
    BY DEF Orders
  <2> HIDE DEF order
  <2>3. /\ address' \in [text : Typed \cup {NoText}, boxes : SUBSET (Boxes \cup Unknown), order : Orders]
        /\ address'.text = address.text /\ address'.order = order
        /\ DOMAIN listSorts' = ListNs /\ listSorts'[listNs] = order
    BY <2>1, <2>2 DEF ListInv
  <2> QED
    BY <2>1, <2>3 DEF ListInv
<1>7. CASE ListLoads
  <2> DEFINE new == [entries[listNs] EXCEPT !.loaded = TRUE]
  <2>1. /\ listNs \in ListNs /\ entries[listNs].watched
        /\ entries' = [entries EXCEPT ![listNs] = new]
        /\ UNCHANGED <<listNs, address, selected, rediscovers, textSlipped>>
    BY <1>7 DEF ListLoads, ListInv
  <2>2. /\ entries[listNs] \in ListRecord /\ new \in ListRecord /\ new.text = entries[listNs].text
        /\ new.boxes = entries[listNs].boxes
    BY <2>1 DEF ListInv, ListRecord
  <2> HIDE DEF new
  <2>3. entries' \in [ListNs -> ListRecord] /\ entries'[listNs] = new /\ \A m \in ListNs \ {listNs} : entries'[m] = entries[m]
    BY <2>1, <2>2, OneListChanges
  <2>4. DOMAIN listSorts' = ListNs /\ (address.order # "none" => listSorts'[listNs] = address.order)
    BY <1>7, <2>1 DEF ListLoads, ListInv
  <2>5. ~rediscovers
    BY <2>1 DEF ListInv
  <2> QED
    BY <2>1, <2>2, <2>3, <2>4, <2>5 DEF ListInv
<1>8. CASE ListLeaves
  <2>1. /\ listNs \in ListNs /\ listNs' = "away"
        /\ entries' = IF rediscovers THEN entries ELSE [entries EXCEPT ![listNs] = NoList]
        /\ UNCHANGED <<address, selected, listSorts, rediscovers, textSlipped>>
    BY <1>8 DEF ListLeaves, ListInv
  <2>2. CASE rediscovers
    BY <2>1, <2>2 DEF ListInv
  <2>3. CASE ~rediscovers
    <3>1. NoList \in ListRecord /\ ~NoList.watched /\ ~NoList.loaded
      BY DEF NoList, ListRecord
    <3>2. entries' \in [ListNs -> ListRecord] /\ entries'[listNs] = NoList /\ \A m \in ListNs \ {listNs} : entries'[m] = entries[m]
      BY <2>1, <2>3, <3>1, OneListChanges
    <3> QED
      BY <1>0, <2>1, <2>3, <3>1, <3>2 DEF ListInv
  <2> QED
    BY <2>2, <2>3
<1>9. CASE RediscoveryStarts
  <2>1. /\ rediscovers' = TRUE /\ UNCHANGED <<listNs, address, selected, listSorts>>
        /\ entries' = IF listNs = "away" THEN entries ELSE [entries EXCEPT ![listNs] = NoList]
        /\ textSlipped' = (listNs # "away" /\ address.text # NoText)
    BY <1>9 DEF RediscoveryStarts
  <2>2. CASE listNs = "away"
    BY <1>0, <2>1, <2>2 DEF ListInv
  <2>3. CASE listNs # "away"
    <3>1. NoList \in ListRecord /\ ~NoList.watched /\ ~NoList.loaded /\ NoList.text = NoText
      BY DEF NoList, ListRecord
    <3>2. entries' \in [ListNs -> ListRecord] /\ entries'[listNs] = NoList /\ \A m \in ListNs \ {listNs} : entries'[m] = entries[m]
      BY <2>1, <2>3, <3>1, OneListChanges DEF ListInv
    <3> QED
      BY <2>1, <2>3, <3>1, <3>2 DEF ListInv
  <2> QED
    BY <2>2, <2>3
<1>10. CASE RediscoveryEnds
  <2> DEFINE ids == FromAddress(address)
             new == ApplyBoxes(WatchList(entries[listNs]), ids)
  <2>1. rediscovers /\ rediscovers' = FALSE /\ UNCHANGED <<listNs, address, listSorts, textSlipped>>
    BY <1>10 DEF RediscoveryEnds
  <2>2. CASE listNs = "away"
    BY <1>0, <1>10, <2>1, <2>2 DEF RediscoveryEnds, ListInv
  <2>3. CASE listNs # "away"
    <3>1. selected' = ids /\ entries' = [entries EXCEPT ![listNs] = new] /\ listNs \in ListNs
      BY <1>10, <2>1, <2>3 DEF RediscoveryEnds, MountList, ListInv
    <3>2. entries[listNs] \in ListRecord
      BY <3>1 DEF ListInv
    <3> HIDE DEF ids
    <3>3. /\ new \in ListRecord /\ new.text = entries[listNs].text /\ ~new.loaded
          /\ ids \cap Boxes # {} => new.boxes = ids \cap Boxes
      <4> DEFINE listed == WatchList(entries[listNs])
      <4>1. listed \in ListRecord /\ listed.text = entries[listNs].text /\ ~listed.loaded
        BY <3>2, ListOperators
      <4>2. new = ApplyBoxes(listed, ids)
        OBVIOUS
      <4> HIDE DEF listed, new
      <4>3. /\ ApplyBoxes(listed, ids) \in ListRecord /\ ApplyBoxes(listed, ids).text = listed.text
            /\ ApplyBoxes(listed, ids).loaded = listed.loaded
            /\ ids \cap Boxes # {} => ApplyBoxes(listed, ids).boxes = ids \cap Boxes
        BY <4>1, ListOperators
      <4> QED
        BY <4>1, <4>2, <4>3
    <3> HIDE DEF new
    <3>4. entries' \in [ListNs -> ListRecord] /\ entries'[listNs] = new /\ \A m \in ListNs \ {listNs} : entries'[m] = entries[m]
      BY <3>1, <3>3, OneListChanges
    <3> QED
      BY <2>1, <2>3, <3>1, <3>3, <3>4 DEF ListInv
  <2> QED
    BY <2>2, <2>3
<1> QED
  BY <1>1, <1>2, <1>3, <1>4, <1>5, <1>6, <1>7, <1>8, <1>9, <1>10 DEF ListingNext

\* The phases that the boxes let pass are those of the boxes that are known.
LEMMA ListInvShows == ListInv => RowsAreTheAsked
<1> SUFFICES ASSUME ListInv, Listed, selected \cap Boxes # {}
             PROVE  ShownRows = SortedRows(
                       FilteredRows(IF textSlipped THEN entries[listNs].text ELSE address.text, selected),
                       IF address.order = "none" THEN listSorts[listNs] ELSE address.order)
  BY DEF RowsAreTheAsked
<1> DEFINE text == IF textSlipped THEN entries[listNs].text ELSE address.text
           order == IF address.order = "none" THEN listSorts[listNs] ELSE address.order
<1>1. entries[listNs].boxes = selected \cap Boxes /\ entries[listNs].text = text /\ listSorts[listNs] = order
  BY DEF ListInv, Listed
<1> HIDE DEF text, order
<1>2. \A o \in ListObjects : ByPhase(selected \cap Boxes, o) <=> ByPhase(selected, o)
  BY DEF ByPhase
<1>3. FilteredRows(text, selected \cap Boxes) = FilteredRows(text, selected)
  BY <1>2 DEF FilteredRows
<1> QED
  BY <1>1, <1>3 DEF ShownRows, text, order

-----------------------------------------------------------------------------
(* The rows that are dragged *)

\* The row that is held is one of the rows, and they are those of the start, in another order.
PairsInv ==
    /\ {"on", "index", "rows", "replaced"} \subseteq DOMAIN drag
    /\ DraggedIsHeld
    /\ drag.on /\ ~drag.replaced => drag.index \in DOMAIN pairs

LEMMA SameOrder == ASSUME NEW rows PROVE Rearranged(rows, rows)
<1> DEFINE f == [i \in DOMAIN rows |-> i]
<1>1. f \in Bijection(DOMAIN rows, DOMAIN rows)
  BY DEF Bijection, Injection, Surjection, IsInjective
<1>2. \A i \in DOMAIN rows : rows[i] = rows[f[i]]
  OBVIOUS
<1> QED
  BY <1>1, <1>2 DEF Rearranged

\* Two rows that change places leave a rearrangement one.
LEMMA SwappedOrder ==
    ASSUME NEW rows, NEW before, Rearranged(rows, before), NEW a \in DOMAIN rows, NEW b \in DOMAIN rows, NEW after,
           DOMAIN after = DOMAIN rows, after[a] = rows[b], after[b] = rows[a],
           \A i \in DOMAIN rows \ {a, b} : after[i] = rows[i]
    PROVE  Rearranged(after, before)
<1>1. PICK f \in Bijection(DOMAIN rows, DOMAIN before) : \A i \in DOMAIN rows : rows[i] = before[f[i]]
  BY DEF Rearranged
<1> DEFINE swap == [i \in DOMAIN rows |-> IF i = a THEN b ELSE IF i = b THEN a ELSE i]
           g == [i \in DOMAIN rows |-> f[swap[i]]]
<1>2. /\ f \in [DOMAIN rows -> DOMAIN before]
      /\ \A i, j \in DOMAIN rows : f[i] = f[j] => i = j
      /\ \A t \in DOMAIN before : \E i \in DOMAIN rows : f[i] = t
  BY DEF Bijection, Injection, Surjection, IsInjective
<1>3. /\ \A i \in DOMAIN rows : swap[i] \in DOMAIN rows /\ swap[swap[i]] = i
      /\ \A i \in DOMAIN rows : after[i] = rows[swap[i]]
  OBVIOUS
<1> HIDE DEF swap
<1>4. /\ g \in [DOMAIN rows -> DOMAIN before]
      /\ \A i, j \in DOMAIN rows : g[i] = g[j] => i = j
  BY <1>2, <1>3
<1>5. ASSUME NEW t \in DOMAIN before
      PROVE  \E i \in DOMAIN rows : g[i] = t
  <2>1. PICK i \in DOMAIN rows : f[i] = t
    BY <1>2
  <2>2. swap[i] \in DOMAIN rows /\ g[swap[i]] = t
    BY <1>3, <2>1
  <2> QED
    BY <2>2
<1>6. g \in Bijection(DOMAIN after, DOMAIN before)
  BY <1>4, <1>5 DEF Bijection, Injection, Surjection, IsInjective
<1>7. \A i \in DOMAIN after : after[i] = before[g[i]]
  BY <1>1, <1>3
<1> QED
  BY <1>6, <1>7 DEF Rearranged

LEMMA PairsOpenInv == ASSUME NEW kind, NEW rows, PairsOpen(kind, rows) PROVE PairsInv
  BY DEF PairsOpen, PairsInv, DraggedIsHeld, Idle

LEMMA PairsInitInv == PairsInit => PairsInv
  BY PairsOpenInv DEF PairsInit

LEMMA PairsNextInv == PairsInv /\ [PairsNext]_pairVars => PairsInv'
<1> SUFFICES ASSUME PairsInv, [PairsNext]_pairVars
             PROVE  PairsInv'
  OBVIOUS
<1> USE DEF PairsInv, DraggedIsHeld
<1>1. ASSUME drag' = drag, pairs' = pairs \/ ~drag.on
      PROVE  PairsInv'
  BY <1>1
<1>2. CASE UNCHANGED pairVars
  BY <1>1, <1>2 DEF pairVars
<1>3. CASE AppendPair \/ AppendConfigMapOrSecret \/ SubmitPairs \/ PairsRefused
  BY <1>1, <1>3 DEF AppendPair, AppendConfigMapOrSecret, SubmitPairs, PairsRefused, Edits
<1>4. CASE EndDrag
  BY <1>4 DEF EndDrag, Idle
<1>5. CASE PairsSaved
  <2>1. CASE AllSorts
    BY <1>5, <2>1 DEF PairsSaved
  <2>2. CASE ~AllSorts
    BY <1>1, <1>5, <2>2 DEF PairsSaved
  <2> QED
    BY <2>1, <2>2
<1>6. ASSUME NEW i \in DOMAIN pairs,
             RemovePair(i) \/ ChangePairName(i) \/ ChangePairText(i) \/ ChooseName(i) \/ ChooseKey(i)
      PROVE  PairsInv'
  BY <1>1, <1>6 DEF RemovePair, ChangePairName, ChangePairText, ChooseName, ChooseKey, ChangePair, Edits
<1>7. ASSUME NEW i \in DOMAIN pairs, BeginDrag(i)
      PROVE  PairsInv'
  <2>1. drag' = [on |-> TRUE, index |-> i, rows |-> <<pairs, pairs[i]>>, replaced |-> FALSE] /\ pairs' = pairs
    BY <1>7 DEF BeginDrag
  <2>2. Rearranged(pairs, pairs)
    BY SameOrder
  <2>3. drag'.index = i /\ drag'.rows[1] = pairs /\ drag'.rows[2] = pairs[i]
    BY <2>1
  <2> QED
    BY <2>1, <2>2, <2>3
<1>8. ASSUME NEW i \in DOMAIN pairs, Hover(i)
      PROVE  PairsInv'
  <2>1. /\ drag.on /\ i # drag.index /\ drag' = [drag EXCEPT !.index = i]
        /\ pairs' = MovePair(drag.index, i)
    BY <1>8 DEF Hover
  <2>2. /\ drag'.index = i /\ drag'.rows = drag.rows /\ drag'.replaced = drag.replaced
        /\ {"on", "index", "rows", "replaced"} \subseteq DOMAIN drag'
    BY <2>1
  <2>3. ASSUME ~drag.replaced
        PROVE  /\ i \in DOMAIN pairs'
               /\ pairs'[i] = drag.rows[2]
               /\ Rearranged(pairs', drag.rows[1])
    <3>1. /\ drag.index \in DOMAIN pairs /\ pairs[drag.index] = drag.rows[2]
          /\ Rearranged(pairs, drag.rows[1])
      BY <2>1, <2>3
    <3>2. /\ DOMAIN pairs' = DOMAIN pairs
          /\ pairs'[i] = pairs[drag.index] /\ pairs'[drag.index] = pairs[i]
          /\ \A k \in DOMAIN pairs \ {drag.index, i} : pairs'[k] = pairs[k]
      BY <2>1, <3>1 DEF MovePair, RowAt
    <3> QED
      BY <3>1, <3>2, SwappedOrder
  <2> QED
    BY <2>2, <2>3
<1> QED
  BY <1>2, <1>3, <1>4, <1>5, <1>6, <1>7, <1>8 DEF PairsNext

-----------------------------------------------------------------------------
(* What is kept of a list *)

\* The numbers up to n are n.
LEMMA NumbersUpTo ==
    ASSUME NEW n \in Nat
    PROVE  IsFiniteSet(1 .. n) /\ Cardinality(1 .. n) = n
<1>1. 1 \in Int /\ n \in Int
  OBVIOUS
<1>2. IsFiniteSet(1 .. n) /\ Cardinality(1 .. n) = IF 1 > n THEN 0 ELSE n - 1 + 1
  BY <1>1, FS_Interval
<1>3. (IF 1 > n THEN 0 ELSE n - 1 + 1) = n
  OBVIOUS
<1> QED
  BY <1>2, <1>3

\* The rank of a place tells it from every other place.
LEMMA RanksAreDistinct ==
    ASSUME NEW places \in SUBSET Nat, IsFiniteSet(places), NEW i \in places, NEW k \in places, i < k
    PROVE  RankIn(places, i) < RankIn(places, k)
<1> DEFINE upTo(m) == {l \in places : l <= m}
<1>1. upTo(i) \in SUBSET upTo(k)
  <2>1. \A l \in places : l \in Nat
    OBVIOUS
  <2>2. \A l \in places : l <= i => l <= k
    BY <2>1
  <2> QED
    BY <2>2
<1>2. IsFiniteSet(upTo(k))
  BY FS_Subset
<1>3. k \in upTo(k) /\ k \notin upTo(i)
  OBVIOUS
<1>4. upTo(i) # upTo(k)
  BY <1>3
<1>5. /\ IsFiniteSet(upTo(i)) /\ Cardinality(upTo(i)) <= Cardinality(upTo(k))
      /\ Cardinality(upTo(i)) # Cardinality(upTo(k))
  <2> HIDE DEF upTo
  <2> QED
    BY <1>1, <1>2, <1>4, FS_Subset
<1>6. Cardinality(upTo(i)) \in Nat /\ Cardinality(upTo(k)) \in Nat
  <2> HIDE DEF upTo
  <2> QED
    BY <1>2, <1>5, FS_CardinalityType
<1>7. RankIn(places, i) = Cardinality(upTo(i)) /\ RankIn(places, k) = Cardinality(upTo(k))
  BY DEF RankIn
<1> QED
  BY <1>5, <1>6, <1>7

\* Every number up to how many places there are is the rank of one place.
LEMMA RanksAreAll ==
    ASSUME NEW places \in SUBSET Nat, IsFiniteSet(places)
    PROVE  /\ Cardinality(places) \in Nat
           /\ \A i \in places : RankIn(places, i) \in 1 .. Cardinality(places)
           /\ \A j \in 1 .. Cardinality(places) : \E i \in places : RankIn(places, i) = j
<1> DEFINE size == Cardinality(places)
           rank == [i \in places |-> RankIn(places, i)]
<1>1. size \in Nat
  BY FS_CardinalityType
<1>2. ASSUME NEW i \in places PROVE RankIn(places, i) \in 1 .. size
  <2> DEFINE upTo == {l \in places : l <= i}
  <2>1. upTo \in SUBSET places /\ i \in upTo
    OBVIOUS
  <2>2. IsFiniteSet(upTo) /\ Cardinality(upTo) <= size
    <3> HIDE DEF upTo
    <3> QED
      BY <2>1, FS_Subset
  <2>3. Cardinality(upTo) \in Nat /\ Cardinality(upTo) # 0
    <3> HIDE DEF upTo
    <3> QED
      BY <2>1, <2>2, FS_CardinalityType, FS_EmptySet
  <2>4. RankIn(places, i) = Cardinality(upTo)
    BY DEF RankIn
  <2> HIDE DEF upTo
  <2> QED
    BY <1>1, <2>2, <2>3, <2>4
<1>3. rank \in Injection(places, 1 .. size)
  <2>1. ASSUME NEW i \in places, NEW k \in places, rank[i] = rank[k] PROVE i = k
    <3>1. i \in Nat /\ k \in Nat
      OBVIOUS
    <3>2. RankIn(places, i) = RankIn(places, k) /\ RankIn(places, i) \in Nat
      BY <1>1, <1>2, <2>1
    <3>3. ~(i < k) /\ ~(k < i)
      BY <3>2, RanksAreDistinct
    <3> QED
      BY <3>1, <3>3
  <2> QED
    BY <1>2, <2>1 DEF Injection, IsInjective
<1>4. IsFiniteSet(1 .. size) /\ Cardinality(1 .. size) = size
  BY <1>1, NumbersUpTo
<1>5. rank \in Surjection(places, 1 .. size)
  <2> HIDE DEF rank
  <2> QED
    BY <1>3, <1>4, FS_Injection
<1>6. \A j \in 1 .. size : \E i \in places : rank[i] = j
  BY <1>5 DEF Surjection
<1> QED
  BY <1>1, <1>2, <1>6

\* What is kept of a sequence: what is in it and in the set, none twice if none was.
LEMMA AmongKeeps ==
    ASSUME NEW T, NEW seq \in Seq(T), NEW set
    PROVE  /\ Among(seq, set) \in Seq(T) /\ Len(Among(seq, set)) <= Len(seq)
           /\ Range(Among(seq, set)) = Range(seq) \cap set
           /\ IsInjective(seq) => IsInjective(Among(seq, set))
<1> DEFINE places == Places(seq, set)
           at(j) == CHOOSE i \in places : RankIn(places, i) = j
           kept == Among(seq, set)
<1>1. places \in SUBSET Nat /\ places \in SUBSET (1 .. Len(seq)) /\ Len(seq) \in Nat
  BY DEF Places
<1>2. IsFiniteSet(places) /\ Cardinality(places) <= Len(seq)
  <2> HIDE DEF places
  <2>1. IsFiniteSet(1 .. Len(seq)) /\ Cardinality(1 .. Len(seq)) = Len(seq)
    BY <1>1, NumbersUpTo
  <2> QED
    BY <1>1, <2>1, FS_Subset
<1>3. kept = [j \in 1 .. Cardinality(places) |-> seq[at(j)]]
  BY DEF Among
<1>4. /\ Cardinality(places) \in Nat
      /\ \A i \in places : RankIn(places, i) \in 1 .. Cardinality(places)
      /\ \A j \in 1 .. Cardinality(places) : at(j) \in places /\ RankIn(places, at(j)) = j
  <2> HIDE DEF places
  <2> QED
    BY <1>1, <1>2, RanksAreAll
<1>5. ASSUME NEW i \in places PROVE at(RankIn(places, i)) = i
  <2> DEFINE k == at(RankIn(places, i))
  <2>1. k \in places /\ RankIn(places, k) = RankIn(places, i) /\ RankIn(places, i) \in Nat
    BY <1>4
  <2> HIDE DEF k, places
  <2>2. ~(i < k) /\ ~(k < i)
    BY <1>1, <1>2, <2>1, RanksAreDistinct
  <2>3. i \in Nat /\ k \in Nat
    BY <1>1, <2>1
  <2>4. k = i
    BY <2>2, <2>3
  <2> QED
    BY <2>4 DEF k
<1>6. \A i \in places : i \in DOMAIN seq /\ seq[i] \in set /\ seq[i] \in T
  BY DEF Places
<1>7. \A i \in DOMAIN seq : seq[i] \in set => i \in places
  BY DEF Places
<1> HIDE DEF places, at, kept
<1>8. kept \in Seq(T) /\ Len(kept) <= Len(seq)
  BY <1>2, <1>3, <1>4, <1>6
<1>9. DOMAIN kept = 1 .. Cardinality(places) /\ \A j \in DOMAIN kept : kept[j] = seq[at(j)]
  BY <1>3
<1>10. Range(kept) = Range(seq) \cap set
  <2>1. ASSUME NEW x \in Range(kept) PROVE x \in Range(seq) \cap set
    BY <1>4, <1>6, <1>9 DEF Range
  <2>2. ASSUME NEW x \in Range(seq) \cap set PROVE x \in Range(kept)
    <3>1. PICK i \in DOMAIN seq : x = seq[i]
      BY DEF Range
    <3>2. i \in places
      BY <1>7, <3>1
    <3>3. RankIn(places, i) \in DOMAIN kept /\ kept[RankIn(places, i)] = x
      BY <1>4, <1>5, <1>9, <3>1, <3>2
    <3> QED
      BY <3>3 DEF Range
  <2> QED
    BY <2>1, <2>2
<1>11. ASSUME IsInjective(seq) PROVE IsInjective(kept)
  <2>1. ASSUME NEW a \in DOMAIN kept, NEW b \in DOMAIN kept, kept[a] = kept[b] PROVE a = b
    <3>1. at(a) = at(b)
      BY <1>4, <1>6, <1>9, <1>11, <2>1 DEF IsInjective
    <3> QED
      BY <1>4, <1>9, <3>1
  <2> QED
    BY <2>1 DEF IsInjective
<1> QED
  BY <1>8, <1>10, <1>11 DEF kept

\* SetToSeq lists a finite set, every member of it once.
LEMMA ListsTheSet ==
    ASSUME NEW S, IsFiniteSet(S)
    PROVE  /\ SetToSeq(S) \in [1 .. Cardinality(S) -> S] /\ Cardinality(S) \in Nat
           /\ \A i, j \in 1 .. Cardinality(S) : SetToSeq(S)[i] = SetToSeq(S)[j] => i = j
           /\ \A x \in S : \E i \in 1 .. Cardinality(S) : SetToSeq(S)[i] = x
<1> DEFINE n == Cardinality(S)
           list == SetToSeq(S)
<1>1. n \in Nat /\ ExistsBijection(1 .. n, S)
  BY FS_CardinalityType
<1>2. \E f \in [1 .. n -> S] : IsInjective(f)
  BY <1>1 DEF ExistsBijection, Bijection, Injection
<1>3. list \in [1 .. n -> S] /\ IsInjective(list)
  BY <1>2 DEF SetToSeq
<1>4. list \in Injection(1 .. n, S)
  BY <1>3 DEF Injection
<1>5. IsFiniteSet(1 .. n) /\ Cardinality(1 .. n) = n
  BY <1>1, NumbersUpTo
<1>6. list \in Surjection(1 .. n, S)
  BY <1>4, <1>5, FS_Injection
<1>7. \A x \in S : \E i \in 1 .. n : list[i] = x
  BY <1>6 DEF Surjection
<1>8. \A i, j \in 1 .. n : list[i] = list[j] => i = j
  BY <1>3 DEF IsInjective
<1> QED
  BY <1>1, <1>3, <1>7, <1>8

\* The members of a sequence without one of them are members, no two the same.
LEMMA RemovedRows ==
    ASSUME NEW T, NEW s \in Seq(T), NEW i \in 1 .. Len(s)
    PROVE  /\ RemoveAt(s, i) \in Seq(T)
           /\ DOMAIN RemoveAt(s, i) = 1 .. Len(s) - 1
           /\ \A j \in 1 .. Len(s) - 1 : RemoveAt(s, i)[j] = IF j < i THEN s[j] ELSE s[j + 1]
<1> DEFINE before == SubSeq(s, 1, i - 1)
           after == SubSeq(s, i + 1, Len(s))
<1>1. before \in Seq(T) /\ Len(before) = i - 1 /\ \A j \in 1 .. i - 1 : before[j] = s[j]
  BY SubSeqProperties
<1>2. after \in Seq(T) /\ Len(after) = Len(s) - i /\ \A j \in 1 .. Len(s) - i : after[j] = s[j + i]
  BY SubSeqProperties
<1>3. RemoveAt(s, i) = before \o after
  BY DEF RemoveAt
<1> HIDE DEF before, after
<1>4. /\ before \o after \in Seq(T) /\ Len(before \o after) = Len(s) - 1
      /\ \A j \in 1 .. Len(s) - 1 : (before \o after)[j] = IF j <= i - 1 THEN before[j] ELSE after[j - (i - 1)]
  BY <1>1, <1>2, ConcatProperties
<1>5. \A j \in 1 .. Len(s) - 1 : (before \o after)[j] = IF j < i THEN s[j] ELSE s[j + 1]
  <2> TAKE j \in 1 .. Len(s) - 1
  <2>1. CASE j < i
    BY <1>1, <1>4, <2>1
  <2>2. CASE ~(j < i)
    <3>1. j - (i - 1) \in 1 .. Len(s) - i /\ (j - (i - 1)) + i = j + 1
      BY <2>2
    <3> QED
      BY <1>2, <1>4, <2>2, <3>1
  <2> QED
    BY <2>1, <2>2
<1>6. DOMAIN (before \o after) = 1 .. Len(s) - 1
  BY <1>4
<1> QED
  BY <1>3, <1>4, <1>5, <1>6

-----------------------------------------------------------------------------
(* The keys of the rows of an environment *)

\* A row, of which a key is the one of its resource.
AnyPair ==
    {p \in [name : PairName \cup {""}, text : PairText \cup {""},
            ref : RefResource \cup {"none", "unset", "null"}, key : RefResource \cup {""}] :
        p.key # "" => p.key = p.ref}

\* Only a row that a move took from beyond the end is one too many.
KeysInv ==
    /\ pairsOf \in {"env", "from", "tags"} /\ pairs \in Seq(AnyPair)
    /\ Len(pairs) \in 1 .. MaxPairs + 1
    /\ Crashed \notin Range(pairs) => Len(pairs) <= MaxPairs
    /\ {"on", "index", "rows", "replaced"} \subseteq DOMAIN drag
    /\ drag.on \in BOOLEAN /\ drag.replaced \in BOOLEAN
    /\ drag.index \in 1 .. MaxPairs
    /\ pairSave \in [at : {"none", "sent", "closed"}, rows : Seq(AnyPair)]
    /\ Len(pairSave.rows) <= MaxPairs
    /\ pairSaves \in 0 .. MaxPairSaves

LEMMA PairBounds == MaxPairs \in Nat \ {0} /\ MaxPairSaves \in Nat /\ 0 \in 0 .. MaxPairSaves
<1>1. MaxPairs \in Nat \ {0} /\ MaxPairSaves \in Nat
  BY PairAssumption, Zenon
<1> QED
  BY <1>1

LEMMA SomePairs ==
    /\ Crashed \in AnyPair /\ BlankPair \in AnyPair /\ Pair("", "", "unset", "") \in AnyPair
    /\ Pair("", "", "none", "") \in AnyPair
BY DEF Crashed, BlankPair, Pair, AnyPair

LEMMA OnePair == ASSUME NEW p \in AnyPair PROVE <<p>> \in Seq(AnyPair) /\ Len(<<p>>) = 1
OBVIOUS

LEMMA PairsOpenKeys ==
    ASSUME NEW kind \in {"env", "from", "tags"}, NEW p \in AnyPair, PairsOpen(kind, <<p>>) PROVE KeysInv
<1>1. <<p>> \in Seq(AnyPair) /\ Len(<<p>>) = 1 /\ <<>> \in Seq(AnyPair) /\ Len(<<>>) = 0
  BY OnePair
<1>2. Len(pairs) \in 1 .. MaxPairs + 1 /\ Len(pairs) <= MaxPairs /\ drag.index \in 1 .. MaxPairs
  BY <1>1, PairBounds DEF PairsOpen, Idle
<1>3. pairSave.rows = <<>> /\ Len(pairSave.rows) <= MaxPairs
  BY <1>1, PairBounds DEF PairsOpen, NoPairSave
<1>4. pairSaves \in 0 .. MaxPairSaves
  BY PairBounds, Zenon DEF PairsOpen
<1>5. pairSave \in [at : {"none", "sent", "closed"}, rows : Seq(AnyPair)] /\ pairs \in Seq(AnyPair)
  BY <1>1 DEF PairsOpen, NoPairSave
<1>6. /\ {"on", "index", "rows", "replaced"} \subseteq DOMAIN drag
      /\ drag.on \in BOOLEAN /\ drag.replaced \in BOOLEAN
  BY DEF PairsOpen, Idle
<1> QED
  BY <1>2, <1>3, <1>4, <1>5, <1>6 DEF PairsOpen, KeysInv

LEMMA PairsInitKeys == PairsInit => KeysInv
<1> SUFFICES ASSUME PairsInit PROVE KeysInv
  OBVIOUS
<1>1. PICK kind \in {"env", "from", "tags"}, p \in AnyPair : PairsOpen(kind, <<p>>)
  <2>1. \/ \E n \in PairName, t \in PairText : PairsOpen("tags", <<Pair(n, t, "none", "")>>)
        \/ PairsOpen("env", <<Pair("", "", "none", "")>>)
        \/ \E n \in PairName, r \in RefResource : PairsOpen("env", <<Pair(n, "", r, r)>>)
        \/ PairsOpen("from", <<Pair("", "", "unset", "")>>)
    BY DEF PairsInit
  <2>2. ASSUME NEW n \in PairName, NEW t \in PairText PROVE Pair(n, t, "none", "") \in AnyPair
    BY DEF Pair, AnyPair
  <2>3. ASSUME NEW n \in PairName, NEW r \in RefResource PROVE Pair(n, "", r, r) \in AnyPair
    BY DEF Pair, AnyPair
  <2> QED
    BY <2>1, <2>2, <2>3, SomePairs, Zenon
<1> QED
  BY <1>1, PairsOpenKeys

\* A row that is changed is one.
LEMMA ChangedPairs ==
    ASSUME KeysInv, NEW i \in DOMAIN pairs, NEW p \in AnyPair, ChangePair(i, p)
    PROVE  KeysInv'
<1>1. pairs' \in Seq(AnyPair) /\ Len(pairs') = Len(pairs)
  BY DEF KeysInv, ChangePair
<1>2. Crashed \notin Range(pairs) /\ Len(pairs) <= MaxPairs
  BY DEF KeysInv, ChangePair, Edits
<1>3. UNCHANGED <<pairsOf, drag, pairSave, pairSaves>>
  BY DEF ChangePair
<1> QED
  BY <1>1, <1>2, <1>3, Zenon DEF KeysInv

LEMMA PairsNextKeys == KeysInv /\ [PairsNext]_pairVars => KeysInv'
<1> SUFFICES ASSUME KeysInv, [PairsNext]_pairVars PROVE KeysInv'
  OBVIOUS
<1>0. pairs \in Seq(AnyPair) /\ Len(pairs) \in Nat /\ \A i \in DOMAIN pairs : pairs[i] \in AnyPair
  BY DEF KeysInv
<1>1. CASE UNCHANGED pairVars
  BY <1>1, Zenon DEF pairVars, KeysInv, Crashed
<1>2. ASSUME NEW p \in AnyPair, Len(pairs) < MaxPairs, pairs' = Append(pairs, p),
             UNCHANGED <<pairsOf, drag, pairSave, pairSaves>>
      PROVE  KeysInv'
  <2>1. pairs' \in Seq(AnyPair) /\ Len(pairs') = Len(pairs) + 1
    BY <1>0, <1>2
  <2>2. Len(pairs') \in 1 .. MaxPairs + 1 /\ Len(pairs') <= MaxPairs
    BY <1>0, <1>2, <2>1, PairBounds
  <2> QED
    BY <1>2, <2>1, <2>2, Zenon DEF KeysInv
<1>3. CASE AppendPair \/ AppendConfigMapOrSecret
  BY <1>2, <1>3, SomePairs DEF AppendPair, AppendConfigMapOrSecret
<1>4. CASE EndDrag
  <2>1. drag' = Idle /\ UNCHANGED <<pairsOf, pairs, pairSave, pairSaves>>
    BY <1>4 DEF EndDrag
  <2>2. drag'.index \in 1 .. MaxPairs
    BY <2>1, PairBounds DEF Idle
  <2>3. /\ {"on", "index", "rows", "replaced"} \subseteq DOMAIN drag'
        /\ drag'.on \in BOOLEAN /\ drag'.replaced \in BOOLEAN
    BY <2>1 DEF Idle
  <2>4. Range(pairs') = Range(pairs)
    BY <2>1
  <2> QED
    BY <2>1, <2>2, <2>3, <2>4 DEF KeysInv, Crashed, Pair
<1>5. CASE SubmitPairs
  <2>1. /\ pairSave' = [at |-> "sent", rows |-> PairsToSend] /\ pairSaves < MaxPairSaves
        /\ pairSaves' = pairSaves + 1 /\ UNCHANGED <<pairsOf, pairs, drag>>
        /\ Crashed \notin Range(pairs)
    BY <1>5 DEF SubmitPairs, Edits
  <2>2. PairsToSend \in Seq(AnyPair) /\ Len(PairsToSend) <= Len(pairs) /\ Len(PairsToSend) \in Nat
    <3> DEFINE set == {p \in Range(pairs) : IF pairsOf = "from" THEN p.ref # "unset" ELSE p.name # ""}
    <3>1. PairsToSend = Among(pairs, set)
      BY DEF PairsToSend
    <3> HIDE DEF set
    <3>2. Among(pairs, set) \in Seq(AnyPair) /\ Len(Among(pairs, set)) <= Len(pairs)
      BY <1>0, AmongKeeps
    <3> QED
      BY <3>1, <3>2
  <2>3. Len(pairs) <= MaxPairs
    BY <2>1 DEF KeysInv
  <2> HIDE DEF PairsToSend
  <2>4. Len(PairsToSend) <= MaxPairs
    BY <1>0, <2>2, <2>3, PairBounds
  <2>5. pairSaves' \in 0 .. MaxPairSaves
    BY <2>1, PairBounds DEF KeysInv
  <2>6. pairSave' \in [at : {"none", "sent", "closed"}, rows : Seq(AnyPair)] /\ pairSave'.rows = PairsToSend
    BY <2>1, <2>2
  <2> QED
    BY <2>1, <2>4, <2>5, <2>6, Zenon DEF KeysInv, Crashed
<1>6. CASE PairsRefused
  <2>1. pairSave' = NoPairSave /\ UNCHANGED <<pairsOf, pairs, drag, pairSaves>>
    BY <1>6 DEF PairsRefused
  <2>2. pairSave' \in [at : {"none", "sent", "closed"}, rows : Seq(AnyPair)] /\ pairSave'.rows = <<>>
    BY <2>1 DEF NoPairSave
  <2>3. Len(pairSave'.rows) <= MaxPairs
    BY <2>2, PairBounds
  <2> QED
    BY <2>1, <2>2, <2>3, Zenon DEF KeysInv, Crashed
<1>7. CASE PairsSaved
  <2>1. pairSave.rows \in Seq(AnyPair) /\ Len(pairSave.rows) <= MaxPairs /\ UNCHANGED <<pairsOf, pairSaves>>
    BY <1>7 DEF KeysInv, PairsSaved
  <2>2. CASE AllSorts
    <3>1. /\ pairs' = IF pairSave.rows = <<>> THEN <<BlankPair>> ELSE pairSave.rows
          /\ drag' = [drag EXCEPT !.replaced = drag.on] /\ pairSave' = NoPairSave
      BY <1>7, <2>2 DEF PairsSaved
    <3>2. pairs' \in Seq(AnyPair)
      BY <2>1, <3>1, SomePairs, OnePair
    <3>3. Len(pairs') \in 1 .. MaxPairs + 1 /\ Len(pairs') <= MaxPairs
      BY <2>1, <3>1, PairBounds
    <3>4. pairSave' \in [at : {"none", "sent", "closed"}, rows : Seq(AnyPair)] /\ pairSave'.rows = <<>>
      BY <3>1 DEF NoPairSave
    <3>5. Len(pairSave'.rows) <= MaxPairs
      BY <3>4, PairBounds
    <3>6. /\ {"on", "index", "rows", "replaced"} \subseteq DOMAIN drag'
          /\ drag'.on \in BOOLEAN /\ drag'.replaced \in BOOLEAN /\ drag'.index \in 1 .. MaxPairs
      BY <3>1 DEF KeysInv
    <3> QED
      BY <2>1, <3>2, <3>3, <3>4, <3>5, <3>6, Zenon DEF KeysInv
  <2>3. CASE ~AllSorts
    <3>1. pairSave' = [pairSave EXCEPT !.at = "closed"] /\ UNCHANGED <<pairs, drag>>
      BY <1>7, <2>3 DEF PairsSaved
    <3>2. pairSave' \in [at : {"none", "sent", "closed"}, rows : Seq(AnyPair)] /\ pairSave'.rows = pairSave.rows
      BY <3>1 DEF KeysInv
    <3> QED
      BY <2>1, <3>1, <3>2, Zenon DEF KeysInv, Crashed
  <2> QED
    BY <2>2, <2>3
<1>8. ASSUME NEW i \in DOMAIN pairs, RemovePair(i)
      PROVE  KeysInv'
  <2>1. /\ pairs' = IF Len(pairs) = 1 THEN <<BlankPair>> ELSE RemoveAt(pairs, i)
        /\ UNCHANGED <<pairsOf, drag, pairSave, pairSaves>> /\ Crashed \notin Range(pairs)
    BY <1>8 DEF RemovePair, Edits
  <2>2. i \in 1 .. Len(pairs) /\ Len(pairs) <= MaxPairs /\ Len(pairs) >= 1
    BY <1>0, <2>1, PairBounds DEF KeysInv
  <2>3. RemoveAt(pairs, i) \in Seq(AnyPair) /\ Len(RemoveAt(pairs, i)) = Len(pairs) - 1
    BY <1>0, <2>2, RemovedRows
  <2>4. pairs' \in Seq(AnyPair)
    BY <2>1, <2>3, SomePairs, OnePair
  <2>5. Len(pairs') \in 1 .. MaxPairs + 1 /\ Len(pairs') <= MaxPairs
    <3>1. CASE Len(pairs) = 1
      BY <2>1, <3>1, PairBounds
    <3>2. CASE Len(pairs) # 1
      BY <1>0, <2>1, <2>2, <2>3, <3>2, PairBounds
    <3> QED
      BY <3>1, <3>2
  <2> QED
    BY <2>1, <2>4, <2>5, Zenon DEF KeysInv
<1>9. ASSUME NEW i \in DOMAIN pairs, ChangePairName(i) \/ ChangePairText(i) \/ ChooseName(i) \/ ChooseKey(i)
      PROVE  KeysInv'
  <2>1. pairs[i] \in AnyPair
    BY <1>0
  <2>2. ASSUME NEW n \in PairName \cup {""} PROVE [pairs[i] EXCEPT !.name = n] \in AnyPair
    BY <2>1 DEF AnyPair
  <2>3. ASSUME NEW t \in PairText \cup {""} PROVE [pairs[i] EXCEPT !.text = t] \in AnyPair
    BY <2>1 DEF AnyPair
  <2>4. ASSUME NEW r \in RefResource PROVE [pairs[i] EXCEPT !.ref = r, !.key = ""] \in AnyPair
    BY <2>1 DEF AnyPair
  <2>5. ASSUME pairs[i].ref \in RefResource PROVE [pairs[i] EXCEPT !.key = pairs[i].ref] \in AnyPair
    BY <2>1, <2>5 DEF AnyPair
  <2>6. CASE ChangePairName(i)
    BY <2>2, <2>6, ChangedPairs DEF ChangePairName
  <2>7. CASE ChangePairText(i)
    BY <2>3, <2>7, ChangedPairs DEF ChangePairText
  <2>8. CASE ChooseName(i)
    BY <2>4, <2>8, ChangedPairs DEF ChooseName
  <2>9. CASE ChooseKey(i)
    BY <2>5, <2>9, ChangedPairs DEF ChooseKey
  <2> QED
    BY <1>9, <2>6, <2>7, <2>8, <2>9
<1>10. ASSUME NEW i \in DOMAIN pairs, BeginDrag(i)
       PROVE  KeysInv'
  <2>1. /\ drag' = [on |-> TRUE, index |-> i, rows |-> <<pairs, pairs[i]>>, replaced |-> FALSE]
        /\ UNCHANGED <<pairsOf, pairs, pairSave, pairSaves>> /\ Crashed \notin Range(pairs)
    BY <1>10 DEF BeginDrag, Edits
  <2>2. i \in 1 .. MaxPairs
    BY <1>0, <2>1, PairBounds DEF KeysInv
  <2>3. /\ {"on", "index", "rows", "replaced"} \subseteq DOMAIN drag'
        /\ drag'.on \in BOOLEAN /\ drag'.replaced \in BOOLEAN /\ drag'.index = i
    BY <2>1
  <2> QED
    BY <2>1, <2>2, <2>3, Zenon DEF KeysInv, Crashed
<1>11. ASSUME NEW i \in DOMAIN pairs, Hover(i)
       PROVE  KeysInv'
  <2>1. /\ Crashed \notin Range(pairs) /\ i # drag.index /\ drag.index <= Len(pairs) + 1
        /\ pairs' = MovePair(drag.index, i) /\ drag' = [drag EXCEPT !.index = i]
        /\ UNCHANGED <<pairsOf, pairSave, pairSaves>>
    BY <1>11 DEF Hover
  <2>2. /\ Len(pairs) <= MaxPairs /\ Len(pairs) >= 1 /\ i \in 1 .. MaxPairs
        /\ drag.index \in 1 .. Len(pairs) + 1 /\ i \in 1 .. Len(pairs) /\ DOMAIN pairs = 1 .. Len(pairs)
    BY <1>0, <2>1, PairBounds DEF KeysInv
  <2>3. RowAt(drag.index) \in AnyPair /\ RowAt(i) \in AnyPair
    BY <1>0, SomePairs DEF RowAt
  <2>4. /\ {"on", "index", "rows", "replaced"} \subseteq DOMAIN drag'
        /\ drag'.on \in BOOLEAN /\ drag'.replaced \in BOOLEAN /\ drag'.index = i
    BY <2>1 DEF KeysInv
  <2>5. CASE drag.index \in DOMAIN pairs
    <3>1. DOMAIN pairs' = 1 .. Len(pairs) /\ \A k \in 1 .. Len(pairs) : pairs'[k] \in AnyPair
      BY <1>0, <2>1, <2>2, <2>3, <2>5 DEF MovePair
    <3>2. pairs' \in Seq(AnyPair) /\ Len(pairs') = Len(pairs)
      <4>1. pairs' = [k \in 1 .. Len(pairs) |-> pairs'[k]]
        BY <2>1, <3>1 DEF MovePair
      <4> QED
        BY <1>0, <3>1, <4>1
    <3>3. Len(pairs') \in 1 .. MaxPairs + 1 /\ Len(pairs') <= MaxPairs
      BY <1>0, <2>2, <3>2, PairBounds
    <3> QED
      BY <2>1, <2>2, <2>4, <3>2, <3>3, Zenon DEF KeysInv
  <2>6. CASE drag.index \notin DOMAIN pairs
    <3>0. drag.index = Len(pairs) + 1
      BY <1>0, <2>2, <2>6
    <3>1. DOMAIN pairs' = 1 .. Len(pairs) + 1 /\ \A k \in 1 .. Len(pairs) + 1 : pairs'[k] \in AnyPair
      BY <1>0, <2>1, <2>2, <2>3, <3>0 DEF MovePair
    <3>2. pairs' \in Seq(AnyPair) /\ Len(pairs') = Len(pairs) + 1
      <4>1. pairs' = [k \in 1 .. Len(pairs) + 1 |-> pairs'[k]]
        BY <2>1, <3>1 DEF MovePair
      <4> QED
        BY <1>0, <3>1, <4>1
    <3>3. Len(pairs') \in 1 .. MaxPairs + 1
      BY <1>0, <2>2, <3>2, PairBounds
    <3>4. pairs'[i] = Crashed /\ i \in DOMAIN pairs'
      BY <1>0, <2>1, <2>2, <2>6, <3>1 DEF MovePair, RowAt
    <3>5. Crashed \in Range(pairs')
      BY <3>4 DEF Range
    <3> QED
      BY <2>1, <2>2, <2>4, <3>2, <3>3, <3>5, Zenon DEF KeysInv, Crashed
  <2> QED
    BY <2>5, <2>6
<1> QED
  BY <1>1, <1>3, <1>4, <1>5, <1>6, <1>7, <1>8, <1>9, <1>10, <1>11 DEF PairsNext

LEMMA KeysInvShows == KeysInv => KeysAreTheirs /\ PairsTypeOK
<1> SUFFICES ASSUME KeysInv PROVE KeysAreTheirs /\ PairsTypeOK
  OBVIOUS
<1>1. Range(pairs) \subseteq AnyPair /\ Range(pairSave.rows) \subseteq AnyPair
  BY DEF KeysInv, Range
<1> QED
  BY <1>1 DEF KeysInv, KeysAreTheirs, PairsTypeOK, AnyPair

-----------------------------------------------------------------------------
(* The rows of a dropdown *)

\* Two lists without a common member, one after the other, name none twice if they do not.
LEMMA JoinedLists ==
    ASSUME NEW T, NEW s \in Seq(T), NEW t \in Seq(T), IsInjective(s), IsInjective(t), Range(s) \cap Range(t) = {}
    PROVE  s \o t \in Seq(T) /\ IsInjective(s \o t) /\ Range(s \o t) = Range(s) \cup Range(t)
<1>1. /\ s \o t \in Seq(T) /\ DOMAIN (s \o t) = 1 .. Len(s) + Len(t)
      /\ Len(s) \in Nat /\ Len(t) \in Nat /\ DOMAIN s = 1 .. Len(s) /\ DOMAIN t = 1 .. Len(t)
      /\ \A i \in 1 .. Len(s) : (s \o t)[i] = s[i]
      /\ \A i \in 1 .. Len(t) : (s \o t)[Len(s) + i] = t[i]
  BY ConcatProperties
<1>2. ASSUME NEW i \in DOMAIN (s \o t)
      PROVE  i \in DOMAIN s \/ (i - Len(s) \in DOMAIN t /\ i = Len(s) + (i - Len(s)) /\ i \notin DOMAIN s)
  BY <1>1
<1>3. \A i \in DOMAIN s, j \in DOMAIN t : s[i] # t[j]
  BY DEF Range
<1> DEFINE both == s \o t
<1> HIDE DEF both
<1>4. ASSUME NEW a \in DOMAIN both, NEW b \in DOMAIN both, both[a] = both[b]
      PROVE  a = b
  <2>1. CASE a \in DOMAIN s /\ b \in DOMAIN s
    BY <1>1, <1>4, <2>1 DEF IsInjective, both
  <2>2. CASE a \notin DOMAIN s /\ b \notin DOMAIN s
    <3>1. /\ a - Len(s) \in DOMAIN t /\ a = Len(s) + (a - Len(s))
          /\ b - Len(s) \in DOMAIN t /\ b = Len(s) + (b - Len(s))
      BY <1>2, <2>2 DEF both
    <3>2. t[a - Len(s)] = t[b - Len(s)]
      BY <1>1, <1>4, <3>1 DEF both
    <3>3. a - Len(s) = b - Len(s)
      BY <3>1, <3>2 DEF IsInjective
    <3> QED
      BY <3>1, <3>3
  <2>3. CASE a \in DOMAIN s /\ b \notin DOMAIN s
    <3>1. b - Len(s) \in DOMAIN t /\ b = Len(s) + (b - Len(s))
      BY <1>2, <2>3 DEF both
    <3>2. both[a] = s[a] /\ both[b] = t[b - Len(s)]
      BY <1>1, <2>3, <3>1 DEF both
    <3> QED
      BY <1>3, <1>4, <2>3, <3>1, <3>2
  <2>4. CASE a \notin DOMAIN s /\ b \in DOMAIN s
    <3>1. a - Len(s) \in DOMAIN t /\ a = Len(s) + (a - Len(s))
      BY <1>2, <2>4 DEF both
    <3>2. both[b] = s[b] /\ both[a] = t[a - Len(s)]
      BY <1>1, <2>4, <3>1 DEF both
    <3> QED
      BY <1>3, <1>4, <2>4, <3>1, <3>2
  <2> QED
    BY <2>1, <2>2, <2>3, <2>4
<1>5. Range(both) = Range(s) \cup Range(t)
  <2>1. ASSUME NEW x \in Range(both) PROVE x \in Range(s) \cup Range(t)
    <3>1. PICK i \in DOMAIN both : x = both[i]
      BY DEF Range
    <3>2. CASE i \in DOMAIN s
      BY <1>1, <3>1, <3>2 DEF Range, both
    <3>3. CASE i \notin DOMAIN s
      <4>1. i - Len(s) \in DOMAIN t /\ i = Len(s) + (i - Len(s))
        BY <1>2, <3>3 DEF both
      <4>2. x = t[i - Len(s)]
        BY <1>1, <3>1, <4>1 DEF both
      <4> QED
        BY <4>1, <4>2 DEF Range
    <3> QED
      BY <3>2, <3>3
  <2>2. ASSUME NEW x \in Range(s) PROVE x \in Range(both)
    <3>1. PICK i \in DOMAIN s : x = s[i]
      BY DEF Range
    <3>2. i \in DOMAIN both /\ both[i] = x
      BY <1>1, <3>1 DEF both
    <3> QED
      BY <3>2 DEF Range
  <2>3. ASSUME NEW x \in Range(t) PROVE x \in Range(both)
    <3>1. PICK i \in DOMAIN t : x = t[i]
      BY DEF Range
    <3>2. Len(s) + i \in DOMAIN both /\ both[Len(s) + i] = x
      BY <1>1, <3>1 DEF both
    <3> QED
      BY <3>2 DEF Range
  <2> QED
    BY <2>1, <2>2, <2>3
<1> QED
  BY <1>1, <1>4, <1>5 DEF IsInjective, both

\* A set that is listed.
LEMMA ListedSet ==
    ASSUME NEW S, IsFiniteSet(S)
    PROVE  SetToSeq(S) \in Seq(S) /\ IsInjective(SetToSeq(S)) /\ Range(SetToSeq(S)) = S
<1> DEFINE list == SetToSeq(S)
           n == Cardinality(S)
<1>1. /\ list \in [1 .. n -> S] /\ n \in Nat
      /\ \A i, j \in 1 .. n : list[i] = list[j] => i = j
      /\ \A x \in S : \E i \in 1 .. n : list[i] = x
  BY ListsTheSet
<1> HIDE DEF list, n
<1>2. list \in Seq(S) /\ IsInjective(list)
  BY <1>1 DEF IsInjective
<1>3. Range(list) = S
  BY <1>1 DEF Range
<1> QED
  BY <1>2, <1>3 DEF list

\* The rows of a dropdown: what matches of its items and bookmarks, none of them twice.
LEMMA FilteredRowsOf ==
    ASSUME NEW text, NEW marked \in Seq(MenuItem), IsInjective(marked), NEW listed \in SUBSET MenuItem
    PROVE  /\ FilteredItems(text, marked, listed) \in Seq(MenuItem)
           /\ IsInjective(FilteredItems(text, marked, listed))
           /\ Range(FilteredItems(text, marked, listed)) = {k \in listed \cup Range(marked) : Matches(text, k)}
<1> DEFINE rest == listed \ Range(marked)
           all == marked \o SetToSeq(rest)
           matching == {k \in Range(all) : Matches(text, k)}
<1>1. IsFiniteSet(rest)
  <2>1. IsFiniteSet(MenuItem) /\ rest \in SUBSET MenuItem
    BY DropdownAssumption, Zenon
  <2> HIDE DEF rest
  <2> QED
    BY <2>1, FS_Subset
<1>2. SetToSeq(rest) \in Seq(rest) /\ IsInjective(SetToSeq(rest)) /\ Range(SetToSeq(rest)) = rest
  <2> HIDE DEF rest
  <2> QED
    BY <1>1, ListedSet
<1>3. rest \in SUBSET MenuItem /\ Range(marked) \cap rest = {} /\ Range(marked) \cup rest = listed \cup Range(marked)
  OBVIOUS
<1>4. SetToSeq(rest) \in Seq(MenuItem)
  <2> HIDE DEF rest
  <2> QED
    BY <1>2, <1>3
<1>5. all \in Seq(MenuItem) /\ IsInjective(all) /\ Range(all) = listed \cup Range(marked)
  <2> HIDE DEF rest
  <2> QED
    BY <1>2, <1>3, <1>4, JoinedLists
<1>6. FilteredItems(text, marked, listed) = Among(all, matching)
  BY DEF FilteredItems
<1>7. Range(all) \cap matching = {k \in listed \cup Range(marked) : Matches(text, k)}
  BY <1>5
<1> HIDE DEF all, matching
<1>8. Among(all, matching) \in Seq(MenuItem) /\ Range(Among(all, matching)) = Range(all) \cap matching
      /\ IsInjective(Among(all, matching))
  BY <1>5, AmongKeeps
<1> QED
  BY <1>6, <1>7, <1>8

Bookmarked == {m \in Seq(MenuItem) : IsInjective(m)}

\* The rows and the bookmarks, here and in the storage, name nothing twice, and once there are
\* items the parent's choice is one.
MenuInv ==
    /\ DropdownTypeOK
    /\ menuRows \in Bookmarked /\ bookmarks \in Bookmarked
    /\ storedMarks \in [bookmarks : Bookmarked, favorite : MenuItem \cup {""}]
    /\ offered # {} => chosen \in offered
    /\ MenuIsTrue

LEMMA MenuBounds == MaxReceived \in Nat /\ MaxBookmarks \in Nat /\ 0 \in 0 .. MaxReceived /\ 0 \in 0 .. MaxBookmarks
<1>1. MaxReceived \in Nat /\ MaxBookmarks \in Nat
  BY DropdownAssumption, Zenon
<1> QED
  BY <1>1

\* No rows, and one.
LEMMA ShortLists ==
    /\ <<>> \in Bookmarked /\ Range(<<>>) = {}
    /\ \A key \in MenuItem : <<key>> \in Bookmarked
<1>1. Range(<<>>) = {} /\ IsInjective(<<>>)
  BY DEF Range, IsInjective
<1>2. \A key \in MenuItem : <<key>> \in Seq(MenuItem) /\ IsInjective(<<key>>)
  BY DEF IsInjective
<1> QED
  BY <1>1, <1>2 DEF Bookmarked

LEMMA DropdownOpensMenu == ASSUME NEW key \in MenuItem, DropdownOpens(key) PROVE MenuInv
<1>1. changed \in 0 .. MaxReceived /\ marks \in 0 .. MaxBookmarks
  BY MenuBounds, Zenon DEF DropdownOpens
<1> QED
  BY <1>1, ShortLists DEF DropdownOpens, MenuInv, DropdownTypeOK, MenuIsTrue

LEMMA DropdownInitMenu == DropdownInit => MenuInv
BY DropdownOpensMenu DEF DropdownInit

\* The arrows come to a row, or to none if there are none.
LEMMA ArrowRow == ASSUME MenuInv, NEW step \in {1, -1}, Arrow(step) PROVE hoverKey' \in MenuItem \cup {""}
<1>1. menuRows \in Seq(MenuItem)
  BY DEF MenuInv, Bookmarked
<1>2. CASE menuRows = <<>>
  BY <1>2 DEF Arrow
<1>3. CASE menuRows # <<>>
  <2> DEFINE index == IF hoverKey \in Range(menuRows) THEN CHOOSE i \in DOMAIN menuRows : menuRows[i] = hoverKey ELSE 0
             next == index + step
  <2>1. hoverKey' = menuRows[IF next > Len(menuRows) THEN 1 ELSE IF next < 1 THEN Len(menuRows) ELSE next]
    BY <1>3 DEF Arrow
  <2>2. index \in Int
    <3>1. CASE hoverKey \in Range(menuRows)
      <4>1. \E i \in DOMAIN menuRows : menuRows[i] = hoverKey
        BY <3>1 DEF Range
      <4>2. index \in DOMAIN menuRows
        BY <3>1, <4>1
      <4> QED
        BY <1>1, <4>2
    <3>2. CASE hoverKey \notin Range(menuRows)
      BY <3>2
    <3> QED
      BY <3>1, <3>2
  <2> HIDE DEF index
  <2>3. Len(menuRows) \in Nat /\ Len(menuRows) >= 1 /\ next \in Int
    BY <1>1, <1>3, <2>2
  <2> HIDE DEF next
  <2> DEFINE at == IF next > Len(menuRows) THEN 1 ELSE IF next < 1 THEN Len(menuRows) ELSE next
  <2>4. at \in 1 .. Len(menuRows) /\ hoverKey' = menuRows[at]
    BY <2>1, <2>3
  <2> HIDE DEF at
  <2> QED
    BY <1>1, <2>4, ElementOfSeq
<1> QED
  BY <1>2, <1>3

LEMMA DropdownNextMenu == MenuInv /\ [DropdownNext]_menuVars => MenuInv'
<1> SUFFICES ASSUME MenuInv, [DropdownNext]_menuVars PROVE MenuInv'
  OBVIOUS
<1>00. changed \in 0 .. MaxReceived /\ marks \in 0 .. MaxBookmarks
  BY DEF MenuInv, DropdownTypeOK
<1>0. /\ menuRows \in Seq(MenuItem) /\ Range(menuRows) \subseteq MenuItem
      /\ bookmarks \in Seq(MenuItem) /\ IsInjective(bookmarks) /\ Range(bookmarks) \subseteq MenuItem
      /\ storedMarks.bookmarks \in Bookmarked /\ storedMarks.favorite \in MenuItem \cup {""}
      /\ changed \in 0 .. MaxReceived /\ marks \in 0 .. MaxBookmarks
      /\ offered \in SUBSET MenuItem /\ chosen \in MenuItem
  BY DEF MenuInv, DropdownTypeOK, Bookmarked
<1>1. CASE UNCHANGED menuVars
  BY <1>1 DEF menuVars, parentVars, shownVars, markVars, MenuInv, DropdownTypeOK, MenuIsTrue
<1>2. CASE MountMenu
  <2>1. /\ menu' = "closed" /\ hoverKey' = "" /\ typed' = ""
        /\ bookmarks' = storedMarks.bookmarks /\ favoriteKey' = storedMarks.favorite
        /\ menuRows' = FilteredItems("", bookmarks', offered)
        /\ selectedKey' = chosen /\ title' = chosen
        /\ UNCHANGED <<chosen, offered, changed, listening, storedMarks, marks>>
    BY <1>2 DEF MountMenu, parentVars
  <2>2. bookmarks' \in Seq(MenuItem) /\ IsInjective(bookmarks') /\ Range(bookmarks') \subseteq MenuItem
    <3>1. bookmarks' \in Bookmarked
      BY <1>0, <2>1
    <3>2. bookmarks' \in Seq(MenuItem) /\ IsInjective(bookmarks')
      BY <3>1 DEF Bookmarked
    <3>3. \A i \in DOMAIN bookmarks' : bookmarks'[i] \in MenuItem
      BY <3>2
    <3> QED
      BY <3>2, <3>3 DEF Range
  <2>3. /\ menuRows' \in Seq(MenuItem) /\ IsInjective(menuRows')
        /\ Range(menuRows') = {k \in offered \cup Range(bookmarks') : Matches("", k)}
    BY <1>0, <2>1, <2>2, FilteredRowsOf
  <2> QED
    BY <1>0, <2>1, <2>2, <2>3 DEF MenuInv, DropdownTypeOK, MenuIsTrue, Bookmarked
<1>3. CASE UnmountMenu
  BY <1>3 DEF UnmountMenu, parentVars, shownVars, markVars, MenuInv, DropdownTypeOK, MenuIsTrue
<1>4. CASE Show \/ Hide \/ ClickElsewhere
  BY <1>4 DEF Show, Hide, ClickElsewhere, parentVars, shownVars, markVars, MenuInv, DropdownTypeOK, MenuIsTrue
<1>5. ASSUME NEW key \in Range(menuRows), menu = "open", Pick(key)
      PROVE  MenuInv'
  <2>1. /\ chosen' = key /\ menu' = "closed" /\ UNCHANGED <<changed, listening, hoverKey, bookmarks, favoriteKey, storedMarks, marks>>
        /\ offered' = (IF offered = {} THEN {} ELSE offered \cup {key})
    BY <1>5 DEF Pick, markVars
  <2>2. key \in MenuItem /\ offered' \in SUBSET MenuItem /\ (offered' # {} => key \in offered')
    BY <1>0, <2>1
  <2>3. CASE key = chosen
    <3>1. selectedKey' = key /\ title' = (IF key \in offered THEN key ELSE "") /\ UNCHANGED <<menuRows, typed>>
      BY <1>5, <2>3 DEF Pick
    <3>2. offered' \subseteq offered \cup {}
      BY <2>1, <2>3 DEF MenuInv
    <3>3. chosen \in offered' => chosen \in offered
      BY <3>2
    <3> QED
      BY <1>0, <1>5, <2>1, <2>2, <2>3, <3>1, <3>2, <3>3 DEF MenuInv, DropdownTypeOK, MenuIsTrue, Bookmarked
  <2>4. CASE key # chosen
    <3>1. /\ selectedKey' = key /\ title' = key /\ UNCHANGED typed
          /\ menuRows' = FilteredItems(typed, bookmarks, offered')
      BY <1>5, <2>1, <2>4 DEF Pick, ReceiveProps
    <3>2. /\ menuRows' \in Seq(MenuItem) /\ IsInjective(menuRows')
          /\ Range(menuRows') = {k \in offered' \cup Range(bookmarks) : Matches(typed, k)}
      BY <1>0, <2>2, <3>1, FilteredRowsOf
    <3> QED
      BY <1>0, <2>1, <2>2, <3>1, <3>2 DEF MenuInv, DropdownTypeOK, MenuIsTrue, Bookmarked
  <2> QED
    BY <2>3, <2>4
<1>6. ASSUME NEW key \in MenuItem, ClickItem(key)
      PROVE  MenuInv'
  BY <1>5, <1>6 DEF ClickItem
<1>7. CASE PickHovered
  BY <1>5, <1>7 DEF PickHovered
<1>8. CASE Arrow(1) \/ Arrow(-1)
  <2>1. hoverKey' \in MenuItem \cup {""}
    BY <1>8, ArrowRow
  <2>2. UNCHANGED <<chosen, offered, changed, menu, listening, selectedKey, title, menuRows, typed,
                    bookmarks, favoriteKey, storedMarks, marks>>
    BY <1>8 DEF Arrow, parentVars, shownVars, markVars
  <2> QED
    BY <2>1, <2>2 DEF MenuInv, DropdownTypeOK, MenuIsTrue
<1>9. ASSUME NEW text \in FilterText, TypeText(text)
      PROVE  MenuInv'
  <2>1. /\ typed' = text /\ menuRows' = FilteredItems(text, bookmarks, offered)
        /\ UNCHANGED <<chosen, offered, changed, menu, listening, hoverKey, selectedKey, title,
                       bookmarks, favoriteKey, storedMarks, marks>>
    BY <1>9 DEF TypeText, parentVars, markVars
  <2>2. /\ menuRows' \in Seq(MenuItem) /\ IsInjective(menuRows')
        /\ Range(menuRows') = {k \in offered \cup Range(bookmarks) : Matches(text, k)}
    BY <1>0, <2>1, FilteredRowsOf
  <2> QED
    BY <1>0, <2>1, <2>2 DEF MenuInv, DropdownTypeOK, MenuIsTrue, Bookmarked
<1>10. ASSUME NEW key \in MenuItem, Bookmark(key) \/ UnBookmark(key) \/ StarBookmark(key) \/ OtherTabStores(<<key>>, key)
       PROVE  MenuInv'
  <2>1. /\ marks < MaxBookmarks /\ marks' = marks + 1
        /\ UNCHANGED <<chosen, offered, changed, menu, listening, hoverKey, selectedKey, title, menuRows, typed>>
    BY <1>10 DEF Bookmark, UnBookmark, StarBookmark, OtherTabStores, SetBookmarks, parentVars, shownVars
  <2>2. marks' \in 0 .. MaxBookmarks
    BY <1>00, <2>1, MenuBounds
  <2>3. ASSUME bookmarks' \in Bookmarked, Range(bookmarks') \subseteq Range(bookmarks) \cup Range(menuRows),
               favoriteKey' \in MenuItem \cup {""}, storedMarks' \in [bookmarks : Bookmarked, favorite : MenuItem \cup {""}]
        PROVE  MenuInv'
    BY <1>0, <2>1, <2>2, <2>3 DEF MenuInv, DropdownTypeOK, MenuIsTrue
  <2>4. CASE Bookmark(key)
    <3>1. /\ key \in Range(menuRows) \ Range(bookmarks) /\ bookmarks' = Append(bookmarks, key)
          /\ storedMarks' = [storedMarks EXCEPT !.bookmarks = bookmarks'] /\ favoriteKey' = favoriteKey
      BY <2>4 DEF Bookmark, SetBookmarks
    <3>2. /\ Append(bookmarks, key) \in Seq(MenuItem) /\ IsInjective(Append(bookmarks, key))
          /\ Range(Append(bookmarks, key)) = Range(bookmarks) \cup {key}
      <4>1. /\ Append(bookmarks, key) \in Seq(MenuItem) /\ Len(bookmarks) \in Nat /\ DOMAIN bookmarks = 1 .. Len(bookmarks)
            /\ DOMAIN Append(bookmarks, key) = 1 .. Len(bookmarks) + 1
            /\ \A i \in DOMAIN bookmarks : Append(bookmarks, key)[i] = bookmarks[i]
            /\ Append(bookmarks, key)[Len(bookmarks) + 1] = key
        <5>1. bookmarks \in Seq(MenuItem)
          BY <1>0
        <5> HIDE DEF MenuInv
        <5> QED
          BY <5>1, AppendProperties
      <4>2. \A i \in DOMAIN Append(bookmarks, key) : i \in DOMAIN bookmarks \/ i = Len(bookmarks) + 1
        BY <4>1
      <4>3. \A i \in DOMAIN bookmarks : bookmarks[i] # key
        BY <3>1 DEF Range
      <4>4. IsInjective(Append(bookmarks, key))
        BY <1>0, <4>1, <4>2, <4>3 DEF IsInjective
      <4>5. Len(bookmarks) + 1 \in DOMAIN Append(bookmarks, key) /\ DOMAIN bookmarks \subseteq DOMAIN Append(bookmarks, key)
        BY <4>1
      <4>6. Range(Append(bookmarks, key)) = Range(bookmarks) \cup {key}
        <5> DEFINE more == Append(bookmarks, key)
        <5>1. \A i \in DOMAIN more : more[i] \in Range(bookmarks) \cup {key}
          BY <4>1, <4>2 DEF Range
        <5>2. \A i \in DOMAIN bookmarks : bookmarks[i] \in Range(more)
          BY <4>1, <4>5 DEF Range
        <5>3. key \in Range(more)
          BY <4>1, <4>5 DEF Range
        <5> HIDE DEF more
        <5> QED
          BY <5>1, <5>2, <5>3 DEF Range, more
      <4> QED
        BY <4>1, <4>4, <4>6
    <3> QED
      BY <2>3, <3>1, <3>2 DEF MenuInv, Bookmarked, DropdownTypeOK
  <2>5. CASE UnBookmark(key)
    <3> DEFINE fewer == Among(bookmarks, Range(bookmarks) \ {key})
    <3>1. bookmarks' = fewer /\ storedMarks' = [storedMarks EXCEPT !.bookmarks = fewer] /\ favoriteKey' = favoriteKey
      BY <2>5 DEF UnBookmark, SetBookmarks
    <3>2. fewer \in Bookmarked /\ Range(fewer) \subseteq Range(bookmarks)
      <4>1. fewer \in Seq(MenuItem) /\ Range(fewer) = Range(bookmarks) \cap (Range(bookmarks) \ {key}) /\ IsInjective(fewer)
        BY <1>0, AmongKeeps
      <4> QED
        BY <4>1 DEF Bookmarked
    <3> HIDE DEF fewer
    <3> QED
      BY <2>3, <3>1, <3>2 DEF MenuInv, DropdownTypeOK
  <2>6. CASE StarBookmark(key)
    <3>1. /\ favoriteKey' = (IF favoriteKey = key THEN "" ELSE key) /\ bookmarks' = bookmarks
          /\ storedMarks' = [storedMarks EXCEPT !.favorite = favoriteKey']
      BY <2>6 DEF StarBookmark
    <3> QED
      BY <2>3, <3>1 DEF MenuInv
  <2>7. CASE OtherTabStores(<<key>>, key)
    <3>1. storedMarks' = [bookmarks |-> <<key>>, favorite |-> key] /\ UNCHANGED <<bookmarks, favoriteKey>>
      BY <2>7 DEF OtherTabStores
    <3> QED
      BY <2>3, <3>1, ShortLists DEF MenuInv, DropdownTypeOK
  <2> QED
    BY <1>10, <2>4, <2>5, <2>6, <2>7
<1>11. ASSUME NEW key \in MenuItem, NEW listed \in SUBSET MenuItem, ParentChanges(key, listed)
       PROVE  MenuInv'
  <2>1. /\ changed < MaxReceived /\ changed' = changed + 1 /\ chosen' = key /\ offered' = listed
        /\ listed # {} => key \in listed
        /\ UNCHANGED <<menu, listening, hoverKey, bookmarks, favoriteKey, storedMarks, marks>>
    BY <1>11 DEF ParentChanges, markVars
  <2>2. changed' \in 0 .. MaxReceived
    BY <1>00, <2>1, MenuBounds
  <2>3. CASE menu = "gone"
    <3>1. UNCHANGED <<selectedKey, title, menuRows, typed>>
      BY <1>11, <2>3 DEF ParentChanges, shownVars
    <3> QED
      BY <2>1, <2>2, <2>3, <3>1 DEF MenuInv, DropdownTypeOK, MenuIsTrue
  <2>4. CASE menu # "gone"
    <3>1. ReceiveProps(title)
      BY <1>11, <2>4 DEF ParentChanges
    <3>2. selectedKey' = key /\ typed' = typed
      BY <2>1, <2>4, <3>1 DEF ReceiveProps, MenuInv, MenuIsTrue
    <3>3. CASE offered' = offered /\ chosen' = chosen
      BY <2>1, <2>2, <2>4, <3>1, <3>2, <3>3 DEF ReceiveProps, MenuInv, DropdownTypeOK, MenuIsTrue
    <3>4. CASE ~(offered' = offered /\ chosen' = chosen)
      <4>1. title' = key /\ menuRows' = FilteredItems(typed, bookmarks, listed)
        BY <2>1, <3>1, <3>4 DEF ReceiveProps
      <4>2. /\ menuRows' \in Seq(MenuItem) /\ IsInjective(menuRows')
            /\ Range(menuRows') = {k \in listed \cup Range(bookmarks) : Matches(typed, k)}
        BY <1>0, <4>1, FilteredRowsOf
      <4> QED
        BY <1>0, <2>1, <2>2, <3>2, <4>1, <4>2 DEF MenuInv, DropdownTypeOK, MenuIsTrue, Bookmarked
    <3> QED
      BY <3>3, <3>4
  <2> QED
    BY <2>3, <2>4
<1> QED
  BY <1>1, <1>2, <1>3, <1>4, <1>6, <1>7, <1>8, <1>9, <1>10, <1>11 DEF DropdownNext

-----------------------------------------------------------------------------
(* The table of a report *)

\* The field of the address that is sorted by is a column of its grouping, and once there is an
\* answer the table is the one of the address.
ReportInv ==
    /\ ChargebackTypeOK /\ reduceArg \in Reducers \cup {""}
    /\ sortArg # "" => sortArg \in ToSet(columns) /\ (sortArg = By(reduceArg) \/ sortArg \notin Reducers)
    /\ data # "none" =>
          /\ keys = FilterKeys(data, By(reduceArg))
          /\ sortBy = IF sortArg = "" THEN DefaultSort(keys) ELSE sortArg

\* The columns are a sequence of fields.
LEMMA ColumnsAreFields == ASSUME NEW c \in Columns PROVE c \in Seq(ReportField) /\ ToSet(c) \subseteq ReportField
<1>1. Cardinality(ReportField) \in Nat
  BY ChargebackAssumption, FS_CardinalityType
<1>2. PICK m \in 0 .. Cardinality(ReportField) : c \in [1 .. m -> ReportField]
  BY <1>1 DEF Columns, SeqOf
<1>3. m \in Nat
  BY <1>1
<1>4. c \in Seq(ReportField)
  BY <1>2, <1>3
<1> QED
  BY <1>4 DEF ToSet

\* The heads of a table: the columns without the reducers that it is not grouped by.
LEMMA HeadsOf ==
    ASSUME NEW c \in Columns, columns = c, NEW d \in {"none", "empty", "usage"}, NEW by
    PROVE  /\ FilterKeys(d, by) \in Seq(ReportField)
           /\ d = "usage" => ToSet(FilterKeys(d, by)) = {k \in ToSet(c) : k = by \/ k \notin Reducers}
           /\ d # "usage" => FilterKeys(d, by) = <<>>
<1>1. c \in Seq(ReportField) /\ ToSet(c) \subseteq ReportField
  BY ColumnsAreFields
<1> DEFINE kept == Among(c, (ReportField \ Reducers) \cup {by})
<1>2. kept \in Seq(ReportField) /\ Range(kept) = Range(c) \cap ((ReportField \ Reducers) \cup {by})
  BY <1>1, AmongKeeps
<1>3. \A s : Range(s) = ToSet(s)
  BY DEF Range, ToSet
<1>4. ToSet(kept) = {k \in ToSet(c) : k = by \/ k \notin Reducers}
  <2> HIDE DEF kept
  <2>1. ToSet(kept) = ToSet(c) \cap ((ReportField \ Reducers) \cup {by})
    BY <1>2, <1>3
  <2> QED
    BY <1>1, <2>1
<1>5. FilterKeys(d, by) = IF d = "usage" THEN kept ELSE <<>>
  BY DEF FilterKeys
<1> HIDE DEF kept
<1> QED
  BY <1>2, <1>4, <1>5

\* The default column is a head.
LEMMA DefaultIsAHead ==
    ASSUME NEW heads \in Seq(ReportField)
    PROVE  /\ heads # <<>> => DefaultSort(heads) \in ToSet(heads)
           /\ heads = <<>> => DefaultSort(heads) = ""
           /\ DefaultSort(heads) \in ReportField \cup {""} /\ FirstHead(heads) \in ReportField \cup {""}
           /\ ToSet(heads) \subseteq ReportField
<1>1. ToSet(heads) \subseteq ReportField
  BY DEF ToSet
<1>2. heads = <<>> => DefaultSort(heads) = "" /\ FirstHead(heads) = ""
  BY DEF DefaultSort, FirstHead
<1>3. ASSUME heads # <<>> PROVE DefaultSort(heads) \in ToSet(heads) /\ FirstHead(heads) \in ToSet(heads)
  <2>1. Len(heads) \in Nat /\ Len(heads) >= 1 /\ DOMAIN heads = 1 .. Len(heads)
    BY <1>3
  <2>2. heads[1] \in ToSet(heads) /\ (Len(heads) > 1 => heads[2] \in ToSet(heads))
    BY <2>1 DEF ToSet
  <2> QED
    BY <1>3, <2>2 DEF DefaultSort, FirstHead
<1> QED
  BY <1>1, <1>2, <1>3

LEMMA NothingListed == ToSet(<<>>) = {}
<1>1. DOMAIN <<>> = {}
  OBVIOUS
<1> QED
  BY <1>1 DEF ToSet

\* There is a report with a column.
LEMMA SomeColumns == Columns # {}
<1>1. PICK f : f \in ReportField
  BY ChargebackAssumption
<1>2. Cardinality(ReportField) \in Nat /\ Cardinality(ReportField) # 0
  BY ChargebackAssumption, FS_CardinalityType, FS_EmptySet
<1> DEFINE one == [i \in 1 .. 1 |-> f]
<1>3. one \in [1 .. 1 -> ReportField] /\ 1 \in 0 .. Cardinality(ReportField)
  BY <1>1, <1>2
<1>4. one \in SeqOf(ReportField, Cardinality(ReportField))
  BY <1>3 DEF SeqOf
<1>5. DOMAIN one = {1}
  OBVIOUS
<1>6. IsInjective(one)
  BY <1>5 DEF IsInjective
<1>7. one # <<>>
  <2>1. DOMAIN <<>> = {}
    OBVIOUS
  <2> QED
    BY <2>1, <1>5
<1> QED
  BY <1>4, <1>6, <1>7 DEF Columns

LEMMA ReportOpensInv ==
    ASSUME NEW c \in Columns, NEW p \in ReportPhases, NEW by \in {""} \cup (Reducers \cap ToSet(c)), NEW order \in {"", "asc", "desc"},
           NEW sort \in {""} \cup {k \in ToSet(c) : k = By(by) \/ k \notin Reducers},
           NEW a \in {"none", "asked"}, ReportOpens(c, p, by, sort, order, a)
    PROVE  ReportInv
<1>1. c \in Seq(ReportField) /\ ToSet(c) \subseteq ReportField
  BY ColumnsAreFields
<1>2. ToSet(<<>>) = {}
  BY NothingListed
<1> QED
  BY <1>1, <1>2 DEF ReportOpens, ReportInv, ChargebackTypeOK

LEMMA ChargebackInitInv == ChargebackInit => ReportInv
<1> SUFFICES ASSUME ChargebackInit PROVE ReportInv
  OBVIOUS
<1>1. PICK c \in Columns, p \in ReportPhases : \E by \in {""} \cup (Reducers \cap ToSet(c)), order \in {"", "asc", "desc"} :
         \E sort \in {""} \cup {k \in ToSet(c) : k = By(by) \/ k \notin Reducers} : ReportOpens(c, p, by, sort, order, "asked")
  BY DEF ChargebackInit
<1>2. PICK by \in {""} \cup (Reducers \cap ToSet(c)), order \in {"", "asc", "desc"} :
         \E sort \in {""} \cup {k \in ToSet(c) : k = By(by) \/ k \notin Reducers} : ReportOpens(c, p, by, sort, order, "asked")
  BY <1>1
<1>3. PICK sort \in {""} \cup {k \in ToSet(c) : k = By(by) \/ k \notin Reducers} : ReportOpens(c, p, by, sort, order, "asked")
  BY <1>2
<1> QED
  BY <1>3, ReportOpensInv

\* A table that is made is the one of its arguments.
LEMMA TableIsMade ==
    ASSUME ReportInv, NEW d \in {"empty", "usage"}, NEW by \in ReportField \cup {""}, NEW order \in {"", "asc", "desc"},
           NEW sort \in {""} \cup {k \in ToSet(columns) : k = By(by) \/ k \notin Reducers},
           columns' = columns, MakeTable(d, by, sort, order)
    PROVE  /\ keys' = FilterKeys(d, By(by)) /\ ToSet(keys') \subseteq ReportField
           /\ sortBy' = IF sort = "" THEN DefaultSort(keys') ELSE sort
           /\ sortBy' \in ReportField \cup {""} /\ orderBy' \in {"", "asc", "desc"}
           /\ reduceBy' = By(by)
<1>1. columns \in Columns
  BY DEF ReportInv, ChargebackTypeOK
<1>2. keys' = FilterKeys(d, By(by))
  BY DEF MakeTable, FilterKeys
<1>3. keys' \in Seq(ReportField)
  BY <1>1, <1>2, HeadsOf
<1>4. ToSet(columns) \subseteq ReportField
  BY <1>1, ColumnsAreFields
<1>5. sortBy' = IF sort = "" THEN DefaultSort(keys') ELSE sort
  BY DEF MakeTable
<1>6. orderBy' \in {"", "asc", "desc"} /\ reduceBy' = By(by)
  BY DEF MakeTable
<1> QED
  BY <1>2, <1>3, <1>4, <1>5, <1>6, DefaultIsAHead

LEMMA ChargebackNextInv == ReportInv /\ [ChargebackNext]_chargebackVars => ReportInv'
<1> SUFFICES ASSUME ReportInv, [ChargebackNext]_chargebackVars PROVE ReportInv'
  OBVIOUS
<1>0. columns \in Columns /\ ToSet(columns) \subseteq ReportField
  BY ColumnsAreFields DEF ReportInv, ChargebackTypeOK
<1>1. ASSUME UNCHANGED <<columns, reduceArg, sortArg, orderArg, reduceBy, sortBy, orderBy, keys, data>>,
             report' \in ReportPhases, seenPhase' \in ReportPhases, fetching' \in BOOLEAN, reportError' \in BOOLEAN,
             answer' \in {"none", "asked", "empty", "usage", "fails"}, missed' \in BOOLEAN
      PROVE  ReportInv'
  BY <1>1 DEF ReportInv, ChargebackTypeOK, FilterKeys, By
<1>2. CASE UNCHANGED chargebackVars
  BY <1>1, <1>2 DEF chargebackVars, addressVars, tableVars, ReportInv, ChargebackTypeOK
<1>3. CASE ReportEnds
  BY <1>1, <1>3 DEF ReportEnds, addressVars, tableVars, ReportInv, ChargebackTypeOK, ReportPhases
<1>4. CASE PhaseArrives
  BY <1>1, <1>4 DEF PhaseArrives, addressVars, tableVars, ReportInv, ChargebackTypeOK
<1>5. CASE ReportReads
  BY <1>1, <1>5 DEF ReportReads, addressVars, tableVars, ReportInv, ChargebackTypeOK
<1>6. CASE ReportAnswered
  <2>1. /\ answer \in {"empty", "usage", "fails"} /\ answer' = "none" /\ fetching' = FALSE
        /\ UNCHANGED <<columns, report, seenPhase, reduceArg, sortArg, missed>>
    BY <1>6 DEF ReportAnswered
  <2>2. CASE answer = "fails"
    <3>1. reportError' = TRUE /\ UNCHANGED <<data, orderArg, reduceBy, sortBy, orderBy, keys>>
      BY <1>6, <2>2 DEF ReportAnswered, tableVars
    <3> QED
      BY <1>1, <2>1, <3>1 DEF ReportInv, ChargebackTypeOK
  <2>3. CASE answer \in {"empty", "usage"}
    <3>1. /\ data' = answer /\ MakeTable(answer, reduceArg, sortArg, orderArg') /\ UNCHANGED reportError
          /\ orderArg' \in {"", "asc", "desc"}
      BY <1>6, <2>3 DEF ReportAnswered, HeadsMount, ReportInv, ChargebackTypeOK
    <3>2. /\ sortArg \in {""} \cup {k \in ToSet(columns) : k = By(reduceArg) \/ k \notin Reducers}
          /\ reduceArg \in ReportField \cup {""}
      BY DEF ReportInv, ChargebackTypeOK
    <3>3. /\ keys' = FilterKeys(answer, By(reduceArg)) /\ ToSet(keys') \subseteq ReportField
          /\ sortBy' = IF sortArg = "" THEN DefaultSort(keys') ELSE sortArg
          /\ sortBy' \in ReportField \cup {""} /\ orderBy' \in {"", "asc", "desc"}
          /\ reduceBy' = By(reduceArg)
      BY <2>1, <2>3, <3>1, <3>2, TableIsMade
    <3>4. reduceBy' \in Reducers \cup {""}
      BY <3>3 DEF By, Reducers, ReportInv
    <3>5. keys' = FilterKeys(data, By(reduceArg))'
      BY <2>1, <3>1, <3>3 DEF FilterKeys, By
    <3> QED
      BY <2>1, <2>3, <3>1, <3>3, <3>4, <3>5 DEF ReportInv, ChargebackTypeOK, By
  <2> QED
    BY <2>1, <2>2, <2>3
<1>7. ASSUME NEW k \in ReportField, GroupsBy(k)
      PROVE  ReportInv'
  <2>1. /\ data = "usage" /\ k \in Reducers \cap ToSet(columns) /\ reduceArg' = k
        /\ sortArg' = (IF sortBy \in Reducers THEN k ELSE sortArg) /\ MakeTable(data, k, sortArg', orderArg')
        /\ UNCHANGED <<columns, report, seenPhase, data, fetching, reportError, answer, missed>>
    BY <1>7 DEF GroupsBy
  <2>2. orderArg' \in {"", "asc", "desc"}
    BY <1>7 DEF GroupsBy, HeadsMount, ReportInv, ChargebackTypeOK
  <2>3. By(k) = k /\ k # ""
    BY ChargebackAssumption DEF By
  <2>4. sortArg' \in {""} \cup {f \in ToSet(columns) : f = By(k) \/ f \notin Reducers}
    BY <2>1, <2>3 DEF ReportInv
  <2>5. /\ keys' = FilterKeys(data, By(k)) /\ ToSet(keys') \subseteq ReportField
        /\ sortBy' = IF sortArg' = "" THEN DefaultSort(keys') ELSE sortArg'
        /\ sortBy' \in ReportField \cup {""} /\ orderBy' \in {"", "asc", "desc"}
        /\ reduceBy' = By(k)
    BY <2>1, <2>2, <2>4, TableIsMade
  <2>6. keys' = FilterKeys(data, By(reduceArg))'
    BY <2>1, <2>5 DEF FilterKeys, By
  <2>7. sortArg' # "" => sortArg' \in ToSet(columns') /\ (sortArg' = By(reduceArg)' \/ sortArg' \notin Reducers)
    BY <2>1, <2>3, <2>4 DEF By
  <2>8. ChargebackTypeOK'
    BY <1>0, <2>1, <2>2, <2>3, <2>4, <2>5 DEF ReportInv, ChargebackTypeOK
  <2> QED
    BY <2>1, <2>5, <2>6, <2>7, <2>8 DEF ReportInv
<1>8. ASSUME NEW k \in ReportField, SortsBy(k)
      PROVE  ReportInv'
  <2>1. /\ ReportScreen = "table" /\ k \in ToSet(keys) /\ sortArg' = k
        /\ MakeTable(data, reduceArg, k, orderArg') /\ orderArg' \in {"", "asc", "desc"}
        /\ UNCHANGED <<columns, report, seenPhase, reduceArg, data, fetching, reportError, answer, missed>>
    BY <1>8 DEF SortsBy
  <2>2. data # "none"
    BY <2>1 DEF ReportScreen
  <2>3. keys = FilterKeys(data, By(reduceArg)) /\ data \in {"empty", "usage"}
    BY <2>2 DEF ReportInv, ChargebackTypeOK
  <2>4. ToSet(<<>>) = {}
    BY NothingListed
  <2>5. data = "usage" /\ k \in {f \in ToSet(columns) : f = By(reduceArg) \/ f \notin Reducers}
    BY <1>0, <2>1, <2>3, <2>4, HeadsOf
  <2>6. reduceArg \in ReportField \cup {""} /\ k # ""
    BY ChargebackAssumption DEF ReportInv, ChargebackTypeOK
  <2>7. /\ keys' = FilterKeys("usage", By(reduceArg)) /\ ToSet(keys') \subseteq ReportField
        /\ sortBy' = IF k = "" THEN DefaultSort(keys') ELSE k
        /\ sortBy' \in ReportField \cup {""} /\ orderBy' \in {"", "asc", "desc"}
        /\ reduceBy' = By(reduceArg)
    BY <2>1, <2>5, <2>6, TableIsMade
  <2>8. reduceBy' \in Reducers \cup {""}
    BY <2>7 DEF By, Reducers, ReportInv
  <2>9. ChargebackTypeOK'
    BY <2>1, <2>7, <2>8 DEF ReportInv, ChargebackTypeOK
  <2>10. sortArg' # "" => sortArg' \in ToSet(columns') /\ (sortArg' = By(reduceArg)' \/ sortArg' \notin Reducers)
    BY <2>1, <2>5 DEF By
  <2> QED
    BY <2>1, <2>5, <2>6, <2>7, <2>9, <2>10 DEF ReportInv, FilterKeys, By
<1> QED
  BY <1>2, <1>3, <1>4, <1>5, <1>6, <1>7, <1>8 DEF ChargebackNext

LEMMA ReportInvShows == ReportInv => SortIsShown /\ ChargebackTypeOK
<1> SUFFICES ASSUME ReportInv, ReportScreen = "table", keys # <<>> PROVE sortBy \in ToSet(keys)
  BY DEF ReportInv, SortIsShown
<1>1. data # "none"
  BY DEF ReportScreen
<1>2. /\ keys = FilterKeys(data, By(reduceArg)) /\ sortBy = (IF sortArg = "" THEN DefaultSort(keys) ELSE sortArg)
      /\ data \in {"empty", "usage"} /\ columns \in Columns
  BY <1>1 DEF ReportInv, ChargebackTypeOK
<1>3. data = "usage" /\ keys \in Seq(ReportField)
  BY <1>2, HeadsOf
<1>4. ToSet(keys) = {k \in ToSet(columns) : k = By(reduceArg) \/ k \notin Reducers}
  BY <1>2, <1>3, HeadsOf
<1> QED
  BY <1>2, <1>3, <1>4, DefaultIsAHead DEF ReportInv

-----------------------------------------------------------------------------
(* The groups of a project *)

\* What is derived is derived from the workloads that are shown.
OverviewInv ==
    /\ OverviewTypeOK
    /\ overviewAt = "loaded" =>
          /\ items = BuildGraph(workloads)
          /\ filteredItems = FilterItems(items, filterValue)
          /\ groupedItems = GroupItems(items, filteredItems, selectedGroupLabel)

\* Some number of a finite set is the greatest.
LEMMA SomeIsGreatest ==
    ASSUME NEW S \in SUBSET Nat, IsFiniteSet(S), S # {}
    PROVE  \E m \in S : \A other \in S : other <= m
<1>1. Cardinality(S) \in Nat \ {0}
  BY FS_CardinalityType, FS_EmptySet
<1>2. PICK m \in S : RankIn(S, m) = Cardinality(S)
  BY <1>1, RanksAreAll
<1>3. ASSUME NEW other \in S PROVE other <= m
  <2>1. other \in Nat /\ m \in Nat
    OBVIOUS
  <2>2. ASSUME m < other PROVE FALSE
    <3>1. RankIn(S, m) < RankIn(S, other)
      BY <2>2, RanksAreDistinct
    <3>2. RankIn(S, other) \in 1 .. Cardinality(S)
      BY RanksAreAll
    <3> QED
      BY <1>1, <1>2, <3>1, <3>2
  <2> QED
    BY <2>1, <2>2
<1> QED
  BY <1>3

\* The head of the revisions in order is the greatest of them.
LEMMA HeadIsGreatest ==
    ASSUME NEW owned \in SUBSET Nat, IsFiniteSet(owned), owned # {}
    PROVE  CurrentController(owned) \in owned /\ CurrentController(owned) = Max(owned)
<1> DEFINE head == CHOOSE r \in owned : \A other \in owned \ {r} : Compare(r, other)
           greatest == CHOOSE x \in owned : \A y \in owned : x >= y
<1>1. PICK m \in owned : \A other \in owned : other <= m
  BY SomeIsGreatest
<1>2. \A r \in owned : r \in Nat
  OBVIOUS
<1>3. \A other \in owned \ {m} : Compare(m, other)
  BY <1>1, <1>2 DEF Compare
<1>4. head \in owned /\ \A other \in owned \ {head} : Compare(head, other)
  BY <1>3
<1>5. \A y \in owned : m >= y
  BY <1>1, <1>2
<1>6. greatest \in owned /\ \A y \in owned : greatest >= y
  BY <1>5
<1> HIDE DEF head, greatest
<1>7. head = greatest
  <2>1. head \in Nat /\ greatest \in Nat /\ greatest >= head
    BY <1>2, <1>4, <1>6
  <2>2. greatest # head => Compare(head, greatest)
    BY <1>4, <1>6
  <2> QED
    BY <2>1, <2>2 DEF Compare
<1>8. CurrentController(owned) = head
  BY DEF CurrentController, head
<1>9. Max(owned) = greatest
  BY DEF Max, greatest
<1> QED
  BY <1>4, <1>7, <1>8, <1>9

\* The controller of what a workload may own.
LEMMA ControllerOf ==
    ASSUME NEW owned \in Owned
    PROVE  /\ CurrentController(owned) = IF owned = {} THEN -1 ELSE Max(owned)
           /\ CurrentController(owned) \in (UNION Owned) \cup {-1}
<1>1. owned \subseteq Nat /\ IsFiniteSet(owned)
  BY OverviewAssumption, Zenon
<1>2. CASE owned = {}
  <2>1. CurrentController(owned) = -1
    BY <1>2, Zenon DEF CurrentController
  <2> DEFINE none == -1
  <2>2. none \in (UNION Owned) \cup {none}
    <3> HIDE DEF none
    <3> QED
      OBVIOUS
  <2> QED
    BY <1>2, <2>1, <2>2, Zenon
<1>3. CASE owned # {}
  BY <1>1, <1>3, HeadIsGreatest
<1> QED
  BY <1>2, <1>3

\* The workloads of a namespace, and the graph of them.
LEMMA GraphOf ==
    ASSUME NEW objects \in ProjectContents
    PROVE  /\ DOMAIN objects \subseteq Workload
           /\ \A w \in DOMAIN objects : objects[w].labels \in LabelSets /\ objects[w].owned \in Owned
           /\ DOMAIN BuildGraph(objects) = DOMAIN objects
           /\ \A w \in DOMAIN objects :
                 /\ BuildGraph(objects)[w].labels = objects[w].labels
                 /\ BuildGraph(objects)[w].currentController = CurrentController(objects[w].owned)
                 /\ BuildGraph(objects)[w].currentController \in (UNION Owned) \cup {-1}
<1>1. PICK names \in SUBSET Workload : objects \in [names -> WorkloadObjects]
  BY DEF ProjectContents
<1>2. \A w \in DOMAIN objects : objects[w].labels \in LabelSets /\ objects[w].owned \in Owned
  BY <1>1 DEF WorkloadObjects
<1>3. \A w \in DOMAIN objects : CurrentController(objects[w].owned) \in (UNION Owned) \cup {-1}
  BY <1>2, ControllerOf
<1> QED
  BY <1>1, <1>2, <1>3 DEF BuildGraph

\* Options that are added are keys, each once.
LEMMA MoreOptions ==
    ASSUME groupOptions \in Seq(LabelKey), IsInjective(groupOptions), NEW its, NEW visible,
           \A w \in visible : DOMAIN its[w].labels \subseteq LabelKey, NEW options \in GroupOptions(its, visible)
    PROVE  options \in Seq(LabelKey) /\ IsInjective(options)
<1> DEFINE new == (UNION {DOMAIN its[w].labels : w \in visible}) \ ToSet(groupOptions)
           D == 1 .. Cardinality(new)
<1>1. PICK list \in SetToSeqs(new) : options = groupOptions \o list
  BY DEF GroupOptions
<1>2. new \in SUBSET LabelKey /\ new \cap ToSet(groupOptions) = {}
  <2>1. ASSUME NEW key \in new PROVE key \in LabelKey /\ key \notin ToSet(groupOptions)
    <3>1. PICK w \in visible : key \in DOMAIN its[w].labels
      OBVIOUS
    <3> QED
      BY <3>1
  <2> HIDE DEF new
  <2> QED
    BY <2>1
<1> HIDE DEF new
<1>3. Cardinality(new) \in Nat
  <2>1. IsFiniteSet(LabelKey)
    BY OverviewAssumption, Zenon
  <2>2. IsFiniteSet(new)
    BY <1>2, <2>1, FS_Subset
  <2> QED
    BY <2>2, FS_CardinalityType
<1>4. list \in [D -> new] /\ \A i, j \in D : i # j => list[i] # list[j]
  BY DEF SetToSeqs
<1>5. list \in Seq(LabelKey) /\ IsInjective(list)
  BY <1>2, <1>3, <1>4 DEF IsInjective
<1>6. Range(groupOptions) = ToSet(groupOptions) /\ Range(list) \subseteq new
  BY <1>4 DEF Range, ToSet
<1>7. Range(groupOptions) \cap Range(list) = {}
  BY <1>2, <1>6
<1> QED
  BY <1>1, <1>5, <1>7, JoinedLists

LEMMA DefaultIsAnOption ==
    ASSUME NEW options \in Seq(LabelKey) PROVE DefaultLabel(options) \in ToSet(options) \cup {""}
<1>1. CASE options = <<>> \/ "app" \in ToSet(options)
  BY <1>1, NothingListed DEF DefaultLabel
<1>2. CASE options # <<>> /\ "app" \notin ToSet(options)
  <2>1. 1 \in DOMAIN options
    BY <1>2
  <2>2. options[1] \in ToSet(options)
    BY <2>1 DEF ToSet
  <2> QED
    BY <1>2, <2>2 DEF DefaultLabel
<1> QED
  BY <1>1, <1>2

LEMMA OverviewInitInv == OverviewInit => OverviewInv
<1> SUFFICES ASSUME OverviewInit PROVE OverviewInv
  OBVIOUS
<1>1. NoWorkloads \in ProjectContents /\ DOMAIN NoWorkloads = {}
  <2>1. NoWorkloads \in [{} -> WorkloadObjects]
    BY DEF NoWorkloads
  <2> QED
    BY <2>1 DEF ProjectContents
<1>2. <<>> \in Seq(LabelKey) /\ IsInjective(<<>>)
  BY DEF IsInjective
<1>3. 0 \in 0 .. MaxNamespaces
  <2>1. MaxNamespaces \in Nat
    BY OverviewAssumption, Zenon
  <2> QED
    BY <2>1
<1>4. namespaces \in 0 .. MaxNamespaces
  BY <1>3, Zenon DEF OverviewInit
<1> QED
  BY <1>1, <1>2, <1>4 DEF OverviewInit, OverviewInv, OverviewTypeOK

LEMMA OverviewNextInv == OverviewInv /\ [OverviewNext]_overviewVars => OverviewInv'
<1> SUFFICES ASSUME OverviewInv, [OverviewNext]_overviewVars PROVE OverviewInv'
  OBVIOUS
<1>0. MaxNamespaces \in Nat
  BY OverviewAssumption, Zenon
<1>1. CASE UNCHANGED overviewVars
  BY <1>1 DEF overviewVars, derived, OverviewInv, OverviewTypeOK
<1>2. CASE FlagsAreKnown
  BY <1>2 DEF FlagsAreKnown, derived, OverviewInv, OverviewTypeOK
<1>3. CASE ListsArrive
  <2>1. PICK objects \in ProjectContents : workloads' = objects /\ CreateOverviewData(objects, filterValue)
    BY <1>3 DEF ListsArrive
  <2>2. overviewAt' = "loaded" /\ UNCHANGED <<filterValue, namespaces>>
    BY <1>3 DEF ListsArrive
  <2>3. /\ items' = BuildGraph(objects) /\ filteredItems' = FilterItems(items', filterValue)
        /\ groupOptions' \in GroupOptions(items', filteredItems')
        /\ selectedGroupLabel' = DefaultLabel(groupOptions')
        /\ groupedItems' = GroupItems(items', filteredItems', selectedGroupLabel')
    BY <2>1 DEF CreateOverviewData
  <2>4. /\ DOMAIN items' = DOMAIN objects /\ DOMAIN objects \subseteq Workload
        /\ \A w \in DOMAIN items' : items'[w].labels \in LabelSets /\ items'[w].currentController \in (UNION Owned) \cup {-1}
    BY <2>3, GraphOf
  <2>5. filteredItems' \subseteq DOMAIN items'
    BY <2>3 DEF FilterItems
  <2>6. \A w \in filteredItems' : DOMAIN items'[w].labels \subseteq LabelKey
    BY <2>4, <2>5 DEF LabelSets
  <2>7. groupOptions \in Seq(LabelKey) /\ IsInjective(groupOptions)
    BY DEF OverviewInv, OverviewTypeOK
  <2>8. groupOptions' \in Seq(LabelKey) /\ IsInjective(groupOptions')
    BY <2>3, <2>6, <2>7, MoreOptions
  <2>9. selectedGroupLabel' \in ToSet(groupOptions') \cup {""}
    BY <2>3, <2>8, DefaultIsAnOption
  <2> QED
    BY <2>1, <2>2, <2>3, <2>4, <2>5, <2>8, <2>9 DEF OverviewInv, OverviewTypeOK
<1>4. CASE NamespaceChanges
  <2>1. NoWorkloads \in ProjectContents
    <3>1. NoWorkloads \in [{} -> WorkloadObjects]
      BY DEF NoWorkloads
    <3> QED
      BY <3>1 DEF ProjectContents
  <2>2. namespaces' \in 0 .. MaxNamespaces
    <3>1. namespaces < MaxNamespaces /\ namespaces' = namespaces + 1
      BY <1>4 DEF NamespaceChanges
    <3>2. namespaces \in 0 .. MaxNamespaces
      BY DEF OverviewInv, OverviewTypeOK
    <3> QED
      BY <1>0, <3>1, <3>2
  <2> QED
    BY <1>4, <2>1, <2>2 DEF NamespaceChanges, derived, OverviewInv, OverviewTypeOK
<1>5. CASE HandleFilterChange
  <2>1. PICK names \in Fuzzy \cup {Workload} :
           /\ filterValue' = names /\ filteredItems' = FilterItems(items, names)
           /\ groupedItems' = GroupItems(items, filteredItems', selectedGroupLabel)
    BY <1>5 DEF HandleFilterChange
  <2>2. UNCHANGED <<overviewAt, workloads, items, groupOptions, selectedGroupLabel, namespaces>>
    BY <1>5 DEF HandleFilterChange
  <2>3. filteredItems' \subseteq Workload
    BY <2>1 DEF FilterItems, OverviewInv, OverviewTypeOK
  <2> QED
    BY <2>1, <2>2, <2>3 DEF OverviewInv, OverviewTypeOK
<1>6. CASE HandleGroupChange
  BY <1>6 DEF HandleGroupChange, OverviewInv, OverviewTypeOK
<1> QED
  BY <1>1, <1>2, <1>3, <1>4, <1>5, <1>6 DEF OverviewNext

LEMMA OverviewInvShows == OverviewInv => OverviewIsTrue
<1> SUFFICES ASSUME OverviewInv, overviewAt = "loaded" PROVE OverviewIsTrue
  BY DEF OverviewIsTrue
<1>1. /\ items = BuildGraph(workloads) /\ filteredItems = DOMAIN items \cap filterValue
      /\ groupedItems = GroupItems(items, filteredItems, selectedGroupLabel) /\ workloads \in ProjectContents
  BY DEF OverviewInv, OverviewTypeOK, FilterItems
<1>2. /\ DOMAIN items = DOMAIN workloads
      /\ \A w \in DOMAIN workloads :
            /\ items[w].labels = workloads[w].labels /\ workloads[w].owned \in Owned
            /\ items[w].currentController = CurrentController(workloads[w].owned)
  BY <1>1, GraphOf
<1> DEFINE drawnGroups == {GroupOf(items[w], selectedGroupLabel) : w \in filteredItems}
           group(g) == {w \in filteredItems : GroupOf(items[w], selectedGroupLabel) = g}
<1>3. selectedGroupLabel # "" => groupedItems = [g \in drawnGroups |-> group(g)]
  BY <1>1 DEF GroupItems
<1>4. selectedGroupLabel = "" => DOMAIN groupedItems = {}
  BY <1>1 DEF GroupItems, NoWorkloads
<1>5. ASSUME selectedGroupLabel # "" PROVE Drawn = DOMAIN workloads \cap filterValue
  <2>1. DOMAIN groupedItems = drawnGroups /\ \A g \in drawnGroups : groupedItems[g] = group(g)
    BY <1>3, <1>5
  <2>2. UNION {groupedItems[g] : g \in DOMAIN groupedItems} = filteredItems
    <3>1. \A w \in filteredItems : GroupOf(items[w], selectedGroupLabel) \in drawnGroups /\ w \in group(GroupOf(items[w], selectedGroupLabel))
      OBVIOUS
    <3>2. \A g \in drawnGroups : group(g) \subseteq filteredItems
      OBVIOUS
    <3> HIDE DEF drawnGroups, group
    <3> QED
      BY <2>1, <3>1, <3>2
  <2> QED
    BY <1>1, <1>2, <2>2 DEF Drawn
<1>6. ASSUME NEW g \in DOMAIN groupedItems, NEW w \in groupedItems[g]
      PROVE  g = IF selectedGroupLabel \in DOMAIN workloads[w].labels
                 THEN workloads[w].labels[selectedGroupLabel] ELSE "other"
  <2>1. selectedGroupLabel # "" /\ g \in drawnGroups /\ w \in group(g)
    BY <1>3, <1>4, <1>6
  <2>2. w \in DOMAIN workloads /\ GroupOf(items[w], selectedGroupLabel) = g
    BY <1>1, <1>2, <2>1
  <2> QED
    BY <1>2, <2>2 DEF GroupOf
<1>7. ASSUME NEW w \in DOMAIN workloads
      PROVE  items[w].currentController = IF workloads[w].owned = {} THEN -1 ELSE Max(workloads[w].owned)
  BY <1>2, ControllerOf
<1> QED
  BY <1>5, <1>6, <1>7 DEF OverviewIsTrue

-----------------------------------------------------------------------------
(* The kinds of pages and links *)

AllKinds == Static \cup OtherKinds

\* Kinds of the source that are not custom are kept under their name.
ByName(m) == m \in Static /\ ~m.crd

\* A reference has three parts, a name one.
LEMMA NamesAndReferences ==
    ASSUME NEW m, NEW n
    PROVE  /\ Len(ReferenceForModel(m)) = 3 /\ IsGroupVersionKind(ReferenceForModel(m))
           /\ KindForReference(ReferenceForModel(m)) = <<m.kind>>
           /\ ReferenceForModel(m) # <<n>> /\ ~IsGroupVersionKind(<<n>>)
           /\ KindForReference(<<n>>) = <<n>> /\ (<<m>> = <<n>> => m = n)
           /\ ReferenceForModel(m) = ReferenceForModel(n) => m.kind = n.kind
<1>1. Len(<<n>>) = 1 /\ Len(ReferenceForModel(m)) = 3
  BY DEF ReferenceForModel
<1>2. ReferenceForModel(m)[3] = m.kind /\ ReferenceForModel(n)[3] = n.kind /\ <<n>>[1] = n /\ <<m>>[1] = m
  BY DEF ReferenceForModel
<1>3. ReferenceForModel(m) # <<n>>
  BY <1>1
<1>4. KindForReference(ReferenceForModel(m)) = <<m.kind>> /\ KindForReference(<<n>>) = <<n>>
  BY <1>1, <1>2 DEF KindForReference
<1>5. IsGroupVersionKind(ReferenceForModel(m)) /\ ~IsGroupVersionKind(<<n>>)
  BY <1>1 DEF IsGroupVersionKind
<1>6. <<m>> = <<n>> => m = n
  BY <1>2
<1>7. ReferenceForModel(m) = ReferenceForModel(n) => m.kind = n.kind
  BY <1>2
<1> QED
  BY <1>1, <1>3, <1>4, <1>5, <1>6, <1>7

\* What the tables say, with the kinds of servers among them.
LEMMA KindsOfTables ==
    /\ ServerKinds \subseteq AllKinds /\ Static \subseteq AllKinds
    /\ \A m, n \in AllKinds : ReferenceForModel(m) = ReferenceForModel(n) => m = n
    /\ \A s, t \in Static : s.kind = t.kind \/ s.plural = t.plural => s = t
    /\ \A m \in AllKinds : ~m.crd => m \in Static
    /\ \A s \in Static, m \in ServerKinds : s.kind = m.kind => s \in ServerKinds
<1>1. ServerKinds \subseteq AllKinds /\ Static \subseteq AllKinds
  BY DEF ServerKinds, AllKinds
<1>2. \A m \in AllKinds : ~m.crd => m \in Static
  BY KindsAreDistinct DEF AllKinds
<1>3. \A s \in Static, m \in ServerKinds : s.kind = m.kind => s \in ServerKinds
  BY KindsAreDistinct DEF ServerKinds
<1> QED
  BY <1>1, <1>2, <1>3, KindsAreDistinct DEF AllKinds

LEMMA KeyOfKind ==
    ASSUME NEW m \in AllKinds
    PROVE  KeyOf(m) = IF ByName(m) THEN <<m.kind>> ELSE ReferenceForModel(m)
BY KindsOfTables DEF KeyOf, ByName, AllKinds

\* What the source and the store have under the reference of a kind.
LEMMA UnderReference ==
    ASSUME stored \subseteq ServerKinds, NEW m \in AllKinds
    PROVE  /\ StaticAt(ReferenceForModel(m)) = IF m \in Static /\ m.crd THEN {m} ELSE {}
           /\ StoredAt(ReferenceForModel(m)) = IF ByName(m) THEN {} ELSE {m} \cap stored
<1>1. ASSUME NEW s \in Static, (IF s.crd THEN ReferenceForModel(s) ELSE <<s.kind>>) = ReferenceForModel(m)
      PROVE  s = m /\ s.crd
  BY <1>1, KindsOfTables, NamesAndReferences
<1>2. ASSUME NEW n \in stored, KeyOf(n) = ReferenceForModel(m)
      PROVE  n = m /\ ~ByName(m)
  <2>1. n \in AllKinds
    BY KindsOfTables
  <2>2. KeyOf(n) = IF ByName(n) THEN <<n.kind>> ELSE ReferenceForModel(n)
    BY <2>1, KeyOfKind
  <2>3. ~ByName(n)
    BY <1>2, <2>2, NamesAndReferences
  <2> QED
    BY <1>2, <2>1, <2>2, <2>3, KindsOfTables
<1>3. ~ByName(m) => KeyOf(m) = ReferenceForModel(m)
  BY KeyOfKind
<1>4. StaticAt(ReferenceForModel(m)) = IF m \in Static /\ m.crd THEN {m} ELSE {}
  BY <1>1 DEF StaticAt
<1>5. StoredAt(ReferenceForModel(m)) = IF ByName(m) THEN {} ELSE {m} \cap stored
  BY <1>2, <1>3 DEF StoredAt
<1> QED
  BY <1>4, <1>5

\* What they have under its name, unless that is the name of another kind of the source.
LEMMA UnderName ==
    ASSUME stored \subseteq ServerKinds, NEW m \in AllKinds, ~Shadowed(m)
    PROVE  /\ StaticAt(<<m.kind>>) = IF ByName(m) THEN {m} ELSE {}
           /\ StoredAt(<<m.kind>>) = IF ByName(m) THEN {m} \cap stored ELSE {}
<1>1. ASSUME NEW s \in Static, ~s.crd, s.kind = m.kind
      PROVE  s = m
  BY <1>1, KindsOfTables DEF Shadowed
<1>2. ASSUME NEW s \in Static, (IF s.crd THEN ReferenceForModel(s) ELSE <<s.kind>>) = <<m.kind>>
      PROVE  ~s.crd /\ s.kind = m.kind
  BY <1>2, NamesAndReferences
<1>3. ASSUME NEW n \in stored, KeyOf(n) = <<m.kind>>
      PROVE  n = m /\ ByName(m)
  <2>1. n \in AllKinds
    BY KindsOfTables
  <2>2. KeyOf(n) = IF ByName(n) THEN <<n.kind>> ELSE ReferenceForModel(n)
    BY <2>1, KeyOfKind
  <2>3. ByName(n) /\ n.kind = m.kind
    BY <1>3, <2>2, NamesAndReferences
  <2> QED
    BY <1>1, <2>3 DEF ByName
<1>4. ByName(m) => KeyOf(m) = <<m.kind>>
  BY KeyOfKind
<1>5. StaticAt(<<m.kind>>) = IF ByName(m) THEN {m} ELSE {}
  BY <1>1, <1>2 DEF StaticAt, ByName
<1>6. StoredAt(<<m.kind>>) = IF ByName(m) THEN {m} \cap stored ELSE {}
  BY <1>3, <1>4 DEF StoredAt
<1> QED
  BY <1>5, <1>6

\* The model of such a kind is found under its reference, and under its name if it has one.
LEMMA ModelIsTheKinds ==
    ASSUME stored \subseteq ServerKinds, NEW m \in AllKinds, ~Shadowed(m)
    PROVE  /\ ModelFor(ReferenceForModel(m)) \subseteq {m}
           /\ ByName(m) => ModelFor(<<m.kind>>) = {m}
           /\ ConnectedModel(ReferenceForModel(m)) = {m} \cap stored
<1>1. KindForReference(ReferenceForModel(m)) = <<m.kind>> /\ KindForReference(<<m.kind>>) = <<m.kind>>
  BY NamesAndReferences
<1>2. ModelFor(ReferenceForModel(m)) \subseteq {m}
  BY <1>1, UnderReference, UnderName DEF ModelFor, OrElse, ByName
<1>3. ByName(m) => ModelFor(<<m.kind>>) = {m}
  BY <1>1, UnderName DEF ModelFor, OrElse
<1>4. ConnectedModel(ReferenceForModel(m)) = {m} \cap stored
  BY <1>1, UnderReference, UnderName DEF ConnectedModel, OrElse
<1> QED
  BY <1>2, <1>3, <1>4

\* The parts of an address that name a kind, and an address that names this one.
PlaceParts ==
    {ReferenceForModel(m) : m \in ServerKinds} \cup {<<m.plural>> : m \in {n \in ServerKinds : ~n.crd}}
AnyPlace ==
    [page : {"home", "list", "details", "crd", "search", "new"}, scope : {"none", "cluster", "namespace", "all"},
     part : PlaceParts \cup {<<>>}]
PathNames(v, m) == v.page \in {"list", "details", "new"} /\ v.part = (IF m.crd THEN ReferenceForModel(m) ELSE <<m.plural>>)
PlaceNames(v, m) == PathNames(v, m) \/ (v.page \in {"crd", "search"} /\ v.part = ReferenceForModel(m))

\* A new object of a kind, or a sample beside it.
IsObjectOf(o, m) ==
    o \in {ReferenceForModel(m)} \cup Samples(m.kind) \/ (o = <<"", "", m.kind>> /\ ~m.crd)

\* The kind that was asked for is the one that the address names, and that of the new object,
\* unless it is shadowed.
ResourceInv ==
    /\ ResourceTypeOK /\ place \in AnyPlace /\ (place.page # "home" => place.part \in PlaceParts)
    /\ Len(newObject) = 3
    /\ \/ meant = {} /\ place.page = "home" /\ newObject = NoObject
       \/ \E m \in ServerKinds :
             /\ meant = {m} /\ place.page # "home"
             /\ ~Shadowed(m) => PlaceNames(place, m) /\ (newObject # NoObject => IsObjectOf(newObject, m))

LEMMA PartsAreShort == \A p \in PlaceParts \cup {<<>>} : Len(p) <= 3
<1>1. \A n : Len(<<n>>) = 1
  OBVIOUS
<1>2. ASSUME NEW p \in PlaceParts \cup {<<>>} PROVE Len(p) \in {0, 1, 3}
  <2>1. \A m : Len(ReferenceForModel(m)) = 3
    BY NamesAndReferences
  <2>2. Len(<<>>) = 0
    OBVIOUS
  <2> QED
    BY <1>1, <2>1, <2>2 DEF PlaceParts
<1>3. \A n \in {0, 1, 3} : n <= 3
  OBVIOUS
<1> QED
  BY <1>2, <1>3

\* A page of a kind is at an address that names it.
LEMMA PathsOfKinds ==
    ASSUME NEW m \in ServerKinds, NEW inNamespace, NEW page \in {"list", "details", "new"}
    PROVE  LET v == ResourcePath(page, m, inNamespace)
           IN  v \in AnyPlace /\ v.page = page /\ v.part \in PlaceParts /\ PathNames(v, m)
<1> DEFINE v == ResourcePath(page, m, inNamespace)
<1>1. v.page = page /\ v.part = (IF m.crd THEN ReferenceForModel(m) ELSE <<m.plural>>)
      /\ v.scope \in {"none", "cluster", "namespace", "all"}
      /\ v = [page |-> v.page, scope |-> v.scope, part |-> v.part]
  BY DEF ResourcePath
<1> HIDE DEF v
<1>2. v.part \in PlaceParts
  BY <1>1 DEF PlaceParts
<1>3. v \in AnyPlace
  BY <1>1, <1>2 DEF AnyPlace
<1> QED
  BY <1>1, <1>2, <1>3 DEF PathNames, v

\* What is found under a name of a kind of a server is a kind of a server.
LEMMA FoundIsOfAServer ==
    ASSUME stored \subseteq ServerKinds, NEW k \in ServerKinds, NEW ref, KindForReference(ref) = <<k.kind>>,
           (\E s : ref = ReferenceForModel(s)) \/ ref = <<k.kind>> \/ (Len(ref) = 3 /\ ref[3] = k.kind)
    PROVE  ModelFor(ref) \subseteq ServerKinds /\ ConnectedModel(ref) \subseteq ServerKinds
<1>1. ASSUME NEW s \in StaticAt(ref) PROVE s \in ServerKinds
  <2>1. s \in Static /\ (ref = ReferenceForModel(s) \/ ref = <<s.kind>>)
    BY DEF StaticAt
  <2>2. KindForReference(ref) = <<s.kind>>
    BY <2>1, NamesAndReferences
  <2>3. s.kind = k.kind
    BY <2>2, NamesAndReferences
  <2> QED
    BY <2>1, <2>3, KindsOfTables
<1>2. ASSUME NEW s \in StaticAt(KindForReference(ref)) PROVE s \in ServerKinds
  <2>1. s \in Static /\ (<<k.kind>> = ReferenceForModel(s) \/ <<k.kind>> = <<s.kind>>)
    BY DEF StaticAt
  <2>2. s.kind = k.kind
    BY <2>1, NamesAndReferences
  <2> QED
    BY <2>1, <2>2, KindsOfTables
<1>3. \A r : StoredAt(r) \subseteq ServerKinds
  BY DEF StoredAt
<1> QED
  BY <1>1, <1>2, <1>3 DEF ModelFor, ConnectedModel, OrElse

\* The model of a page is a kind of a server, and the kinds handed on are its names.
LEMMA ModelsOfPlaces ==
    ASSUME stored \subseteq ServerKinds, place \in AnyPlace, place.page # "home" => place.part \in PlaceParts
    PROVE  /\ ModelOf(place) \subseteq ServerKinds
           /\ place.page # "home" =>
                 \A kind \in KindOf(place) : \E m \in ServerKinds : kind = ReferenceForModel(m) \/ kind = <<m.kind>>
<1>1. CASE place.page = "home"
  BY <1>1 DEF ModelOf
<1>2. CASE place.page # "home"
  <2>1. PICK m \in ServerKinds : place.part = ReferenceForModel(m) \/ (place.part = <<m.plural>> /\ ~m.crd)
    BY <1>2 DEF PlaceParts
  <2>2. PluralModel(place.part) \subseteq ServerKinds
    <3>1. CASE place.part = ReferenceForModel(m)
      BY <3>1, NamesAndReferences DEF PluralModel, StoredAt
    <3>2. CASE place.part = <<m.plural>> /\ ~m.crd
      <4>1. PluralModel(place.part) = {s \in Static : <<s.plural>> = <<m.plural>>}
        BY <3>2, NamesAndReferences DEF PluralModel
      <4>2. m \in Static
        BY <3>2, KindsOfTables
      <4>3. \A s \in Static : <<s.plural>> = <<m.plural>> => s = m
        BY <4>2, KindsOfTables, NamesAndReferences
      <4> QED
        BY <4>1, <4>3
    <3> QED
      BY <2>1, <3>1, <3>2
  <2>3. place.page = "search" => ConnectedModel(place.part) \subseteq ServerKinds
    <3>1. \A r : StoredAt(r) \subseteq ServerKinds
      BY DEF StoredAt
    <3> QED
      BY <3>1 DEF ConnectedModel, OrElse
  <2>4. ModelOf(place) \subseteq ServerKinds
    BY <1>2, <2>2, <2>3 DEF ModelOf
  <2>5. ASSUME NEW kind \in KindOf(place)
        PROVE  \E n \in ServerKinds : kind = ReferenceForModel(n) \/ kind = <<n.kind>>
    <3>1. CASE place.page = "search"
      BY <2>4, <3>1 DEF KindOf
    <3>2. CASE place.page # "search"
      BY <2>1, <2>2, <3>2, NamesAndReferences DEF KindOf, ModelRef
    <3> QED
      BY <3>1, <3>2
  <2> QED
    BY <2>4, <2>5
<1> QED
  BY <1>1, <1>2

\* At an address that names a kind, its model is found and its objects are watched, or none.
LEMMA ModelsOfNames ==
    ASSUME stored \subseteq ServerKinds, NEW m \in ServerKinds, ~Shadowed(m), PlaceNames(place, m)
    PROVE  /\ ModelOf(place) \subseteq {m} /\ Watched(place) \subseteq {m}
           /\ m \in stored /\ ~KeptByName(m) => Watched(place) # {}
           /\ \A kind \in KindOf(place) : ModelOf(place) # {} =>
                 kind = ReferenceForModel(m) \/ (kind = <<m.kind>> /\ ByName(m))
<1>1. m \in AllKinds /\ (~m.crd => ByName(m)) /\ (m.crd => ~ByName(m))
  BY KindsOfTables DEF ByName
<1>2. place.page # "home"
  BY DEF PlaceNames, PathNames
<1>3. CASE place.page # "search" /\ place.part = ReferenceForModel(m)
  <2>1. ModelOf(place) = IF ByName(m) THEN {} ELSE {m} \cap stored
    BY <1>1, <1>2, <1>3, UnderReference, NamesAndReferences DEF ModelOf, PluralModel
  <2>2. KindOf(place) = {ReferenceForModel(m)}
    BY <1>3, NamesAndReferences DEF KindOf, ModelRef
  <2>3. Watched(place) = IF ByName(m) THEN {} ELSE {m} \cap stored
    BY <1>1, <1>2, <2>2, UnderReference DEF Watched
  <2>4. ByName(m) => KeptByName(m)
    <3>1. ReferenceForModel(m) # <<m.plural>>
      BY NamesAndReferences
    <3> QED
      BY <1>1, <1>3, <3>1 DEF PlaceNames, PathNames, KeptByName, ByName
  <2> QED
    BY <2>1, <2>2, <2>3, <2>4
<1>4. CASE place.page # "search" /\ place.part = <<m.plural>> /\ ~m.crd
  <2>1. ASSUME NEW s \in Static, <<s.plural>> = <<m.plural>> PROVE s = m
    <3>1. s.plural = m.plural
      BY <2>1, NamesAndReferences
    <3> QED
      BY <1>1, <1>4, <3>1, KindsOfTables
  <2>2. PluralModel(place.part) = {m}
    BY <1>1, <1>4, <2>1, NamesAndReferences DEF PluralModel, ByName
  <2>3. ModelOf(place) = {m} /\ KindOf(place) = {<<m.kind>>}
    BY <1>2, <1>4, <2>2, NamesAndReferences DEF ModelOf, KindOf, ModelRef
  <2>4. Watched(place) = {m} \cap stored
    <3>1. Watched(place) = StoredAt(<<m.kind>>)
      BY <1>2, <2>3 DEF Watched
    <3> QED
      BY <1>1, <1>4, <3>1, UnderName
  <2> QED
    BY <1>1, <1>4, <2>3, <2>4
<1>5. CASE place.page = "search"
  <2>1. place.part = ReferenceForModel(m)
    BY <1>5 DEF PlaceNames, PathNames
  <2>2. ModelOf(place) = {m} \cap stored
    BY <1>1, <1>5, <2>1, ModelIsTheKinds DEF ModelOf
  <2>3. \A kind \in KindOf(place) : m \in stored /\ kind = IF m.crd THEN ReferenceForModel(m) ELSE <<m.kind>>
    BY <1>5, <2>2 DEF KindOf
  <2>4. m \in stored => (IF m.crd THEN ReferenceForModel(m) ELSE <<m.kind>>) \in KindOf(place)
    BY <1>5, <2>2 DEF KindOf
  <2>5. StoredAt(IF m.crd THEN ReferenceForModel(m) ELSE <<m.kind>>) = {m} \cap stored
    BY <1>1, UnderReference, UnderName
  <2>6. Watched(place) = {m} \cap stored
    BY <1>2, <2>3, <2>4, <2>5 DEF Watched
  <2> QED
    BY <1>1, <2>2, <2>3, <2>6
<1>6. place.page = "search" \/ place.part = ReferenceForModel(m) \/ (place.part = <<m.plural>> /\ ~m.crd)
  BY DEF PlaceNames, PathNames
<1> QED
  BY <1>3, <1>4, <1>5, <1>6

\* The objects of a kind and their samples have a reference, of a kind of a server.
LEMMA ObjectsOfKinds ==
    ASSUME NEW m \in ServerKinds
    PROVE  /\ NewObject(m) # NoObject => IsObjectOf(NewObject(m), m)
           /\ Len(NewObject(m)) = 3 /\ NewObject(m)[3] = m.kind
           /\ \A o \in Samples(m.kind) : Len(o) = 3 /\ \E n \in ServerKinds : o[3] = n.kind
<1>1. Len(<<"", "", m.kind>>) = 3 /\ <<"", "", m.kind>>[3] = m.kind
  OBVIOUS
<1>2. Len(ReferenceForModel(m)) = 3 /\ ReferenceForModel(m)[3] = m.kind
  BY DEF ReferenceForModel
<1>3. NewObject(m) = ReferenceForModel(m) \/ (NewObject(m) = <<"", "", m.kind>> /\ ~m.crd)
  BY DEF NewObject
<1>4. Samples(m.kind) \subseteq Templates \cup {<<"rbac.authorization.k8s.io", "v1", "Role">>, <<"rbac.authorization.k8s.io", "v1", "ClusterRole">>}
  BY DEF Samples
<1>5. \A o \in Templates : Len(o) = 3
  <2>1. \A a, b, c : Len(<<a, b, c>>) = 3
    OBVIOUS
  <2>2. \A o \in PolicyTemplates \cup WorkloadTemplates : Len(o) = 3
    BY <2>1 DEF PolicyTemplates, WorkloadTemplates
  <2>3. \A o \in ServiceTemplates \cup StorageTemplates : Len(o) = 3
    BY <2>1 DEF ServiceTemplates, StorageTemplates
  <2>4. \A o \in ControllerTemplates : Len(o) = 3
    BY <2>1 DEF ControllerTemplates
  <2> QED
    BY <2>2, <2>3, <2>4 DEF Templates
<1>6. \A o \in Samples(m.kind) : Len(o) = 3 /\ \E n \in ServerKinds : o[3] = n.kind
  BY <1>4, <1>5, KindsAreDistinct
<1> QED
  BY <1>1, <1>2, <1>3, <1>6 DEF IsObjectOf

\* The samples beside a sample are those beside the object.
LEMMA SamplesOfObjects ==
    ASSUME NEW m \in ServerKinds, NEW o, IsObjectOf(o, m), NEW next \in Samples(o[3])
    PROVE  IsObjectOf(next, m)
<1>1. ReferenceForModel(m)[3] = m.kind /\ <<"", "", m.kind>>[3] = m.kind
  BY DEF ReferenceForModel
<1>2. ASSUME o \in Samples(m.kind) PROVE Samples(o[3]) = Samples(m.kind)
  <2>1. CASE m.kind \in {"Role", "ClusterRole"}
    <3>1. o[3] \in {"Role", "ClusterRole"}
      BY <1>2, <2>1 DEF Samples
    <3> QED
      BY <2>1, <3>1 DEF Samples
  <2>2. CASE m.kind \notin {"Role", "ClusterRole"}
    <3>1. o[3] = m.kind
      BY <1>2, <2>2 DEF Samples
    <3> QED
      BY <3>1
  <2> QED
    BY <2>1, <2>2
<1> QED
  BY <1>1, <1>2 DEF IsObjectOf

LEMMA ResourceInitInv == ResourceInit => ResourceInv
<1>1. Len(NoObject) = 3
  BY DEF NoObject
<1>2. CASE ResourceOpens(HomePage, {})
  <2>1. /\ place.page = "home" /\ place.scope = "none" /\ place.part = <<>> /\ Len(place.part) = 0
        /\ place \in AnyPlace
    BY <1>2 DEF ResourceOpens, HomePage, AnyPlace
  <2> QED
    BY <1>1, <1>2, <2>1 DEF ResourceOpens, ResourceInv, ResourceTypeOK
<1>3. ASSUME NEW m \in ServerKinds, NEW page \in {"list", "details", "new"}, ResourceOpens(ResourcePath(page, m, TRUE), {m})
      PROVE  ResourceInv
  <2>1. place \in AnyPlace /\ place.page = page /\ place.part \in PlaceParts /\ PlaceNames(place, m)
    BY <1>3, PathsOfKinds DEF ResourceOpens, PlaceNames
  <2>2. place.scope \in {"none", "cluster", "namespace", "all"} /\ Len(place.part) <= 3
    BY <2>1, PartsAreShort DEF AnyPlace
  <2> QED
    BY <1>1, <1>3, <2>1, <2>2 DEF ResourceOpens, ResourceInv, ResourceTypeOK
<1> QED
  BY <1>2, <1>3 DEF ResourceInit

\* The user comes to a page of a kind.
LEMMA ComesToKind ==
    ASSUME ResourceInv, NEW m \in ServerKinds, NEW v \in AnyPlace, v.page # "home", v.part \in PlaceParts,
           ~Shadowed(m) => PlaceNames(v, m), place' = v, meant' = {m}, stored' = stored,
           kindsInFlight' = kindsInFlight, newObject' = NoObject
    PROVE  ResourceInv'
<1>1. Len(NoObject) = 3
  BY DEF NoObject
<1>2. v.page \in {"home", "list", "details", "crd", "search", "new"}
      /\ v.scope \in {"none", "cluster", "namespace", "all"} /\ Len(v.part) <= 3
  BY PartsAreShort DEF AnyPlace
<1>3. ResourceTypeOK'
  BY <1>2 DEF ResourceInv, ResourceTypeOK
<1> QED
  BY <1>1, <1>2, <1>3 DEF ResourceInv

\* A link is built from what is found for a kind.
LEMMA LinkToKind ==
    ASSUME ResourceInv, NEW m \in ServerKinds, NEW found \in ServerKinds, ~Shadowed(m) => found = m,
           NEW page \in {"list", "details"}, NEW inNamespace,
           place' = ResourcePath(page, found, inNamespace), meant' = {m}, stored' = stored,
           kindsInFlight' = kindsInFlight, newObject' = NoObject
    PROVE  ResourceInv'
<1> DEFINE v == ResourcePath(page, found, inNamespace)
<1>1. v \in AnyPlace /\ v.page = page /\ v.part \in PlaceParts /\ PathNames(v, found)
  BY PathsOfKinds
<1> HIDE DEF v
<1>2. ~Shadowed(m) => PlaceNames(v, m)
  BY <1>1 DEF PlaceNames
<1>3. place' = v
  BY DEF v
<1> QED
  BY <1>1, <1>2, <1>3, ComesToKind

LEMMA ResourceNextInv == ResourceInv /\ [ResourceNext]_resourceVars => ResourceInv'
<1> SUFFICES ASSUME ResourceInv, [ResourceNext]_resourceVars
             PROVE  ResourceInv'
  OBVIOUS
<1>1. /\ stored \subseteq ServerKinds /\ kindsInFlight \in BOOLEAN /\ place \in AnyPlace
      /\ place.page # "home" => place.part \in PlaceParts
  BY DEF ResourceInv, ResourceTypeOK
<1>2. place = HomePage => meant = {} /\ newObject = NoObject
  BY DEF ResourceInv, HomePage
<1>3. CASE UNCHANGED resourceVars
  BY <1>3 DEF resourceVars, ResourceInv, ResourceTypeOK
<1>4. CASE FollowKindLink
  <2>1. PICK m \in ServerKinds, byKind \in BOOLEAN, page \in {"list", "details"}, inNamespace \in BOOLEAN :
          /\ byKind => m \in Static /\ ~m.crd
          /\ \E found \in ModelFor(IF byKind THEN <<m.kind>> ELSE ReferenceForModel(m)) :
                place' = ResourcePath(page, found, inNamespace)
          /\ meant' = {m}
    BY <1>4 DEF FollowKindLink
  <2> DEFINE ref == IF byKind THEN <<m.kind>> ELSE ReferenceForModel(m)
  <2>2. PICK found \in ModelFor(ref) : place' = ResourcePath(page, found, inNamespace)
    BY <2>1
  <2>3. KindForReference(ref) = <<m.kind>> /\ (ref = ReferenceForModel(m) \/ ref = <<m.kind>>)
    BY NamesAndReferences
  <2>4. found \in ServerKinds
    BY <1>1, <2>2, <2>3, FoundIsOfAServer
  <2>5. ~Shadowed(m) => found = m
    <3>1. m \in AllKinds
      BY KindsOfTables
    <3> QED
      BY <1>1, <2>1, <2>2, <3>1, ModelIsTheKinds DEF ByName
  <2> QED
    BY <1>2, <1>4, <2>1, <2>2, <2>4, <2>5, LinkToKind DEF FollowKindLink
<1>5. CASE FollowCog
  <2>1. PICK m \in ServerKinds :
          /\ \E k \in ConnectedModel(ReferenceForModel(m)) :
                \E found \in ModelFor(IF k.crd THEN ReferenceForModel(k) ELSE <<k.kind>>) :
                   place' = ResourcePath("details", found, TRUE)
          /\ meant' = {m}
    BY <1>5 DEF FollowCog
  <2>2. PICK k \in ConnectedModel(ReferenceForModel(m)) :
          \E found \in ModelFor(IF k.crd THEN ReferenceForModel(k) ELSE <<k.kind>>) :
             place' = ResourcePath("details", found, TRUE)
    BY <2>1
  <2> DEFINE ref == IF k.crd THEN ReferenceForModel(k) ELSE <<k.kind>>
  <2>3. PICK found \in ModelFor(ref) : place' = ResourcePath("details", found, TRUE)
    BY <2>2
  <2>4. k \in ServerKinds
    BY <1>1, <2>2, NamesAndReferences, FoundIsOfAServer
  <2>5. KindForReference(ref) = <<k.kind>> /\ (ref = ReferenceForModel(k) \/ ref = <<k.kind>>)
    BY NamesAndReferences
  <2>6. found \in ServerKinds
    BY <1>1, <2>3, <2>4, <2>5, FoundIsOfAServer
  <2>7. ~Shadowed(m) => found = m
    <3>1. m \in AllKinds /\ (~m.crd => ByName(m))
      BY KindsOfTables DEF ByName
    <3>2. ~Shadowed(m) => k = m
      <4>1. ~Shadowed(m) => ConnectedModel(ReferenceForModel(m)) \subseteq {m}
        BY <1>1, <3>1, ModelIsTheKinds
      <4> QED
        BY <2>2, <4>1
    <3> QED
      BY <1>1, <2>3, <3>1, <3>2, ModelIsTheKinds
  <2> QED
    BY <1>2, <1>5, <2>1, <2>3, <2>6, <2>7, LinkToKind DEF FollowCog
<1>6. CASE FollowDefinition \/ PickKind
  <2>1. PICK m \in stored, page \in {"crd", "search"}, scope \in {"all", "none"} :
          place' = [page |-> page, scope |-> scope, part |-> ReferenceForModel(m)] /\ meant' = {m}
    BY <1>6 DEF FollowDefinition, PickKind, Defined, Offered
  <2> DEFINE v == [page |-> page, scope |-> scope, part |-> ReferenceForModel(m)]
  <2>2. m \in ServerKinds /\ v.part \in PlaceParts /\ v.page # "home" /\ PlaceNames(v, m)
    BY <1>1 DEF PlaceParts, PlaceNames
  <2>3. v \in AnyPlace
    BY <2>2 DEF AnyPlace
  <2>4. place = HomePage /\ UNCHANGED <<stored, kindsInFlight, newObject>> /\ place' = v
    BY <1>6, <2>1 DEF FollowDefinition, PickKind
  <2> HIDE DEF v
  <2> QED
    BY <1>2, <2>1, <2>2, <2>3, <2>4, ComesToKind
<1>7. CASE PressCreate
  <2>1. PICK kind \in KindOf(place) : \E m \in ModelFor(kind) : place' = ResourcePath("new", m, TRUE)
    BY <1>7 DEF PressCreate
  <2>2. PICK n \in ModelFor(kind) : place' = ResourcePath("new", n, TRUE)
    BY <2>1
  <2>3. place.page # "home" /\ ModelOf(place) # {} /\ UNCHANGED <<stored, kindsInFlight, meant, newObject>>
    BY <1>7 DEF PressCreate
  <2>4. PICK k \in ServerKinds : kind = ReferenceForModel(k) \/ kind = <<k.kind>>
    BY <1>1, <2>1, <2>3, ModelsOfPlaces
  <2>5. n \in ServerKinds
    BY <1>1, <2>2, <2>4, NamesAndReferences, FoundIsOfAServer
  <2> DEFINE v == ResourcePath("new", n, TRUE)
  <2>6. v \in AnyPlace /\ v.page = "new" /\ v.part \in PlaceParts /\ PathNames(v, n)
    BY <2>5, PathsOfKinds
  <2> HIDE DEF v
  <2>7. place' = v
    BY <2>2 DEF v
  <2>8. PICK m \in ServerKinds :
          /\ meant = {m}
          /\ ~Shadowed(m) => PlaceNames(place, m) /\ (newObject # NoObject => IsObjectOf(newObject, m))
    BY <2>3 DEF ResourceInv
  <2>9. ASSUME ~Shadowed(m) PROVE n = m
    <3>1. m \in AllKinds
      BY KindsOfTables
    <3>2. kind = ReferenceForModel(m) \/ (kind = <<m.kind>> /\ ByName(m))
      BY <1>1, <2>1, <2>3, <2>8, <2>9, ModelsOfNames
    <3> QED
      BY <1>1, <2>2, <2>9, <3>1, <3>2, ModelIsTheKinds
  <2>10. ~Shadowed(m) => PlaceNames(v, m)
    BY <2>6, <2>9 DEF PlaceNames
  <2>11. v.scope \in {"none", "cluster", "namespace", "all"} /\ Len(v.part) <= 3
    BY <2>6, PartsAreShort DEF AnyPlace
  <2>12. ResourceTypeOK'
    BY <2>3, <2>6, <2>7, <2>11 DEF ResourceInv, ResourceTypeOK
  <2> QED
    BY <2>3, <2>6, <2>7, <2>8, <2>10, <2>12 DEF ResourceInv
<1>8. CASE FormOpens
  <2>1. PICK n \in ModelOf(place) : newObject' = NewObject(n)
    BY <1>8 DEF FormOpens
  <2>2. place.page = "new" /\ UNCHANGED <<stored, kindsInFlight, place, meant>>
    BY <1>8 DEF FormOpens
  <2>3. n \in ServerKinds
    BY <1>1, <2>1, ModelsOfPlaces
  <2>4. Len(newObject') = 3 /\ newObject'[3] = n.kind /\ (newObject' # NoObject => IsObjectOf(newObject', n))
    BY <2>1, <2>3, ObjectsOfKinds
  <2>5. PICK m \in ServerKinds : meant = {m} /\ (~Shadowed(m) => PlaceNames(place, m))
    BY <2>2 DEF ResourceInv
  <2>6. ~Shadowed(m) => n = m
    BY <1>1, <2>1, <2>5, ModelsOfNames
  <2>7. ResourceTypeOK'
    BY <2>2, <2>3, <2>4 DEF ResourceInv, ResourceTypeOK
  <2> QED
    BY <2>2, <2>4, <2>5, <2>6, <2>7 DEF ResourceInv
<1>9. CASE LoadSample
  <2>1. place.page = "new" /\ newObject # NoObject /\ newObject' \in Samples(newObject[3])
        /\ UNCHANGED <<stored, kindsInFlight, place, meant>>
    BY <1>9 DEF LoadSample
  <2>2. PICK k \in ServerKinds : newObject[3] = k.kind
    BY <2>1 DEF ResourceInv, ResourceTypeOK
  <2>3. Len(newObject') = 3 /\ \E n \in ServerKinds : newObject'[3] = n.kind
    BY <2>1, <2>2, ObjectsOfKinds
  <2>4. PICK m \in ServerKinds :
          meant = {m} /\ (~Shadowed(m) => PlaceNames(place, m) /\ IsObjectOf(newObject, m))
    BY <2>1 DEF ResourceInv
  <2>5. ~Shadowed(m) => IsObjectOf(newObject', m)
    BY <2>1, <2>4, SamplesOfObjects
  <2>6. ResourceTypeOK'
    BY <2>1, <2>3 DEF ResourceInv, ResourceTypeOK
  <2> QED
    BY <2>1, <2>3, <2>4, <2>5, <2>6 DEF ResourceInv
<1>10. CASE SubmitNew
  <2>1. PICK m \in OrElse(StoredAt(newObject), StoredAt(KindForReference(newObject))) : meant' = {m}
    BY <1>10 DEF SubmitNew
  <2>2. PICK found \in ModelFor(newObject) : place' = ResourcePath("details", found, TRUE)
    BY <1>10 DEF SubmitNew
  <2>3. newObject # NoObject /\ newObject' = NoObject /\ UNCHANGED <<stored, kindsInFlight>>
    BY <1>10 DEF SubmitNew
  <2>4. PICK k \in ServerKinds : newObject[3] = k.kind
    BY <2>3 DEF ResourceInv, ResourceTypeOK
  <2>5. Len(newObject) = 3 /\ KindForReference(newObject) = <<k.kind>>
    BY <2>4 DEF ResourceInv, KindForReference
  <2>6. found \in ServerKinds
    BY <1>1, <2>2, <2>4, <2>5, FoundIsOfAServer
  <2>7. m \in ServerKinds
    BY <1>1, <2>1 DEF OrElse, StoredAt
  <2>8. ASSUME ~Shadowed(m) PROVE found = m
    <3>1. m \in AllKinds /\ m \in stored /\ KeyOf(m) = IF ByName(m) THEN <<m.kind>> ELSE ReferenceForModel(m)
      BY <2>1, <2>7, KindsOfTables, KeyOfKind DEF OrElse, StoredAt
    <3>2. KeyOf(m) = newObject \/ KeyOf(m) = <<k.kind>>
      BY <2>1, <2>5 DEF OrElse, StoredAt
    <3>3. CASE KeyOf(m) = newObject
      <4>1. newObject = ReferenceForModel(m)
        <5>1. Len(<<m.kind>>) = 1
          OBVIOUS
        <5> QED
          BY <2>5, <3>1, <3>3, <5>1
      <4> QED
        BY <1>1, <2>2, <2>8, <3>1, <4>1, ModelIsTheKinds
    <3>4. CASE KeyOf(m) = <<k.kind>>
      <4>1. ByName(m) /\ m.kind = k.kind
        BY <3>1, <3>4, NamesAndReferences
      <4>2. StaticAt(<<k.kind>>) = {m}
        BY <1>1, <2>8, <3>1, <4>1, UnderName
      <4>3. StaticAt(newObject) = {}
        <5>1. ASSUME NEW s \in StaticAt(newObject) PROVE FALSE
          <6>1. s \in Static /\ (IF s.crd THEN ReferenceForModel(s) ELSE <<s.kind>>) = newObject
            BY <5>1 DEF StaticAt
          <6>2. newObject # <<s.kind>>
            BY <2>5
          <6>3. s.crd /\ s.kind = k.kind
            BY <2>4, <6>1, <6>2 DEF ReferenceForModel
          <6> QED
            BY <4>1, <6>1, <6>3, KindsOfTables DEF ByName
        <5> QED
          BY <5>1
      <4>4. ModelFor(newObject) = {m}
        BY <2>5, <4>2, <4>3 DEF ModelFor, OrElse
      <4> QED
        BY <2>2, <4>4
    <3> QED
      BY <3>2, <3>3, <3>4
  <2> QED
    BY <2>1, <2>2, <2>3, <2>6, <2>7, <2>8, LinkToKind
<1>11. CASE DiscoveryStarts \/ DiscoveryAnswers
  <2>1. stored' \subseteq ServerKinds /\ kindsInFlight' \in BOOLEAN /\ UNCHANGED <<place, meant, newObject>>
    BY <1>1, <1>11 DEF DiscoveryStarts, DiscoveryAnswers, Discovered
  <2> QED
    BY <2>1 DEF ResourceInv, ResourceTypeOK
<1>12. CASE LeaveResource
  <2>1. /\ place' = HomePage /\ meant' = {} /\ newObject' = NoObject /\ UNCHANGED <<stored, kindsInFlight>>
    BY <1>12 DEF LeaveResource
  <2>2. /\ place'.page = "home" /\ place'.scope = "none" /\ place'.part = <<>> /\ Len(place'.part) = 0
        /\ place' \in AnyPlace /\ Len(NoObject) = 3
    BY <2>1 DEF HomePage, AnyPlace, NoObject
  <2> QED
    BY <1>1, <2>1, <2>2 DEF ResourceInv, ResourceTypeOK
<1> QED
  BY <1>3, <1>4, <1>5, <1>6, <1>7, <1>8, <1>9, <1>10, <1>11, <1>12 DEF ResourceNext

LEMMA ResourceInvShows == ResourceInv => KindsAreKept /\ ResourceTypeOK
<1> SUFFICES ASSUME ResourceInv
             PROVE  KindsAreKept
  BY DEF ResourceInv
<1>1. stored \subseteq ServerKinds
  BY DEF ResourceInv, ResourceTypeOK
<1>2. ASSUME NEW m \in meant, ~Shadowed(m)
      PROVE  /\ m \in ServerKinds /\ PlaceNames(place, m) /\ (newObject # NoObject => IsObjectOf(newObject, m))
  BY <1>2 DEF ResourceInv
<1>3. LinksLeadHome
  BY <1>1, <1>2, ModelsOfNames DEF LinksLeadHome
<1>4. NewObjectIsOfItsKind
  BY <1>2 DEF NewObjectIsOfItsKind, IsObjectOf
<1> QED
  BY <1>3, <1>4 DEF KindsAreKept

-----------------------------------------------------------------------------
(* The link that is lit *)

\* The links of a section are a sequence.
LEMMA LinksAreListed == \A s \in DOMAIN SectionLinks : SectionLinks[s] \in Seq(AllLinks)
<1> SUFFICES ASSUME NEW s \in DOMAIN SectionLinks
             PROVE  SectionLinks[s] \in Seq(AllLinks)
  OBVIOUS
<1>1. ToSet(SectionLinks[s]) \subseteq AllLinks
  BY DEF AllLinks
<1>2. DOMAIN SectionLinks = {"Home", "Operators", "Workloads", "Networking", "Storage", "Builds", "Catalog", "Monitoring",
                             "Administration", "User"}
  BY DEF SectionLinks
<1>3. SectionLinks[s] \in Seq(ToSet(SectionLinks[s]))
  <2>1. \A a : <<a>> \in Seq(ToSet(<<a>>))
    BY DEF ToSet
  <2>2. \A a, b, c : <<a, b, c>> \in Seq(ToSet(<<a, b, c>>))
    BY DEF ToSet
  <2>3. \A a, b, c, d : <<a, b, c, d>> \in Seq(ToSet(<<a, b, c, d>>))
    BY DEF ToSet
  <2>11. \A a, b, c, d, e, f, g, h, i, j, k : <<a, b, c, d, e, f, g, h, i, j, k>> \in Seq(ToSet(<<a, b, c, d, e, f, g, h, i, j, k>>))
    BY DEF ToSet
  <2>12. \A a, b, c, d, e, f, g, h, i, j, k, l :
            <<a, b, c, d, e, f, g, h, i, j, k, l>> \in Seq(ToSet(<<a, b, c, d, e, f, g, h, i, j, k, l>>))
    BY DEF ToSet
  <2>20. SectionLinks["Home"] \in Seq(ToSet(SectionLinks["Home"]))
    BY <2>2 DEF SectionLinks
  <2>21. SectionLinks["Operators"] \in Seq(ToSet(SectionLinks["Operators"]))
    BY <2>3 DEF SectionLinks
  <2>22. SectionLinks["Workloads"] \in Seq(ToSet(SectionLinks["Workloads"]))
    BY <2>12 DEF SectionLinks
  <2>23. SectionLinks["Networking"] \in Seq(ToSet(SectionLinks["Networking"]))
    BY <2>3 DEF SectionLinks
  <2>24. SectionLinks["Storage"] \in Seq(ToSet(SectionLinks["Storage"]))
    BY <2>2 DEF SectionLinks
  <2>25. SectionLinks["Builds"] \in Seq(ToSet(SectionLinks["Builds"]))
    BY <2>2 DEF SectionLinks
  <2>26. SectionLinks["Catalog"] \in Seq(ToSet(SectionLinks["Catalog"]))
    BY <2>3 DEF SectionLinks
  <2>27. SectionLinks["Monitoring"] \in Seq(ToSet(SectionLinks["Monitoring"]))
    BY <2>3 DEF SectionLinks
  <2>28. SectionLinks["Administration"] \in Seq(ToSet(SectionLinks["Administration"]))
    BY <2>11 DEF SectionLinks
  <2>29. SectionLinks["User"] \in Seq(ToSet(SectionLinks["User"]))
    BY <2>1 DEF SectionLinks
  <2> QED
    BY <1>2, <2>20, <2>21, <2>22, <2>23, <2>24, <2>25, <2>26, <2>27, <2>28, <2>29
<1> QED
  BY <1>1, <1>3

\* The children of a section are links, and those of the section without the ones left out.
LEMMA ChildrenAreLinks ==
    ASSUME NEW s \in DOMAIN SectionLinks, NEW found, NEW features
    PROVE  /\ Children(s, found, features) \in Seq(AllLinks)
           /\ ToSet(Children(s, found, features)) \subseteq ToSet(SectionLinks[s])
           /\ s = "Monitoring" =>
                 ToSet(Children(s, found, features)) \cap InnerLinks =
                    IF "prometheus-k8s" \in found THEN ToSet(SectionLinks[s]) \cap InnerLinks ELSE {}
<1>1. SectionLinks[s] \in Seq(AllLinks) /\ <<>> \in Seq(AllLinks) /\ ToSet(<<>>) = {}
  <2>1. DOMAIN <<>> = {}
    OBVIOUS
  <2> QED
    BY <2>1, LinksAreListed DEF ToSet
<1>2. CASE s = "Monitoring"
  <2> DEFINE kept == {anchor \in ToSet(SectionLinks[s]) :
                        IF anchor.type = "external" THEN anchor.to[3] \in found ELSE "prometheus-k8s" \in found}
  <2>1. Children(s, found, features) = Among(SectionLinks[s], kept)
    BY <1>2 DEF Children
  <2>2. Among(SectionLinks[s], kept) \in Seq(AllLinks) /\ Range(Among(SectionLinks[s], kept)) = Range(SectionLinks[s]) \cap kept
    BY <1>1, AmongKeeps
  <2>3. ToSet(Children(s, found, features)) = kept
    BY <2>1, <2>2 DEF Range, ToSet
  <2>4. kept \cap InnerLinks = IF "prometheus-k8s" \in found THEN ToSet(SectionLinks[s]) \cap InnerLinks ELSE {}
    BY DEF InnerLinks
  <2> HIDE DEF kept
  <2>5. kept \subseteq ToSet(SectionLinks[s])
    BY DEF kept
  <2> QED
    BY <2>1, <2>2, <2>3, <2>4, <2>5
<1>3. CASE s # "Monitoring"
  BY <1>1, <1>3 DEF Children
<1> QED
  BY <1>2, <1>3

\* The active child is the one link of the page that the location is, if it is among them.
LEMMA ActiveChildIsOfPage ==
    ASSUME NEW p \in AnyLocation, NEW links \in Seq(AllLinks)
    PROVE  /\ \A anchor \in ToSet(links) : IsActive(anchor, StripNS(p)) => GetActiveChild(links, p) = anchor.name
           /\ (\A anchor \in ToSet(links) : ~IsActive(anchor, StripNS(p))) => GetActiveChild(links, p) = ""
<1> DEFINE here == {anchor \in ToSet(links) : IsActive(anchor, StripNS(p))}
           lit == Among(links, here)
<1>1. lit \in Seq(AllLinks) /\ Range(lit) = Range(links) \cap here
  BY AmongKeeps
<1>2. Range(lit) = here
  BY <1>1 DEF Range, ToSet
<1>3. GetActiveChild(links, p) = IF lit = <<>> THEN "" ELSE lit[1].name
  BY DEF GetActiveChild
<1>4. ToSet(links) \subseteq AllLinks
  BY DEF ToSet
<1>5. \A one, other \in here : one = other
  BY <1>4, LinksAreOfOnePage
<1> HIDE DEF lit
<1>6. lit # <<>> => lit[1] \in here
  <2>1. lit # <<>> => 1 \in DOMAIN lit
    BY <1>1
  <2> QED
    BY <1>2, <2>1 DEF Range
<1>7. lit = <<>> => here = {}
  <2>1. lit = <<>> => DOMAIN lit = {}
    OBVIOUS
  <2> QED
    BY <1>2, <2>1 DEF Range
<1>8. ASSUME NEW anchor \in ToSet(links), IsActive(anchor, StripNS(p))
      PROVE  GetActiveChild(links, p) = anchor.name
  <2>1. anchor \in here
    BY <1>8
  <2>2. lit # <<>> /\ lit[1] \in here
    BY <1>6, <1>7, <2>1
  <2>3. lit[1] = anchor
    BY <1>5, <2>1, <2>2
  <2> QED
    BY <1>3, <2>2, <2>3
<1>9. ASSUME \A anchor \in ToSet(links) : ~IsActive(anchor, StripNS(p))
      PROVE  GetActiveChild(links, p) = ""
  <2>1. here = {}
    BY <1>9
  <2> QED
    BY <1>3, <1>6, <2>1
<1> QED
  BY <1>8, <1>9

\* It is the child of any links with the same ones that are not of another site.
LEMMA SameInnerLinks ==
    ASSUME NEW p \in AnyLocation, NEW links \in Seq(AllLinks), NEW others \in Seq(AllLinks),
           ToSet(links) \cap InnerLinks = ToSet(others) \cap InnerLinks
    PROVE  GetActiveChild(links, p) = GetActiveChild(others, p)
<1>1. \A anchor \in AllLinks : IsActive(anchor, StripNS(p)) => anchor \in InnerLinks
  BY LinksAreOfOnePage
<1>2. ToSet(links) \subseteq AllLinks /\ ToSet(others) \subseteq AllLinks
  BY DEF ToSet
<1>3. CASE \E anchor \in ToSet(links) : IsActive(anchor, StripNS(p))
  BY <1>1, <1>2, <1>3, ActiveChildIsOfPage
<1>4. CASE \A anchor \in ToSet(links) : ~IsActive(anchor, StripNS(p))
  <2>1. \A anchor \in ToSet(others) : ~IsActive(anchor, StripNS(p))
    BY <1>1, <1>2, <1>4
  <2> QED
    BY <1>4, <2>1, ActiveChildIsOfPage
<1> QED
  BY <1>3, <1>4

\* A child that is active is one of the links.
LEMMA ActiveChildIsALink ==
    ASSUME NEW p \in AnyLocation, NEW links \in Seq(AllLinks)
    PROVE  GetActiveChild(links, p) \in {anchor.name : anchor \in ToSet(links)} \cup {""}
<1>1. CASE \E anchor \in ToSet(links) : IsActive(anchor, StripNS(p))
  BY <1>1, ActiveChildIsOfPage
<1>2. CASE \A anchor \in ToSet(links) : ~IsActive(anchor, StripNS(p))
  BY <1>2, ActiveChildIsOfPage
<1> QED
  BY <1>1, <1>2

\* A section that there is keeps the child of the location.
IsOfLocation(section, s, found, features, p) ==
    /\ section.mounted \in BOOLEAN /\ section.isOpen \in BOOLEAN
    /\ section.activeChild \in {anchor.name : anchor \in ToSet(SectionLinks[s])} \cup {""}
    /\ section = [mounted |-> section.mounted, isOpen |-> section.isOpen, activeChild |-> section.activeChild]
    /\ section.mounted => /\ HasSection(s, found, features)
                          /\ section.activeChild = GetActiveChild(Children(s, found, features), p)

\* Prometheus is found first.
FoundInOrder(found) ==
    /\ found \subseteq detected
    /\ found # {} /\ "prometheus-k8s" \in detected => "prometheus-k8s" \in found

CurrentInv ==
    /\ NavTypeOK /\ navPath \in AnyLocation /\ FoundInOrder(urls)
    /\ \A s \in NavSection : IsOfLocation(sections[s], s, urls, navFlags, navPath)

LEMMA NavLocationsAreLocations == NavLocations \subseteq AnyLocation
<1>1. UNION {ToSet(SectionLinks[s]) : s \in NavSection} \subseteq AllLinks
  BY NavigationAssumption DEF AllLinks
<1> DEFINE some == UNION {ToSet(SectionLinks[s]) : s \in NavSection}
           OfType(links, type) == {l \in links : l.type = type}
<1>2. \A type : OfType(some, type) \subseteq OfType(AllLinks, type)
  BY <1>1
<1> HIDE DEF some
<1>3. LocationsOf(some) \subseteq LocationsOf(AllLinks)
  <2>1. {anchor.to : anchor \in OfType(some, "href")} \subseteq {anchor.to : anchor \in OfType(AllLinks, "href")}
    BY <1>2
  <2>2. {<<"k8s", "ns", "n1">> \o anchor.to \o <<"x">> : anchor \in OfType(some, "namespaced")}
          \subseteq {<<"k8s", "ns", "n1">> \o anchor.to \o <<"x">> : anchor \in OfType(AllLinks, "namespaced")}
    BY <1>2
  <2>3. {<<"k8s", "cluster">> \o anchor.to : anchor \in OfType(some, "cluster")}
          \subseteq {<<"k8s", "cluster">> \o anchor.to : anchor \in OfType(AllLinks, "cluster")}
    BY <1>2
  <2> QED
    BY <2>1, <2>2, <2>3, Zenon DEF LocationsOf
<1> QED
  BY <1>3 DEF NavLocations, AnyLocation, some

\* A section is constructed with the child of the location.
LEMMA ConstructedIsOfLocation ==
    ASSUME NEW s \in DOMAIN SectionLinks, NEW found, NEW features, NEW p \in AnyLocation, HasSection(s, found, features)
    PROVE  IsOfLocation(Constructed(Children(s, found, features), p), s, found, features, p)
<1> DEFINE links == Children(s, found, features)
<1>1. links \in Seq(AllLinks) /\ ToSet(links) \subseteq ToSet(SectionLinks[s])
  BY ChildrenAreLinks
<1> HIDE DEF links
<1>2. GetActiveChild(links, p) \in {anchor.name : anchor \in ToSet(SectionLinks[s])} \cup {""}
  BY <1>1, ActiveChildIsALink
<1> QED
  BY <1>2 DEF IsOfLocation, Constructed, links

LEMMA NoSectionIsOfLocation ==
    ASSUME NEW s, NEW found, NEW features, NEW p
    PROVE  IsOfLocation(NoNavSection, s, found, features, p)
BY DEF NoNavSection, IsOfLocation

LEMMA NavOpensCurrent ==
    ASSUME NEW p \in AnyLocation, NavOpens(p)
    PROVE  CurrentInv
<1>1. navPath = p /\ navPath \in Seq(STRING) /\ urls = {} /\ navNs \in NavNamespaces
  BY LinksAreOfOnePage DEF NavOpens, NavNamespaces
<1>2. FoundInOrder(urls)
  BY <1>1 DEF FoundInOrder
<1>3. ASSUME NEW s \in NavSection
      PROVE  IsOfLocation(sections[s], s, urls, navFlags, navPath)
  <2>1. s \in DOMAIN SectionLinks
    BY NavigationAssumption
  <2>2. sections[s] = IF HasSection(s, {}, navFlags) THEN Constructed(Children(s, {}, navFlags), p) ELSE NoNavSection
    BY DEF NavOpens
  <2> QED
    BY <1>1, <2>1, <2>2, ConstructedIsOfLocation, NoSectionIsOfLocation
<1>4. NavTypeOK
  <2>1. DOMAIN sections = NavSection /\ menuOpen \in BOOLEAN /\ navFlags \in [NavFlag -> {"pending", "set", "unset"}]
    BY DEF NavOpens
  <2>2. \A s \in NavSection :
          /\ sections[s].mounted \in BOOLEAN /\ sections[s].isOpen \in BOOLEAN
          /\ sections[s].activeChild \in {anchor.name : anchor \in ToSet(SectionLinks[s])} \cup {""}
    BY <1>3 DEF IsOfLocation
  <2> QED
    BY <1>1, <2>1, <2>2 DEF NavTypeOK
<1> QED
  BY <1>1, <1>2, <1>3, <1>4 DEF CurrentInv

LEMMA NavInitCurrent == NavInit \/ NavOpens(<<"start-guide">>) => CurrentInv
<1>1. <<"start-guide">> \in AnyLocation
  BY DEF AnyLocation, LocationsOf
<1> QED
  BY <1>1, NavLocationsAreLocations, NavOpensCurrent DEF NavInit

\* The sections that are mounted are told of the location.
LEMMA ArrivesCurrent ==
    ASSUME CurrentInv, NEW p \in AnyLocation, Arrives(p), UNCHANGED <<navFlags, urls, detected>>, menuOpen' \in BOOLEAN
    PROVE  CurrentInv'
<1>1. navPath' = p /\ p \in Seq(STRING) /\ navNs' \in NavNamespaces
  <2>1. Len(p) > 2 /\ p[2] = "ns" => p[3] \in NavNamespaces
    BY LinksAreOfOnePage
  <2>2. NsOf(p) \in NavNamespaces
    BY <2>1 DEF NsOf, NavNamespaces, CurrentInv, NavTypeOK
  <2> QED
    BY <2>2, LinksAreOfOnePage DEF Arrives
<1>2. ASSUME NEW s \in NavSection
      PROVE  IsOfLocation(sections'[s], s, urls, navFlags, p)
  <2> DEFINE child == GetActiveChild(Children(s, urls, navFlags), p)
  <2>1. s \in DOMAIN SectionLinks /\ IsOfLocation(sections[s], s, urls, navFlags, navPath)
    BY NavigationAssumption DEF CurrentInv
  <2>2. CASE p = navPath
    BY <2>1, <2>2 DEF Arrives
  <2>3. CASE p # navPath /\ sections[s].mounted
    <3>1. sections'[s] = [sections[s] EXCEPT !.activeChild = child,
                                             !.isOpen = @ \/ (child # "" /\ sections[s].activeChild = "")]
      BY <2>3 DEF Arrives, DidUpdate
    <3>2. child \in {anchor.name : anchor \in ToSet(SectionLinks[s])} \cup {""}
      <4>1. Children(s, urls, navFlags) \in Seq(AllLinks) /\ ToSet(Children(s, urls, navFlags)) \subseteq ToSet(SectionLinks[s])
        BY <2>1, ChildrenAreLinks
      <4> QED
        BY <4>1, ActiveChildIsALink
    <3> HIDE DEF child
    <3>3. sections[s] = [mounted |-> sections[s].mounted, isOpen |-> sections[s].isOpen, activeChild |-> sections[s].activeChild]
          /\ HasSection(s, urls, navFlags) /\ sections[s].isOpen \in BOOLEAN
      BY <2>1, <2>3 DEF IsOfLocation
    <3>4. sections'[s] = [mounted |-> sections[s].mounted,
                          isOpen |-> sections[s].isOpen \/ (child # "" /\ sections[s].activeChild = ""),
                          activeChild |-> child]
      BY <3>1, <3>3
    <3> DEFINE opened == sections[s].isOpen \/ (child # "" /\ sections[s].activeChild = "")
    <3>7. opened \in BOOLEAN /\ sections'[s] = [mounted |-> sections[s].mounted, isOpen |-> opened, activeChild |-> child]
      BY <3>4
    <3> HIDE DEF opened
    <3>5. sections'[s].mounted = sections[s].mounted /\ sections'[s].isOpen \in BOOLEAN /\ sections'[s].activeChild = child
          /\ sections'[s] = [mounted |-> sections'[s].mounted, isOpen |-> sections'[s].isOpen, activeChild |-> sections'[s].activeChild]
      BY <3>7
    <3>6. sections'[s].activeChild = GetActiveChild(Children(s, urls, navFlags), p)
      BY <3>5 DEF child
    <3> QED
      BY <2>1, <2>3, <3>2, <3>3, <3>5, <3>6 DEF IsOfLocation
  <2>4. CASE p # navPath /\ ~sections[s].mounted
    <3>1. sections'[s] = sections[s]
      BY <2>4 DEF Arrives
    <3> QED
      BY <2>1, <2>4, <3>1 DEF IsOfLocation
  <2> QED
    BY <2>1, <2>2, <2>3, <2>4 DEF IsOfLocation
<1>3. DOMAIN sections' = NavSection
  BY DEF Arrives, CurrentInv, NavTypeOK
<1>4. NavTypeOK'
  BY <1>1, <1>2, <1>3 DEF CurrentInv, NavTypeOK, IsOfLocation
<1>5. \A s \in NavSection : IsOfLocation(sections'[s], s, urls', navFlags', navPath')
  BY <1>1, <1>2
<1>6. FoundInOrder(urls)'
  BY DEF CurrentInv, FoundInOrder
<1> QED
  BY <1>1, <1>4, <1>5, <1>6 DEF CurrentInv

\* Sections whose flag or route is found are constructed; those that are there keep their child.
LEMMA SectionsWithCurrent ==
    ASSUME CurrentInv, NEW found, NEW features, sections' = SectionsWith(found, features), UNCHANGED navPath,
           \A s \in NavSection : sections[s].mounted =>
              /\ HasSection(s, found, features)
              /\ ToSet(Children(s, found, features)) \cap InnerLinks = ToSet(Children(s, urls, navFlags)) \cap InnerLinks
    PROVE  /\ DOMAIN sections' = NavSection
           /\ \A s \in NavSection : IsOfLocation(sections'[s], s, found, features, navPath')
<1>1. DOMAIN sections' = NavSection
  BY DEF SectionsWith
<1>2. ASSUME NEW s \in NavSection
      PROVE  IsOfLocation(sections'[s], s, found, features, navPath)
  <2>1. s \in DOMAIN SectionLinks /\ IsOfLocation(sections[s], s, urls, navFlags, navPath) /\ navPath \in AnyLocation
    BY NavigationAssumption DEF CurrentInv
  <2>2. sections'[s] = IF sections[s].mounted \/ ~HasSection(s, found, features) THEN sections[s]
                       ELSE Constructed(Children(s, found, features), navPath)
    BY DEF SectionsWith
  <2>3. CASE sections[s].mounted
    <3>1. sections'[s] = sections[s]
      BY <2>2, <2>3
    <3>2. Children(s, found, features) \in Seq(AllLinks) /\ Children(s, urls, navFlags) \in Seq(AllLinks)
      BY <2>1, ChildrenAreLinks
    <3>3. GetActiveChild(Children(s, found, features), navPath) = GetActiveChild(Children(s, urls, navFlags), navPath)
      BY <2>1, <2>3, <3>2, SameInnerLinks
    <3> QED
      BY <2>1, <2>3, <3>1, <3>3 DEF IsOfLocation
  <2>4. CASE ~sections[s].mounted /\ HasSection(s, found, features)
    BY <2>1, <2>2, <2>4, ConstructedIsOfLocation
  <2>5. CASE ~sections[s].mounted /\ ~HasSection(s, found, features)
    <3>1. sections'[s] = sections[s]
      BY <2>2, <2>5
    <3> QED
      BY <2>1, <2>5, <3>1 DEF IsOfLocation
  <2> QED
    BY <2>3, <2>4, <2>5
<1> QED
  BY <1>1, <1>2

LEMMA NavNextCurrent == CurrentInv /\ [NavNext]_navVars => CurrentInv'
<1> SUFFICES ASSUME CurrentInv, [NavNext]_navVars
             PROVE  CurrentInv'
  OBVIOUS
<1>1. CASE UNCHANGED navVars
  BY <1>1 DEF navVars, CurrentInv, NavTypeOK, FoundInOrder
<1>2. ASSUME NEW p \in NavLocations, GoesTo(p) PROVE CurrentInv'
  <2>1. p \in AnyLocation
    BY NavLocationsAreLocations
  <2>2. menuOpen \in BOOLEAN
    BY DEF CurrentInv, NavTypeOK
  <2> QED
    BY <1>2, <2>1, <2>2, ArrivesCurrent DEF GoesTo
<1>3. CASE TogglesMenu
  <2>1. menuOpen' \in BOOLEAN /\ UNCHANGED <<navPath, navNs, navFlags, urls, detected, sections>>
    BY <1>3 DEF TogglesMenu
  <2> QED
    BY <2>1 DEF CurrentInv, NavTypeOK, FoundInOrder
<1>4. ASSUME NEW s \in NavSection, TogglesSection(s) PROVE CurrentInv'
  <2>1. sections' = [sections EXCEPT ![s].isOpen = ~@] /\ UNCHANGED <<navPath, navNs, navFlags, urls, detected, menuOpen>>
    BY <1>4 DEF TogglesSection
  <2>2. DOMAIN sections = NavSection /\ IsOfLocation(sections[s], s, urls, navFlags, navPath)
    BY DEF CurrentInv, NavTypeOK
  <2>3. \A other \in NavSection \ {s} : sections'[other] = sections[other]
    BY <2>1, <2>2
  <2>4. sections'[s] = [sections[s] EXCEPT !.isOpen = ~@]
    BY <2>1, <2>2
  <2>5. sections'[s] = [mounted |-> sections[s].mounted, isOpen |-> ~sections[s].isOpen, activeChild |-> sections[s].activeChild]
    BY <2>2, <2>4 DEF IsOfLocation
  <2> DEFINE opened == ~sections[s].isOpen
  <2>6. opened \in BOOLEAN /\ sections'[s] = [mounted |-> sections[s].mounted, isOpen |-> opened, activeChild |-> sections[s].activeChild]
    BY <2>5
  <2> HIDE DEF opened
  <2>7. /\ sections'[s].mounted = sections[s].mounted /\ sections'[s].isOpen \in BOOLEAN
        /\ sections'[s].activeChild = sections[s].activeChild
        /\ sections'[s] = [mounted |-> sections'[s].mounted, isOpen |-> sections'[s].isOpen, activeChild |-> sections'[s].activeChild]
    BY <2>6
  <2>8. IsOfLocation(sections'[s], s, urls, navFlags, navPath)
    BY <2>2, <2>7 DEF IsOfLocation
  <2>9. \A other \in NavSection : IsOfLocation(sections'[other], other, urls, navFlags, navPath)
    BY <2>3, <2>8 DEF CurrentInv
  <2>10. DOMAIN sections' = NavSection
    BY <2>1, <2>2
  <2>11. NavTypeOK'
    BY <2>1, <2>9, <2>10 DEF CurrentInv, NavTypeOK, IsOfLocation
  <2> QED
    BY <2>1, <2>9, <2>11 DEF CurrentInv, FoundInOrder
<1>5. ASSUME NEW s \in NavSection, NEW anchor \in ToSet(SectionLinks[s]), FollowsNavLink(s, anchor) PROVE CurrentInv'
  <2>1. menuOpen' = FALSE /\ UNCHANGED <<navFlags, urls, detected>>
    BY <1>5 DEF FollowsNavLink
  <2>2. CASE anchor.type = "external"
    <3>1. UNCHANGED <<navPath, navNs, sections>>
      BY <1>5, <2>2 DEF FollowsNavLink
    <3> QED
      BY <2>1, <3>1 DEF CurrentInv, NavTypeOK, FoundInOrder
  <2>3. CASE anchor.type # "external"
    <3>1. anchor \in InnerLinks
      BY <2>3, NavigationAssumption DEF InnerLinks, AllLinks
    <3>2. navNs \in NavNamespaces
      BY DEF CurrentInv, NavTypeOK
    <3>3. Target(anchor) \in AnyLocation
      BY <3>1, <3>2 DEF AnyLocation, Target
    <3>4. Arrives(Target(anchor))
      BY <1>5, <2>3 DEF FollowsNavLink
    <3> QED
      BY <2>1, <3>3, <3>4, ArrivesCurrent
  <2> QED
    BY <2>2, <2>3
<1>6. ASSUME NEW f \in NavFlag, FlagIsDetected(f) PROVE CurrentInv'
  <2>1. PICK value \in {"set", "unset"} : navFlags' = [navFlags EXCEPT ![f] = value]
    BY <1>6 DEF FlagIsDetected
  <2>2. navFlags[f] = "pending" /\ sections' = SectionsWith(urls, navFlags') /\ UNCHANGED <<navPath, navNs, urls, detected, menuOpen>>
    BY <1>6 DEF FlagIsDetected
  <2>3. navFlags \in [NavFlag -> {"pending", "set", "unset"}]
    BY DEF CurrentInv, NavTypeOK
  <2>4. navFlags' \in [NavFlag -> {"pending", "set", "unset"}] /\ \A g \in NavFlag : navFlags[g] # "pending" => navFlags'[g] = navFlags[g]
    BY <2>1, <2>2, <2>3
  <2>5. ASSUME NEW s \in NavSection, sections[s].mounted
        PROVE  /\ HasSection(s, urls, navFlags')
               /\ ToSet(Children(s, urls, navFlags')) \cap InnerLinks = ToSet(Children(s, urls, navFlags)) \cap InnerLinks
    <3>1. HasSection(s, urls, navFlags)
      BY <2>5 DEF CurrentInv, IsOfLocation
    <3>2. CASE s = "User"
      <4>1. \A g \in NavFlag : (g = "AUTH_ENABLED" => navFlags[g] = "set") /\ (g = "OPENSHIFT" => navFlags[g] # "pending")
        BY <3>1, <3>2 DEF HasSection
      <4>2. ASSUME NEW g \in NavFlag, g = "AUTH_ENABLED" \/ g = "OPENSHIFT"
            PROVE  navFlags'[g] = navFlags[g]
        <5>1. navFlags[g] # "pending"
          BY <4>1, <4>2
        <5> QED
          BY <2>4, <5>1
      <4>3. HasSection(s, urls, navFlags')
        <5>1. \A g \in NavFlag : (g = "AUTH_ENABLED" => navFlags'[g] = "set") /\ (g = "OPENSHIFT" => navFlags'[g] # "pending")
          BY <4>1, <4>2
        <5> QED
          BY <3>2, <5>1 DEF HasSection
      <4>4. Children(s, urls, navFlags') = Children(s, urls, navFlags)
        BY <3>2, <4>2 DEF Children
      <4> QED
        BY <4>3, <4>4
    <3>3. CASE s # "User"
      BY <3>1, <3>3 DEF HasSection, Children
    <3> QED
      BY <3>2, <3>3
  <2>6. DOMAIN sections' = NavSection /\ \A s \in NavSection : IsOfLocation(sections'[s], s, urls, navFlags', navPath')
    BY <2>2, <2>5, SectionsWithCurrent
  <2>7. NavTypeOK'
    BY <2>2, <2>4, <2>6 DEF CurrentInv, NavTypeOK, IsOfLocation
  <2> QED
    BY <2>2, <2>6, <2>7 DEF CurrentInv, FoundInOrder
<1>7. CASE UrlIsFound
  <2>1. PICK i \in DOMAIN MonitoringRoute :
          /\ MonitoringRoute[i] \in detected \ urls
          /\ \A j \in 1 .. i - 1 : MonitoringRoute[j] \in detected => MonitoringRoute[j] \in urls
          /\ urls' = urls \cup {MonitoringRoute[i]}
          /\ sections' = SectionsWith(urls', navFlags)
          /\ UNCHANGED <<navPath, navNs, navFlags, detected, menuOpen>>
    BY <1>7 DEF UrlIsFound
  <2>2. FoundInOrder(urls) /\ urls \subseteq detected
    BY DEF CurrentInv, FoundInOrder
  <2>3. "prometheus-k8s" \in detected => "prometheus-k8s" \in urls'
    <3>1. DOMAIN MonitoringRoute = 1 .. 3 /\ MonitoringRoute[1] = "prometheus-k8s"
      BY DEF MonitoringRoute
    <3>2. i = 1 \/ 1 \in 1 .. i - 1
      BY <3>1
    <3> QED
      BY <2>1, <3>1, <3>2
  <2>4. urls # {} => ("prometheus-k8s" \in urls' <=> "prometheus-k8s" \in urls)
    BY <2>1, <2>2 DEF FoundInOrder
  <2>5. ASSUME NEW s \in NavSection, sections[s].mounted
        PROVE  /\ HasSection(s, urls', navFlags)
               /\ ToSet(Children(s, urls', navFlags)) \cap InnerLinks = ToSet(Children(s, urls, navFlags)) \cap InnerLinks
    <3>1. HasSection(s, urls, navFlags) /\ s \in DOMAIN SectionLinks
      BY <2>5, NavigationAssumption DEF CurrentInv, IsOfLocation
    <3>2. CASE s = "Monitoring"
      <4>1. urls # {} /\ urls' # {}
        BY <2>1, <3>1, <3>2 DEF HasSection
      <4>2. HasSection(s, urls', navFlags)
        BY <3>2, <4>1 DEF HasSection
      <4> QED
        BY <2>4, <3>1, <3>2, <4>1, <4>2, ChildrenAreLinks
    <3>3. CASE s # "Monitoring"
      BY <3>1, <3>3 DEF HasSection, Children
    <3> QED
      BY <3>2, <3>3
  <2>6. DOMAIN sections' = NavSection /\ \A s \in NavSection : IsOfLocation(sections'[s], s, urls', navFlags, navPath')
    BY <2>1, <2>5, SectionsWithCurrent
  <2>7. urls' \subseteq detected'
    BY <2>1, <2>2
  <2>8. NavTypeOK'
    BY <2>1, <2>6, <2>7 DEF CurrentInv, NavTypeOK, IsOfLocation
  <2>9. FoundInOrder(urls)'
    BY <2>1, <2>3, <2>7 DEF FoundInOrder
  <2> QED
    BY <2>1, <2>6, <2>8, <2>9 DEF CurrentInv
<1> QED
  BY <1>1, <1>2, <1>3, <1>4, <1>5, <1>6, <1>7 DEF NavNext

LEMMA CurrentInvShows == CurrentInv => NavIsCurrent /\ NavTypeOK
<1> SUFFICES ASSUME CurrentInv
             PROVE  NavIsCurrent
  BY DEF CurrentInv
<1>1. \A s \in NavSection : sections[s].mounted =>
          sections[s].activeChild = GetActiveChild(Children(s, urls, navFlags), navPath)
  BY DEF CurrentInv, IsOfLocation
<1>2. Cardinality({anchor \in AllLinks : IsActive(anchor, StripNS(navPath))}) <= 1
  <2> DEFINE here == {anchor \in AllLinks : IsActive(anchor, StripNS(navPath))}
  <2>1. \A one, other \in here : one = other
    BY LinksAreOfOnePage DEF CurrentInv
  <2> HIDE DEF here
  <2>2. here = {} \/ \E anchor : here = {anchor}
    BY <2>1
  <2>3. Cardinality(here) = 0 \/ Cardinality(here) = 1
    BY <2>2, FS_EmptySet, FS_Singleton
  <2> QED
    BY <2>3 DEF here
<1>3. ASSUME NEW s \in NavSection, NEW anchor \in DrawnLinks(s), anchor.type # "external"
      PROVE  GetActiveChild(Children(s, urls, navFlags), Target(anchor)) = anchor.name
  <2>1. s \in DOMAIN SectionLinks /\ anchor \in ToSet(Children(s, urls, navFlags)) /\ navNs \in NavNamespaces
    BY NavigationAssumption DEF DrawnLinks, CurrentInv, NavTypeOK
  <2>2. Children(s, urls, navFlags) \in Seq(AllLinks) /\ anchor \in InnerLinks
    <3>1. Children(s, urls, navFlags) \in Seq(AllLinks)
      BY <2>1, ChildrenAreLinks
    <3> QED
      BY <1>3, <2>1, <3>1 DEF InnerLinks, ToSet
  <2>3. Target(anchor) \in AnyLocation /\ IsActive(anchor, StripNS(Target(anchor)))
    BY <2>1, <2>2, LinksAreOfOnePage DEF AnyLocation, Target
  <2> QED
    BY <2>1, <2>2, <2>3, ActiveChildIsOfPage
<1> QED
  BY <1>1, <1>2, <1>3 DEF NavIsCurrent

-----------------------------------------------------------------------------
(* The types of the pages *)

\* The flags and their probes.
LEMMA FeatureInitTyped == FeatureInit => FeatureTypeOK
<1> SUFFICES ASSUME FeatureInit PROVE FeatureTypeOK
  OBVIOUS
<1>1. MaxGlitches \in Nat /\ MaxSwitches \in Nat
  BY FeatureAssumption, Zenon DEF FeatureAssumption
<1>2. glitches \in 0 .. MaxGlitches /\ switches \in 0 .. MaxSwitches
  BY <1>1 DEF FeatureInit
<1> QED
  BY <1>2 DEF FeatureInit, FeatureTypeOK, Value, Waiting

LEMMA FeatureNextTyped == FeatureTypeOK /\ [FeatureNext]_featureVars => FeatureTypeOK'
<1> SUFFICES ASSUME FeatureTypeOK, [FeatureNext]_featureVars PROVE FeatureTypeOK'
  OBVIOUS
<1> USE DEF FeatureTypeOK
<1>0. MaxGlitches \in Nat /\ MaxSwitches \in Nat /\ "PROJECTS_AVAILABLE" \in Flag
  BY FeatureAssumption, Zenon DEF FeatureAssumption, Flag
<1>1. CASE UNCHANGED featureVars
  BY <1>1 DEF featureVars, featureCluster
<1>2. CASE ConsoleStarts
  BY <1>2 DEF ConsoleStarts, Answer
<1>3. CASE ProjectsChange
  BY <1>0, <1>3 DEF ProjectsChange
<1>4. CASE SelectorUpdates
  BY <1>0, <1>4 DEF SelectorUpdates, Set, featureCluster, Value
<1>5. ASSUME NEW f \in Flag, ProbeReads(f) \/ ProbeAnswers(f) \/ RetryFires(f) PROVE FeatureTypeOK'
  BY <1>5 DEF ProbeReads, ProbeAnswers, RetryFires, Reply, Set, featureCluster, Value, Answer, Waiting
<1>6. ASSUME NEW f \in Flag, NEW code \in {401, 403, 500}, ProbeRefused(f, code) PROVE FeatureTypeOK'
  BY <1>6 DEF ProbeRefused, Set, featureCluster, Value, Waiting
<1>7. ASSUME NEW f \in Flag, NEW code \in {408, 502}, ProbeFails(f, code) PROVE FeatureTypeOK'
  BY <1>0, <1>7 DEF ProbeFails, Retry, Set, featureCluster, Value, Waiting
<1> QED
  BY <1>1, <1>2, <1>3, <1>4, <1>5, <1>6, <1>7 DEF FeatureNext

\* The boxes and graphs.
LEMMA PollingInitTyped == PollingInit => PollingTypeOK
BY PollingAssumption DEF PollingInit, PollingTypeOK

LEMMA PollingNextTyped == PollingTypeOK /\ [PollingNext]_pollingVars => PollingTypeOK'
<1> SUFFICES ASSUME PollingTypeOK, [PollingNext]_pollingVars PROVE PollingTypeOK'
  OBVIOUS
<1> USE DEF PollingTypeOK
<1>0. MaxQueries \in Nat
  BY PollingAssumption
<1>1. CASE UNCHANGED pollingVars
  BY <1>1 DEF pollingVars
<1>2. CASE ChartMounts
  BY <1>0, <1>2 DEF ChartMounts, Fetch, Chain
<1>3. CASE ChartUnmounts
  BY <1>3 DEF ChartUnmounts
<1>4. ASSUME NEW q \in Query, QueryChanges(q) PROVE PollingTypeOK'
  <2>1. queryClock + 1 \in 0 .. MaxQueries /\ queryClock + 2 \in 1 .. MaxQueries + 1
    BY <1>0, <1>4 DEF QueryChanges
  <2>2. Fetch(queryClock + 2, q, queryClock + 1) \in Chain
    BY <2>1 DEF Fetch, Chain
  <2> QED
    BY <1>4, <2>1, <2>2 DEF QueryChanges, NewQuery
<1>5. ASSUME NEW c \in chains, ChartAnswered(c) PROVE PollingTypeOK'
  <2>1. c \in Chain /\ [c EXCEPT !.at = "timer"] \in Chain /\ c.query \in Query
    BY DEF Chain
  <2>2. c.id \in 0 .. MaxQueries + 1
    BY <1>0, <2>1 DEF Chain
  <2> QED
    BY <1>5, <2>1, <2>2 DEF ChartAnswered
<1>6. ASSUME NEW c \in chains, TimerFires(c) PROVE PollingTypeOK'
  <2>1. Fetch(c.id, query, queryClock) \in Chain
    BY DEF Fetch, Chain
  <2> QED
    BY <1>6, <2>1 DEF TimerFires
<1> QED
  BY <1>1, <1>2, <1>3, <1>4, <1>5, <1>6 DEF PollingNext

\* The page whose code is loaded.
LEMMA AsyncInitTyped == AsyncInit => AsyncTypeOK
<1> SUFFICES ASSUME AsyncInit PROVE AsyncTypeOK
  OBVIOUS
<1>1. wanted \in Loader
  BY AsyncAssumption DEF AsyncInit
<1>2. loadCount \in 0 .. MaxLoads /\ loadFails \in 0 .. MaxLoadFails
  BY AsyncAssumption DEF AsyncInit
<1> QED
  BY <1>1, <1>2 DEF AsyncInit, AsyncTypeOK

LEMMA AsyncNextTyped == AsyncTypeOK /\ [AsyncNext]_asyncVars => AsyncTypeOK'
<1> SUFFICES ASSUME AsyncTypeOK, [AsyncNext]_asyncVars PROVE AsyncTypeOK'
  OBVIOUS
<1> DEFINE Running == [id : 1 .. MaxLoads, at : {"asked", "timer"}, of : Loader]
<1>0. MaxLoads \in Nat /\ MaxLoadFails \in Nat
  BY AsyncAssumption
<1>1. CASE UNCHANGED asyncVars
  BY <1>1 DEF asyncVars, AsyncTypeOK
<1>2. ASSUME NEW l \in Loader, LoadComponent(l) PROVE loads' \subseteq Running /\ loadCount' \in 0 .. MaxLoads
  <2>1. loadCount + 1 \in 1 .. MaxLoads
    BY <1>0, <1>2 DEF LoadComponent, AsyncTypeOK
  <2> QED
    BY <1>0, <1>2, <2>1 DEF LoadComponent, AsyncTypeOK
<1>3. CASE AsyncUpdates
  <2>1. wanted \in Loader
    BY DEF AsyncTypeOK
  <2> QED
    BY <1>2, <1>3, <2>1 DEF AsyncUpdates, AsyncTypeOK
<1>4. CASE AsyncUnmounts
  BY <1>4 DEF AsyncUnmounts, AsyncTypeOK
<1>5. ASSUME NEW l \in Loader, AsyncMounts(l) \/ LoaderChanges(l) PROVE AsyncTypeOK'
  <2>1. LoadComponent(l)
    BY <1>5 DEF AsyncMounts, LoaderChanges
  <2> QED
    BY <1>2, <1>5, <2>1 DEF AsyncMounts, LoaderChanges, AsyncTypeOK
<1>6. ASSUME NEW x \in loads, ComponentLoads(x) \/ LoadFails(x) \/ LoadRetries(x) PROVE AsyncTypeOK'
  <2>1. x \in Running /\ x.of \in Loader /\ wanted \in Loader
    BY DEF AsyncTypeOK
  <2>2. [x EXCEPT !.at = "timer"] \in Running /\ [x EXCEPT !.at = "asked", !.of = wanted] \in Running
    BY <2>1
  <2>3. loadFails < MaxLoadFails => loadFails + 1 \in 0 .. MaxLoadFails
    BY <1>0 DEF AsyncTypeOK
  <2> QED
    BY <1>6, <2>1, <2>2, <2>3 DEF ComponentLoads, LoadFails, LoadRetries, AsyncTypeOK
<1> QED
  BY <1>1, <1>3, <1>4, <1>5, <1>6 DEF AsyncNext

\* Discovery and the page that watches.
LEMMA DiscoveryInitTyped == DiscoveryInit => DiscoveryTypeOK
<1> SUFFICES ASSUME DiscoveryInit PROVE DiscoveryTypeOK
  OBVIOUS
<1>1. (CHOOSE g \in Group : TRUE) \in Group
  BY DiscoveryAssumption
<1>2. Cardinality(Group) \in Nat /\ MaxFetches \in Nat /\ MaxMisses \in Nat /\ MaxChanges \in Nat
  BY DiscoveryAssumption, FS_CardinalityType
<1>3. known \in 0 .. Cardinality(Group) /\ Len(fetches) <= MaxFetches /\ misses \in 0 .. MaxMisses
      /\ changes \in 0 .. MaxChanges /\ fetches \in Seq(SUBSET Group)
  BY <1>2 DEF DiscoveryInit
<1> QED
  BY <1>1, <1>3 DEF DiscoveryInit, DiscoveryTypeOK

\* One more call of getResources, and what is taken from those that run.
LEMMA GetResourcesTyped ==
    ASSUME DiscoveryTypeOK, GetResources
    PROVE  /\ fetches' \in Seq(SUBSET Group) /\ Len(fetches') <= MaxFetches
           /\ inFlight' = TRUE /\ watched' = {} /\ models' = models /\ resources' = resources
<1>1. fetches' = Append(fetches, groups) /\ groups \in SUBSET Group /\ fetches \in Seq(SUBSET Group) /\ Len(fetches) < MaxFetches
  BY DEF GetResources, DiscoveryTypeOK
<1>2. fetches' \in Seq(SUBSET Group) /\ Len(fetches') = Len(fetches) + 1
  BY <1>1
<1>3. Len(fetches') <= MaxFetches
  BY <1>1, <1>2, DiscoveryAssumption
<1> QED
  BY <1>2, <1>3 DEF GetResources, SetInFlight, Remounted

LEMMA FetchIsTaken ==
    ASSUME DiscoveryTypeOK, NEW i \in DOMAIN fetches
    PROVE  RemoveAt(fetches, i) \in Seq(SUBSET Group) /\ Len(RemoveAt(fetches, i)) <= MaxFetches
<1>1. fetches \in Seq(SUBSET Group) /\ Len(fetches) <= MaxFetches /\ i \in 1 .. Len(fetches) /\ Len(fetches) \in Nat
  BY DEF DiscoveryTypeOK
<1>2. RemoveAt(fetches, i) \in Seq(SUBSET Group) /\ DOMAIN RemoveAt(fetches, i) = 1 .. Len(fetches) - 1
  BY <1>1, RemovedRows, Zenon
<1>3. Len(RemoveAt(fetches, i)) = Len(fetches) - 1
  <2> DEFINE left == RemoveAt(fetches, i)
  <2>1. left \in Seq(SUBSET Group) /\ DOMAIN left = 1 .. Len(fetches) - 1
    BY <1>2
  <2> HIDE DEF left
  <2>2. Len(left) = Len(fetches) - 1
    BY <1>1, <2>1
  <2> QED
    BY <2>2 DEF left
<1> QED
  BY <1>1, <1>2, <1>3, DiscoveryAssumption

LEMMA DiscoveryNextTyped == DiscoveryTypeOK /\ [DiscoveryNext]_discoveryVars => DiscoveryTypeOK'
<1> SUFFICES ASSUME DiscoveryTypeOK, [DiscoveryNext]_discoveryVars PROVE DiscoveryTypeOK'
  OBVIOUS
<1>0. MaxMisses \in Nat /\ MaxChanges \in Nat
  BY DiscoveryAssumption
<1>1. CASE UNCHANGED discoveryVars
  BY <1>1 DEF discoveryVars, api, store, DiscoveryTypeOK
<1>2. CASE GroupsChange
  <2>1. changes' \in 0 .. MaxChanges
    BY <1>0, <1>2 DEF GroupsChange, DiscoveryTypeOK
  <2> QED
    BY <1>2, <2>1 DEF GroupsChange, store, DiscoveryTypeOK
<1>3. CASE WatchAPIServices
  BY <1>3 DEF WatchAPIServices, SetInFlight, Remounted, api, DiscoveryTypeOK
<1>4. CASE ListAllowed
  BY <1>4, GetResourcesTyped DEF ListAllowed, api, DiscoveryTypeOK
<1>5. CASE ListForbidden
  BY <1>5 DEF ListForbidden, api, store, DiscoveryTypeOK
<1>6. CASE DiscoveryPolls
  <2>1. GetResources /\ known' = Cardinality(groups)
    BY <1>6 DEF DiscoveryPolls, GroupsDiffer
  <2>2. known' \in 0 .. Cardinality(Group)
    <3>1. groups \subseteq Group
      BY DEF DiscoveryTypeOK
    <3>2. Cardinality(groups) \in Nat /\ Cardinality(Group) \in Nat /\ Cardinality(groups) <= Cardinality(Group)
      BY <3>1, DiscoveryAssumption, FS_Subset, FS_CardinalityType
    <3> QED
      BY <2>1, <3>2
  <2> QED
    BY <1>6, <2>1, <2>2, GetResourcesTyped DEF DiscoveryPolls, api, DiscoveryTypeOK
<1>7. CASE ServiceEvents
  BY <1>7, GetResourcesTyped DEF ServiceEvents, DiscoveryTypeOK
<1>8. ASSUME NEW i \in DOMAIN fetches, FetchEnds(i) PROVE DiscoveryTypeOK'
  <2>1. PICK lost \in SUBSET fetches[i] :
           /\ Cardinality(lost) <= misses
           /\ misses' = misses - Cardinality(lost)
           /\ resources' = fetches[i] \ lost
    BY <1>8 DEF FetchEnds
  <2>2. fetches[i] \subseteq Group
    BY DEF DiscoveryTypeOK
  <2>3. misses' \in 0 .. MaxMisses
    <3>1. lost \subseteq Group
      BY <2>2
    <3>2. Cardinality(lost) \in Nat
      BY <3>1, DiscoveryAssumption, FS_Subset, FS_CardinalityType
    <3> QED
      BY <1>0, <2>1, <3>2 DEF DiscoveryTypeOK
  <2>4. models' = models \cup resources' /\ resources' \subseteq Group /\ inFlight' = FALSE
    BY <1>8, <2>1, <2>2 DEF FetchEnds
  <2>5. watched' \subseteq models'
    BY <1>8, <2>4 DEF FetchEnds, Remounted, DiscoveryTypeOK
  <2>6. fetches' = RemoveAt(fetches, i)
    BY <1>8 DEF FetchEnds
  <2> QED
    BY <1>8, <2>3, <2>4, <2>5, <2>6, FetchIsTaken DEF FetchEnds, api, DiscoveryTypeOK
<1>9. ASSUME NEW i \in DOMAIN fetches, FetchFails(i) PROVE DiscoveryTypeOK'
  <2>1. misses' \in 0 .. MaxMisses
    BY <1>0, <1>9 DEF FetchFails, DiscoveryTypeOK
  <2> QED
    BY <1>9, <2>1, FetchIsTaken DEF FetchFails, api, store, DiscoveryTypeOK
<1> QED
  BY <1>1, <1>2, <1>3, <1>4, <1>5, <1>6, <1>7, <1>8, <1>9 DEF DiscoveryNext

\* The alerts: what an answer on its way has read is what was firing.
AlertsTyped == AlertsTypeOK /\ \A p \in polls : p.at = "read" => p.rules \in Firing

LEMMA AlertBounds == MaxFirings \in Nat /\ MaxAlertPages \in Nat /\ MaxPollFails \in Nat
BY AlertsAssumption

LEMMA AlertsOpenTyped == ASSUME NEW configured \in BOOLEAN, AlertsOpen(configured) PROVE AlertsTyped
<1>1. firing \in Firing
  BY DEF AlertsOpen, Firing
<1>2. mounts \in 0 .. MaxAlertPages /\ firings \in 0 .. MaxFirings /\ pollFails \in 0 .. MaxPollFails
  <2>1. 0 \in 0 .. MaxAlertPages /\ 0 \in 0 .. MaxFirings /\ 0 \in 0 .. MaxPollFails
    BY AlertBounds
  <2> QED
    BY <2>1, Zenon DEF AlertsOpen
<1> QED
  BY <1>1, <1>2 DEF AlertsOpen, AlertsTyped, AlertsTypeOK

\* A page that is mounted starts a poll, or none.
LEMMA ShownIsTyped ==
    ASSUME AlertsTyped, NEW p \in {"list", "alert", "rule"}, NEW labels \in SUBSET ((UNION RuleLabels) \cup Series),
           NEW rule \in RuleLabels \cup {{}}, ShowsAlerts(p, labels, rule)
    PROVE  AlertsTyped'
<1>1. CASE p = alertPage
  BY <1>1 DEF ShowsAlerts, AlertsTyped, AlertsTypeOK
<1>2. CASE p # alertPage
  <2>1. PageMounts
    BY <1>2 DEF ShowsAlerts
  <2>2. mounts + 1 \in 1 .. MaxAlertPages /\ mounts' = mounts + 1
    BY <2>1, AlertBounds DEF PageMounts, AlertsTyped, AlertsTypeOK
  <2>3. mounts' \in 0 .. MaxAlertPages
    BY <2>2, AlertBounds
  <2>4. Poll(mounts + 1) \in [of : 1 .. MaxAlertPages, at : {"asked", "read", "timer"}, rules : Firing \cup {NoRules}]
    BY <2>2 DEF Poll
  <2>5. Poll(mounts + 1).at = "asked"
    BY DEF Poll
  <2>6. polls' \in {polls, polls \cup {Poll(mounts + 1)}} /\ rulesInStore' \in {RulesLoading, RulesErrored}
    BY <2>1 DEF PageMounts
  <2> QED
    BY <1>2, <2>3, <2>4, <2>5, <2>6 DEF ShowsAlerts, AlertsTyped, AlertsTypeOK
<1> QED
  BY <1>1, <1>2

LEMMA AlertsNextTyped == AlertsTyped /\ [AlertsNext]_alertsVars => AlertsTyped'
<1> SUFFICES ASSUME AlertsTyped, [AlertsNext]_alertsVars PROVE AlertsTyped'
  OBVIOUS
<1> DEFINE AnyPoll == [of : 1 .. MaxAlertPages, at : {"asked", "read", "timer"}, rules : Firing \cup {NoRules}]
<1>0. \A r \in RuleLabels : r \subseteq (UNION RuleLabels) \cup Series
  OBVIOUS
<1>1. CASE UNCHANGED alertsVars
  BY <1>1 DEF alertsVars, AlertsTyped, AlertsTypeOK
<1>2. CASE OpensList
  <2>1. ShowsAlerts("list", {}, {})
    BY <1>2 DEF OpensList
  <2> QED
    BY <2>1, ShownIsTyped
<1>3. CASE LeavesAlerts
  BY <1>3 DEF LeavesAlerts, AlertsTyped, AlertsTypeOK
<1>4. ASSUME NEW r \in RuleLabels, OpensRule(r) \/ FollowsRow(r) \/ FollowsRule(r) PROVE AlertsTyped'
  <2>1. ShowsAlerts("rule", r, r) \/ ShowsAlerts("alert", r, r)
    BY <1>4 DEF OpensRule, FollowsRow, FollowsRule
  <2> QED
    BY <1>0, <2>1, ShownIsTyped
<1>5. ASSUME NEW r \in RuleLabels, NEW s \in Series, FollowsAlert(r, s) PROVE AlertsTyped'
  <2>1. ShowsAlerts("alert", AlertLabels(r, s), r)
    BY <1>5 DEF FollowsAlert
  <2>2. AlertLabels(r, s) \subseteq (UNION RuleLabels) \cup Series
    BY DEF AlertLabels
  <2> QED
    BY <2>1, <2>2, ShownIsTyped
<1>6. ASSUME NEW r \in RuleLabels, NEW s \in Series, FiringChanges(r, s) PROVE AlertsTyped'
  <2>1. firing' \in Firing
    BY <1>6 DEF FiringChanges, AlertsTyped, AlertsTypeOK, Firing
  <2>2. firings' \in 0 .. MaxFirings
    BY <1>6, AlertBounds DEF FiringChanges, AlertsTyped, AlertsTypeOK
  <2> QED
    BY <1>6, <2>1, <2>2 DEF FiringChanges, AlertsTyped, AlertsTypeOK
<1>7. ASSUME NEW p \in polls, PollReads(p) PROVE AlertsTyped'
  <2> DEFINE read == [p EXCEPT !.at = "read", !.rules = firing]
  <2>1. read \in AnyPoll /\ read.rules \in Firing
    BY DEF AlertsTyped, AlertsTypeOK
  <2>2. polls' = (polls \ {p}) \cup {read}
    BY <1>7 DEF PollReads
  <2> HIDE DEF read
  <2> QED
    BY <1>7, <2>1, <2>2 DEF PollReads, AlertsTyped, AlertsTypeOK
<1>8. ASSUME NEW p \in polls, PollAnswered(p) \/ PollFails(p) PROVE AlertsTyped'
  <2> DEFINE timer == [p EXCEPT !.at = "timer", !.rules = NoRules]
  <2>1. timer \in AnyPoll /\ timer.at = "timer"
    BY DEF AlertsTyped, AlertsTypeOK
  <2>2. polls' = (polls \ {p}) \cup {timer}
    BY <1>8 DEF PollAnswered, PollFails, ToTimer
  <2>3. rulesInStore' \in {RulesErrored} \cup {RulesLoaded(f) : f \in Firing}
    BY <1>8 DEF PollAnswered, PollFails, AlertsTyped
  <2>4. pollFails' \in 0 .. MaxPollFails
    BY <1>8, AlertBounds DEF PollAnswered, PollFails, AlertsTyped, AlertsTypeOK
  <2>5. UNCHANGED <<firing, alertsSet, alertPage, labelsOf, linked, mounts, firings>>
    BY <1>8 DEF PollAnswered, PollFails
  <2> HIDE DEF timer
  <2> QED
    BY <2>1, <2>2, <2>3, <2>4, <2>5 DEF AlertsTyped, AlertsTypeOK
<1>9. ASSUME NEW p \in polls, PollsAgain(p) PROVE AlertsTyped'
  <2>1. Poll(p.of) \in AnyPoll /\ Poll(p.of).at = "asked"
    BY DEF Poll, AlertsTyped, AlertsTypeOK
  <2>2. polls' \subseteq polls \cup {Poll(p.of)}
    BY <1>9 DEF PollsAgain
  <2> QED
    BY <1>9, <2>1, <2>2 DEF PollsAgain, AlertsTyped, AlertsTypeOK
<1> QED
  BY <1>1, <1>2, <1>3, <1>4, <1>5, <1>6, <1>7, <1>8, <1>9 DEF AlertsNext

\* The environment.
LEMMA EnvironmentOpensTyped == ASSUME NEW readOnly \in BOOLEAN, EnvironmentOpens(readOnly) PROVE EnvironmentTypeOK
<1>1. SomeEnv \in Env
  BY EnvironmentAssumption DEF SomeEnv
<1>2. <<SomeEnv>> \in Seq(Env) /\ Len(<<SomeEnv>>) = 1
  BY <1>1
<1>3. saved \in 0 .. MaxSaved /\ received \in 1 .. Len(envs) /\ 0 \in 0 .. Len(envs)
  BY <1>2, EnvironmentAssumption DEF EnvironmentOpens
<1> QED
  BY <1>1, <1>2, <1>3 DEF EnvironmentOpens, EnvironmentTypeOK, EnvPage, NoPatch

LEMMA OverwrittenIsTyped ==
    ASSUME EnvironmentTypeOK, NEW e \in Env, NEW new \in {Append(envs, e), Overwritten(e)}
    PROVE  new \in Seq(Env) /\ received \in 1 .. Len(new) /\ patching.version \in 0 .. Len(new) /\ Len(new) \in 0 .. Len(new)
<1>1. /\ envs \in Seq(Env) /\ received \in 1 .. Len(envs) /\ Len(envs) \in Nat
      /\ patching.version \in 0 .. Len(envs)
  BY DEF EnvironmentTypeOK
<1>2. Append(envs, e) \in Seq(Env) /\ Len(Append(envs, e)) = Len(envs) + 1
  BY <1>1
<1>3. new \in {envs, Append(envs, e)}
  BY DEF Overwritten
<1>4. new \in Seq(Env) /\ Len(new) \in {Len(envs), Len(envs) + 1}
  BY <1>1, <1>2, <1>3
<1> HIDE DEF Overwritten
<1> QED
  BY <1>1, <1>4

LEMMA EnvironmentNextTyped == EnvironmentTypeOK /\ [EnvironmentNext]_environmentVars => EnvironmentTypeOK'
<1> SUFFICES ASSUME EnvironmentTypeOK, [EnvironmentNext]_environmentVars PROVE EnvironmentTypeOK'
  OBVIOUS
<1>0. RawEnvData \in Env /\ SomeEnv \in Env /\ patching.env \in Env
  BY EnvironmentAssumption DEF RawEnvData, SomeEnv, EnvironmentTypeOK
<1>1. CASE UNCHANGED environmentVars
  BY <1>1 DEF environmentVars, EnvironmentTypeOK
<1>2. CASE ChoicesLoad
  BY <1>2 DEF ChoicesLoad, EnvironmentTypeOK, EnvPage
<1>3. CASE ReloadEnv
  BY <1>0, <1>3 DEF ReloadEnv, EnvironmentTypeOK, EnvPage
<1>4. CASE EnvArrives
  <2>1. PICK v \in received + 1 .. Len(envs) :
           /\ received' = v
           /\ envPage' = CASE ~Tells(envs[v])  -> envPage
                           [] envPage.readOnly -> [envPage EXCEPT !.currentEnvVars = envs[v]]
                           [] OTHER            -> [envPage EXCEPT !.stale = TRUE, !.success = FALSE]
    BY <1>4 DEF EnvArrives
  <2>2. v \in 1 .. Len(envs) /\ envs[v] \in Env
    BY DEF EnvironmentTypeOK
  <2>3. envPage' \in EnvPage
    BY <2>1, <2>2 DEF EnvironmentTypeOK, EnvPage
  <2> QED
    BY <1>4, <2>1, <2>2, <2>3 DEF EnvArrives, EnvironmentTypeOK
<1>5. CASE SaveEnv
  <2>1. saved' \in 0 .. MaxSaved /\ 0 \in 0 .. Len(envs)
    BY <1>5, EnvironmentAssumption DEF SaveEnv, EnvironmentTypeOK
  <2>2. envPage.currentEnvVars \in Env
    BY DEF EnvironmentTypeOK, EnvPage
  <2> QED
    BY <1>5, <2>1, <2>2 DEF SaveEnv, EnvironmentTypeOK
<1>6. CASE ServerOverwrites
  <2>1. envs' = Overwritten(patching.env) /\ UNCHANGED <<received, envPage, givenUp, saved, overtaken>>
        /\ patching' = [patching EXCEPT !.is = "applied", !.version = Len(envs')]
    BY <1>6 DEF ServerOverwrites
  <2>2. envs' \in Seq(Env) /\ received \in 1 .. Len(envs') /\ Len(envs') \in 0 .. Len(envs')
    BY <1>0, <2>1, OverwrittenIsTyped
  <2>3. patching'.is \in {"none", "sent", "applied"} /\ patching'.env \in Env
    BY <2>1 DEF EnvironmentTypeOK
  <2>4. patching'.version \in 0 .. Len(envs')
    BY <2>1, <2>2
  <2> QED
    BY <2>1, <2>2, <2>3, <2>4 DEF EnvironmentTypeOK
<1>7. CASE EnvSaved
  <2>1. 0 \in 0 .. Len(envs)
    BY DEF EnvironmentTypeOK
  <2>2. overtaken' \in BOOLEAN
    BY <1>7 DEF EnvSaved
  <2>3. envPage' \in EnvPage
    BY <1>0, <1>7 DEF EnvSaved, EnvAnswered, EnvironmentTypeOK, EnvPage
  <2> QED
    BY <1>0, <1>7, <2>1, <2>2, <2>3 DEF EnvSaved, NoPatch, EnvironmentTypeOK
<1>8. CASE EnvSaveFails
  <2>1. 0 \in 0 .. Len(envs)
    BY DEF EnvironmentTypeOK
  <2> QED
    BY <1>0, <1>8, <2>1 DEF EnvSaveFails, NoPatch, EnvironmentTypeOK
<1>9. ASSUME NEW e \in Env, UpdateEnvVars(e) PROVE EnvironmentTypeOK'
  BY <1>9 DEF UpdateEnvVars, EnvironmentTypeOK, EnvPage
<1>10. ASSUME NEW e \in Env, LateOverwrites(e) \/ OthersSet(e) PROVE EnvironmentTypeOK'
  <2>1. envs' \in {Append(envs, e), Overwritten(e)}
    BY <1>10 DEF LateOverwrites, OthersSet
  <2> QED
    BY <1>10, <2>1, OverwrittenIsTyped DEF LateOverwrites, OthersSet, EnvironmentTypeOK
<1> QED
  BY <1>1, <1>2, <1>3, <1>4, <1>5, <1>6, <1>7, <1>8, <1>9, <1>10 DEF EnvironmentNext

\* The terminal: a session is of the container that was active, and opens at a number of its own.
LEMMA ExecInitTyped == ExecInit => ExecTypeOK
<1> SUFFICES ASSUME ExecInit PROVE ExecTypeOK
  OBVIOUS
<1>1. active \in Shell \cup NoShell
  BY ExecAssumption DEF ExecInit
<1>2. session.no \in 0 .. MaxSessions /\ session.of = active
  BY ExecAssumption DEF ExecInit
<1> QED
  BY <1>1, <1>2 DEF ExecInit, ExecTypeOK

\* What is on the screen was written by a session that opened.
ExecTyped == ExecTypeOK /\ (execLink = "open" => session.no \in 1 .. MaxSessions)

LEMMA OneMore ==
    ASSUME NEW m \in Nat, NEW k \in 0 .. m, k < m
    PROVE  k + 1 \in 1 .. m /\ k + 1 \in 0 .. m
OBVIOUS

LEMMA ExecNextTyped == ExecTyped /\ [ExecNext]_execVars => ExecTyped'
<1> SUFFICES ASSUME ExecTyped, [ExecNext]_execVars PROVE ExecTyped'
  OBVIOUS
<1> USE DEF ExecTyped, ExecTypeOK
<1>1. CASE UNCHANGED execVars
  BY <1>1 DEF execVars
<1>2. CASE ExecMount
  BY <1>2 DEF ExecMount
<1>3. CASE ExecOpens
  <2>1. session'.no \in 1 .. MaxSessions /\ session'.no \in 0 .. MaxSessions /\ session'.of = active
    <3>1. session' = [no |-> session.no + 1, of |-> active] /\ session.no < MaxSessions
      BY <1>3 DEF ExecOpens
    <3>2. session.no \in 0 .. MaxSessions
      OBVIOUS
    <3>3. session.no + 1 \in 1 .. MaxSessions /\ session.no + 1 \in 0 .. MaxSessions
      BY <3>1, <3>2, OneMore, ExecAssumption
    <3> QED
      BY <3>1, <3>3
  <2> QED
    BY <1>3, <2>1 DEF ExecOpens, Reset
<1>4. CASE Output
  BY <1>4 DEF Output
<1>5. CASE NoShellError
  BY <1>5 DEF NoShellError, ConnectionClosed
<1>6. ASSUME NEW clean \in BOOLEAN, ExecCloses(clean) PROVE ExecTyped'
  BY <1>6 DEF ExecCloses
<1>7. ASSUME NEW c \in Shell \cup NoShell, ChangeContainer(c) PROVE ExecTyped'
  BY <1>7 DEF ChangeContainer, ConnectionClosed
<1> QED
  BY <1>1, <1>2, <1>3, <1>4, <1>5, <1>6, <1>7 DEF ExecNext

\* The namespaces that are remembered.
StoreTyped ==
    /\ activeNamespace \in Choice \cup {"default"} /\ Len(backwards) <= MaxHistory
    /\ lastNamespace \in Choice \cup {"none"} /\ favoriteNamespace \in Choice \cup {"none"}

LEMMA NamespaceOf == ASSUME NEW p \in AnyPath PROVE GetNamespace(p) \in Choice \cup {"none"}
BY DEF GetNamespace, Choice

LEMMA LoadedNamespace ==
    ASSUME NEW p \in AnyPath, NEW favorite \in Choice \cup {"none"}, NEW last \in Choice \cup {"none"}
    PROVE  Loaded(p, favorite, last) \in Choice \cup {"default"}
BY NamespaceOf DEF Loaded

LEMMA StoreInitTyped == NamespaceInit => StoreTyped
<1> SUFFICES ASSUME NEW p \in Paths, NamespaceOpens(p) PROVE StoreTyped
  BY DEF NamespaceInit
<1>1. p \in AnyPath
  BY PathsAreTyped
<1>2. Len(backwards) <= MaxHistory
  BY NamespaceAssumption DEF NamespaceOpens
<1> QED
  BY <1>1, <1>2, LoadedNamespace DEF NamespaceOpens, StoreTyped

LEMMA FrontOf ==
    ASSUME NEW T, NEW s \in Seq(T), s # <<>>
    PROVE  Front(s) \in Seq(T) /\ Len(Front(s)) = Len(s) - 1 /\ Len(s) \in Nat
<1> DEFINE n == Len(s) - 1
<1>1. n \in Nat /\ 1 \in Int /\ n \in Int /\ Len(s) \in Nat /\ n + 1 = Len(s)
  OBVIOUS
<1>2. \A i \in 1 .. n : s[i] \in T
  BY <1>1
<1>3. Front(s) = SubSeq(s, 1, n)
  BY DEF Front
<1> HIDE DEF n
<1>4. SubSeq(s, 1, n) \in Seq(T) /\ Len(SubSeq(s, 1, n)) = IF 1 <= n THEN n - 1 + 1 ELSE 0
  BY <1>1, <1>2, SubSeqProperties
<1> QED
  BY <1>1, <1>3, <1>4

LEMMA PushIsBounded ==
    ASSUME PathInv, NEW ps \in Seq(AnyPath), ps # <<>>, Push(ps) PROVE Len(backwards') <= MaxHistory
<1>1. backwards \in Seq(AnyPath) /\ <<path>> \in Seq(AnyPath) /\ Len(<<path>>) = 1
  BY DEF PathInv
<1>2. Front(ps) \in Seq(AnyPath) /\ Len(Front(ps)) = Len(ps) - 1
  BY FrontOf
<1>3. Len((backwards \o <<path>>) \o Front(ps)) = Len(backwards) + 1 + (Len(ps) - 1)
  BY <1>1, <1>2
<1>4. Len(backwards) \in Nat /\ Len(ps) \in Nat
  BY <1>1
<1> QED
  <2>1. backwards' = (backwards \o <<path>>) \o Front(ps) /\ Len(backwards) + Len(ps) <= MaxHistory
    BY DEF Push
  <2>2. MaxHistory \in Nat
    BY NamespaceAssumption
  <2> QED
    BY <1>3, <1>4, <2>1, <2>2

LEMMA StoreNextTyped == PathInv /\ StoreTyped /\ [NamespaceNext]_namespaceVars => StoreTyped'
<1> SUFFICES ASSUME PathInv, StoreTyped, [NamespaceNext]_namespaceVars PROVE StoreTyped'
  OBVIOUS
<1>0. path \in AnyPath /\ path' \in AnyPath /\ backwards \in Seq(AnyPath)
  BY PathNextInv DEF PathInv
<1>1. ASSUME NEW p \in Paths, FollowLink(p) PROVE StoreTyped'
  <2>1. p \in AnyPath
    BY PathsAreTyped
  <2>2. <<p>> \in Seq(AnyPath) /\ <<p>> # <<>>
    BY <2>1
  <2>3. Len(backwards') <= MaxHistory
    BY <1>1, <2>2, PushIsBounded DEF FollowLink
  <2> QED
    BY <1>1, <2>1, <2>3, NamespaceOf DEF FollowLink, SetCurrentLocation, remembered, StoreTyped
<1>2. CASE Back
  <2>1. Len(backwards') = Len(backwards) - 1 /\ Len(backwards) \in Nat
    BY <1>0, <1>2, FrontOf DEF Back
  <2>2. Len(backwards') <= MaxHistory
    BY <2>1, NamespaceAssumption DEF StoreTyped
  <2>3. SetCurrentLocation(path') /\ UNCHANGED remembered
    BY <1>2 DEF Back
  <2>4. activeNamespace' \in Choice \cup {"default"}
    BY <1>0, <2>3, NamespaceOf DEF SetCurrentLocation, StoreTyped
  <2> QED
    BY <2>2, <2>3, <2>4 DEF remembered, StoreTyped
<1>3. CASE LoadConsole
  BY <1>0, <1>3, LoadedNamespace DEF LoadConsole, remembered, StoreTyped
<1>4. ASSUME NEW n \in Choice, PickNamespace(n) PROVE StoreTyped'
  <2>1. Len(backwards') <= MaxHistory
    <3>1. CASE n = activeNamespace
      BY <1>4, <3>1 DEF PickNamespace, StoreTyped
    <3>2. CASE n # activeNamespace
      <4> DEFINE route == FormatNamespaceRoute(n, path)
      <4>1. route \in AnyPath /\ Push(<<route>>)
        BY <1>0, <1>4, <3>2, FormattedRoute DEF PickNamespace
      <4> HIDE DEF route
      <4>2. <<route>> \in Seq(AnyPath) /\ <<route>> # <<>>
        BY <4>1
      <4> QED
        BY <4>1, <4>2, PushIsBounded
    <3> QED
      BY <3>1, <3>2
  <2> QED
    BY <1>4, <2>1 DEF PickNamespace, StoreTyped
<1>5. ASSUME NEW n \in Choice, Favorite(n) PROVE StoreTyped'
  BY <1>5 DEF Favorite, StoreTyped
<1>6. ASSUME NEW n \in Choice, BindingSaved(n) PROVE StoreTyped'
  <2> DEFINE there == [scope |-> n, resource |-> "bindings", tail |-> ""]
             route == FormatNamespaceRoute(n, path)
  <2>1. there \in AnyPath /\ route \in AnyPath
    BY <1>0, FormattedRoute DEF AnyPath
  <2>2. Push(<<there>>) \/ Push(<<route, there>>)
    BY <1>6 DEF BindingSaved
  <2> HIDE DEF there, route
  <2>3. <<there>> \in Seq(AnyPath) /\ <<route, there>> \in Seq(AnyPath) /\ <<there>> # <<>> /\ <<route, there>> # <<>>
    BY <2>1
  <2>4. Len(backwards') <= MaxHistory
    BY <2>2, <2>3, PushIsBounded
  <2> QED
    BY <1>6, <2>4 DEF BindingSaved, StoreTyped
<1>7. CASE UNCHANGED namespaceVars
  BY <1>7 DEF namespaceVars, remembered, StoreTyped
<1> QED
  BY <1>1, <1>2, <1>3, <1>4, <1>5, <1>6, <1>7 DEF NamespaceNext

LEMMA NamespaceIsTyped == PathInv /\ StoreTyped => NamespaceTypeOK
BY DEF PathInv, AnyPath, StoreTyped, NamespaceTypeOK

\* The list: what is asked for in the three places.
AskedTyped ==
    /\ address \in [text : Typed \cup {NoText}, boxes : (SUBSET Boxes) \cup {Unknown}, order : Orders]
    /\ input \in Typed \cup {NoText} /\ selected \in SUBSET (Boxes \cup Unknown)
    /\ listSorts \in [ListNs -> Orders] /\ rediscovers \in BOOLEAN /\ textSlipped \in BOOLEAN

LEMMA AskedInitTyped == ListingInit => AskedTyped
<1> SUFFICES ASSUME ListingInit PROVE AskedTyped
  OBVIOUS
<1>1. address \in [text : Typed \cup {NoText}, boxes : (SUBSET Boxes) \cup {Unknown}, order : Orders]
  BY DEF ListingInit, Orders
<1>2. listSorts \in [ListNs -> Orders]
  BY DEF ListingInit, Orders
<1> QED
  BY <1>1, <1>2 DEF ListingInit, AskedTyped

LEMMA AddressesAreTyped ==
    ASSUME NEW a, a \in Addresses \/ (AskedTyped /\ a = address)
    PROVE  /\ a \in [text : Typed \cup {NoText}, boxes : (SUBSET Boxes) \cup {Unknown}, order : Orders]
           /\ FromAddress(a) \in SUBSET (Boxes \cup Unknown)
<1>1. a \in [text : Typed \cup {NoText}, boxes : (SUBSET Boxes) \cup {Unknown}, order : Orders]
  <2>1. {{}, {"Failed"}, Unknown} \subseteq (SUBSET Boxes) \cup {Unknown}
    BY DEF Boxes
  <2>2. {"none", "desc"} \subseteq Orders
    BY DEF Orders
  <2> QED
    BY <2>1, <2>2 DEF Addresses, AskedTyped
<1>2. a.boxes \in SUBSET (Boxes \cup Unknown)
  <2>1. a.boxes \in (SUBSET Boxes) \cup {Unknown}
    BY <1>1
  <2> QED
    BY <2>1
<1> QED
  BY <1>1, <1>2 DEF FromAddress, DefaultBoxes, Boxes

LEMMA AskedNextTyped == ListInv /\ AskedTyped /\ [ListingNext]_listingVars => AskedTyped'
<1> SUFFICES ASSUME ListInv, AskedTyped, [ListingNext]_listingVars PROVE AskedTyped'
  OBVIOUS
<1>1. CASE UNCHANGED listingVars
  BY <1>1 DEF listingVars, AskedTyped
<1>2. ASSUME NEW n \in ListNs, NEW a \in Addresses, ListOpens(n, a) PROVE AskedTyped'
  <2>1. a.text \in Typed \cup {NoText}
    BY AddressesAreTyped
  <2> QED
    BY <1>2, <2>1, AddressesAreTyped DEF ListOpens, AskedTyped
<1>3. ASSUME NEW n \in ListNs, SwitchesNs(n) PROVE AskedTyped'
  BY <1>3 DEF SwitchesNs, AskedTyped
<1>4. ASSUME NEW t \in Typed \cup {NoText}, TypesText(t) PROVE AskedTyped'
  BY <1>4 DEF TypesText, AskedTyped
<1>5. ASSUME NEW b \in Boxes, Toggles(b) PROVE AskedTyped'
  <2>1. ToggledBoxes(b) \in SUBSET (Boxes \cup Unknown)
    BY DEF ToggledBoxes, AskedTyped
  <2>2. address' \in [text : Typed \cup {NoText}, boxes : (SUBSET Boxes) \cup {Unknown}, order : Orders]
    <3> DEFINE there == IF ToggledBoxes(b) \cap Boxes = {} THEN Unknown ELSE ToggledBoxes(b) \cap Boxes
    <3>1. there \in (SUBSET Boxes) \cup {Unknown}
      OBVIOUS
    <3>2. address' = [address EXCEPT !.boxes = there]
      BY <1>5 DEF Toggles
    <3> HIDE DEF there
    <3> QED
      BY <3>1, <3>2 DEF AskedTyped
  <2> QED
    BY <1>5, <2>1, <2>2 DEF Toggles, AskedTyped
<1>6. CASE Sorts
  <2>1. PICK order \in Orders : listSorts' = [listSorts EXCEPT ![listNs] = order] /\ address' = [address EXCEPT !.order = order]
    BY <1>6 DEF Sorts, Orders
  <2> QED
    <3>1. listSorts' \in [ListNs -> Orders]
      BY <2>1 DEF AskedTyped
    <3>2. address' \in [text : Typed \cup {NoText}, boxes : (SUBSET Boxes) \cup {Unknown}, order : Orders]
      BY <2>1 DEF AskedTyped
    <3> QED
      BY <1>6, <3>1, <3>2 DEF Sorts, AskedTyped
<1>7. CASE ListLoads
  BY <1>7 DEF ListLoads, AskedTyped
<1>8. CASE ListLeaves \/ RediscoveryStarts
  BY <1>8 DEF ListLeaves, RediscoveryStarts, AskedTyped
<1>9. CASE RediscoveryEnds
  <2>1. FromAddress(address) \in SUBSET (Boxes \cup Unknown)
    BY AddressesAreTyped
  <2>2. /\ UNCHANGED <<address, input, listSorts, textSlipped>> /\ rediscovers' = FALSE
        /\ selected' \in {selected, FromAddress(address)}
    BY <1>9 DEF RediscoveryEnds
  <2> QED
    BY <2>1, <2>2 DEF AskedTyped
<1> QED
  BY <1>1, <1>2, <1>3, <1>4, <1>5, <1>6, <1>7, <1>8, <1>9 DEF ListingNext

LEMMA ListingIsTyped == ListInv /\ AskedTyped => ListingTypeOK
BY DEF ListInv, ListRecord, AskedTyped, ListingTypeOK

\* The entry, the counts and the socket of an object's watch are of their types.
ObjectTyped ==
    /\ live \in BOOLEAN /\ entry \in Entry
    /\ refs \in 0 .. MaxRefs /\ faults \in 0 .. MaxFaults
    /\ link \in {"off", "connecting", "open"}

LEMMA ObjectInitTyped == ObjectInit => ObjectTyped
<1> SUFFICES ASSUME ObjectInit PROVE ObjectTyped
  OBVIOUS
<1>1. entry \in Entry
  BY DEF ObjectInit, NoEntry, Entry
<1>2. refs = 0 /\ faults = MaxFaults /\ MaxRefs \in Nat /\ MaxFaults \in Nat
  BY ObjectAssumption DEF ObjectInit
<1>3. refs \in 0 .. MaxRefs /\ faults \in 0 .. MaxFaults
  BY ONLY <1>2
<1> QED
  BY <1>1, <1>3 DEF ObjectInit, ObjectTyped

LEMMA ModifiedIsEntry ==
    ASSUME NEW e \in Entry, NEW o \in Copy
    PROVE  ModifyObject(e, o) \in Entry
  BY DEF ModifyObject, Entry, Copy

LEMMA ObjectStaysTyped ==
    ASSUME ObjectTyped, CopiesAreTrue, ObjectStep
    PROVE  ObjectTyped'
<1>1. refs \in Nat /\ faults \in Nat /\ MaxRefs \in Nat /\ MaxFaults \in Nat /\ 1 <= MaxRefs
  <2>1. MaxRefs \in Nat \ {0} /\ MaxFaults \in Nat
    BY ObjectAssumption
  <2>2. refs \in 0 .. MaxRefs /\ faults \in 0 .. MaxFaults
    BY DEF ObjectTyped
  <2> QED
    BY ONLY <2>1, <2>2
<1>2. refs' \in 0 .. MaxRefs
  <2>1. \/ refs' = refs
        \/ refs' = 1
        \/ refs \in 1 .. MaxRefs - 1 /\ refs' = refs + 1
        \/ refs > 0 /\ refs' = refs - 1
    BY DEF ObjectStep, OthersWrite, OthersDelete, WatchFirst, WatchAgain, StopWatch, ObjectPolls,
           AnswerArrives, RequestFails, Answered, LinkOpens, LinkCloses, LinkFlushes
  <2>2. refs \in 0 .. MaxRefs
    BY DEF ObjectTyped
  <2> QED
    BY ONLY <1>1, <2>1, <2>2
<1>3. faults' \in 0 .. MaxFaults
  <2>1. faults' = faults \/ (faults > 0 /\ faults' = faults - 1)
    BY DEF ObjectStep, OthersWrite, OthersDelete, WatchFirst, WatchAgain, StopWatch, ObjectPolls,
           AnswerArrives, RequestFails, Answered, LinkOpens, LinkCloses, LinkFlushes
  <2>2. faults \in 0 .. MaxFaults
    BY DEF ObjectTyped
  <2> QED
    BY ONLY <1>1, <2>1, <2>2
<1>4. live' \in BOOLEAN
  BY DEF ObjectTyped, ObjectStep, OthersWrite, OthersDelete, Write, WatchFirst, WatchAgain, StopWatch,
         ObjectPolls, AnswerArrives, RequestFails, Answered, LinkOpens, LinkCloses, LinkFlushes
<1>5. link' \in {"off", "connecting", "open"}
  BY DEF ObjectTyped, ObjectStep, OthersWrite, OthersDelete, Write, WatchFirst, WatchAgain, StopWatch,
         ObjectPolls, AnswerArrives, RequestFails, Answered, LinkOpens, LinkCloses, LinkFlushes
<1>6. NoEntry \in Entry /\ Loading \in Entry /\ entry \in Entry
  BY DEF NoEntry, Loading, Entry, ObjectTyped
<1>7. entry' \in Entry
  <2>1. CASE \E a \in answers : AnswerArrives(a) \/ RequestFails(a)
    <3>1. PICK a \in answers : AnswerArrives(a) \/ RequestFails(a)
      BY <2>1
    <3>2. a.copy \in Copy /\ a.error \in Errors \cup {"none"} /\ a \in AnyAnswer
      BY DEF CopiesAreTrue, AnyAnswer
    <3>3. PICK o : /\ o.copy \in Copy /\ o.error \in Errors \cup {"none"}
                   /\ entry' = IF o.ok THEN ModifyObject(entry, o.copy) ELSE Errored(entry, o.error)
      <4>1. CASE AnswerArrives(a)
        BY <3>2, <4>1 DEF AnswerArrives, Answered
      <4>2. CASE RequestFails(a)
        <5>1. PICK error \in {"failed", "timeout"} : Answered(a, [a EXCEPT !.ok = FALSE, !.error = error])
          BY <4>2 DEF RequestFails
        <5> DEFINE o == [a EXCEPT !.ok = FALSE, !.error = error]
        <5>2. o.copy = a.copy /\ o.error = error
          BY <3>2 DEF AnyAnswer
        <5>3. entry' = IF o.ok THEN ModifyObject(entry, o.copy) ELSE Errored(entry, o.error)
          BY <5>1 DEF Answered
        <5> HIDE DEF o
        <5>4. o.copy \in Copy /\ o.error \in Errors \cup {"none"}
          BY <3>2, <5>2 DEF Errors
        <5> QED
          BY <5>3, <5>4
      <4> QED
        BY <3>1, <4>1, <4>2
    <3>4. Errored(entry, o.error) \in Entry
      BY <1>6, <3>3 DEF Errored, Entry
    <3> QED
      BY <1>6, <3>3, <3>4, ModifiedIsEntry
  <2>2. CASE LinkFlushes
    <3>1. entry' = entry \/ \E i \in Writing : entry' = ModifyObject(Loading, events[i])
      BY <2>2 DEF LinkFlushes
    <3>2. \A i \in Writing : events[i] \in Copy
      BY DEF Writing, CopiesAreTrue
    <3> QED
      BY <1>6, <3>1, <3>2, ModifiedIsEntry
  <2>3. CASE entry' \in {entry, Loading, NoEntry}
    BY <1>6, <2>3
  <2>4. ~(\E a \in answers : AnswerArrives(a) \/ RequestFails(a)) /\ ~LinkFlushes
          => entry' \in {entry, Loading, NoEntry}
    BY DEF ObjectStep, OthersWrite, OthersDelete, WatchFirst, WatchAgain, StopWatch, ObjectPolls,
           LinkOpens, LinkCloses
  <2> QED
    BY <2>1, <2>2, <2>3, <2>4
<1> QED
  BY <1>2, <1>3, <1>4, <1>5, <1>7 DEF ObjectTyped

LEMMA EditNextTyped ==
    ASSUME EditInv, ObjectTyped, [EditNext]_editVars
    PROVE  ObjectTyped'
<1>1. CASE ObjectStep
  BY <1>1, ObjectStaysTyped DEF EditInv
<1>2. CASE UNCHANGED <<live, entry, refs, faults, link>>
  BY <1>2 DEF ObjectTyped
<1>3. CASE ServerAccepts
  <2>1. UNCHANGED <<entry, refs, link, faults>> \/ link' = link
    BY <1>3 DEF ServerAccepts, Write
  <2>2. live' \in {live, TRUE}
    BY <1>3 DEF ServerAccepts, Write
  <2>3. UNCHANGED <<entry, refs, link, faults>>
    BY <1>3 DEF ServerAccepts
  <2> QED
    BY <2>2, <2>3 DEF ObjectTyped
<1> QED
  BY <1>1, <1>2, <1>3 DEF EditNext, editVars, objectVars, watch, WatchStep, Rerender, Type, Reload,
     SaveText, ServerRefuses, Saved, SaveRefused

LEMMA EditIsTyped == EditInv /\ ObjectTyped => EditTypeOK
  BY DEF EditInv, ObjectTyped, EditTypeOK, CopiesAreTrue, AnyAnswer

\* Some numbers have a smallest one.
LEMMA SmallestOfSome ==
    ASSUME NEW S \in SUBSET Nat, S # {}
    PROVE  \E m \in S : \A k \in S : m <= k
<1>1. PICK m \in S : \A k \in S : <<k, m>> \notin OpToRel(<, Nat)
  BY NatLessThanWellFounded, WFMin
<1>2. \A k \in S : ~(k < m)
  BY <1>1 DEF OpToRel
<1> QED
  BY <1>2

\* The events there are and those on their way: no two are of the same time, and none is of
\* one that is to come.
KnownEvents ==
    messages \cup (UNION {cluster[n] : n \in Namespace})
             \cup {stream.buffer[i].object : i \in DOMAIN stream.buffer}
OneAtATime == \A d, e \in KnownEvents : d.time = e.time => d = e
NoneToCome == \A e \in KnownEvents : e.time <= clock

EventTyped == EventTypeOK /\ OneAtATime /\ NoneToCome

\* What a handler leaves of the types.
EventTypes ==
    /\ clock \in 0 .. MaxTime /\ cluster \in [Namespace -> SUBSET Event]
    /\ ns \in Namespace /\ filter \in Filter /\ stream \in Stream
    /\ messages \in SUBSET Event /\ ui \in Ui
    /\ closes \in 0 .. MaxCloses /\ choices \in 0 .. MaxChoices

\* Events of different times are few.
LEMMA TimesAreFew ==
    ASSUME NEW S \in SUBSET Event, \A d, e \in S : d.time = e.time => d = e
    PROVE  IsFiniteSet(S)
<1> DEFINE f == [e \in S |-> e.time]
<1>1. \A e \in S : e.time \in 1 .. MaxTime
  BY DEF Event
<1>2. f \in Injection(S, 1 .. MaxTime)
  BY <1>1 DEF Injection, IsInjective
<1> HIDE DEF f
<1>3. MaxTime \in Nat
  BY EventAssumption
<1>4. 1 \in Int /\ MaxTime \in Int
  BY <1>3
<1>5. IsFiniteSet(1 .. MaxTime)
  BY <1>4, FS_Interval
<1> QED
  BY <1>2, <1>5, FS_Injection

\* So many are kept.
LEMMA NewestAreFew ==
    ASSUME NEW S \in SUBSET Event, \A d, e \in S : d.time = e.time => d = e
    PROVE  Newest(S) \subseteq S /\ Cardinality(Newest(S)) <= MaxMessages
<1> DEFINE M == Newest(S)
<1>1. M \subseteq S
  BY DEF Newest
<1>2. IsFiniteSet(S) /\ IsFiniteSet(M) /\ Cardinality(M) \in Nat /\ MaxMessages \in Nat
  BY <1>1, TimesAreFew, FS_Subset, FS_CardinalityType, EventAssumption
<1>3. CASE M = {}
  <2>1. Cardinality(M) = 0
    BY <1>3, FS_EmptySet
  <2> QED
    BY <1>1, <1>2, <2>1
<1>4. CASE M # {}
  <2> DEFINE T == {e.time : e \in M}
  <2>1. \A e \in M : e.time \in Nat
    BY <1>1 DEF Event
  <2>2. T \in SUBSET Nat /\ T # {}
    BY <1>4, <2>1
  <2>3. PICK m \in T : \A k \in T : m <= k
    BY <2>2, SmallestOfSome
  <2>4. PICK e \in M : e.time = m
    BY <2>3
  <2> DEFINE later == {d \in S : d.time > e.time}
  <2>5. M \ {e} \subseteq later
    <3> SUFFICES ASSUME NEW d \in M, d # e
                 PROVE  d.time > e.time /\ d \in S
      OBVIOUS
    <3>1. d \in S /\ d.time # e.time
      BY <1>1, <2>4
    <3>2. e.time <= d.time
      BY <2>3, <2>4
    <3>3. d.time \in Nat /\ e.time \in Nat
      BY <2>1
    <3> QED
      BY ONLY <3>1, <3>2, <3>3
  <2>6. Cardinality(later) < MaxMessages
    BY DEF Newest
  <2>7. IsFiniteSet(later) /\ Cardinality(later) \in Nat
    BY <1>2, FS_Subset, FS_CardinalityType
  <2> HIDE DEF later
  <2>8. Cardinality(M \ {e}) <= Cardinality(later) /\ Cardinality(M \ {e}) \in Nat
    BY <2>5, <2>7, FS_Subset, FS_CardinalityType
  <2>9. Cardinality(M \ {e}) = Cardinality(M) - 1
    BY <1>2, FS_RemoveElement
  <2>10. Cardinality(M) <= MaxMessages
    <3> DEFINE p == Cardinality(M) q == Cardinality(M \ {e}) r == Cardinality(later)
    <3>1. p \in Nat /\ q \in Nat /\ r \in Nat /\ MaxMessages \in Nat /\ q = p - 1 /\ q <= r /\ r < MaxMessages
      BY <1>2, <2>6, <2>7, <2>8, <2>9
    <3> HIDE DEF p, q, r
    <3>2. p <= MaxMessages
      BY <3>1
    <3> QED
      BY <3>2 DEF p
  <2> QED
    BY <1>1, <2>10
<1> QED
  BY <1>3, <1>4

-----------------------------------------------------------------------------
(* What is stored of a buffer *)

IsStoring(g, n) ==
    g = [i \in 0 .. n |-> IF i = 0 THEN messages ELSE Stored(g[i - 1], stream.buffer[i])]

LEMMA StoringExists == \A m \in Nat : \E g : IsStoring(g, m)
<1> DEFINE without == {m \in Nat : ~ \E g : IsStoring(g, m)}
<1> SUFFICES ASSUME without # {} PROVE FALSE
  OBVIOUS
<1>1. PICK m \in without : \A k \in without : m <= k
  BY SmallestOfSome
<1>2. CASE m = 0
  <2> DEFINE g == [n \in 0 .. 0 |-> messages]
  <2>1. \A n \in 0 .. 0 : n = 0
    OBVIOUS
  <2>2. IsStoring(g, 0)
    BY <2>1 DEF IsStoring
  <2> QED
    BY <1>2, <2>2
<1>3. CASE m # 0
  <2>1. m - 1 \in Nat /\ m - 1 \notin without
    BY <1>1, <1>3
  <2>2. PICK g : IsStoring(g, m - 1)
    BY <2>1
  <2> DEFINE h == [n \in 0 .. m |-> IF n = m THEN Stored(g[m - 1], stream.buffer[m]) ELSE g[n]]
  <2>3. ASSUME NEW n \in 0 .. m
        PROVE  h[n] = IF n = 0 THEN messages ELSE Stored(h[n - 1], stream.buffer[n])
    <3>1. n # 0 => n - 1 \in 0 .. m /\ n - 1 # m /\ n - 1 \in 0 .. m - 1
      BY <1>1
    <3>2. n # 0 => h[n - 1] = g[n - 1]
      BY <3>1
    <3>3. CASE n = m
      <4>1. n \in 0 .. m /\ n # 0
        BY <1>3, <3>3
      <4>2. h[n] = Stored(g[n - 1], stream.buffer[n])
        BY <3>3
      <4> HIDE DEF h
      <4> QED
        BY <3>2, <4>1, <4>2
    <3>4. CASE n # m
      <4>1. n \in 0 .. m - 1
        BY <1>1, <3>4
      <4>2. h[n] = g[n]
        BY <3>4
      <4>3. g[n] = IF n = 0 THEN messages ELSE Stored(g[n - 1], stream.buffer[n])
        BY <2>2, <4>1 DEF IsStoring
      <4> HIDE DEF h
      <4> QED
        BY <3>2, <4>2, <4>3
    <3> QED
      BY <3>3, <3>4
  <2>4. IsStoring(h, m)
    <3> DEFINE k == [n \in 0 .. m |-> IF n = 0 THEN messages ELSE Stored(h[n - 1], stream.buffer[n])]
    <3>1. \A n \in 0 .. m : h[n] = k[n]
      BY <2>3
    <3>2. h = k
      BY <3>1
    <3> QED
      BY <3>2 DEF IsStoring
  <2> QED
    BY <1>1, <2>4
<1> QED
  BY <1>2, <1>3

\* What is stored were messages or came with a change.
LEMMA StoredAreKnown ==
    ASSUME stream \in Stream
    PROVE  StoredUpTo[Len(stream.buffer)] \subseteq
             messages \cup {stream.buffer[i].object : i \in DOMAIN stream.buffer}
<1> DEFINE N == Len(stream.buffer)
           all == messages \cup {stream.buffer[i].object : i \in DOMAIN stream.buffer}
           fails == {n \in 0 .. N : ~(StoredUpTo[n] \subseteq all)}
<1>1. N \in Nat /\ DOMAIN stream.buffer = 1 .. N
  <2>1. stream.buffer \in Seq(Change)
    BY DEF Stream
  <2> QED
    BY <2>1
<1>2. StoredUpTo = CHOOSE g : IsStoring(g, N)
  BY DEF StoredUpTo, IsStoring
<1>3. IsStoring(StoredUpTo, N)
  BY <1>1, <1>2, StoringExists
<1>4. \A n \in 0 .. N : StoredUpTo[n] = IF n = 0 THEN messages ELSE Stored(StoredUpTo[n - 1], stream.buffer[n])
  BY <1>3 DEF IsStoring
<1> HIDE DEF N
<1> SUFFICES ASSUME fails # {} PROVE FALSE
  BY <1>1 DEF N
<1>5. fails \in SUBSET Nat
  BY <1>1
<1>6. PICK n \in fails : \A k \in fails : n <= k
  <2> HIDE DEF fails
  <2> QED
    BY <1>5, SmallestOfSome
<1>7. n # 0
  <2>1. 0 \in 0 .. N
    BY <1>1
  <2>2. StoredUpTo[0] = messages
    BY <1>4, <2>1
  <2> QED
    BY <1>6, <2>2
<1>8. n - 1 \in 0 .. N /\ n \in 1 .. N /\ ~(n <= n - 1)
  BY <1>1, <1>6, <1>7
<1>9. StoredUpTo[n - 1] \subseteq all
  BY <1>6, <1>8
<1>10. StoredUpTo[n] = Stored(StoredUpTo[n - 1], stream.buffer[n])
  BY <1>4, <1>6, <1>7
<1>11. stream.buffer[n].object \in all
  BY <1>1, <1>8
<1>12. StoredUpTo[n] \subseteq all
  <2>1. Stored(StoredUpTo[n - 1], stream.buffer[n]) \subseteq StoredUpTo[n - 1] \cup {stream.buffer[n].object}
    BY DEF Stored
  <2> QED
    BY <1>9, <1>10, <1>11, <2>1
<1> QED
  BY <1>6, <1>12
-----------------------------------------------------------------------------
(* The steps *)

LEMMA EventInitTyped == EventInit => EventTyped
<1> SUFFICES ASSUME EventInit PROVE EventTyped
  OBVIOUS
<1>1. clock = 0 /\ closes = MaxCloses /\ choices = MaxChoices /\ messages = {}
  BY DEF EventInit
<1>2. MaxTime \in Nat /\ MaxCloses \in Nat /\ MaxChoices \in Nat /\ MaxMessages \in Nat
  BY EventAssumption
<1>3. clock \in 0 .. MaxTime /\ closes \in 0 .. MaxCloses /\ choices \in 0 .. MaxChoices
  BY ONLY <1>1, <1>2
<1>4. Cardinality(messages) <= MaxMessages
  BY <1>1, <1>2, FS_EmptySet
<1>5. ns \in Namespace /\ filter \in Filter
  BY EventAssumption DEF EventInit
<1>6. stream = NoSocket /\ stream \in Stream
  <2>1. <<>> \in Seq(Change)
    BY EmptySeq
  <2> QED
    BY <2>1 DEF EventInit, NoSocket, Stream
<1>7. ui \in Ui
  BY DEF EventInit, Ui
<1>8. cluster = [n \in Namespace |-> {}]
  BY DEF EventInit
<1>9. KnownEvents = {}
  <2>1. DOMAIN stream.buffer = {}
    BY <1>6 DEF NoSocket
  <2> QED
    BY <1>1, <1>8, <2>1 DEF KnownEvents
<1> QED
  BY <1>1, <1>3, <1>4, <1>5, <1>6, <1>7, <1>8, <1>9 DEF EventTyped, EventTypeOK, OneAtATime, NoneToCome

\* A step that leaves what was known, or adds what has just been seen.
LEMMA StaysApart ==
    ASSUME OneAtATime, NoneToCome, clock \in Nat, \A e \in KnownEvents : e.time \in Nat, NEW e,
           \/ clock' = clock /\ KnownEvents' \subseteq KnownEvents
           \/ clock' = clock + 1 /\ e.time = clock + 1 /\ KnownEvents' \subseteq KnownEvents \cup {e}
    PROVE  OneAtATime' /\ NoneToCome'
<1>1. CASE clock' = clock /\ KnownEvents' \subseteq KnownEvents
  BY <1>1 DEF OneAtATime, NoneToCome
<1>2. CASE clock' = clock + 1 /\ e.time = clock + 1 /\ KnownEvents' \subseteq KnownEvents \cup {e}
  <2>1. \A d \in KnownEvents : d.time <= clock /\ d.time # e.time
    BY <1>2 DEF NoneToCome
  <2>2. OneAtATime'
    BY <1>2, <2>1 DEF OneAtATime
  <2>3. \A d \in KnownEvents : d.time <= clock + 1
    BY <2>1
  <2>4. clock + 1 <= clock + 1
    OBVIOUS
  <2>5. NoneToCome'
    BY <1>2, <2>3, <2>4 DEF NoneToCome
  <2> QED
    BY <2>2, <2>5
<1> QED
  BY <1>1, <1>2

\* What is told is typed, and was known or told.
LEMMA ToldIsKnown ==
    ASSUME stream \in Stream, NEW n, NEW change \in Change, Told(n, change)
    PROVE  /\ stream' \in Stream
           /\ {stream'.buffer[i].object : i \in DOMAIN stream'.buffer}
                \subseteq {stream.buffer[i].object : i \in DOMAIN stream.buffer} \cup {change.object}
<1>1. CASE UNCHANGED stream
  BY <1>1
<1>2. CASE stream' = [stream EXCEPT !.buffer = Append(@, change)]
  <2> DEFINE b == stream.buffer
             c == Append(b, change)
  <2>1. b \in Seq(Change)
    BY DEF Stream
  <2> HIDE DEF b
  <2>2. /\ c \in Seq(Change) /\ DOMAIN c = DOMAIN b \cup {Len(b) + 1}
        /\ (\A i \in DOMAIN b : c[i] = b[i]) /\ c[Len(b) + 1] = change
    <3>1. c \in Seq(Change) /\ Len(c) = Len(b) + 1
          /\ (\A i \in 1 .. Len(b) : c[i] = b[i]) /\ c[Len(b) + 1] = change
      BY <2>1, AppendProperties
    <3>2. DOMAIN b = 1 .. Len(b) /\ DOMAIN c = 1 .. Len(b) + 1 /\ Len(b) \in Nat
      BY <2>1, <3>1
    <3>3. 1 .. Len(b) + 1 = (1 .. Len(b)) \cup {Len(b) + 1}
      BY <3>2
    <3> QED
      BY <3>1, <3>2, <3>3
  <2> HIDE DEF c
  <2>3. stream' \in Stream /\ stream'.buffer = c
    BY <1>2, <2>2 DEF Stream, c, b
  <2>4. \A i \in DOMAIN c : c[i].object \in {b[j].object : j \in DOMAIN b} \cup {change.object}
    BY <2>2
  <2> QED
    BY <2>3, <2>4 DEF b
<1> QED
  BY <1>1, <1>2 DEF Told

\* A flush shows and keeps events that were known, and not too many.
LEMMA FlushIsTyped ==
    ASSUME EventTyped, NEW left \in Ui, OnBulkMessage(left)
    PROVE  /\ messages' \in SUBSET Event /\ Cardinality(messages') <= MaxMessages /\ ui' \in Ui
           /\ messages' \subseteq messages \cup {stream.buffer[i].object : i \in DOMAIN stream.buffer}
<1> DEFINE found == StoredUpTo[Len(stream.buffer)]
           all == messages \cup {stream.buffer[i].object : i \in DOMAIN stream.buffer}
<1>1. stream \in Stream /\ messages \in SUBSET Event
  BY DEF EventTyped, EventTypeOK
<1>2. found \subseteq all
  BY <1>1, StoredAreKnown
<1>3. messages' = Newest(found) /\ ui' = Shown(left, found)
  BY DEF OnBulkMessage
<1> HIDE DEF found
<1>4. all \subseteq Event
  <2>1. stream.buffer \in Seq(Change)
    BY <1>1 DEF Stream
  <2>2. \A i \in DOMAIN stream.buffer : stream.buffer[i] \in Change
    BY <2>1
  <2> QED
    BY <1>1, <2>2 DEF Change
<1>5. all \subseteq KnownEvents
  BY DEF KnownEvents
<1> HIDE DEF all
<1>6. found \in SUBSET Event /\ \A d, e \in found : d.time = e.time => d = e
  BY <1>2, <1>4, <1>5 DEF EventTyped, OneAtATime
<1>7. Newest(found) \subseteq found /\ Cardinality(Newest(found)) <= MaxMessages
  BY <1>6, NewestAreFew
<1>8. Newest(found) \in SUBSET Event /\ Filtered(Newest(found), filter) \in SUBSET Event
  BY <1>6, <1>7 DEF Filtered
<1>9. Shown(left, found) \in Ui
  BY <1>8 DEF Shown, Ui
<1> QED
  BY <1>2, <1>3, <1>7, <1>8, <1>9 DEF all

LEMMA EventNextTyped == EventTyped /\ [EventNext]_eventVars => EventTyped'
<1> SUFFICES ASSUME EventTyped, [EventNext]_eventVars
             PROVE  EventTyped'
  OBVIOUS
<1>1. /\ EventTypes /\ OneAtATime /\ NoneToCome
      /\ Cardinality(messages) <= MaxMessages
  BY DEF EventTyped, EventTypeOK, EventTypes
<1>2. KnownEvents \subseteq Event
  <2>1. stream.buffer \in Seq(Change)
    BY <1>1 DEF EventTypes, Stream
  <2>2. \A i \in DOMAIN stream.buffer : stream.buffer[i] \in Change
    BY <2>1
  <2> QED
    BY <1>1, <2>2 DEF Change, KnownEvents, EventTypes
<1>3. clock \in Nat /\ closes \in Nat /\ choices \in Nat
      /\ MaxTime \in Nat /\ MaxCloses \in Nat /\ MaxChoices \in Nat
  <2>1. MaxTime \in Nat /\ MaxCloses \in Nat /\ MaxChoices \in Nat
    BY EventAssumption
  <2>2. clock \in 0 .. MaxTime /\ closes \in 0 .. MaxCloses /\ choices \in 0 .. MaxChoices
    BY <1>1 DEF EventTypes
  <2> QED
    BY ONLY <2>1, <2>2
<1>4. \A e \in KnownEvents : e.time \in Nat
  BY <1>2 DEF Event
<1>5. ASSUME EventTypes', Cardinality(messages') <= MaxMessages,
             clock' = clock, KnownEvents' \subseteq KnownEvents
      PROVE  EventTyped'
  <2>1. OneAtATime' /\ NoneToCome'
    BY <1>1, <1>3, <1>4, <1>5, StaysApart
  <2> QED
    BY <1>5, <2>1 DEF EventTyped, EventTypeOK, EventTypes
<1>6. NewSocket \in Stream /\ DOMAIN NewSocket.buffer = {}
  <2>1. <<>> \in Seq(Change) /\ DOMAIN <<>> = {}
    BY EmptySeq
  <2> QED
    BY <2>1 DEF NewSocket, Stream
<1>7. CASE UNCHANGED eventVars
  <2>1. EventTypes' /\ KnownEvents' = KnownEvents /\ messages' = messages /\ clock' = clock
    BY <1>1, <1>7 DEF eventVars, EventTypes, KnownEvents
  <2> QED
    BY <1>1, <1>5, <2>1
<1>8. ASSUME NEW n \in Namespace, NEW u \in Uid, EventSeen(n, u)
      PROVE  EventTyped'
  <2> DEFINE e == [ns |-> n, uid |-> u, time |-> clock + 1]
             change == [type |-> "set", object |-> e]
  <2>1. /\ clock < MaxTime /\ clock' = clock + 1
        /\ cluster' = [cluster EXCEPT ![n] = {d \in @ : d.uid # u} \cup {e}]
        /\ Told(n, change)
        /\ UNCHANGED <<ns, filter, messages, ui, closes, choices>>
    BY <1>8 DEF EventSeen
  <2>2. clock + 1 \in 1 .. MaxTime /\ clock + 1 \in 0 .. MaxTime
    <3>1. clock < MaxTime
      BY <2>1
    <3> QED
      BY ONLY <1>3, <3>1
  <2>3. e \in Event /\ e.time = clock + 1
    BY <2>2 DEF Event
  <2> HIDE DEF e
  <2>4. change \in Change /\ change.object = e
    BY <2>3 DEF Change
  <2> HIDE DEF change
  <2>5. /\ stream' \in Stream
        /\ {stream'.buffer[i].object : i \in DOMAIN stream'.buffer}
             \subseteq {stream.buffer[i].object : i \in DOMAIN stream.buffer} \cup {e}
    BY <1>1, <2>1, <2>4, ToldIsKnown DEF EventTypes
  <2>6. cluster' \in [Namespace -> SUBSET Event]
    BY <1>1, <2>1, <2>3 DEF EventTypes
  <2>7. \A m \in Namespace : cluster'[m] \subseteq cluster[m] \cup {e}
    BY <1>1, <2>1 DEF EventTypes
  <2>8. KnownEvents' \subseteq KnownEvents \cup {e}
    BY <2>1, <2>5, <2>7 DEF KnownEvents
  <2>9. OneAtATime' /\ NoneToCome'
    BY <1>1, <1>3, <1>4, <2>1, <2>3, <2>8, StaysApart
  <2>10. EventTypes' /\ messages' = messages
    <3>1. clock' \in 0 .. MaxTime
      BY <2>1, <2>2
    <3> QED
      BY <1>1, <2>1, <2>5, <2>6, <3>1 DEF EventTypes
  <2> QED
    BY <1>1, <2>9, <2>10 DEF EventTyped, EventTypeOK, EventTypes
<1>9. ASSUME NEW n \in Namespace, EventExpires(n)
      PROVE  EventTyped'
  <2>1. PICK e \in cluster[n] :
          /\ cluster' = [cluster EXCEPT ![n] = @ \ {e}]
          /\ Told(n, [type |-> "delete", object |-> e])
    BY <1>9 DEF EventExpires
  <2>2. UNCHANGED <<clock, ns, filter, messages, ui, closes, choices>>
    BY <1>9 DEF EventExpires
  <2> DEFINE change == [type |-> "delete", object |-> e]
  <2>3. e \in Event /\ e \in KnownEvents
    BY <1>1 DEF EventTypes, KnownEvents
  <2>4. change \in Change /\ change.object = e /\ Told(n, change)
    BY <2>1, <2>3 DEF Change
  <2> HIDE DEF change
  <2>5. /\ stream' \in Stream
        /\ {stream'.buffer[i].object : i \in DOMAIN stream'.buffer}
             \subseteq {stream.buffer[i].object : i \in DOMAIN stream.buffer} \cup {e}
    BY <1>1, <2>4, ToldIsKnown DEF EventTypes
  <2>6. cluster' \in [Namespace -> SUBSET Event] /\ \A m \in Namespace : cluster'[m] \subseteq cluster[m]
    BY <1>1, <2>1 DEF EventTypes
  <2>7. KnownEvents' \subseteq KnownEvents
    BY <2>2, <2>3, <2>5, <2>6 DEF KnownEvents
  <2>8. EventTypes' /\ messages' = messages /\ clock' = clock
    BY <1>1, <2>2, <2>5, <2>6 DEF EventTypes
  <2> QED
    BY <1>1, <1>5, <2>7, <2>8
<1>10. ASSUME NEW n \in Namespace, ChangeNamespace(n)
       PROVE  EventTyped'
  <2>1. /\ choices > 0 /\ choices' = choices - 1 /\ ns' = n /\ stream' = NewSocket
        /\ UNCHANGED <<clock, cluster, filter, messages, ui, closes>>
    BY <1>10 DEF ChangeNamespace
  <2>2. choices' \in 0 .. MaxChoices
    <3>1. choices \in 0 .. MaxChoices /\ choices > 0 /\ choices' = choices - 1
      BY <1>1, <2>1 DEF EventTypes
    <3> QED
      BY ONLY <1>3, <3>1
  <2>3. EventTypes' /\ messages' = messages /\ clock' = clock
    BY <1>1, <1>6, <2>1, <2>2 DEF EventTypes
  <2>4. KnownEvents' \subseteq KnownEvents
    BY <1>6, <2>1 DEF KnownEvents
  <2> QED
    BY <1>1, <1>5, <2>3, <2>4
<1>11. CASE StreamOpens
  <2> DEFINE told == {[type |-> "set", object |-> e] : e \in cluster[ns]}
             there == SetToSeq(told)
  <2>1. /\ stream' = [stream EXCEPT !.link = "open", !.buffer = there]
        /\ messages' = {} /\ ui' = [Empty EXCEPT !.error = FALSE, !.loading = FALSE]
        /\ UNCHANGED <<clock, cluster, ns, filter, closes, choices>>
    BY <1>11 DEF StreamOpens, OnOpen
  <2>2. cluster[ns] \in SUBSET Event /\ cluster[ns] \subseteq KnownEvents
    BY <1>1 DEF EventTypes, KnownEvents
  <2>3. IsFiniteSet(told)
    <3>1. told \subseteq Change
      BY <2>2 DEF Change
    <3> DEFINE f == [c \in told |-> c.object]
    <3>2. f \in Injection(told, cluster[ns])
      BY DEF Injection, IsInjective
    <3>3. IsFiniteSet(cluster[ns])
      BY <1>1, <2>2, TimesAreFew DEF OneAtATime
    <3> HIDE DEF f
    <3> QED
      BY <3>2, <3>3, FS_Injection
  <2>4. there \in Seq(told) /\ DOMAIN there = 1 .. Cardinality(told) /\ \A i \in DOMAIN there : there[i] \in told
    <3>1. there \in [1 .. Cardinality(told) -> told] /\ Cardinality(told) \in Nat
      BY <2>3, ListsTheSet
    <3> HIDE DEF there, told
    <3> QED
      BY <3>1
  <2>5. there \in Seq(Change)
    <3>1. told \subseteq Change
      BY <2>2 DEF Change
    <3> HIDE DEF there, told
    <3> QED
      BY <2>4, <3>1
  <2>6. \A i \in DOMAIN there : there[i].object \in cluster[ns]
    <3>1. \A c \in told : c.object \in cluster[ns]
      OBVIOUS
    <3> HIDE DEF there, told
    <3> QED
      BY <2>4, <3>1
  <2> HIDE DEF there, told
  <2>7. stream' \in Stream /\ stream'.buffer = there
    BY <1>1, <2>1, <2>5 DEF EventTypes, Stream
  <2>8. ui' \in Ui
    BY <1>1, <2>1 DEF EventTypes, Empty, Ui
  <2>9. EventTypes' /\ clock' = clock
    BY <1>1, <2>1, <2>7, <2>8 DEF EventTypes
  <2>10. KnownEvents' \subseteq KnownEvents
    <3>1. {stream'.buffer[i].object : i \in DOMAIN stream'.buffer} \subseteq KnownEvents
      BY <2>2, <2>6, <2>7
    <3> QED
      BY <2>1, <3>1 DEF KnownEvents
  <2>11. Cardinality(messages') <= MaxMessages
    BY <2>1, FS_EmptySet, EventAssumption
  <2> QED
    BY <1>5, <2>9, <2>10, <2>11
<1>12. CASE StreamCloses
  <2>1. /\ closes > 0 /\ closes' = closes - 1
        /\ stream' = [stream EXCEPT !.link = "connecting", !.buffer = <<>>]
        /\ messages' = {}
        /\ UNCHANGED <<clock, cluster, ns, filter, choices>>
    BY <1>12 DEF StreamCloses
  <2>2. closes' \in 0 .. MaxCloses
    <3>1. closes \in 0 .. MaxCloses /\ closes > 0 /\ closes' = closes - 1
      BY <1>1, <2>1 DEF EventTypes
    <3> QED
      BY ONLY <1>3, <3>1
  <2>3. stream' \in Stream /\ DOMAIN stream'.buffer = {}
    <3>1. <<>> \in Seq(Change) /\ DOMAIN <<>> = {}
      BY EmptySeq
    <3> QED
      BY <1>1, <2>1, <3>1 DEF EventTypes, Stream
  <2>4. ui' \in Ui
    <3>1. PICK clean \in BOOLEAN : ui' = [Empty EXCEPT !.error = @ \/ ~clean]
      BY <1>12 DEF StreamCloses
    <3>2. Empty \in Ui
      BY <1>1 DEF EventTypes, Empty, Ui
    <3> DEFINE error == Empty.error \/ ~clean
    <3>3. ui' = [Empty EXCEPT !.error = error]
      BY <3>1
    <3>4. error \in BOOLEAN
      OBVIOUS
    <3> HIDE DEF error
    <3> QED
      BY <3>2, <3>3, <3>4 DEF Ui
  <2>5. EventTypes' /\ clock' = clock
    BY <1>1, <2>1, <2>2, <2>3, <2>4 DEF EventTypes
  <2>6. KnownEvents' \subseteq KnownEvents
    BY <2>1, <2>3 DEF KnownEvents
  <2>7. Cardinality(messages') <= MaxMessages
    BY <2>1, FS_EmptySet, EventAssumption
  <2> QED
    BY <1>5, <2>5, <2>6, <2>7
<1>13. ASSUME NEW left \in Ui, OnBulkMessage(left),
              stream' \in Stream, stream'.buffer = <<>>,
              UNCHANGED <<clock, cluster, ns, filter, closes, choices>>
       PROVE  EventTyped'
  <2>1. /\ messages' \in SUBSET Event /\ Cardinality(messages') <= MaxMessages /\ ui' \in Ui
        /\ messages' \subseteq messages \cup {stream.buffer[i].object : i \in DOMAIN stream.buffer}
    BY <1>13, FlushIsTyped
  <2>2. EventTypes'
    BY <1>1, <1>13, <2>1 DEF EventTypes
  <2>3. DOMAIN stream'.buffer = {}
    <3>1. DOMAIN <<>> = {}
      OBVIOUS
    <3> QED
      BY <1>13, <3>1
  <2>4. KnownEvents' \subseteq KnownEvents
    BY <1>13, <2>1, <2>3 DEF KnownEvents
  <2> QED
    BY <1>5, <1>13, <2>1, <2>2, <2>4
<1>14. stream \in Stream /\ ui \in Ui /\ <<>> \in Seq(Change) /\ DOMAIN <<>> = {}
  BY <1>1, EmptySeq DEF EventTypes
<1>15. CASE StreamFlushes
  <2>1. OnBulkMessage(ui) /\ stream' = [stream EXCEPT !.buffer = <<>>]
        /\ UNCHANGED <<clock, cluster, ns, filter, closes, choices>>
    BY <1>15 DEF StreamFlushes
  <2>2. stream' \in Stream /\ stream'.buffer = <<>>
    BY <1>14, <2>1 DEF Stream
  <2> QED
    BY <1>13, <1>14, <2>1, <2>2
<1>16. CASE MountStream
  <2>1. stream' = NewSocket /\ UNCHANGED <<clock, cluster, ns, filter, messages, ui, closes, choices>>
    BY <1>16 DEF MountStream
  <2>2. EventTypes' /\ messages' = messages /\ clock' = clock
    BY <1>1, <1>6, <2>1 DEF EventTypes
  <2>3. KnownEvents' \subseteq KnownEvents
    BY <1>6, <2>1 DEF KnownEvents
  <2> QED
    BY <1>1, <1>5, <2>2, <2>3
<1>17. CASE Toggle
  <2>1. UNCHANGED <<clock, cluster, ns, filter, closes, choices>>
    BY <1>17 DEF Toggle
  <2>2. CASE ui.active
    <3>1. stream' = [stream EXCEPT !.paused = TRUE] /\ ui' = [ui EXCEPT !.active = FALSE] /\ UNCHANGED messages
      BY <1>17, <2>2 DEF Toggle
    <3>2. stream' \in Stream /\ stream'.buffer = stream.buffer /\ ui' \in Ui
      BY <1>14, <3>1 DEF Stream, Ui
    <3>3. EventTypes' /\ KnownEvents' \subseteq KnownEvents
      BY <1>1, <2>1, <3>1, <3>2 DEF EventTypes, KnownEvents
    <3> QED
      BY <1>1, <1>5, <2>1, <3>1, <3>3
  <2>3. CASE ~ui.active
    <3> DEFINE left == [ui EXCEPT !.active = TRUE]
    <3>1. left \in Ui
      BY <1>14 DEF Ui
    <3>2. stream' = [stream EXCEPT !.paused = FALSE, !.buffer = <<>>]
      BY <1>17, <2>3 DEF Toggle
    <3>3. stream' \in Stream /\ stream'.buffer = <<>>
      BY <1>14, <3>2 DEF Stream
    <3>4. (ui' = left /\ UNCHANGED messages) \/ OnBulkMessage(left)
      BY <1>17, <2>3 DEF Toggle
    <3> HIDE DEF left
    <3>5. CASE ui' = left /\ UNCHANGED messages
      <4>1. EventTypes'
        BY <1>1, <2>1, <3>1, <3>3, <3>5 DEF EventTypes
      <4>2. KnownEvents' \subseteq KnownEvents
        BY <1>14, <2>1, <3>3, <3>5 DEF KnownEvents
      <4> QED
        BY <1>1, <1>5, <2>1, <3>5, <4>1, <4>2
    <3>6. CASE OnBulkMessage(left)
      BY <1>13, <2>1, <3>1, <3>3, <3>6
    <3> QED
      BY <3>4, <3>5, <3>6
  <2> QED
    BY <2>2, <2>3
<1>18. ASSUME NEW f \in Filter, ChangeFilter(f)
       PROVE  EventTyped'
  <2>1. /\ choices > 0 /\ choices' = choices - 1 /\ filter' = f /\ ui' = Derived(f)
        /\ UNCHANGED <<clock, cluster, ns, stream, messages, closes>>
    BY <1>18 DEF ChangeFilter
  <2>2. choices' \in 0 .. MaxChoices
    <3>1. choices \in 0 .. MaxChoices /\ choices > 0 /\ choices' = choices - 1
      BY <1>1, <2>1 DEF EventTypes
    <3> QED
      BY ONLY <1>3, <3>1
  <2>3. ui' \in Ui
    <3>1. Filtered(ui.sorted, f) \in SUBSET Event
      BY <1>14 DEF Filtered, Ui
    <3> QED
      BY <1>14, <2>1, <3>1 DEF Derived, Ui
  <2>4. EventTypes' /\ KnownEvents' \subseteq KnownEvents
    BY <1>1, <2>1, <2>2, <2>3 DEF EventTypes, KnownEvents
  <2> QED
    BY <1>1, <1>5, <2>1, <2>4
<1> QED
  BY <1>7, <1>8, <1>9, <1>10, <1>11, <1>12, <1>15, <1>16, <1>17, <1>18 DEF EventNext
=============================================================================
