---------------------------- MODULE EventStream ----------------------------
(***************************************************************************)
(* The event stream of src/frontend/public/components/events.jsx: the      *)
(* messages of a socket that can be paused, a filter and a namespace.  The *)
(* socket is a WSFactory that reconnects; its own module is WSFactory.     *)
(* An event is its uid and the time it was last seen (count and            *)
(* lastTimestamp grow together); a filter is the set of uids it lets pass. *)
(***************************************************************************)
EXTENDS Integers, Sequences, FiniteSets, SequencesExt

CONSTANTS
    Namespace,   \* namespaces of the selector
    Uid,         \* events of a namespace
    Filter,      \* filters: sets of uids
    MaxMessages, \* maxMessages, 500
    MaxTime,     \* bound: changes of events
    MaxCloses,   \* bound: closed sockets
    MaxChoices   \* bound: changes of namespace and filter

ASSUME EventAssumption ==
    /\ Namespace # {} /\ Uid \in Filter /\ \A f \in Filter : f \subseteq Uid
    /\ MaxMessages \in Nat \ {0} /\ MaxTime \in Nat /\ MaxCloses \in Nat /\ MaxChoices \in Nat

VARIABLES
    clock,     \* the last change of an event
    cluster,   \* the events of each namespace
    ns, filter,\* the props
    stream,    \* the socket this.ws
    messages,  \* this.messages
    ui,        \* state: active, loading, error, sortedMessages and filteredEvents
    closes, choices  \* what is left of the bounds

eventVars == <<clock, cluster, ns, filter, stream, messages, ui, closes, choices>>

Event == [ns : Namespace, uid : Uid, time : 1 .. MaxTime]
Change == [type : {"set", "delete"}, object : Event]

NoSocket == [link |-> "none", paused |-> FALSE, buffer |-> <<>>]
NewSocket == [link |-> "connecting", paused |-> FALSE, buffer |-> <<>>]
Stream == [link : {"none", "connecting", "open"}, paused : BOOLEAN, buffer : Seq(Change)]

Filtered(events, f) == {e \in events : e.uid \in f}
Ui == [active : BOOLEAN, loading : BOOLEAN, error : BOOLEAN,
       sorted : SUBSET Event, filtered : SUBSET Event]

EventInit ==
    /\ clock = 0 /\ cluster = [n \in Namespace |-> {}]
    /\ ns = (CHOOSE n \in Namespace : TRUE) /\ filter = Uid
    /\ stream = NoSocket /\ messages = {}
    /\ ui = [active |-> TRUE, loading |-> TRUE, error |-> FALSE, sorted |-> {}, filtered |-> {}]
    /\ closes = MaxCloses /\ choices = MaxChoices

-----------------------------------------------------------------------------
(* The cluster and the socket *)

Told(n, change) ==
    IF n = ns /\ stream.link = "open"
    THEN stream' = [stream EXCEPT !.buffer = Append(@, change)]
    ELSE UNCHANGED stream

EventSeen(n, u) ==
    LET e == [ns |-> n, uid |-> u, time |-> clock + 1]
    IN  /\ clock < MaxTime /\ clock' = clock + 1
        /\ cluster' = [cluster EXCEPT ![n] = {d \in @ : d.uid # u} \cup {e}]
        /\ Told(n, [type |-> "set", object |-> e])
        /\ UNCHANGED <<ns, filter, messages, ui, closes, choices>>

EventExpires(n) ==
    /\ \E e \in cluster[n] :
         /\ cluster' = [cluster EXCEPT ![n] = @ \ {e}]
         /\ Told(n, [type |-> "delete", object |-> e])
    /\ UNCHANGED <<clock, ns, filter, messages, ui, closes, choices>>

Empty == [ui EXCEPT !.sorted = {}, !.filtered = {}]

\* Fault: the messages of the connection before stay.
OnOpen_KeepsMessages ==
    /\ messages' = messages
    /\ ui' = [ui EXCEPT !.error = FALSE, !.loading = FALSE]

OnOpen ==
    /\ messages' = {}
    /\ ui' = [Empty EXCEPT !.error = FALSE, !.loading = FALSE]

\* A watch without a version begins with the events there are.
StreamOpens ==
    /\ stream.link = "connecting"
    /\ LET there == SetToSeq({[type |-> "set", object |-> e] : e \in cluster[ns]})
       IN  stream' = [stream EXCEPT !.link = "open", !.buffer = there]
    /\ OnOpen
    /\ UNCHANGED <<clock, cluster, ns, filter, closes, choices>>

\* onclose and onerror; WSFactory empties its buffer and connects again.
StreamCloses ==
    /\ stream.link # "none" /\ closes > 0
    /\ closes' = closes - 1
    /\ stream' = [stream EXCEPT !.link = "connecting", !.buffer = <<>>]
    /\ messages' = {}
    /\ \E clean \in BOOLEAN : ui' = [Empty EXCEPT !.error = @ \/ ~clean]
    /\ UNCHANGED <<clock, cluster, ns, filter, choices>>

-----------------------------------------------------------------------------
(* onbulkmessage *)

Stored(found, change) ==
    LET same == {m \in found : m.ns = change.object.ns /\ m.uid = change.object.uid}
    IN  IF change.type = "delete" THEN found \ same
        ELSE IF \E m \in same : m.time > change.object.time THEN found
        ELSE (found \ same) \cup {change.object}

Newest(events) == {e \in events : Cardinality({d \in events : d.time > e.time}) < MaxMessages}

\* flushMessages: with no message left _.last(sorted) is undefined and the
\* handler throws before setState; WSFactory reports that and goes on.
Shown(view, found) ==
    IF found = {} THEN view
    ELSE [view EXCEPT !.sorted = Newest(found), !.filtered = Filtered(Newest(found), filter)]

\* The messages once the first n changes are stored.
StoredUpTo[n \in 0 .. Len(stream.buffer)] ==
    IF n = 0 THEN messages ELSE Stored(StoredUpTo[n - 1], stream.buffer[n])

OnBulkMessage(view) ==
    LET found == StoredUpTo[Len(stream.buffer)]
    IN  /\ messages' = Newest(found)
        /\ ui' = Shown(view, found)

StreamFlushes ==
    /\ ~stream.paused /\ stream.buffer # <<>>
    /\ OnBulkMessage(ui)
    /\ stream' = [stream EXCEPT !.buffer = <<>>]
    /\ UNCHANGED <<clock, cluster, ns, filter, closes, choices>>

-----------------------------------------------------------------------------
(* The user *)

MountStream ==
    /\ stream.link = "none"
    /\ stream' = NewSocket
    /\ UNCHANGED <<clock, cluster, ns, filter, messages, ui, closes, choices>>

\* toggleStream_: unpause flushes at once.
Toggle ==
    /\ stream.link # "none"
    /\ IF ui.active
       THEN /\ stream' = [stream EXCEPT !.paused = TRUE]
            /\ ui' = [ui EXCEPT !.active = FALSE]
            /\ UNCHANGED messages
       ELSE /\ stream' = [stream EXCEPT !.paused = FALSE, !.buffer = <<>>]
            /\ IF stream.buffer = <<>>
               THEN ui' = [ui EXCEPT !.active = TRUE] /\ UNCHANGED messages
               ELSE OnBulkMessage([ui EXCEPT !.active = TRUE])
    /\ UNCHANGED <<clock, cluster, ns, filter, closes, choices>>

\* getDerivedStateFromProps with another filter: it sets active, too.
Derived(f) == [ui EXCEPT !.active = TRUE, !.filtered = Filtered(ui.sorted, f)]

ChangeFilter(f) ==
    /\ stream.link # "none" /\ choices > 0 /\ f # filter
    /\ choices' = choices - 1
    /\ filter' = f
    /\ ui' = Derived(f)
    /\ UNCHANGED <<clock, cluster, ns, stream, messages, closes>>

\* componentDidUpdate: another socket, not paused; what is shown stays.
ChangeNamespace(n) ==
    /\ stream.link # "none" /\ choices > 0 /\ n # ns
    /\ choices' = choices - 1
    /\ ns' = n
    /\ stream' = NewSocket
    /\ UNCHANGED <<clock, cluster, filter, messages, ui, closes>>

EventNext ==
    \/ (\E n \in Namespace : (\E u \in Uid : EventSeen(n, u)) \/ EventExpires(n) \/ ChangeNamespace(n))
    \/ StreamOpens \/ StreamCloses \/ StreamFlushes
    \/ MountStream \/ Toggle \/ (\E f \in Filter : ChangeFilter(f))

\* A socket that is not open opens, the interval of WSFactory flushes.
EventFairness == WF_eventVars(StreamOpens) /\ WF_eventVars(StreamFlushes)

EventSpec == EventInit /\ [][EventNext]_eventVars /\ EventFairness

-----------------------------------------------------------------------------
EventTypeOK ==
    /\ clock \in 0 .. MaxTime /\ cluster \in [Namespace -> SUBSET Event]
    /\ ns \in Namespace /\ filter \in Filter /\ stream \in Stream
    /\ messages \subseteq Event /\ Cardinality(messages) <= MaxMessages /\ ui \in Ui
    /\ closes \in 0 .. MaxCloses /\ choices \in 0 .. MaxChoices

\* The events on the screen are always those the filter lets pass, after a
\* flush, a change of the filter, a pause or a lost connection
\* (events.jsx:283-304, 323-337).
FilterApplied == ui.filtered = Filtered(ui.sorted, filter)

\* Unless its last message was deleted, a stream that is not paused shows in the
\* end only events its namespace has, the newest among them, through
\* changes of namespace and lost connections (events.jsx:198-238).
ShowsTheEvents ==
    <>[](stream.link # "none" /\ ~stream.paused /\ messages # {}) =>
        <>[](/\ ui.sorted \subseteq cluster[ns]
             /\ \E e \in ui.sorted : \A d \in cluster[ns] : d.time <= e.time)

\* The stream says that it is streaming when it is, and that it is paused
\* when it is (events.jsx:339-347, 401-405).
SaysWhatItDoes ==
    stream.link # "none" /\ ~ui.error /\ ~ui.loading => (ui.active <=> ~stream.paused)
=============================================================================
