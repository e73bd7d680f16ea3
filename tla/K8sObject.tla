----------------------------- MODULE K8sObject -----------------------------
(***************************************************************************)
(* The watch of one object (watchK8sObject and stopK8sWatch in             *)
(* src/frontend/public/module/k8s/k8s-actions.ts, the object part of       *)
(* k8s-reducers.ts): a request every 30 s and a socket write to one entry  *)
(* of the store.  A copy of the object is its version and its contents.    *)
(***************************************************************************)
EXTENDS Integers, Sequences, SequencesExt

CONSTANTS
    Val,         \* contents of the object
    MaxVersion,  \* bound: versions that others write
    MaxRefs,     \* bound: components that watch it
    MaxAnswers,  \* bound: answers on their way, at any time
    MaxFaults    \* bound: failed requests and closed sockets

ASSUME ObjectAssumption ==
    /\ Val # {} /\ "none" \notin Val
    /\ MaxVersion \in Nat \ {0} /\ MaxRefs \in Nat \ {0} /\ MaxAnswers \in Nat /\ MaxFaults \in Nat

VARIABLES
    server,   \* the API server's copy
    live,     \* the object exists
    entry,    \* the store's entry of the watch
    refs,     \* REF_COUNTS[id]; POLLs[id] is set exactly while it is not 0
    answers,  \* what requests have read and not delivered yet
    link,     \* the socket WS[id]
    events,   \* objects of the events it has received and not flushed
    faults    \* what is left of MaxFaults

watch == <<entry, refs, answers, link, events>>
objectVars == <<server, live, watch, faults>>

\* One version more than those: the editor saves over the last.
Version == 1 .. MaxVersion + 1
Copy == [ver : Version, val : Val]
Errors == {"gone", "failed", "timeout"}
NoEntry == [here |-> FALSE, loaded |-> FALSE, ver |-> 0, val |-> "none", error |-> "none"]
Loading == [NoEntry EXCEPT !.here = TRUE]
Entry == [here : BOOLEAN, loaded : BOOLEAN, ver : Version \cup {0},
          val : Val \cup {"none"}, error : Errors \cup {"none"}]

\* The reducer's modifyObject: nothing is written, not even the version or the
\* error, when the contents are the same.
ModifyObject(e, o) ==
    IF e.loaded /\ e.val = o.val
    THEN e
    ELSE [here |-> TRUE, loaded |-> TRUE, ver |-> o.ver, val |-> o.val, error |-> "none"]

\* The reducer's errored: an entry that is gone stays so.
Errored(e, error) == IF e.here THEN [e EXCEPT !.error = error] ELSE e

ObjectInit ==
    /\ server = [ver |-> 1, val |-> CHOOSE v \in Val : TRUE] /\ live = TRUE
    /\ entry = NoEntry /\ refs = 0 /\ answers = {}
    /\ link = "off" /\ events = <<>> /\ faults = MaxFaults

-----------------------------------------------------------------------------
(* The API server *)

\* A write reaches the socket as one more event; a deletion too, with the
\* object as it was.
Write(val, exists) ==
    /\ server' = [ver |-> server.ver + 1, val |-> val]
    /\ live' = exists
    /\ events' = IF link = "open" THEN Append(events, server') ELSE events

OthersWrite ==
    /\ server.ver < MaxVersion
    /\ \E val \in Val \ {server.val} : Write(val, TRUE)
    /\ UNCHANGED <<entry, refs, answers, link, faults>>

OthersDelete ==
    /\ server.ver < MaxVersion /\ live
    /\ Write(server.val, FALSE)
    /\ UNCHANGED <<entry, refs, answers, link, faults>>

\* What a request that is sent now will bring.
Read ==
    IF live THEN [ok |-> TRUE, copy |-> server, error |-> "none"]
            ELSE [ok |-> FALSE, copy |-> server, error |-> "gone"]

-----------------------------------------------------------------------------
(* watchK8sObject and stopK8sWatch *)

\* The first component sets the entry, polls at once and opens the socket.
WatchFirst ==
    /\ refs = 0
    /\ entry' = Loading /\ refs' = 1
    /\ answers' = answers \cup {Read}
    /\ link' = "connecting"
    /\ UNCHANGED <<server, live, events, faults>>

WatchAgain ==
    /\ refs \in 1 .. MaxRefs - 1
    /\ refs' = refs + 1
    /\ UNCHANGED <<server, live, entry, answers, link, events, faults>>

\* Requests are not cancelled: their answers are written to the store later.
StopWatch ==
    /\ refs > 0
    /\ refs' = refs - 1
    /\ IF refs = 1
       THEN entry' = NoEntry /\ link' = "off" /\ events' = <<>>
       ELSE UNCHANGED <<entry, link, events>>
    /\ UNCHANGED <<server, live, answers, faults>>

\* Fault: poller() is called once and never again.
ObjectPolls_Never ==
    /\ refs > 0 /\ ~entry.here
    /\ answers' = answers \cup {Read}
    /\ UNCHANGED <<server, live, entry, refs, link, events, faults>>

\* The interval of 30 s; a request takes less, 20 s at most (co-fetch.js).
ObjectPolls ==
    /\ refs > 0
    /\ Cardinality(answers) < MaxAnswers
    /\ answers' = answers \cup {Read}
    /\ UNCHANGED <<server, live, entry, refs, link, events, faults>>

\* An answer arrives, or the request failed or took too long.
Answered(a, o) ==
    /\ answers' = answers \ {a}
    /\ entry' = IF o.ok THEN ModifyObject(entry, o.copy) ELSE Errored(entry, o.error)
    /\ UNCHANGED <<server, live, refs, link, events>>

AnswerArrives(a) ==
    /\ a \in answers
    /\ Answered(a, a)
    /\ UNCHANGED faults

RequestFails(a) ==
    /\ a \in answers /\ faults > 0
    /\ faults' = faults - 1
    /\ \E error \in {"failed", "timeout"} : Answered(a, [a EXCEPT !.ok = FALSE, !.error = error])

\* The watch names no resourceVersion: it starts with the object as it is.
LinkOpens ==
    /\ link = "connecting"
    /\ link' = "open"
    /\ events' = IF live THEN <<server>> ELSE <<>>
    /\ UNCHANGED <<server, live, entry, refs, answers, faults>>

\* WSFactory connects again and drops what it has not flushed.
LinkCloses ==
    /\ link = "open" /\ faults > 0
    /\ link' = "connecting" /\ faults' = faults - 1 /\ events' = <<>>
    /\ UNCHANGED <<server, live, entry, refs, answers>>

\* The events that are written: those with other contents than the entry has by then.
Writing ==
    {i \in DOMAIN events : IF i = 1 THEN ModifyObject(entry, events[1]) # entry
                                     ELSE events[i].val # events[i - 1].val}

\* onbulkmessage: every event is a modifyObject, whatever its type; what is left
\* is the last that is written.
LinkFlushes ==
    /\ link = "open" /\ events # <<>>
    /\ \/ Writing = {} /\ UNCHANGED entry
       \/ \E i \in Writing : (\A j \in Writing : j <= i) /\ entry' = ModifyObject(Loading, events[i])
    /\ events' = <<>>
    /\ UNCHANGED <<server, live, refs, answers, link, faults>>

ObjectStep ==
    \/ OthersWrite \/ OthersDelete
    \/ WatchFirst \/ WatchAgain \/ StopWatch
    \/ ObjectPolls \/ (\E a \in answers : AnswerArrives(a) \/ RequestFails(a))
    \/ LinkOpens \/ LinkCloses \/ LinkFlushes
=============================================================================
