------------------------------ MODULE K8sList ------------------------------
(***************************************************************************)
(* The reducer operations on one cached list of Kubernetes objects         *)
(* (src/frontend/public/module/k8s/k8s-reducers.ts).                        *)
(*                                                                         *)
(* A list maps each qualified name (getQN) to the object shown for it, or  *)
(* Absent.  An object is its uid, its resourceVersion and its contents.    *)
(* A uid is the resourceVersion the object was created at, so the uid also *)
(* says when it was created.                                               *)
(***************************************************************************)
LOCAL INSTANCE Sequences
LOCAL INSTANCE Integers

CONSTANTS
    Name,              \* qualified names, ordered as the server pages them
    Val,               \* contents an object can have
    VersionsPerSecond  \* resourceVersions that share one creationTimestamp

ASSUME NameAssumption == Name \subseteq Nat \ {0}
ASSUME VersionsAssumption == VersionsPerSecond \in Nat \ {0}

Object == [uid : Nat, rv : Nat, val : Val]
Absent == [uid |-> 0, rv |-> 0, val |-> "absent"]
EmptyList == [n \in Name |-> Absent]
Event == [type : {"ADDED", "MODIFIED", "DELETED"}, name : Name, object : Object]

\* creationTimestamp, in whole seconds
CreatedAt(object) == object.uid \div VersionsPerSecond

\* moreRecent: two objects with one name are compared by creation time, two
\* versions of one object by resourceVersion.
MoreRecent(a, b) ==
    IF a.uid # b.uid THEN CreatedAt(a) > CreatedAt(b) ELSE a.rv > b.rv

RemoveFromList(list, name) == [list EXCEPT ![name] = Absent]

SameContents(a, b) == a.uid = b.uid /\ a.val = b.val

\* updateList: older objects are ignored, and so is one that differs in its
\* resourceVersion only (the list then keeps the old resourceVersion).
UpdateList(list, name, next) ==
    IF \/ list[name] = Absent
       \/ MoreRecent(next, list[name]) /\ ~SameContents(next, list[name])
    THEN [list EXCEPT ![name] = next]
    ELSE list

\* Fault: names that are gone from the server stay.
LoadList_KeepsGone(list, items) ==
    [n \in Name |->
        IF n \in DOMAIN items /\ (list[n] = Absent \/ MoreRecent(items[n], list[n]))
        THEN items[n] ELSE list[n]]

\* loadList: names the response lacks are dropped; the others take the
\* response's object unless the list has a more recent one.
LoadList(list, items) ==
    [n \in Name |->
        IF n \notin DOMAIN items THEN Absent
        ELSE IF list[n] = Absent \/ MoreRecent(items[n], list[n]) THEN items[n]
        ELSE list[n]]

\* bulkAddToList: the page overwrites what the list has.
BulkAddToList(list, items) ==
    [n \in Name |-> IF n \in DOMAIN items THEN items[n] ELSE list[n]]

ApplyEvent(list, e) ==
    IF e.type = "DELETED" THEN RemoveFromList(list, e.name)
    ELSE UpdateList(list, e.name, e.object)

\* updateListFromWS: the events of one batch, in the order received.
UpdateListFromWS(list, events) ==
    LET after[i \in 0 .. Len(events)] == IF i = 0 THEN list ELSE ApplyEvent(after[i - 1], events[i])
    IN  after[Len(events)]
=============================================================================
