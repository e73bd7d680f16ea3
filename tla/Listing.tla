------------------------------ MODULE Listing ------------------------------
(***************************************************************************)
(* A page that lists objects of a namespace with a text filter, the boxes  *)
(* of a row filter and a sorted column (src/frontend/public/components/    *)
(* factory/list-page.jsx, factory/list.tsx, row-filter.jsx).  What is      *)
(* asked for is kept in three places: the address, the store's entry of    *)
(* the list, and the input and boxes on the screen.  Discovery takes the   *)
(* list down and mounts it again (utils/firehose.jsx).                     *)
(***************************************************************************)
EXTENDS Integers, Sequences, SequencesExt

CONSTANTS
    ListNs,  \* namespaces of the selector
    Typed    \* what the text filter may be: the names it matches

ASSUME ListingAssumption == ListNs # {} /\ "away" \notin ListNs /\ Typed \subseteq SUBSET (1 .. 3)

NoText == 1 .. 3    \* an empty text matches every name
Boxes == {"Failed", "Running"}
DefaultBoxes == {"Running"}
Unknown == {"unknown"}  \* a filter of the address that no box has
Orders == {"none", "asc", "desc"}

VARIABLES
    listNs,       \* the namespace whose list is shown, or "away"
    address,      \* the query of the address: text, boxes ({} if not there), order of the column
    input,        \* the text in the input
    selected,     \* CheckBoxes.state.selected
    entries,      \* the store's entry of each namespace's list
    listSorts,    \* the order of each list in the UI store
    rediscovers,  \* RESOURCES.inFlight
    textSlipped   \* history: the text of the entry need not be the address's

listingVars == <<listNs, address, input, selected, entries, listSorts, rediscovers, textSlipped>>

\* No filter on the text is NoText, none on the boxes is {}.
NoList == [watched |-> FALSE, loaded |-> FALSE, text |-> NoText, boxes |-> {}]
Addresses == [text : Typed \cup {NoText}, boxes : {{}, {"Failed"}, Unknown}, order : {"none", "desc"}]

ListingInit ==
    /\ listNs = "away" /\ address = [text |-> NoText, boxes |-> {}, order |-> "none"]
    /\ input = NoText /\ selected = {} /\ rediscovers = FALSE /\ textSlipped = FALSE
    /\ entries = [n \in ListNs |-> NoList] /\ listSorts = [n \in ListNs |-> "none"]

\* CheckBoxes.applyFilter.
ApplyBoxes(e, ids) == IF ids \cap Boxes = {} THEN e ELSE [e EXCEPT !.boxes = ids \cap Boxes]

\* FireMan.componentWillMount: a parameter that is not there applies nothing.
ApplyAddress(e) == IF address'.text = NoText THEN e ELSE [e EXCEPT !.text = address'.text]

\* CheckBoxes.componentDidMount.
FromAddress(a) == IF a.boxes = {} THEN DefaultBoxes ELSE a.boxes

\* Firehose.componentWillMount and the reducer, which merges with filters that are there.
WatchList(e) == [e EXCEPT !.watched = TRUE, !.loaded = FALSE]

\* What is mounted below the Firehose; nothing while kinds are discovered.
MountList(e, ids) == IF rediscovers' THEN e ELSE ApplyBoxes(WatchList(e), ids)

\* A link or a bookmark leads to the page.
ListOpens(n, a) ==
    /\ listNs = "away" /\ listNs' = n
    /\ address' = a /\ input' = a.text
    /\ UNCHANGED <<rediscovers, listSorts>>
    /\ selected' = FromAddress(a)
    /\ entries' = [entries EXCEPT ![n] = MountList(ApplyAddress(@), FromAddress(a))]
    /\ textSlipped' = (a.text = NoText /\ entries[n].text # NoText)

ListLeaves ==
    /\ listNs # "away" /\ listNs' = "away"
    /\ entries' = IF rediscovers THEN entries ELSE [entries EXCEPT ![listNs] = NoList]
    /\ UNCHANGED <<address, input, selected, listSorts, rediscovers, textSlipped>>

\* The heads of the columns are mounted with the loaded list (ColHead.componentWillMount).
ListLoads ==
    /\ listNs # "away" /\ entries[listNs].watched /\ ~entries[listNs].loaded
    /\ entries' = [entries EXCEPT ![listNs].loaded = TRUE]
    /\ listSorts' = IF address.order = "none" THEN listSorts ELSE [listSorts EXCEPT ![listNs] = address.order]
    /\ UNCHANGED <<listNs, address, input, selected, rediscovers, textSlipped>>

\* FireMan.applyFilter and updateURL, of a text.
TypesText(t) ==
    /\ listNs # "away" /\ input # t /\ input' = t
    /\ address' = [address EXCEPT !.text = t]
    /\ entries' = [entries EXCEPT ![listNs].text = t]
    /\ textSlipped' = FALSE
    /\ UNCHANGED <<listNs, selected, listSorts, rediscovers>>

ToggledBoxes(b) == (selected \cup {b}) \ (selected \cap {b})

\* CheckBoxes.toggle.
Toggles(b) ==
    /\ listNs # "away" /\ ~rediscovers /\ ToggledBoxes(b) # {}
    /\ selected' = ToggledBoxes(b)
    /\ address' = [address EXCEPT !.boxes = IF ToggledBoxes(b) \cap Boxes = {} THEN Unknown ELSE ToggledBoxes(b) \cap Boxes]
    /\ entries' = [entries EXCEPT ![listNs] = ApplyBoxes(@, ToggledBoxes(b))]
    /\ UNCHANGED <<listNs, input, listSorts, rediscovers, textSlipped>>

\* ColHead's click and UIActions.sortList.
Sorts ==
    /\ listNs # "away" /\ entries[listNs].loaded
    /\ LET order == IF listSorts[listNs] = "asc" THEN "desc" ELSE "asc" IN
       /\ listSorts' = [listSorts EXCEPT ![listNs] = order]
       /\ address' = [address EXCEPT !.order = order]
    /\ UNCHANGED <<listNs, input, selected, entries, rediscovers, textSlipped>>

\* Fault: the boxes stay with the list they were applied to.
FollowsIds_Never(e) == e

\* CheckBoxes.componentDidUpdate: the ids of the lists have changed.
FollowsIds(e) == ApplyBoxes(e, selected)

\* The selector keeps the query of the address.  FireMan.componentWillReceiveProps,
\* Firehose.shouldComponentUpdate, then the boxes, then the filters of the address.
SwitchesNs(n) ==
    /\ listNs # "away" /\ n # listNs /\ listNs' = n
    /\ UNCHANGED <<address, input, selected, listSorts, rediscovers>>
    /\ LET there == IF rediscovers THEN entries[n] ELSE FollowsIds(WatchList(entries[n])) IN
       entries' = [entries EXCEPT ![listNs] = IF rediscovers THEN @ ELSE NoList, ![n] = ApplyAddress(there)]
    /\ textSlipped' = (address.text = NoText /\ entries[n].text # NoText)

\* Firehose stops what it watches and renders nothing.
RediscoveryStarts ==
    /\ ~rediscovers /\ rediscovers' = TRUE
    /\ entries' = IF listNs = "away" THEN entries ELSE [entries EXCEPT ![listNs] = NoList]
    /\ textSlipped' = (listNs # "away" /\ address.text # NoText)
    /\ UNCHANGED <<listNs, address, input, selected, listSorts>>

\* Firehose watches again; the boxes are mounted anew, FireMan never was unmounted.
RediscoveryEnds ==
    /\ rediscovers /\ rediscovers' = FALSE
    /\ UNCHANGED <<listNs, address, input, listSorts, textSlipped>>
    /\ IF listNs = "away" THEN UNCHANGED <<selected, entries>>
       ELSE /\ selected' = FromAddress(address)
            /\ entries' = [entries EXCEPT ![listNs] = MountList(@, FromAddress(address))]

ListingNext ==
    \/ \E n \in ListNs, a \in Addresses : ListOpens(n, a)
    \/ \E n \in ListNs : SwitchesNs(n)
    \/ \E t \in Typed \cup {NoText} : TypesText(t)
    \/ \E b \in Boxes : Toggles(b)
    \/ Sorts \/ ListLoads \/ ListLeaves \/ RediscoveryStarts \/ RediscoveryEnds

ListingSpec == ListingInit /\ [][ListingNext]_listingVars

-----------------------------------------------------------------------------
Phases == <<"Failed", "Other", "Running">>
ListObjects == [name : 1 .. 3, phase : {"Failed", "Other", "Running"}] \cap
    {[name |-> 1, phase |-> "Running"], [name |-> 2, phase |-> "Failed"], [name |-> 3, phase |-> "Other"]}

\* listFilters["pod-status"] and its like.
ByPhase(sel, o) == sel = {} \/ o.phase \in sel \/ o.phase \notin Boxes

\* getFilteredRows.
FilteredRows(text, sel) == {o \in ListObjects : o.name \in text /\ ByPhase(sel, o)}

RankOf(o) == CHOOSE i \in DOMAIN Phases : Phases[i] = o.phase

\* stateToProps: by the column, then by name; by name alone if no column was chosen.
SortedRows(rows, order) ==
    SetToSortSeq(rows, LAMBDA a, b :
        CASE order = "asc" -> RankOf(a) < RankOf(b)
          [] order = "desc" -> RankOf(a) > RankOf(b)
          [] OTHER -> a.name < b.name)

\* What the list has on the screen.
ShownRows == SortedRows(FilteredRows(entries[listNs].text, entries[listNs].boxes), listSorts[listNs])

ListingTypeOK ==
    /\ listNs \in ListNs \cup {"away"}
    /\ address \in [text : Typed \cup {NoText}, boxes : (SUBSET Boxes) \cup {Unknown}, order : Orders]
    /\ input \in Typed \cup {NoText} /\ selected \in SUBSET (Boxes \cup Unknown)
    /\ entries \in [ListNs -> [watched : BOOLEAN, loaded : BOOLEAN, text : Typed \cup {NoText}, boxes : SUBSET Boxes]]
    /\ listSorts \in [ListNs -> Orders] /\ rediscovers \in BOOLEAN /\ textSlipped \in BOOLEAN

Listed == listNs # "away" /\ ~rediscovers /\ entries[listNs].loaded

\* The rows on the screen are those that the boxes shown, the text of the address and
\* the column of the address ask for, whatever was mounted, switched, typed and taken
\* down by discovery before.  Excepted are boxes none of which is known, and the
\* text after what TextIsApplied tells (list-page.jsx:100-150, row-filter.jsx:35-86).
RowsAreTheAsked ==
    Listed /\ selected \cap Boxes # {} =>
        ShownRows = SortedRows(
            FilteredRows(IF textSlipped THEN entries[listNs].text ELSE address.text, selected),
            IF address.order = "none" THEN listSorts[listNs] ELSE address.order)

\* Violated.  The text in the input is the text the list is filtered by
\* ("reapply filters to the new list...", list-page.jsx:109).  A discovery takes the list and its
\* filters down while the page stays, and an entry that got its filter while the kinds
\* were discovered outlives the page.
TextIsApplied == Listed => entries[listNs].text = input
=============================================================================
