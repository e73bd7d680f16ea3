------------------------------ MODULE Dropdown ------------------------------
(***************************************************************************)
(* A dropdown (src/frontend/public/components/utils/dropdown.jsx) with all *)
(* that it can do, as the selector of namespaces has it (namespace.jsx): a *)
(* filter, a shortcut, arrow keys, bookmarks and a favourite, which another *)
(* tab changes in localStorage too.  Its parent chooses what is picked,    *)
(* and changes its choice and the items by itself.  An item is its title.  *)
(***************************************************************************)
EXTENDS Integers, Sequences, SequencesExt, FiniteSetsExt, Selections

CONSTANTS
    MenuItem,     \* namespaces
    FilterText,   \* texts of the filter: each a namespace, or "" for all
    MaxReceived,  \* bound: changes of the parent's props that nobody picked
    MaxBookmarks  \* bound: bookmarks and favourites set, by this tab or another

ASSUME DropdownAssumption ==
    /\ MenuItem # {} /\ IsFiniteSet(MenuItem) /\ "" \notin MenuItem /\ FilterText \subseteq MenuItem \cup {""}
    /\ MaxReceived \in Nat /\ MaxBookmarks \in Nat

VARIABLES
    chosen,      \* props.selectedKey, and the title
    offered,     \* props.items
    changed,     \* changes of the two so far
    menu,        \* state.active: "open" or "closed"; "gone" when it is not mounted
    listening,   \* the listener to clicks of the window
    menuRows,    \* state.items
    hoverKey,    \* state.keyboardHoverKey
    typed,       \* state.autocompleteText
    selectedKey,
    title,
    bookmarks,   \* state.bookmarks, in the order of its keys
    favoriteKey,
    storedMarks, \* localStorage: both
    marks        \* how often they were set

parentVars == <<chosen, offered, changed>>
markVars == <<bookmarks, favoriteKey, storedMarks, marks>>
shownVars == <<selectedKey, title, menuRows, typed>>
menuVars == <<parentVars, menu, listening, hoverKey, shownVars, markVars>>

Matches(text, key) == text \in {"", key}

\* The bookmarks first, then the other items; those that match.
FilteredItems(text, marked, items) ==
    LET all == marked \o SetToSeq(items \ Range(marked))
    IN  Among(all, {k \in Range(all) : Matches(text, k)})

DropdownOpens(key) ==
    /\ chosen = key /\ offered = {} /\ changed = 0
    /\ menu = "gone" /\ listening = FALSE /\ menuRows = <<>> /\ hoverKey = "" /\ typed = ""
    /\ selectedKey = key /\ title = key
    /\ bookmarks = <<>> /\ favoriteKey = "" /\ marks = 0
    /\ storedMarks = [bookmarks |-> <<>>, favorite |-> ""]

DropdownInit == \E key \in MenuItem : DropdownOpens(key)

-----------------------------------------------------------------------------
(* The component and its parent *)

\* constructor, componentDidMount.
MountMenu ==
    /\ menu = "gone"
    /\ menu' = "closed" /\ hoverKey' = "" /\ typed' = ""
    /\ bookmarks' = storedMarks.bookmarks /\ favoriteKey' = storedMarks.favorite
    /\ menuRows' = FilteredItems("", bookmarks', offered)
    /\ selectedKey' = chosen /\ title' = chosen
    /\ UNCHANGED <<parentVars, listening, storedMarks, marks>>

\* componentWillUnmount.
UnmountMenu ==
    /\ menu # "gone"
    /\ menu' = "gone" /\ listening' = FALSE
    /\ UNCHANGED <<parentVars, hoverKey, shownVars, markVars>>

\* componentWillReceiveProps, with the title there would otherwise be.
ReceiveProps(otherwise) ==
    /\ selectedKey' = IF chosen' = chosen THEN selectedKey ELSE chosen'
    /\ IF offered' = offered /\ chosen' = chosen
       THEN title' = otherwise /\ UNCHANGED menuRows
       ELSE title' = chosen' /\ menuRows' = FilteredItems(typed, bookmarks, offered')
    /\ UNCHANGED typed

\* The list of namespaces is loaded or changes, or a link leads to another: the
\* chosen one is an item once the list is loaded.
ParentChanges(key, listed) ==
    /\ changed < MaxReceived
    /\ chosen' = key /\ offered' = listed
    /\ listed = {} => offered = {}
    /\ listed # {} => key \in listed
    /\ changed' = changed + 1
    /\ IF menu = "gone" THEN UNCHANGED shownVars ELSE ReceiveProps(title)
    /\ UNCHANGED <<menu, listening, hoverKey, markVars>>

-----------------------------------------------------------------------------
(* Opening and closing *)

\* show, by the button or by the shortcut, which works when it is open too.
Show ==
    /\ menu # "gone"
    /\ menu' = "open" /\ listening' = TRUE
    /\ UNCHANGED <<parentVars, hoverKey, shownVars, markVars>>

\* hide, by the button or by Escape.
Hide ==
    /\ menu # "gone"
    /\ menu' = "closed" /\ listening' = FALSE
    /\ UNCHANGED <<parentVars, hoverKey, shownVars, markVars>>

\* _onWindowClick: a click elsewhere.
ClickElsewhere == listening /\ menu = "open" /\ Hide

\* onClick_: the parent follows at once, and is shown the same way.
Pick(key) ==
    /\ chosen' = key
    /\ offered' = IF offered = {} THEN {} ELSE offered \cup {key}
    /\ menu' = "closed"
    /\ IF key = chosen
       THEN selectedKey' = key /\ title' = (IF key \in offered THEN key ELSE "") /\ UNCHANGED <<menuRows, typed>>
       ELSE ReceiveProps(title)
    /\ UNCHANGED <<changed, listening, hoverKey, markVars>>

ClickItem(key) == menu = "open" /\ key \in Range(menuRows) /\ Pick(key)

\* onKeyDown_: Enter, on the button or in the filter.  Fault: a key whose row was filtered away
\* since is picked, too.
PickHovered_Filtered == menu = "open" /\ hoverKey # "" /\ Pick(hoverKey)

PickHovered == menu = "open" /\ hoverKey \in Range(menuRows) /\ Pick(hoverKey)

\* The arrows go round.
Arrow(step) ==
    /\ menu # "gone"
    /\ hoverKey' =
         IF menuRows = <<>> THEN ""
         ELSE LET index == IF hoverKey \in Range(menuRows) THEN CHOOSE i \in DOMAIN menuRows : menuRows[i] = hoverKey ELSE 0
                  next == index + step
              IN  menuRows[IF next > Len(menuRows) THEN 1 ELSE IF next < 1 THEN Len(menuRows) ELSE next]
    /\ UNCHANGED <<parentVars, menu, listening, shownVars, markVars>>

\* changeTextFilter.
TypeText(text) ==
    /\ menu = "open"
    /\ typed' = text /\ menuRows' = FilteredItems(text, bookmarks, offered)
    /\ UNCHANGED <<parentVars, menu, listening, hoverKey, selectedKey, title, markVars>>

-----------------------------------------------------------------------------
(* Bookmarks *)

\* The rows stay as they are until the next filter or change of the items.
SetBookmarks(marked) ==
    /\ bookmarks' = marked /\ storedMarks' = [storedMarks EXCEPT !.bookmarks = marked]
    /\ marks < MaxBookmarks /\ marks' = marks + 1
    /\ UNCHANGED <<parentVars, menu, listening, hoverKey, shownVars, favoriteKey>>

\* onBookmark_.
Bookmark(key) == menu = "open" /\ key \in Range(menuRows) \ Range(bookmarks) /\ SetBookmarks(Append(bookmarks, key))

\* onUnBookmark_.
UnBookmark(key) ==
    menu = "open" /\ key \in Range(menuRows) \cap Range(bookmarks)
      /\ SetBookmarks(Among(bookmarks, Range(bookmarks) \ {key}))

\* onFavorite_: only a bookmark has a star.
StarBookmark(key) ==
    /\ menu = "open" /\ key \in Range(menuRows) \cap Range(bookmarks)
    /\ favoriteKey' = IF favoriteKey = key THEN "" ELSE key
    /\ storedMarks' = [storedMarks EXCEPT !.favorite = favoriteKey']
    /\ marks < MaxBookmarks /\ marks' = marks + 1
    /\ UNCHANGED <<parentVars, menu, listening, hoverKey, shownVars, bookmarks>>

\* Another tab stores its own.
OtherTabStores(marked, key) ==
    /\ marks < MaxBookmarks /\ marks' = marks + 1
    /\ storedMarks' = [bookmarks |-> marked, favorite |-> key]
    /\ UNCHANGED <<parentVars, menu, listening, hoverKey, shownVars, bookmarks, favoriteKey>>

DropdownNext ==
    \/ MountMenu \/ UnmountMenu \/ Show \/ Hide \/ ClickElsewhere \/ PickHovered \/ Arrow(1) \/ Arrow(-1)
    \/ \E key \in MenuItem : ClickItem(key) \/ Bookmark(key) \/ UnBookmark(key) \/ StarBookmark(key)
    \/ \E text \in FilterText : TypeText(text)
    \/ \E key \in MenuItem : OtherTabStores(<<key>>, key)
    \/ \E key \in MenuItem, listed \in SUBSET MenuItem : ParentChanges(key, listed)

DropdownSpec == DropdownInit /\ [][DropdownNext]_menuVars

-----------------------------------------------------------------------------
DropdownTypeOK ==
    /\ chosen \in MenuItem /\ offered \subseteq MenuItem /\ changed \in 0 .. MaxReceived
    /\ menu \in {"gone", "closed", "open"} /\ listening \in BOOLEAN
    /\ Range(menuRows) \cup Range(bookmarks) \subseteq MenuItem /\ hoverKey \in MenuItem \cup {""}
    /\ typed \in FilterText \cup {""} /\ marks \in 0 .. MaxBookmarks
    /\ selectedKey \in MenuItem /\ title \in MenuItem \cup {""} /\ favoriteKey \in MenuItem \cup {""}

\* Whatever was picked, typed and bookmarked while the parent's choice and items changed: the
\* dropdown shows the parent's choice (dropdown.jsx:35, 193; it is blank when a bookmark was
\* picked again before the list is there), no row twice, every item and bookmark that the
\* text in the filter matches, and no other row (lines 196, 207).
MenuIsTrue ==
    menu # "gone" =>
        /\ selectedKey = chosen /\ title \in (IF chosen \in offered THEN {chosen} ELSE {chosen, ""})
        /\ IsInjective(menuRows)
        /\ {k \in offered \cup Range(bookmarks) : Matches(typed, k)} \subseteq Range(menuRows)
        /\ \A k \in Range(menuRows) : Matches(typed, k)

\* A click elsewhere closes an open dropdown, and nothing listens for one that
\* is gone (dropdown.jsx:41, 76, 83).
MenusAreDismissed == (menu = "open" => listening) /\ (menu = "gone" => ~listening)

\* What is picked, by the keyboard too, is a row that is shown: the row under the
\* keyboard may have been filtered out since (dropdown.jsx:230).
PicksWhatIsShown ==
    [][menu = "open" /\ menu' = "closed" /\ chosen' # chosen => chosen' \in Range(menuRows)]_menuVars
=============================================================================
