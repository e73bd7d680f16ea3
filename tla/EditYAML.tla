----------------------------- MODULE EditYAML ------------------------------
(***************************************************************************)
(* The YAML tab of a details page: the editor of                           *)
(* src/frontend/public/components/edit-yaml.jsx inside the status box of   *)
(* components/utils/status-box.jsx, over the watch of its object.  It is   *)
(* mounted exactly while the box shows its children, so the text is loaded *)
(* (state.initialized) whenever there is an editor.                        *)
(***************************************************************************)
EXTENDS K8sObject

VARIABLES
    editor,  \* the mounted editor, or NoEditor
    save     \* the k8sUpdate in flight (bound: one at a time)

editVars == <<objectVars, editor, save>>

\* displayed: displayedVersion; base: the contents as they were loaded;
\* typed: the user has changed the text since.
NoEditor == [on |-> FALSE, displayed |-> 0, base |-> "none", typed |-> FALSE, stale |-> FALSE]
Editor == [on : BOOLEAN, displayed : Version \cup {0}, base : Val \cup {"none"},
           typed : BOOLEAN, stale : BOOLEAN]
NoSave == [phase |-> "none", ver |-> 0, base |-> "none", val |-> "none"]
Save == [phase : {"none", "sent", "done", "refused"}, ver : Version \cup {0},
         base : Val \cup {"none"}, val : Val \cup {"none"}]

\* StatusBox: children alone, behind the notice that the data is stale (then
\* at another place in the tree: React mounts them anew), or not at all.
Frame(e) ==
    IF ~e.loaded \/ e.error \in {"gone", "failed"} THEN "hidden"
    ELSE IF e.error = "timeout" THEN "behind notice" ELSE "plain"

\* loadYaml: the text, its version and no notice.
LoadYaml(o) == [on |-> TRUE, displayed |-> o.ver, base |-> o.val, typed |-> FALSE, stale |-> FALSE]

\* Fault: the version of the newer object is taken for that of the text.
Receive_Version(ed, e) == [ed EXCEPT !.displayed = e.ver]

\* componentWillReceiveProps: the notice is decided anew; an initialized editor
\* is not loaded again.
Receive(ed, e) == [ed EXCEPT !.stale = ed.displayed # e.ver]

\* What an update of the store makes of the editor.
EditorAfter ==
    IF Frame(entry') = "hidden" THEN NoEditor
    ELSE IF Frame(entry') # Frame(entry) THEN LoadYaml(entry')
    ELSE IF entry' # entry THEN Receive(editor, entry') ELSE editor

EditInit == ObjectInit /\ editor = NoEditor /\ save = NoSave

EditorFollows == editor' = EditorAfter /\ UNCHANGED save

WatchStep == ObjectStep /\ EditorFollows

\* Something else in the store changes and the props are handed down again.
Rerender ==
    /\ editor.on
    /\ editor' = Receive(editor, entry)
    /\ UNCHANGED <<objectVars, save>>

Type ==
    /\ editor.on /\ ~editor.typed
    /\ editor' = [editor EXCEPT !.typed = TRUE]
    /\ UNCHANGED <<objectVars, save>>

Reload ==
    /\ editor.on
    /\ editor' = LoadYaml(entry)
    /\ UNCHANGED <<objectVars, save>>

\* save(): the text goes out with the resourceVersion it was loaded with.
SaveText ==
    /\ editor.on /\ save = NoSave
    /\ \E val \in IF editor.typed THEN Val ELSE {editor.base} :
         save' = [phase |-> "sent", ver |-> editor.displayed, base |-> editor.base, val |-> val]
    /\ UNCHANGED <<objectVars, editor>>

\* The API server takes an update only over the version it names.
ServerAccepts ==
    /\ save.phase = "sent" /\ live /\ save.ver = server.ver /\ server.ver <= MaxVersion
    /\ IF save.val = server.val
       THEN UNCHANGED <<server, live, events>>
       ELSE Write(save.val, TRUE)
    /\ save' = [save EXCEPT !.phase = "done", !.ver = server'.ver]
    /\ UNCHANGED <<entry, refs, answers, link, faults, editor>>

ServerRefuses ==
    /\ save.phase = "sent" /\ (~live \/ save.ver # server.ver)
    /\ save' = [save EXCEPT !.phase = "refused"]
    /\ UNCHANGED <<objectVars, editor>>

\* The answer loads the saved object, whatever was typed or received since.
Saved ==
    /\ save.phase = "done"
    /\ save' = NoSave
    /\ editor' = IF editor.on THEN LoadYaml(save) ELSE editor
    /\ UNCHANGED objectVars

\* handleError keeps the text.
SaveRefused ==
    /\ save.phase = "refused"
    /\ save' = NoSave
    /\ UNCHANGED <<objectVars, editor>>

EditNext ==
    \/ WatchStep \/ Rerender \/ Type \/ Reload
    \/ SaveText \/ ServerAccepts \/ ServerRefuses \/ Saved \/ SaveRefused

\* Timers fire, requests are answered, sockets open and buffers are flushed.
EditFairness ==
    /\ WF_editVars(ObjectPolls /\ UNCHANGED <<editor, save>>)
    /\ WF_editVars(LinkOpens /\ UNCHANGED <<editor, save>>)
    /\ WF_editVars(LinkFlushes /\ EditorFollows)
    /\ WF_editVars(\E a \in answers : AnswerArrives(a) /\ EditorFollows)

EditSpec == EditInit /\ [][EditNext]_editVars /\ EditFairness

-----------------------------------------------------------------------------
EditTypeOK ==
    /\ server \in Copy /\ live \in BOOLEAN /\ entry \in Entry
    /\ refs \in 0 .. MaxRefs /\ faults \in 0 .. MaxFaults
    /\ \A a \in answers : a.copy \in Copy
    /\ link \in {"off", "connecting", "open"} /\ events \in Seq(Copy)
    /\ editor \in Editor /\ save \in Save

\* Whatever the order in which old answers and events were written, a page
\* that stays open shows the contents of the server in the end: the poll
\* repairs what a late answer overwrote (k8s-actions.ts:96-110).
ShowsTheObject ==
    <>[](refs > 0 /\ live) => <>[](entry.loaded /\ entry.val = server.val)

\* A deleted object, whose DELETED event is stored like any other, disappears
\* from its page in the end: the poll is told so (k8s-actions.ts:99-103).
ShowsTheDeletion == <>[](refs > 0 /\ ~live) => <>[](Frame(entry) = "hidden")

\* What the user has typed goes only when the user reloads, a save is answered
\* or the status box takes the editor away: no update of the object touches
\* it (edit-yaml.jsx:109-118, 146).
TypedIsKept ==
    [][editor.typed /\ ~editor'.typed
         => Reload \/ Saved \/ Frame(entry') # Frame(entry)]_editVars

\* A save never overwrites a version the editor had not loaded: the contents
\* it replaces are those the text was made from (edit-yaml.jsx:256-275).
NoLostUpdate == [][save.phase = "sent" /\ save'.phase = "done" => save.base = server.val]_editVars

\* The user's work is safe: on the screen from the updates of the object, on the
\* server from being written over what the user has not seen.
TextIsSafe == TypedIsKept /\ NoLostUpdate

\* An answer without an error leaves no error behind: the page does not go on
\* saying that its data is stale (status-box.jsx:69-73).
AnswerClearsError ==
    [][\A a \in answers : a.ok /\ AnswerArrives(a) => entry'.error = "none"]_editVars
=============================================================================
