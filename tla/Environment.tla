---------------------------- MODULE Environment -----------------------------
(***************************************************************************)
(* The page of a workload's environment variables                          *)
(* (src/frontend/public/components/environment.jsx): the variables are     *)
(* copied, edited and patched, while the watch brings newer versions of    *)
(* the object.  The variables of all containers are one value.             *)
(***************************************************************************)
EXTENDS Integers, Sequences, SequencesExt, FiniteSets, Selections

CONSTANTS
    Env,        \* environments
    MaxSaved,   \* bound: saves
    MaxVersions \* bound: versions up to which others write

ASSUME EnvironmentAssumption == Env # {} /\ MaxSaved \in Nat /\ MaxVersions \in Nat \ {0}

VARIABLES
    envs,     \* the environment of every version of the object
    received, \* props: the version the page has received
    envPage,  \* the state of the page
    patching, \* the request of the save
    givenUp,  \* patches given up, which the server may still apply
    saved,    \* saves so far
    overtaken \* history: the last answer was older than the props

environmentVars == <<envs, received, envPage, patching, givenUp, saved, overtaken>>

EnvPage == [readOnly : BOOLEAN, choices : {"loading", "loaded", "failed"}, currentEnvVars : Env,
            modified : BOOLEAN, stale : BOOLEAN, success : BOOLEAN]

SomeEnv == CHOOSE e \in Env : TRUE

NoPatch == [is |-> "none", env |-> SomeEnv, version |-> 0]

RawEnvData == envs[received]

EnvironmentOpens(readOnly) ==
    /\ envs = <<SomeEnv>> /\ received = 1
    /\ envPage = [readOnly |-> readOnly, choices |-> "loading", currentEnvVars |-> SomeEnv,
                  modified |-> FALSE, stale |-> FALSE, success |-> FALSE]
    /\ patching = NoPatch /\ givenUp = {} /\ saved = 0 /\ overtaken = FALSE

EnvironmentInit == \E readOnly \in BOOLEAN : EnvironmentOpens(readOnly)

\* componentDidMount: config maps and secrets are there, or may not be read.
\* A read-only page asks for none; the handler of a timeout, which has no
\* response, throws, and the page loads for ever.
ChoicesLoad ==
    /\ envPage.choices = "loading"
    /\ \/ envPage' = [envPage EXCEPT !.choices = "loaded"]
       \/ ~envPage.readOnly /\ envPage' = [envPage EXCEPT !.choices = "failed"]
    /\ UNCHANGED <<envs, received, patching, givenUp, saved, overtaken>>

CanEdit == envPage.choices = "loaded" /\ ~envPage.readOnly

\* _updateEnvVars, also while a save runs.
UpdateEnvVars(e) ==
    /\ CanEdit /\ e # envPage.currentEnvVars
    /\ envPage' = [envPage EXCEPT !.currentEnvVars = e, !.modified = e # RawEnvData, !.success = FALSE]
    /\ UNCHANGED <<envs, received, patching, givenUp, saved, overtaken>>

ReloadEnv ==
    /\ CanEdit /\ patching.is = "none"
    /\ envPage' = [envPage EXCEPT !.currentEnvVars = RawEnvData, !.modified = FALSE,
                                  !.stale = FALSE, !.success = FALSE]
    /\ overtaken' = FALSE
    /\ UNCHANGED <<envs, received, patching, givenUp, saved>>

\* Fault: only a page with edits tells of a change.
Tells_Modified(incoming) == incoming # envPage.currentEnvVars /\ envPage.modified

Tells(incoming) == incoming # envPage.currentEnvVars

\* The watch brings a newer version; getDerivedStateFromProps.
EnvArrives ==
    /\ \E v \in received + 1 .. Len(envs) :
         /\ received' = v
         /\ envPage' = CASE ~Tells(envs[v])  -> envPage
                         [] envPage.readOnly -> [envPage EXCEPT !.currentEnvVars = envs[v]]
                         [] OTHER            -> [envPage EXCEPT !.stale = TRUE, !.success = FALSE]
    /\ overtaken' = FALSE
    /\ UNCHANGED <<envs, patching, givenUp, saved>>

\* _saveChanges: all variables, without a version.
SaveEnv ==
    /\ CanEdit /\ patching.is = "none" /\ saved < MaxSaved
    /\ patching' = [is |-> "sent", env |-> envPage.currentEnvVars, version |-> 0]
    /\ saved' = saved + 1
    /\ UNCHANGED <<envs, received, envPage, givenUp, overtaken>>

Overwritten(e) == IF e = Last(envs) THEN envs ELSE Append(envs, e)

ServerOverwrites ==
    /\ patching.is = "sent"
    /\ envs' = Overwritten(patching.env)
    /\ patching' = [patching EXCEPT !.is = "applied", !.version = Len(envs')]
    /\ UNCHANGED <<received, envPage, givenUp, saved, overtaken>>

LateOverwrites(e) ==
    /\ e \in givenUp
    /\ envs' = Overwritten(e) /\ givenUp' = givenUp \ {e}
    /\ UNCHANGED <<received, envPage, patching, saved, overtaken>>

\* What the server has answered is shown, not what was typed meanwhile.
EnvAnswered(p) == [p EXCEPT !.currentEnvVars = patching.env, !.success = TRUE,
                            !.modified = FALSE, !.stale = FALSE]

EnvSaved ==
    /\ patching.is = "applied"
    /\ patching' = NoPatch /\ envPage' = EnvAnswered(envPage)
    /\ overtaken' = (received > patching.version)
    /\ UNCHANGED <<envs, received, givenUp, saved>>

\* Refused, or given up after 20 s.
EnvSaveFails ==
    /\ patching.is # "none"
    /\ patching' = NoPatch
    /\ givenUp' = IF patching.is = "sent" THEN givenUp \cup {patching.env} ELSE givenUp
    /\ UNCHANGED <<envs, received, envPage, saved, overtaken>>

\* Others change the environment, or something else of the object.
OthersSet(e) ==
    /\ Len(envs) < MaxVersions
    /\ envs' = Append(envs, e)
    /\ UNCHANGED <<received, envPage, patching, givenUp, saved, overtaken>>

EnvironmentNext ==
    \/ ChoicesLoad \/ ReloadEnv \/ EnvArrives \/ SaveEnv \/ ServerOverwrites \/ EnvSaved \/ EnvSaveFails
    \/ \E e \in Env : UpdateEnvVars(e) \/ LateOverwrites(e) \/ OthersSet(e)

\* The watch brings every version, and a save is answered or given up.
EnvironmentFairness == WF_environmentVars(EnvArrives) /\ WF_environmentVars(EnvSaved \/ EnvSaveFails)

EnvironmentSpec == EnvironmentInit /\ [][EnvironmentNext]_environmentVars /\ EnvironmentFairness

-----------------------------------------------------------------------------
EnvironmentTypeOK ==
    /\ envs \in Seq(Env) /\ received \in 1 .. Len(envs) /\ envPage \in EnvPage
    /\ patching.is \in {"none", "sent", "applied"} /\ patching.env \in Env
    /\ patching.version \in 0 .. Len(envs)
    /\ givenUp \subseteq Env /\ saved \in 0 .. MaxSaved /\ overtaken \in BOOLEAN

\* A page without edits shows in the end what the server has, or tells that it
\* does not, whatever saves ran, were answered late or were given up; all but
\* the page whose save was answered after a newer version had come
\* (environment.jsx:220-228, 262-271).
CurrentOrTold ==
    <>[](~envPage.modified) => <>[](envPage.currentEnvVars = Last(envs) \/ envPage.stale \/ overtaken)

\* "If there is a change and are read/write let the user know we have updated
\* vars" (environment.jsx:214): without the exception.
AlwaysTold == <>[](~envPage.modified) => <>[](envPage.currentEnvVars = Last(envs) \/ envPage.stale)

\* "The information on this page is no longer current" (environment.jsx:327-328).
NoticeIsTrue == envPage.stale => \E v \in 1 .. received : envs[v] # RawEnvData

\* What is typed while a save runs stays.
TypingSurvivesSave == [][EnvSaved => envPage'.currentEnvVars = envPage.currentEnvVars]_environmentVars

-----------------------------------------------------------------------------
(***************************************************************************)
(* The rows of names and values (src/frontend/public/components/utils/     *)
(* name-value-editor.jsx, value-from-pair.jsx) as the page of a workload's *)
(* variables shows them, "env" and "from", and the dialog of an object's   *)
(* annotations, "tags" (modals/tags.jsx): rows are added, removed, changed *)
(* and dragged, and the answer of a save replaces those of a page.  A      *)
(* config map or secret has one key here, named as itself.                 *)
(***************************************************************************)

CONSTANTS
    PairName,    \* what can be typed for a name, or a prefix
    PairText,    \* and for a value
    RefResource, \* the config maps and secrets
    MaxPairs,    \* bound: rows
    MaxPairSaves \* bound: saves

ASSUME PairAssumption ==
    /\ PairName # {} /\ {"", "none", "unset"} \cap (PairName \cup PairText \cup RefResource) = {}
    /\ MaxPairs \in Nat \ {0} /\ MaxPairSaves \in Nat

VARIABLES
    pairsOf,  \* props: which rows these are
    pairs,    \* the rows; null is one that a move took from beyond the end
    drag,     \* the item of the drag; its rows and row at the start
    pairSave, \* the request of the save, with the rows sent
    pairSaves \* saves so far

pairVars == <<pairsOf, pairs, drag, pairSave, pairSaves>>

Pair(name, text, ref, key) == [name |-> name, text |-> text, ref |-> ref, key |-> key]
BlankPair == Pair("", "", IF pairsOf = "from" THEN "unset" ELSE "none", "")
Crashed == Pair("", "", "null", "")
Idle == [on |-> FALSE, index |-> 1, rows |-> <<>>, replaced |-> FALSE]
NoPairSave == [at |-> "none", rows |-> <<>>]

AllSorts == pairsOf # "tags"

PairsOpen(kind, rows) ==
    /\ pairsOf = kind /\ pairs = rows /\ drag = Idle
    /\ pairSave = NoPairSave /\ pairSaves = 0

\* getPairsFromObject, or the pairs of the annotations: the rows of what the
\* server has.
PairsInit ==
    \/ \E n \in PairName, t \in PairText : PairsOpen("tags", <<Pair(n, t, "none", "")>>)
    \/ PairsOpen("env", <<Pair("", "", "none", "")>>)
    \/ \E n \in PairName, r \in RefResource : PairsOpen("env", <<Pair(n, "", r, r)>>)
    \/ PairsOpen("from", <<Pair("", "", "unset", "")>>)

-----------------------------------------------------------------------------
(* The rows *)

\* The page, or the dialog, is there and the mouse is free.
Edits == ~drag.on /\ Crashed \notin Range(pairs) /\ pairSave.at # "closed"

\* _append.
AppendPair ==
    /\ Edits /\ Len(pairs) < MaxPairs
    /\ pairs' = Append(pairs, BlankPair)
    /\ UNCHANGED <<pairsOf, drag, pairSave, pairSaves>>

\* _appendConfigMapOrSecret.
AppendConfigMapOrSecret ==
    /\ Edits /\ pairsOf = "env" /\ Len(pairs) < MaxPairs
    /\ pairs' = Append(pairs, Pair("", "", "unset", ""))
    /\ UNCHANGED <<pairsOf, drag, pairSave, pairSaves>>

\* _remove: there is always a row.
RemovePair(i) ==
    /\ Edits
    /\ pairs' = IF Len(pairs) = 1 THEN <<BlankPair>> ELSE RemoveAt(pairs, i)
    /\ UNCHANGED <<pairsOf, drag, pairSave, pairSaves>>

\* What is typed while a save runs is the subject of Environment, not of this module.
ChangePair(i, pair) ==
    /\ Edits /\ pairSave.at = "none"
    /\ pairs' = [pairs EXCEPT ![i] = pair]
    /\ UNCHANGED <<pairsOf, drag, pairSave, pairSaves>>

ChangePairName(i) == \E n \in PairName \cup {""} : ChangePair(i, [pairs[i] EXCEPT !.name = n])

ChangePairText(i) ==
    pairs[i].ref = "none" /\ \E t \in PairText \cup {""} : ChangePair(i, [pairs[i] EXCEPT !.text = t])

\* NameKeyDropdownPair: another resource, and no key of it yet.
ChooseName(i) ==
    pairs[i].ref # "none" /\ \E r \in RefResource : ChangePair(i, [pairs[i] EXCEPT !.ref = r, !.key = ""])

ChooseKey(i) ==
    /\ pairsOf = "env" /\ pairs[i].ref \in RefResource
    /\ ChangePair(i, [pairs[i] EXCEPT !.key = pairs[i].ref])

-----------------------------------------------------------------------------
(* Dragging *)

BeginDrag(i) ==
    /\ Edits /\ AllSorts
    /\ drag' = [on |-> TRUE, index |-> i, rows |-> <<pairs, pairs[i]>>, replaced |-> FALSE]
    /\ UNCHANGED <<pairsOf, pairs, pairSave, pairSaves>>

RowAt(i) == IF i \in DOMAIN pairs THEN pairs[i] ELSE Crashed

\* _move: two rows change places.  A row that is not there any more becomes one
\* that is undefined, which cannot be rendered.
MovePair(dragIndex, hoverIndex) ==
    [i \in DOMAIN pairs \cup {dragIndex} |->
        IF i = hoverIndex THEN RowAt(dragIndex) ELSE IF i = dragIndex THEN RowAt(hoverIndex) ELSE pairs[i]]

\* hover, once the mouse has crossed the middle of a row, whichever it is over.
Hover(i) ==
    /\ drag.on /\ Crashed \notin Range(pairs) /\ i # drag.index
    /\ drag.index <= Len(pairs) + 1
    /\ pairs' = MovePair(drag.index, i)
    /\ drag' = [drag EXCEPT !.index = i]
    /\ UNCHANGED <<pairsOf, pairSave, pairSaves>>

EndDrag ==
    /\ drag.on
    /\ drag' = Idle
    /\ UNCHANGED <<pairsOf, pairs, pairSave, pairSaves>>

-----------------------------------------------------------------------------
(* Saving *)

\* _envVarsToNameVal, _envFromVarsToResourcePrefix, _submit: blank rows are dropped.
PairsToSend ==
    Among(pairs, {p \in Range(pairs) : IF pairsOf = "from" THEN p.ref # "unset" ELSE p.name # ""})

Unique(rows) == \A i, j \in DOMAIN rows : rows[i].name = rows[j].name => i = j

\* One request at a time; a dialog with duplicates sends none.
SubmitPairs ==
    /\ Edits /\ pairSave.at = "none" /\ pairSaves < MaxPairSaves
    /\ pairsOf = "tags" => Unique(PairsToSend)
    /\ pairSave' = [at |-> "sent", rows |-> PairsToSend]
    /\ pairSaves' = pairSaves + 1
    /\ UNCHANGED <<pairsOf, pairs, drag>>

\* A name with a resource but no key, or no resource chosen, is refused.
CompletePair(pair) ==
    /\ pair.ref # "unset"
    /\ pairsOf = "env" /\ pair.ref \in RefResource => pair.key # ""

\* The answer: the page takes what the server has, the dialog closes.
PairsSaved ==
    /\ pairSave.at = "sent" /\ \A p \in Range(pairSave.rows) : CompletePair(p)
    /\ IF AllSorts
       THEN /\ pairs' = IF pairSave.rows = <<>> THEN <<BlankPair>> ELSE pairSave.rows
            /\ drag' = [drag EXCEPT !.replaced = drag.on]
            /\ pairSave' = NoPairSave
       ELSE /\ pairSave' = [pairSave EXCEPT !.at = "closed"]
            /\ UNCHANGED <<pairs, drag>>
    /\ UNCHANGED <<pairsOf, pairSaves>>

PairsRefused ==
    /\ pairSave.at = "sent"
    /\ pairSave' = NoPairSave
    /\ UNCHANGED <<pairsOf, pairs, drag, pairSaves>>

PairsNext ==
    \/ AppendPair \/ AppendConfigMapOrSecret \/ EndDrag \/ SubmitPairs \/ PairsSaved \/ PairsRefused
    \/ \E i \in DOMAIN pairs :
         RemovePair(i) \/ ChangePairName(i) \/ ChangePairText(i) \/ ChooseName(i) \/ ChooseKey(i)
           \/ BeginDrag(i) \/ Hover(i)

PairsSpec == PairsInit /\ [][PairsNext]_pairVars

-----------------------------------------------------------------------------
PairsTypeOK ==
    /\ pairsOf \in {"env", "from", "tags"}
    /\ \A p \in Range(pairs) \cup Range(pairSave.rows) :
         /\ p.name \in PairName \cup {""} /\ p.text \in PairText \cup {""}
         /\ p.ref \in RefResource \cup {"none", "unset", "null"} /\ p.key \in RefResource \cup {""}
    /\ Len(pairs) \in 1 .. MaxPairs + 1
    /\ drag.on \in BOOLEAN /\ drag.index \in 1 .. MaxPairs /\ drag.replaced \in BOOLEAN
    /\ pairSave.at \in {"none", "sent", "closed"} /\ pairSaves \in 0 .. MaxPairSaves

Rearranged(rows, before) ==
    \E f \in Bijection(DOMAIN rows, DOMAIN before) : \A i \in DOMAIN rows : rows[i] = before[f[i]]

\* The row under the mouse is the one that the drag began with, and no row is
\* lost or doubled on the way (name-value-editor.jsx:50, 263-269), unless the
\* answer of a save has replaced the rows: there the row may be another one, or
\* none, which takes the page down.
DraggedIsHeld ==
    drag.on /\ ~drag.replaced =>
        /\ pairs[drag.index] = drag.rows[2]
        /\ Rearranged(pairs, drag.rows[1])

\* A key is one of the resource that its row names (value-from-pair.jsx:96, 112).
KeysAreTheirs == \A p \in Range(pairs) : p.key # "" => p.key = p.ref
=============================================================================
