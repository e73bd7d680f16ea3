------------------------- MODULE ChannelOperators --------------------------
(***************************************************************************)
(* The updates of the cluster (src/frontend/public/components/             *)
(* channel-operators, utils/operator-states.jsx): one state is made of the *)
(* AppVersions of all operators, and one button, by that state, asks for   *)
(* the next step.  The operators are elsewhere; what they report, and what *)
(* others write, reaches the page object by object.                        *)
(***************************************************************************)
EXTENDS Integers, FiniteSets

CONSTANTS
    Secondary,      \* the AppVersions beside "tectonic-cluster"
    ClusterVersion,
    Installed,      \* bound: of them, those a cluster may be at when the page opens
    UpdateChannel,  \* the values of the channel
    TaskType,       \* of "operator", "appversion" and "other"
    MaxReports,     \* bound: what operators and others write
    MaxActions      \* bound: patches and reports together

ASSUME ChannelAssumption ==
    /\ "tectonic-cluster" \notin Secondary /\ {"config", "versions"} \cap Secondary = {}
    /\ {"", "true", "false"} \cap (ClusterVersion \cup UpdateChannel) = {} /\ Installed \subseteq ClusterVersion /\ Installed # {}
    /\ TaskType \subseteq {"operator", "appversion", "other"}
    /\ MaxReports \in Nat /\ MaxActions \in Nat

clusterAppVersionName == "tectonic-cluster"
Operators == {clusterAppVersionName} \cup Secondary

TaskStatuses == {"Running", "Failed", "BackOff", "NotStarted", "Completed"}
Tasks == [type : TaskType, state : TaskStatuses]

\* What the page takes of an AppVersion; "" is absent, and so is the AppVersion without a
\* current version.
Versions == ClusterVersion \cup {""}
AppVersions ==
    [currentVersion : Versions, desiredVersion : Versions, targetVersion : Versions,
     pausedSpec : BOOLEAN, pausedStatus : BOOLEAN, failureStatus : BOOLEAN, taskStatuses : SUBSET Tasks]

ChannelConfigs ==
    [triggerUpdate : BOOLEAN, triggerUpdateCheck : BOOLEAN, automaticUpdate : BOOLEAN,
     channel : UpdateChannel \cup {""}]

VARIABLES
    appVersions,   \* on the server
    channelConfig, \* on the server; one without a channel is not there
    release,       \* the version that the first TectonicVersion is of, "" if there is none
    seenVersions,  \* appVersions as the page has them
    seenConfig,
    lists,         \* of each list: "loading", "loaded" or "error"; "none" before the page is opened
    news,          \* names of objects whose events are on their way
    crashed,       \* a render has thrown
    outdated,      \* state.outdated of DetailStatus
    updatePatches, \* in flight
    modal,         \* the dialog: its field and value, or no field
    reports, actions,
    wantedPause,   \* history: what the last click on "Pause" or "Resume" was for
    unsure,        \* history: two such clicks overlapped, one failed, or somebody else paused
    futile         \* history: since the last click a patch of the button has changed nothing

serverVars == <<appVersions, channelConfig, release>>
screenVars == <<seenVersions, seenConfig, lists, crashed>>
clickVars == <<wantedPause, unsure, futile>>
channelVars == <<serverVars, screenVars, news, outdated, updatePatches, modal, reports, actions, clickVars>>

NoVersion ==
    [currentVersion |-> "", desiredVersion |-> "", targetVersion |-> "",
     pausedSpec |-> FALSE, pausedStatus |-> FALSE, failureStatus |-> FALSE, taskStatuses |-> {}]
NoConfig == [triggerUpdate |-> FALSE, triggerUpdateCheck |-> FALSE, automaticUpdate |-> FALSE, channel |-> ""]
NoModal == [field |-> "none", value |-> ""]

-----------------------------------------------------------------------------
DetermineOperatorState(c) ==
    IF c.failureStatus THEN "Failed"
    ELSE IF c.pausedStatus THEN "Paused"
    ELSE IF c.targetVersion # "" THEN "Updating"
    ELSE IF c.currentVersion = c.desiredVersion THEN "Complete" ELSE "Pending"

\* generateComponents: the components that are shown.
Components(versions) ==
    {n \in Operators : /\ versions[n].currentVersion # ""
                      /\ (versions[n].desiredVersion # "" \/ versions[n].targetVersion # "")}

\* The primary operator, {} of the code when it is not among them.
Primary(versions) ==
    IF clusterAppVersionName \in Components(versions) THEN versions[clusterAppVersionName] ELSE NoVersion

\* calculateChannelState; no operator is in the state "NeedsAttention", and "Requested" would
\* need a state that is none of the priorities.
ChannelState(versions) ==
    LET states == {DetermineOperatorState(versions[n]) : n \in Components(versions)}
    IN  IF "Pending" \in states /\ "Updating" \notin states THEN "UpdateAvailable"
        ELSE IF Primary(versions).pausedSpec
        THEN (IF Primary(versions).pausedStatus THEN "Paused" ELSE "Pausing")
        ELSE IF Primary(versions).failureStatus THEN "Failed"
        ELSE IF "Updating" \in states THEN "Updating" ELSE "UpToDate"

\* calculateAppVersionState: the state of a group of tasks, none if it is empty.
GroupState(type, tasks) ==
    LET has(s) == [type |-> type, state |-> s] \in tasks
    IN  IF has("Running") THEN "Running"
        ELSE IF has("Failed") THEN "Failed"
        ELSE IF has("BackOff") THEN "BackOff"
        ELSE IF has("NotStarted") THEN "NotStarted"
        ELSE IF has("Completed") THEN "Completed" ELSE "none"

\* TaskStatus: what of the tasks of the primary operator has a line of its own, those of the two
\* groups unless all of the group is completed; an operator that is up to date shows none.
ShownTasks(versions) ==
    LET tasks == Primary(versions).taskStatuses
    IN  {t \in tasks : /\ ChannelState(versions) # "UpToDate"
                       /\ (t.type = "other" \/ GroupState(t.type, tasks) # "Completed")}

\* The rows of the others, beneath the tasks.
SecondaryRows(versions) ==
    IF ChannelState(versions) = "UpToDate" \/ Primary(versions).taskStatuses = {} THEN {}
    ELSE {n \in Components(versions) \ {clusterAppVersionName} : versions[n].taskStatuses # {}}

-----------------------------------------------------------------------------
\* render of TectonicChannelWithData and of Details.
Screen ==
    IF crashed THEN "crashed"
    ELSE IF lists.versions = "loaded" THEN (IF lists.configs = "error" THEN "no status" ELSE "status")
    ELSE IF lists.versions = "error" THEN "error" ELSE "loading"

\* A list that is loaded and empty has no first element: config.loadError and
\* tectonicVersions.version throw, the latter where a row of the others compares it.
Throws(versions, c, l) ==
    /\ l.versions = "loaded"
    /\ \/ l.configs = "loaded" /\ c.channel = ""
       \/ /\ l.releases = "loaded" /\ release = ""
          /\ Primary(versions).currentVersion # Primary(versions).desiredVersion
          /\ SecondaryRows(versions) # {}

\* componentWillReceiveProps of DetailStatus.
PropsReceived == outdated' = FALSE

\* Any change of the store renders the page, and so does what it knows nothing of.
OtherNews ==
    /\ Screen = "status" /\ PropsReceived
    /\ UNCHANGED <<serverVars, screenVars, news, updatePatches, modal, reports, actions, clickVars>>

\* The lists are watched while the page stands.
FetchesList(list) ==
    /\ lists[list] \in {"loading", "error"} /\ ~crashed
    /\ lists' = [lists EXCEPT ![list] = "loaded"]
    /\ seenVersions' = (IF list = "versions" THEN appVersions ELSE seenVersions)
    /\ seenConfig' = (IF list = "configs" THEN channelConfig ELSE seenConfig)
    /\ news' = news \ (CASE list = "versions" -> Operators [] list = "configs" -> {"config"} [] OTHER -> {})
    /\ crashed' = (crashed \/ Throws(seenVersions', seenConfig', lists'))
    /\ PropsReceived
    /\ UNCHANGED <<serverVars, updatePatches, modal, reports, actions, clickVars>>

\* A TectonicVersion that cannot be listed is as one that is not there yet.
FetchIsRefused(list) ==
    /\ lists[list] = "loading" /\ list # "releases" /\ ~crashed
    /\ lists' = [lists EXCEPT ![list] = "error"]
    /\ PropsReceived
    /\ UNCHANGED <<serverVars, seenVersions, seenConfig, crashed, news, updatePatches, modal, reports, actions,
                   clickVars>>

\* The watch brings an object of a list that is loaded.
ObjectArrives(name) ==
    /\ name \in news /\ news' = news \ {name} /\ ~crashed
    /\ lists[IF name = "config" THEN "configs" ELSE "versions"] = "loaded"
    /\ seenVersions' = (IF name = "config" THEN seenVersions
                        ELSE [seenVersions EXCEPT ![name] = appVersions[name]])
    /\ seenConfig' = (IF name = "config" THEN channelConfig ELSE seenConfig)
    /\ crashed' = (crashed \/ Throws(seenVersions', seenConfig', lists))
    /\ PropsReceived
    /\ UNCHANGED <<serverVars, lists, updatePatches, modal, reports, actions, clickVars>>

-----------------------------------------------------------------------------
\* What the button says, and what it sends: _actionButton.
Offers ==
    LET state == ChannelState(seenVersions)
    IN  IF Screen # "status" \/ outdated \/ (state = "UpToDate" /\ seenConfig.triggerUpdateCheck) THEN "none"
        ELSE CASE state \in {"Paused", "Pausing"} -> "Resume Updates"
               [] state = "UpdateAvailable" -> "Start Upgrade"
               [] state = "Updating" -> "Pause Updates"
               [] state = "UpToDate" -> "Check for Updates"
               [] state = "Failed" -> "Retry Upgrade"

PatchTo(object, field, value) == [object |-> object, field |-> field, value |-> value]

PatchOf(offer) ==
    CASE offer = "Resume Updates" -> PatchTo(clusterAppVersionName, "paused", "false")
      [] offer = "Pause Updates" -> PatchTo(clusterAppVersionName, "paused", "true")
      [] offer = "Check for Updates" -> PatchTo("config", "triggerUpdateCheck", "true")
      [] offer \in {"Start Upgrade", "Retry Upgrade"} -> PatchTo("config", "triggerUpdate", "true")

Pausing == {r \in updatePatches : r.field = "paused"}

\* k8sPatch, from the button or the dialog.
Sends(by, patch) ==
    /\ reports + actions < MaxActions /\ actions' = actions + 1
    /\ updatePatches' = updatePatches \cup
           {[id |-> actions, by |-> by, object |-> patch.object, field |-> patch.field, value |-> patch.value,
             applied |-> FALSE]}

\* _doAction: a config that is not loaded has no metadata, and the patch throws.
DoAction ==
    /\ Offers # "none" /\ outdated' = TRUE
    /\ LET patch == PatchOf(Offers)
       IN  /\ IF patch.object = "config" /\ lists.configs # "loaded" THEN UNCHANGED <<updatePatches, actions>>
              ELSE Sends("status", patch)
           /\ wantedPause' = (IF patch.field = "paused" THEN Offers ELSE wantedPause)
           /\ unsure' = (unsure \/ (patch.field = "paused" /\ Pausing # {}))
    /\ futile' = FALSE
    /\ UNCHANGED <<serverVars, screenVars, news, modal, reports>>

\* The server replaces the field of the object; what changes nothing makes no event.
Applies(r) ==
    /\ ~r.applied
    /\ updatePatches' = (updatePatches \ {r}) \cup {[r EXCEPT !.applied = TRUE]}
    /\ appVersions' = (IF r.object = "config" THEN appVersions
                       ELSE [appVersions EXCEPT ![r.object].pausedSpec = (r.value = "true")])
    /\ channelConfig' = (IF r.object # "config" THEN channelConfig
                  ELSE IF r.field = "channel" THEN [channelConfig EXCEPT !.channel = r.value]
                  ELSE [channelConfig EXCEPT ![r.field] = (r.value = "true")])
    /\ news' = (IF UNCHANGED <<appVersions, channelConfig>> THEN news ELSE news \cup {r.object})
    /\ futile' = (futile \/ (r.by = "status" /\ UNCHANGED <<appVersions, channelConfig>>))
    /\ UNCHANGED <<release, screenVars, outdated, modal, reports, actions, wantedPause, unsure>>

\* The button waits for the next props, a dialog is closed.
PatchDone(r) ==
    /\ r.applied /\ updatePatches' = updatePatches \ {r}
    /\ modal' = (IF r.by = "modal" THEN NoModal ELSE modal)
    /\ UNCHANGED <<serverVars, screenVars, news, outdated, reports, actions, clickVars>>

\* The patch is refused, or its answer is lost.
PatchIsLost(r) ==
    /\ updatePatches' = updatePatches \ {r}
    /\ outdated' = (IF r.by = "status" THEN FALSE ELSE outdated)
    /\ unsure' = (unsure \/ r.field = "paused")
    /\ UNCHANGED <<serverVars, screenVars, news, modal, reports, actions, wantedPause, futile>>

-----------------------------------------------------------------------------
\* What can be chosen, and what is when the dialog opens: toString of the constructors.
ValuesOf(field) == IF field = "channel" THEN UpdateChannel ELSE {"true", "false"}
AsString(field, c) == IF field = "channel" THEN c.channel ELSE IF c[field] THEN "true" ELSE "false"

\* _openModal of DetailConfig; the constructor throws when the config has no such field.
OpenModal(field) ==
    /\ Screen = "status" /\ modal = NoModal /\ lists.configs = "loaded"
    /\ modal' = [field |-> field, value |-> AsString(field, seenConfig)]
    /\ UNCHANGED <<serverVars, screenVars, news, outdated, updatePatches, reports, actions, clickVars>>

ChooseValue(value) ==
    /\ modal # NoModal /\ value \in ValuesOf(modal.field)
    /\ modal' = [modal EXCEPT !.value = value]
    /\ UNCHANGED <<serverVars, screenVars, news, outdated, updatePatches, reports, actions, clickVars>>

SubmitModal ==
    /\ modal # NoModal
    /\ Sends("modal", PatchTo("config", modal.field, modal.value))
    /\ UNCHANGED <<serverVars, screenVars, news, outdated, modal, reports, clickVars>>

CancelModal ==
    /\ modal # NoModal /\ modal' = NoModal
    /\ UNCHANGED <<serverVars, screenVars, news, outdated, updatePatches, reports, actions, clickVars>>

-----------------------------------------------------------------------------
\* Bound: a few changes, while the page stands.
ReportsBound == reports < MaxReports /\ reports + actions < MaxActions /\ reports' = reports + 1 /\ ~crashed

\* An AppVersion becomes another one, by its operator or by somebody else.
Reports(n, c) ==
    /\ ReportsBound
    /\ c # appVersions[n] /\ appVersions' = [appVersions EXCEPT ![n] = c]
    /\ news' = news \cup {n}
    /\ unsure' = (unsure \/ c.pausedSpec # appVersions[n].pausedSpec)
    /\ UNCHANGED <<channelConfig, release, screenVars, outdated, updatePatches, modal, actions, wantedPause,
                   futile>>

VersionsChange(n) ==
    \E v \in ClusterVersion :
        \/ Reports(n, [appVersions[n] EXCEPT !.desiredVersion = v])
        \/ Reports(n, [appVersions[n] EXCEPT !.targetVersion = v])
        \/ Reports(n, [appVersions[n] EXCEPT !.currentVersion = v, !.targetVersion = ""])

FlagsChange(n) ==
    \/ Reports(n, [appVersions[n] EXCEPT !.failureStatus = ~@])
    \/ Reports(n, [appVersions[n] EXCEPT !.pausedStatus = ~@])
    \/ n = clusterAppVersionName /\ Reports(n, [appVersions[n] EXCEPT !.pausedSpec = ~@])

TasksChange(n) ==
    \/ \E t \in [type : TaskType, state : {"NotStarted"}] :
         Reports(n, [appVersions[n] EXCEPT !.taskStatuses = @ \cup {t}])
    \/ \E t \in appVersions[n].taskStatuses, s \in TaskStatuses :
         Reports(n, [appVersions[n] EXCEPT !.taskStatuses = (@ \ {t}) \cup {[t EXCEPT !.state = s]}])

\* The operator takes what was triggered.
ConfigChanges(field, value) ==
    /\ ReportsBound
    /\ channelConfig.channel # "" /\ channelConfig[field] # value
    /\ channelConfig' = [channelConfig EXCEPT ![field] = value]
    /\ news' = news \cup {"config"}
    /\ UNCHANGED <<appVersions, release, screenVars, outdated, updatePatches, modal, actions, clickVars>>

-----------------------------------------------------------------------------
\* A cluster that is up to date or on its way to a version, that of the release if there is one,
\* whose operators may have no AppVersion yet.
ClusterAt(v, target, others) ==
    LET tasks == IF target = "" THEN {} ELSE [type : TaskType, state : {"NotStarted"}]
        current == [NoVersion EXCEPT !.currentVersion = v, !.desiredVersion = v, !.taskStatuses = tasks]
    IN  [n \in Operators |->
            IF n = clusterAppVersionName /\ target # ""
            THEN [current EXCEPT !.desiredVersion = target, !.targetVersion = target]
            ELSE IF n = clusterAppVersionName \/ n \in others THEN current ELSE NoVersion]

SomeConfigs == {NoConfig} \cup {[NoConfig EXCEPT !.channel = channel] : channel \in UpdateChannel}

ChannelOpens(v, target, others, of, fetch) ==
    /\ appVersions = ClusterAt(v, target, others) /\ release = of
    /\ seenVersions = [n \in Operators |-> NoVersion] /\ seenConfig = NoConfig
    /\ lists = [l \in {"versions", "configs", "releases"} |-> fetch]
    /\ news = {} /\ crashed = FALSE /\ outdated = FALSE
    /\ updatePatches = {} /\ modal = NoModal
    /\ reports = 0 /\ actions = 0
    /\ wantedPause = "none" /\ unsure = FALSE /\ futile = FALSE

ChannelInit ==
    /\ channelConfig \in SomeConfigs
    /\ \E v \in Installed, others \in SUBSET Secondary : \E target \in Versions \ {v} :
          \E of \in {"", target} : ChannelOpens(v, target, others, of, "loading")

ChannelNext ==
    \/ OtherNews \/ DoAction \/ SubmitModal \/ CancelModal
    \/ \E list \in DOMAIN lists : FetchesList(list) \/ FetchIsRefused(list)
    \/ \E name \in news : ObjectArrives(name)
    \/ \E r \in updatePatches : Applies(r) \/ PatchDone(r) \/ PatchIsLost(r)
    \/ \E field \in {"channel", "automaticUpdate"} : OpenModal(field)
    \/ \E value \in UpdateChannel \cup {"true", "false"} : ChooseValue(value)
    \/ \E n \in Operators : VersionsChange(n) \/ FlagsChange(n) \/ TasksChange(n)
    \/ \E field \in {"triggerUpdate", "triggerUpdateCheck"} : ConfigChanges(field, FALSE)

\* Requests are answered or given up, a list is fetched until it is there, and its watch brings
\* what has changed.
ChannelFairness ==
    /\ WF_channelVars(\E r \in updatePatches : Applies(r) \/ PatchDone(r) \/ PatchIsLost(r))
    /\ \A list \in {"versions", "configs", "releases"} : WF_channelVars(FetchesList(list))
    /\ \A name \in Operators \cup {"config"} : WF_channelVars(ObjectArrives(name))

-----------------------------------------------------------------------------
\* The page keeps what it has in the shape it reads; a dialog is of a field that the config has.
ChannelTypeOK ==
    /\ appVersions \in [Operators -> AppVersions] /\ seenVersions \in [Operators -> AppVersions]
    /\ channelConfig \in ChannelConfigs /\ seenConfig \in ChannelConfigs
    /\ release \in ClusterVersion \cup {""}
    /\ lists \in [{"versions", "configs", "releases"} -> {"none", "loading", "loaded", "error"}]
    /\ news \subseteq Operators \cup {"config"}
    /\ crashed \in BOOLEAN /\ outdated \in BOOLEAN
    /\ updatePatches \subseteq
           [id : Nat, by : {"status", "modal"}, object : {clusterAppVersionName, "config"},
            field : {"paused", "channel", "triggerUpdate", "triggerUpdateCheck", "automaticUpdate"},
            value : {"true", "false"} \cup UpdateChannel, applied : BOOLEAN]
    /\ \/ modal = NoModal
       \/ \E field \in {"channel", "automaticUpdate"} : modal \in [field : {field}, value : ValuesOf(field)]
    /\ reports \in 0..MaxReports /\ actions \in 0..MaxActions
    /\ wantedPause \in {"none", "Pause Updates", "Resume Updates"} /\ unsure \in BOOLEAN /\ futile \in BOOLEAN

\* "Updating + already paused is covered above, so we can assume updating + not paused"
\* (detail-status.jsx:60): the button offers a pause only while some operator is updating and no
\* pause is asked for, a resumption only when one is, and a check for updates only when nothing is
\* updating or waits to.  That is so of what the page has, and of the cluster when nothing is on
\* its way to the page.
OffersAreTrue ==
    \A versions \in {seenVersions} \cup (IF news = {} THEN {appVersions} ELSE {}) :
        LET tc == Primary(versions)
            states == {DetermineOperatorState(versions[n]) : n \in Components(versions)}
        IN  /\ Offers = "Pause Updates" => ~tc.pausedSpec /\ "Updating" \in states
            /\ Offers = "Resume Updates" => tc.pausedSpec
            /\ Offers = "Start Upgrade" => "Pending" \in states /\ "Updating" \notin states
            /\ Offers = "Check for Updates" => ~tc.pausedSpec /\ states \cap {"Updating", "Pending"} = {}

\* While there is something to update, a task that is not completed has a line of its own: only a
\* group with nothing left to do is folded into one (the order of orderedTaskStatuses).
UnfinishedIsShown ==
    ChannelState(seenVersions) # "UpToDate" =>
        \A t \in Primary(seenVersions).taskStatuses : t.state # "Completed" => t \in ShownTasks(seenVersions)

\* When the requests have come back, the cluster is as the last click on "Pause Updates" or "Resume
\* Updates" wanted it, unless two of them overlapped, one failed or somebody else has paused it.
LastClickWins ==
    wantedPause # "none" /\ ~unsure /\ Pausing = {}
        => appVersions[clusterAppVersionName].pausedSpec = (wantedPause = "Pause Updates")

\* The button that a click has disabled comes back: its patch fails, or what it changes arrives as
\* new props.  One that changes nothing ("Start Upgrade" of what is triggered already) makes no
\* event, and the button waits for something else to happen.
ButtonComesBack == outdated ~> (~outdated \/ crashed \/ futile)
=============================================================================
