------------------------------ MODULE Dialogs -------------------------------
(***************************************************************************)
(* Dialogs and forms that end in requests to the API server                *)
(* (src/frontend/public/components/utils/promise-component.jsx,            *)
(* factory/modal.tsx): one request, two in a row, or two at once.  A       *)
(* request may be refused, or be given up after 20 s though the server     *)
(* still acts on it; the user may try again, or leave while it runs.       *)
(***************************************************************************)
EXTENDS Integers, Sequences, SequencesExt

CONSTANT MaxTries  \* bound: submits of one dialog

ASSUME DialogAssumption == MaxTries \in Nat \ {0}

VARIABLES
    plan,       \* what the dialog does
    form,       \* "none" before the dialog, "open", "left", "done"
    inProgress, \* state.inProgress: the chain of the last submit runs
    submits,    \* submits so far
    finished,   \* steps of this submit that were answered
    requests,   \* requests that are not answered, or were given up
    objects     \* objects on the server, by the step that creates or deletes them

dialogVars == <<plan, form, inProgress, submits, finished, requests, objects>>

Creates(steps) == [does |-> "create", atOnce |-> FALSE, steps |-> steps]
Deletes(steps) == [does |-> "delete", atOnce |-> TRUE, steps |-> steps]

\* A namespace, and the policy that denies traffic to it.
NamespacePlans == {Creates(<<"namespace">>), Creates(<<"namespace", "policy">>)}

\* An instance of a service, and the secret with its parameters, which it owns.
InstancePlans == {Creates(<<"instance">>), Creates(<<"instance", "secret">>)}

\* A binding, and the same.
BindingPlans == {Creates(<<"binding">>), Creates(<<"binding", "secret">>)}

\* A subscription, and the operator's version that it has installed.
SubscriptionPlans == {Deletes(<<"subscription">>), Deletes(<<"subscription", "version">>)}

\* Any one object.
DeletePlans == {Deletes(<<"object">>)}

Plans == NamespacePlans \cup InstancePlans \cup BindingPlans \cup SubscriptionPlans \cup DeletePlans

Request == [step : 1 .. 2, submit : 1 .. MaxTries, at : {"sent", "applied", "refused", "stray"}]

Sent(steps, submit) == [step : steps, submit : {submit}, at : {"sent"}]

DialogStarts(p) ==
    /\ plan = p /\ form = "none" /\ inProgress = FALSE /\ submits = 0 /\ finished = {} /\ requests = {}
    /\ objects = IF p.does = "create" THEN {} ELSE DOMAIN p.steps

DialogInit == \E p \in Plans : DialogStarts(p)

OpenDialog ==
    /\ form = "none"
    /\ form' = "open"
    /\ UNCHANGED <<plan, inProgress, submits, finished, requests, objects>>

\* Fault: the two requests of a row are sent at once.
FirstOf_All == DOMAIN plan.steps

FirstOf == IF plan.atOnce THEN DOMAIN plan.steps ELSE {1}

\* The buttons are disabled while a chain runs.
SubmitDialog ==
    /\ form = "open" /\ ~inProgress /\ submits < MaxTries
    /\ submits' = submits + 1 /\ inProgress' = TRUE /\ finished' = {}
    /\ requests' = requests \cup Sent(FirstOf, submits')
    /\ UNCHANGED <<plan, form, objects>>

\* Escape closes a dialog, and a link leaves a form; the chain goes on.
Leave ==
    /\ form = "open"
    /\ form' = "left"
    /\ UNCHANGED <<plan, inProgress, submits, finished, requests, objects>>

\* What exists is not created again, what is gone not deleted.
Possible(step) == (plan.does = "create") = (step \notin objects)

After(step) == IF plan.does = "create" THEN objects \cup {step} ELSE objects \ {step}

Becomes(r, at) == (requests \ {r}) \cup {[r EXCEPT !.at = at]}

ServerActs(r) ==
    /\ r.at = "sent"
    /\ \/ Possible(r.step) /\ objects' = After(r.step) /\ requests' = Becomes(r, "applied")
       \/ requests' = Becomes(r, "refused") /\ UNCHANGED objects
    /\ UNCHANGED <<plan, form, inProgress, submits, finished>>

ActsOnStray(r) ==
    /\ r.at = "stray"
    /\ requests' = requests \ {r}
    /\ objects' = IF Possible(r.step) THEN After(r.step) ELSE objects
    /\ UNCHANGED <<plan, form, inProgress, submits, finished>>

\* The chain of this request still waits for it.
Awaited(r) == inProgress /\ r.submit = submits

Complete(steps) == steps = DOMAIN plan.steps

\* close() and a move to the page of the object, or the next request.
StepDone(r) ==
    /\ r.at = "applied"
    /\ finished' = finished \cup {r.step}
    /\ IF Complete(finished')
       THEN form' = "done" /\ inProgress' = FALSE /\ requests' = requests \ {r}
       ELSE /\ requests' = (requests \ {r}) \cup (IF plan.atOnce THEN {} ELSE Sent({2}, submits))
            /\ UNCHANGED <<form, inProgress>>
    /\ UNCHANGED <<plan, submits, objects>>

InProgressAfter == FALSE

\* _catch: the first error ends the chain, though another request may run.
StepFails(r) ==
    /\ r.at # "stray"
    /\ inProgress' = InProgressAfter
    /\ requests' = IF r.at = "sent" THEN Becomes(r, "stray") ELSE requests \ {r}
    /\ UNCHANGED <<plan, form, submits, finished, objects>>

\* An answer, or an error, that no chain waits for.
Unheeded(r) ==
    /\ r.at \in {"applied", "refused"}
    /\ requests' = requests \ {r}
    /\ UNCHANGED <<plan, form, inProgress, submits, finished, objects>>

DialogAnswers(r) == IF Awaited(r) THEN StepDone(r) \/ StepFails(r) ELSE Unheeded(r)

DialogNext ==
    \/ OpenDialog \/ SubmitDialog \/ Leave
    \/ \E r \in requests : ServerActs(r) \/ ActsOnStray(r) \/ DialogAnswers(r)

\* Requests are answered or given up.
DialogFairness == WF_dialogVars(\E r \in requests : DialogAnswers(r))

DialogSpec == DialogInit /\ [][DialogNext]_dialogVars /\ DialogFairness

-----------------------------------------------------------------------------
DialogTypeOK ==
    /\ plan \in Plans /\ form \in {"none", "open", "left", "done"} /\ inProgress \in BOOLEAN
    /\ submits \in 0 .. MaxTries /\ finished \subseteq {1, 2}
    /\ requests \subseteq Request /\ objects \subseteq {1, 2}

\* A dialog that has closed itself has done all that it was to do, whatever
\* was refused, given up and tried again before (create-namespace-modal.jsx:
\* 60-70, disable-application-modal.tsx:24-30).
ClosedMeansDone == form = "done" => objects = (IF plan.does = "create" THEN DOMAIN plan.steps ELSE {})

\* No policy without its namespace and no secret without its owner, even of a
\* submit that was given up (create-instance.tsx:113-116).
SecondNeedsFirst == plan.does = "create" /\ 2 \in objects => 1 \in objects

\* Whichever requests fail, are given up and repeated, a dialog neither closes on
\* half of its work nor leaves on the server what the other half was for.
DialogsAreDone == ClosedMeansDone /\ SecondNeedsFirst

\* No dialog is busy for ever (promise-component.jsx:15-40, co-fetch.js:103-107).
InProgressEnds == []<>(~inProgress)

-----------------------------------------------------------------------------
(***************************************************************************)
(* Scaling a workload: the counts of its page                              *)
(* (src/frontend/public/components/utils/deployment-pod-counts.tsx) and    *)
(* the dialog that patches the count                                       *)
(* (src/frontend/public/components/modals/configure-count-modal.jsx).  The *)
(* page shows a spinner from the save until the object it watches has the  *)
(* count that was saved.                                                   *)
(***************************************************************************)

CONSTANTS
    Count,      \* numbers of replicas
    MaxSaves,   \* bound: patches sent
    MaxScales   \* bound: versions of the object that others write

ASSUME ScalingAssumption == Count # {} /\ Count \subseteq Nat /\ MaxSaves \in Nat /\ MaxScales \in Nat

NotWaiting == -1

VARIABLES
    counts,       \* spec.replicas of every version of the object
    propsVersion,      \* props.resource: the version the page has
    desiredCount, \* state.desiredCount, NotWaiting unless waitingForUpdate
    dialog,       \* the dialog and its request
    late,         \* patches the dialog gave up, which the server may still apply
    saves         \* patches sent

scalingVars == <<counts, propsVersion, desiredCount, dialog, late, saves>>

Current == Last(counts)
Waits == desiredCount # NotWaiting

\* "is": where the request is; "did": what the server did of the last one.
Dialog == [open : BOOLEAN, is : {"none", "sent", "applied", "refused"},
           did : {"nothing", "changed", "same"}, count : Count]

ScalingInit ==
    /\ counts = <<CHOOSE n \in Count : TRUE>> /\ propsVersion = 1
    /\ desiredCount = NotWaiting /\ late = {} /\ saves = 0
    /\ dialog = [open |-> FALSE, is |-> "none", did |-> "nothing", count |-> CHOOSE n \in Count : TRUE]

\* The link to the dialog is there unless the page waits.  A second dialog is
\* opened only once the request of the first was answered.
OpenCount ==
    /\ ~dialog.open /\ dialog.is = "none" /\ ~Waits
    /\ dialog' = [dialog EXCEPT !.open = TRUE]
    /\ UNCHANGED <<counts, propsVersion, desiredCount, late, saves>>

\* Escape, or Cancel, which a request disables.
CloseCount ==
    /\ dialog.open
    /\ dialog' = [dialog EXCEPT !.open = FALSE]
    /\ UNCHANGED <<counts, propsVersion, desiredCount, late, saves>>

\* Fault: the page is told when the patch has been answered.
ToldAt_Answer == "answer"

\* _submit tells the page before it sends the patch.
ToldAt == "submit"

SubmitCount(n) ==
    /\ dialog.open /\ dialog.is = "none" /\ saves < MaxSaves
    /\ saves' = saves + 1
    /\ dialog' = [dialog EXCEPT !.is = "sent", !.did = "nothing", !.count = n]
    /\ desiredCount' = IF ToldAt = "submit" THEN n ELSE desiredCount
    /\ UNCHANGED <<counts, propsVersion, late>>

\* A JSON patch without a version.  One that changes nothing writes no version.
Patched(n) == IF n = Current THEN counts ELSE Append(counts, n)

ServerPatches ==
    /\ dialog.is = "sent"
    /\ \/ /\ counts' = Patched(dialog.count)
          /\ dialog' = [dialog EXCEPT !.is = "applied",
                                      !.did = IF dialog.count = Current THEN "same" ELSE "changed"]
       \/ dialog' = [dialog EXCEPT !.is = "refused"] /\ UNCHANGED counts
    /\ UNCHANGED <<propsVersion, desiredCount, late, saves>>

LateApplies(n) ==
    /\ n \in late
    /\ counts' = Patched(n) /\ late' = late \ {n}
    /\ UNCHANGED <<propsVersion, desiredCount, dialog, saves>>

\* close().
CountSaved ==
    /\ dialog.is = "applied"
    /\ dialog' = [dialog EXCEPT !.is = "none", !.open = FALSE]
    /\ desiredCount' = IF ToldAt = "answer" THEN dialog.count ELSE desiredCount
    /\ UNCHANGED <<counts, propsVersion, late, saves>>

Refused == NotWaiting

\* An error, or the 20 s of coFetch, whatever the server does afterwards.
CountFails ==
    /\ dialog.is # "none"
    /\ dialog' = [dialog EXCEPT !.is = "none"]
    /\ desiredCount' = Refused
    /\ late' = IF dialog.is = "sent" THEN late \cup {dialog.count} ELSE late
    /\ UNCHANGED <<counts, propsVersion, saves>>

OthersScale(n) ==
    /\ Len(counts) < MaxScales + 1
    /\ counts' = Append(counts, n)
    /\ UNCHANGED <<propsVersion, desiredCount, dialog, late, saves>>

\* The watch brings a newer version; getDerivedStateFromProps.
PropsArrive ==
    /\ \E v \in propsVersion + 1 .. Len(counts) :
         /\ propsVersion' = v
         /\ desiredCount' = IF counts[v] = desiredCount THEN NotWaiting ELSE desiredCount
    /\ UNCHANGED <<counts, dialog, late, saves>>

ScalingNext ==
    \/ OpenCount \/ CloseCount \/ (\E n \in Count : SubmitCount(n))
    \/ ServerPatches \/ (\E n \in late : LateApplies(n)) \/ (\E n \in Count : OthersScale(n))
    \/ CountSaved \/ CountFails \/ PropsArrive

\* The server answers, and the watch brings every change.
ScalingFairness ==
    WF_scalingVars(ServerPatches) /\ WF_scalingVars(CountSaved \/ CountFails) /\ WF_scalingVars(PropsArrive)

ScalingSpec == ScalingInit /\ [][ScalingNext]_scalingVars /\ ScalingFairness

-----------------------------------------------------------------------------
ScalingTypeOK ==
    /\ counts \in Seq(Count) /\ propsVersion \in 1 .. Len(counts)
    /\ desiredCount \in Count \cup {NotWaiting} /\ dialog \in Dialog
    /\ late \subseteq Count /\ saves \in 0 .. MaxSaves

\* A spinner that stays for good waits for a count that the patch did not
\* change, or that another writer, or a patch given up, has overwritten: the
\* watch may bring the new count before the patch is answered, and the dialog
\* may be closed meanwhile (deployment-pod-counts.tsx:50-60,
\* configure-count-modal.jsx:40-55).
SpinnerEnds ==
    <>[]Waits => <>[](dialog.did = "same" \/ (dialog.did = "changed" /\ Current # desiredCount))

\* No spinner stays for good.
EverySpinnerEnds == []<>(~Waits)
=============================================================================
