------------------------- MODULE OperatorLifecycle --------------------------
(***************************************************************************)
(* A subscription to an operator and an install plan: the links of         *)
(* SubscriptionUpdates and the dialogs behind them, which write the whole  *)
(* object back (src/frontend/public/components/operator-lifecycle-manager/ *)
(* subscription.tsx, modals/subscription-channel-modal.tsx and             *)
(* installplan-approval-modal.tsx), and the button that approves a plan    *)
(* (install-plan.tsx).                                                     *)
(***************************************************************************)
EXTENDS Integers, Sequences, FiniteSets, SequencesExt

CONSTANTS
    Channel,         \* channels of the package
    Steps,           \* what an install plan may consist of
    MaxOlmVersions,  \* bound: versions of the object
    MaxOlmSaves      \* bound: requests of the page

ASSUME SubscriptionAssumption ==
    /\ Channel # {} /\ Steps # {} /\ "" \notin Steps
    /\ MaxOlmVersions \in Nat \ {0} /\ MaxOlmSaves \in Nat

VARIABLES
    olmKind,         \* "subscription" or "plan"
    versions,        \* the versions of the object on the server, the last one is there
    shownAt,         \* the version in the props
    updates,         \* SubscriptionUpdates: waitingForUpdate, channel, installPlanApproval
    preview,         \* InstallPlanPreview: needsApproval, error
    operatorDialog,  \* the dialog: what it changes, the object it was opened with, its state
    operatorPut,     \* the request in flight
    answered,        \* the last version this page was told to have saved
    olmSaves         \* requests so far

subscriptionVars ==
    <<olmKind, versions, shownAt, updates, preview, operatorDialog, operatorPut, answered, olmSaves>>

FirstChannel == CHOOSE c \in Channel : TRUE  \* one is as good as another

Approval == {"Automatic", "Manual"}

\* The fields of the two kinds of object together.  Of an install plan with no
\* steps, no component is resolved yet.
OlmObject == [channel : Channel, approval : Approval, approved : BOOLEAN, plan : Steps \cup {""}]
OlmFields == IF olmKind = "subscription" THEN {"channel", "approval"} ELSE {"approval", "approved", "plan"}

Latest == Len(versions)
Obj == versions[shownAt]

DerivedUpdates(obj) == [waiting |-> FALSE, channel |-> obj.channel, approval |-> obj.approval]

NoPreview == [at |-> "none", needsApproval |-> FALSE]
NoDialog == [change |-> "none", of |-> 1, selected |-> "", busy |-> FALSE, error |-> FALSE]

SubscriptionOpens(kind, obj) ==
    /\ olmKind = kind
    /\ versions = <<obj>> /\ shownAt = 1 /\ updates = DerivedUpdates(obj)
    /\ preview = NoPreview /\ operatorDialog = NoDialog
    /\ operatorPut = [at |-> "none", of |-> 1, obj |-> obj, by |-> "none"]
    /\ answered = 0 /\ olmSaves = 0

SubscriptionInit ==
    \E kind \in {"subscription", "plan"}, obj \in OlmObject :
        obj.plan = "" /\ ~obj.approved /\ obj.channel = FirstChannel /\ SubscriptionOpens(kind, obj)

-----------------------------------------------------------------------------
(* The object *)

\* getDerivedStateFromProps.
NextUpdates(obj) ==
    IF updates.waiting /\ obj.channel = updates.channel /\ obj.approval = updates.approval
    THEN updates ELSE DerivedUpdates(obj)

\* Others, and the operator lifecycle manager, which resolves a plan.
OthersChangeObj ==
    /\ Latest < MaxOlmVersions
    /\ \E obj \in OlmObject :
         /\ obj # versions[Latest]
         /\ \E f \in OlmFields : obj = [versions[Latest] EXCEPT ![f] = obj[f]]
         /\ versions' = Append(versions, obj)
    /\ UNCHANGED <<olmKind, shownAt, updates, preview, operatorDialog, operatorPut, answered, olmSaves>>

\* The preview takes no notice of the object's approval.
ObjArrives ==
    /\ preview.at # "crashed" /\ shownAt < Latest
    /\ shownAt' = shownAt + 1
    /\ updates' = NextUpdates(versions[shownAt + 1])
    /\ UNCHANGED <<olmKind, versions, preview, operatorDialog, operatorPut, answered, olmSaves>>

\* The other lists of the page: packages and versions of operators.
OtherPropsArrive ==
    /\ preview.at # "crashed" /\ updates' = NextUpdates(Obj)
    /\ UNCHANGED <<olmKind, versions, shownAt, preview, operatorDialog, operatorPut, answered, olmSaves>>

-----------------------------------------------------------------------------
(* The links and dialogs of the subscription *)

OpenOperatorDialog(change) ==
    /\ olmKind = "subscription" /\ operatorDialog.change = "none" /\ ~updates.waiting
    /\ operatorDialog' = [NoDialog EXCEPT !.change = change, !.of = shownAt,
                            !.selected = IF change = "channel" THEN Obj.channel ELSE Obj.approval]
    /\ UNCHANGED <<olmKind, versions, shownAt, updates, preview, operatorPut, answered, olmSaves>>

SelectValue(value) ==
    /\ operatorDialog.change # "none"
    /\ value \in IF operatorDialog.change = "channel" THEN Channel ELSE Approval
    /\ operatorDialog' = [operatorDialog EXCEPT !.selected = value]
    /\ UNCHANGED <<olmKind, versions, shownAt, updates, preview, operatorPut, answered, olmSaves>>

\* A clone of the object the dialog was opened with, one field of it changed.
UpdatedObj ==
    IF operatorDialog.change = "channel"
    THEN [versions[operatorDialog.of] EXCEPT !.channel = operatorDialog.selected]
    ELSE [versions[operatorDialog.of] EXCEPT !.approval = operatorDialog.selected]

\* One request at a time here.
SubmitOperatorDialog ==
    /\ operatorDialog.change # "none" /\ ~operatorDialog.busy /\ operatorPut.at = "none"
    /\ olmSaves < MaxOlmSaves
    /\ operatorPut' = [at |-> "sent", of |-> operatorDialog.of, obj |-> UpdatedObj, by |-> "dialog"]
    /\ operatorDialog' = [operatorDialog EXCEPT !.busy = TRUE, !.error = FALSE]
    /\ olmSaves' = olmSaves + 1
    /\ UNCHANGED <<olmKind, versions, shownAt, updates, preview, answered>>

CancelOperatorDialog ==
    /\ operatorDialog.change # "none"
    /\ operatorDialog' = NoDialog
    /\ UNCHANGED <<olmKind, versions, shownAt, updates, preview, operatorPut, answered, olmSaves>>

-----------------------------------------------------------------------------
(* The install plan *)

\* The constructor.
ShowComponents ==
    /\ olmKind = "plan" /\ preview.at = "none"
    /\ preview' = [at |-> "shown", needsApproval |-> Obj.approval = "Manual" /\ ~Obj.approved]
    /\ UNCHANGED <<olmKind, versions, shownAt, updates, operatorDialog, operatorPut, answered, olmSaves>>

\* What is answered after that is for a component that is gone.
LeaveComponents ==
    /\ preview.at # "none"
    /\ preview' = NoPreview
    /\ operatorPut' = [operatorPut EXCEPT !.by = IF @ = "approve" THEN "gone" ELSE @]
    /\ UNCHANGED <<olmKind, versions, shownAt, updates, operatorDialog, answered, olmSaves>>

\* There is a button when the plan has steps.
ApprovePlan ==
    /\ preview.at = "shown" /\ preview.needsApproval /\ Obj.plan # ""
    /\ operatorPut.at = "none" /\ olmSaves < MaxOlmSaves
    /\ operatorPut' = [at |-> "sent", of |-> shownAt, obj |-> [Obj EXCEPT !.approved = TRUE], by |-> "approve"]
    /\ olmSaves' = olmSaves + 1
    /\ UNCHANGED <<olmKind, versions, shownAt, updates, preview, operatorDialog, answered>>

-----------------------------------------------------------------------------
(* The requests *)

IsCurrent == operatorPut.of = Latest

\* One that changes nothing makes no version.
ServerPuts ==
    /\ operatorPut.at = "sent"
    /\ \/ /\ IsCurrent
          /\ versions' = IF operatorPut.obj = versions[Latest] THEN versions ELSE Append(versions, operatorPut.obj)
          /\ operatorPut' = [operatorPut EXCEPT !.at = "stored", !.of = Len(versions')]
       \/ operatorPut' = [operatorPut EXCEPT !.at = "refusing"] /\ UNCHANGED versions
    /\ UNCHANGED <<olmKind, shownAt, updates, preview, operatorDialog, answered, olmSaves>>

\* k8sUpdateAndWait, then close, which closes whichever dialog is shown.  A
\* refused approval renders an Error and takes the page down.
PutAnswered ==
    /\ operatorPut.at \in {"stored", "refusing"}
    /\ operatorPut' = [operatorPut EXCEPT !.at = "none", !.by = "none"]
    /\ IF operatorPut.at = "stored"
       THEN /\ answered' = IF operatorPut.by = "dialog" THEN operatorPut.of ELSE answered
            /\ updates' = [updates EXCEPT !.waiting = @ \/ operatorPut.by = "dialog"]
            /\ operatorDialog' = IF operatorPut.by = "dialog" THEN NoDialog ELSE operatorDialog
            /\ preview' = [preview EXCEPT !.needsApproval = @ /\ operatorPut.by # "approve"]
       ELSE /\ operatorDialog' = IF operatorDialog.busy THEN [operatorDialog EXCEPT !.busy = FALSE, !.error = TRUE]
                                 ELSE operatorDialog
            /\ preview' = IF operatorPut.by = "approve" THEN [preview EXCEPT !.at = "crashed"] ELSE preview
            /\ UNCHANGED <<answered, updates>>
    /\ UNCHANGED <<olmKind, versions, shownAt, olmSaves>>

SubscriptionNext ==
    \/ OthersChangeObj \/ ObjArrives \/ OtherPropsArrive
    \/ OpenOperatorDialog("channel") \/ OpenOperatorDialog("approval")
    \/ (\E value \in Channel \cup Approval : SelectValue(value))
    \/ SubmitOperatorDialog \/ CancelOperatorDialog
    \/ ShowComponents \/ LeaveComponents \/ ApprovePlan
    \/ ServerPuts \/ PutAnswered

SubscriptionSpec == SubscriptionInit /\ [][SubscriptionNext]_subscriptionVars

-----------------------------------------------------------------------------
SubscriptionTypeOK ==
    /\ olmKind \in {"subscription", "plan"}
    /\ versions \in Seq(OlmObject) /\ shownAt \in 1 .. Latest /\ answered \in 0 .. Latest
    /\ updates \in [waiting : BOOLEAN, channel : Channel, approval : Approval]
    /\ preview.at \in {"none", "shown", "crashed"} /\ preview.needsApproval \in BOOLEAN
    /\ operatorDialog.change \in {"none", "channel", "approval"} /\ operatorDialog.of \in 1 .. Latest
    /\ operatorPut.at \in {"none", "sent", "stored", "refusing"} /\ operatorPut.obj \in OlmObject

\* While the links can be clicked, the object they show and hand to a dialog has what
\* this page saved last, so that one save never stands in the way of the next
\* (subscription.tsx:127-141).
LinksAreCurrent == ~updates.waiting => shownAt >= answered

\* A dialog changes one field, and the button approves the very plan that was shown:
\* nothing that others wrote is taken back (subscription-channel-modal.tsx:23-26,
\* install-plan.tsx:120).
ChangesOneField ==
    [][operatorPut.at = "sent" /\ operatorPut'.at = "stored" =>
         LET field == IF operatorPut.by = "dialog" THEN {"channel", "approval"} ELSE {"approved"}
             new == versions'[Len(versions')]
         IN  /\ \A f \in DOMAIN new \ field : new[f] = versions[Latest][f]
             /\ new.channel = versions[Latest].channel \/ new.approval = versions[Latest].approval]_subscriptionVars

-----------------------------------------------------------------------------
(***************************************************************************)
(* Pages of the operator lifecycle manager (src/frontend/public/components/*)
(* operator-lifecycle-manager/): the list of cluster service versions,     *)
(* which first finds out whether the namespace is enabled, and the         *)
(* resources of an instance of an operator, which are found by their       *)
(* owners in lists that load one by one.                                   *)
(***************************************************************************)

CONSTANTS
    ResourceKind,     \* the kinds of resources that are listed; one object of each
    MaxAnnotations    \* bound: changes of the namespace

ASSUME OperatorsAssumption ==
    /\ {"instance", "none"} \cap ResourceKind = {} /\ IsFiniteSet(ResourceKind) /\ MaxAnnotations \in Nat

VARIABLES
    gate,        \* the namespace and the lists of the store, seen by the page of versions
    firehose,    \* resources: the kinds in their order, what is in the lists
    owner        \* ownerReferences of the objects

operatorsVars == <<gate, firehose, owner>>

-----------------------------------------------------------------------------
(* The page of cluster service versions *)

NamespaceList == {"projects", "namespaces"}

GateOpens(isOpenshift, enabled) ==
    gate = [isOpenshift |-> isOpenshift, flag |-> "pending", enabled |-> enabled, wasDisabled |-> ~enabled,
            changes |-> 0, loaded |-> [l \in NamespaceList |-> FALSE], annotated |-> [l \in NamespaceList |-> FALSE]]

\* stateToProps.
FlagsList == IF gate.flag = "yes" THEN "projects" ELSE "namespaces"
GateLoading == gate.flag = "pending" \/ ~gate.loaded[FlagsList]
NamespaceEnabled == gate.annotated[FlagsList]

VersionsPage == IF GateLoading THEN "loading" ELSE IF NamespaceEnabled THEN "list" ELSE "disabled"

DetectFlag ==
    /\ gate.flag = "pending"
    /\ gate' = [gate EXCEPT !.flag = IF gate.isOpenshift THEN "yes" ELSE "no"]
    /\ UNCHANGED <<firehose, owner>>

\* The bar of the page, and the page of namespaces, watch one of the lists: it
\* loads, or an event changes it.
NamespacesLoad(l) ==
    /\ l = "projects" => gate.isOpenshift
    /\ gate' = [gate EXCEPT !.loaded[l] = TRUE, !.annotated[l] = gate.enabled]
    /\ UNCHANGED <<firehose, owner>>

NamespacesStop(l) ==
    /\ gate.loaded[l]
    /\ gate' = [gate EXCEPT !.loaded[l] = FALSE, !.annotated[l] = FALSE]
    /\ UNCHANGED <<firehose, owner>>

Annotate ==
    /\ gate.changes < MaxAnnotations
    /\ gate' = [gate EXCEPT !.enabled = ~@, !.wasDisabled = @ \/ gate.enabled, !.changes = @ + 1]
    /\ UNCHANGED <<firehose, owner>>

-----------------------------------------------------------------------------
(* The resources of an instance *)

\* ListOrders of the lists: the default one, or that of the descriptor in the version.
ListOrders == Injection(1 .. Cardinality(ResourceKind), ResourceKind)

\* flattenFor: one pass over the lists, in their order.
OwnedAfter[n \in 0 .. Len(firehose.order)] ==
    IF n = 0 THEN {}
    ELSE OwnedAfter[n - 1] \cup {o \in firehose.present : /\ o = firehose.order[n]
                                                        /\ owner[o] \in OwnedAfter[n - 1] \cup {"instance"}}

FlattenOwned == OwnedAfter[Len(firehose.order)]

\* A list loads, or an event adds to it or takes from it.
ResourceAppears(o) ==
    /\ firehose' = [firehose EXCEPT !.present = @ \cup {o}]
    /\ UNCHANGED <<gate, owner>>

ResourceGone(o) ==
    /\ o \in firehose.present
    /\ firehose' = [firehose EXCEPT !.present = @ \ {o}]
    /\ UNCHANGED <<gate, owner>>

InstanceOpens(order, owners) == firehose = [order |-> order, present |-> {}] /\ owner = owners

NoOwners == [o \in ResourceKind |-> "none"]

OperatorsInit ==
    \/ /\ \E isOpenshift \in BOOLEAN, enabled \in BOOLEAN : GateOpens(isOpenshift, enabled)
       /\ InstanceOpens(<<>>, NoOwners)
    \/ /\ GateOpens(FALSE, FALSE)
       /\ \E order \in ListOrders, owners \in [ResourceKind -> ResourceKind \cup {"instance", "none"}] :
            (\A o \in ResourceKind : owners[o] # o) /\ InstanceOpens(order, owners)

OperatorsNext ==
    \/ /\ firehose.order = <<>>
       /\ DetectFlag \/ Annotate \/ (\E l \in NamespaceList : NamespacesLoad(l) \/ NamespacesStop(l))
    \/ /\ firehose.order # <<>>
       /\ \E o \in ResourceKind : ResourceAppears(o) \/ ResourceGone(o)

OperatorsSpec == OperatorsInit /\ [][OperatorsNext]_operatorsVars

-----------------------------------------------------------------------------
OperatorsTypeOK ==
    /\ gate.flag \in {"pending", "yes", "no"} /\ gate.loaded \in [NamespaceList -> BOOLEAN]
    /\ gate.annotated \in [NamespaceList -> BOOLEAN] /\ firehose.present \subseteq ResourceKind
    /\ owner \in [ResourceKind -> ResourceKind \cup {"instance", "none"}]

\* A namespace is called disabled only if it was so while the page was open: not
\* for want of the flag or of the list (clusterserviceversion.tsx:71-80).
DisabledIsTrue == VersionsPage = "disabled" => gate.wasDisabled

\* What the instance owns among these, itself or through others: the least set with the
\* objects whose owners are in it.
OwnedIn(S) ==
    {o \in S : \A T \in SUBSET S : (\A x \in S : owner[x] \in T \cup {"instance"} => x \in T) => o \in T}

Before(a, b) == \E i, j \in DOMAIN firehose.order : i < j /\ firehose.order[i] = a /\ firehose.order[j] = b

\* The page shows nothing that the instance does not own, directly or not, and
\* all it owns when no list comes before that of its owners, as is so of the
\* default ones (k8s-resource.tsx:30-37).
OwnedAreShown ==
    /\ FlattenOwned \subseteq OwnedIn(firehose.present)
    /\ (\A o \in ResourceKind : owner[o] \in ResourceKind => Before(owner[o], o))
         => FlattenOwned = OwnedIn(firehose.present)
=============================================================================
