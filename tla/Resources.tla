----------------------------- MODULE Resources -----------------------------
(***************************************************************************)
(* The kinds of objects the console knows, the links, pages and forms of   *)
(* each, and how a kind is found under its reference, its plural or its    *)
(* name (src/frontend/public/models, module/k8s/k8s.ts and k8s-models.ts,  *)
(* kinds.ts, components/utils/resource-link.jsx, components/resource-list. *)
(* tsx, create-yaml.tsx).  Static kinds are described in the source; all   *)
(* that the server has are found by discovery, group by group.             *)
(***************************************************************************)
EXTENDS Integers, Sequences, FiniteSets

CONSTANT LateGroup  \* API groups that a discovery may miss, or that are installed later

VARIABLES
    stored,        \* RESOURCES.models of the store
    kindsInFlight, \* RESOURCES.inFlight
    place,         \* the address: the page, its scope and the part that names a kind
    meant,         \* history: the kinds (one or none) the user has asked for
    newObject      \* group, version and kind of the object in the form

resourceVars == <<stored, kindsInFlight, place, meant, newObject>>

-----------------------------------------------------------------------------
\* A kind is described with its group and version, its scope and whether it is
\* marked as a custom resource; names are pairs of a kind and its plural.
Kinds(group, version, namespaced, crd, names) ==
    {[group |-> group, version |-> version, kind |-> n[1], plural |-> n[2],
      namespaced |-> namespaced, crd |-> crd] : n \in names}

CustomModels ==
    UNION {Kinds("operators.coreos.com", "v1alpha1", TRUE, TRUE,
                 {<<"CatalogSource", "catalogsources">>, <<"ClusterServiceVersion", "clusterserviceversions">>,
                  <<"InstallPlan", "installplans">>, <<"Subscription", "subscriptions">>}),
           Kinds("etcd.database.coreos.com", "v1beta2", TRUE, TRUE, {<<"EtcdCluster", "etcdclusters">>}),
           Kinds("monitoring.coreos.com", "v1", TRUE, TRUE,
                 {<<"Prometheus", "prometheuses">>, <<"ServiceMonitor", "servicemonitors">>, <<"Alertmanager", "alertmanagers">>}),
           Kinds("multicluster.coreos.com", "v1", FALSE, TRUE, {<<"Cluster", "clusters">>}),
           Kinds("chargeback.coreos.com", "v1alpha1", TRUE, TRUE, {<<"Report", "reports">>})}

WorkloadModels ==
    UNION {Kinds("core", "v1", TRUE, FALSE,
                 {<<"Service", "services">>, <<"Pod", "pods">>, <<"ReplicationController", "replicationcontrollers">>,
                  <<"ServiceAccount", "serviceaccounts">>}),
           Kinds("core", "v1", FALSE, FALSE, {<<"Container", "containers">>}),
           Kinds("apps", "v1", TRUE, FALSE,
                 {<<"DaemonSet", "daemonsets">>, <<"ReplicaSet", "replicasets">>, <<"Deployment", "deployments">>}),
           Kinds("autoscaling", "v2beta1", TRUE, FALSE, {<<"HorizontalPodAutoscaler", "horizontalpodautoscalers">>}),
           Kinds("apps.openshift.io", "v1", TRUE, FALSE, {<<"DeploymentConfig", "deploymentconfigs">>})}

BuildModels ==
    UNION {Kinds("build.openshift.io", "v1", TRUE, FALSE, {<<"BuildConfig", "buildconfigs">>, <<"Build", "builds">>}),
           Kinds("image.openshift.io", "v1", TRUE, FALSE,
                 {<<"ImageStream", "imagestreams">>, <<"ImageStreamTag", "imagestreamtags">>}),
           Kinds("batch", "v1", TRUE, FALSE, {<<"Job", "jobs">>}),
           Kinds("core", "v1", FALSE, FALSE, {<<"Node", "nodes">>, <<"ComponentStatus", "componentstatuses">>}),
           Kinds("core", "v1", TRUE, FALSE, {<<"Event", "events">>})}

ProjectModels ==
    UNION {Kinds("core", "v1", FALSE, FALSE, {<<"Namespace", "namespaces">>}),
           Kinds("project.openshift.io", "v1", FALSE, FALSE,
                 {<<"Project", "projects">>, <<"ProjectRequest", "projectrequests">>}),
           Kinds("extensions", "v1beta1", TRUE, FALSE, {<<"Ingress", "ingresses">>}),
           Kinds("route.openshift.io", "v1", TRUE, FALSE, {<<"Route", "routes">>}),
           Kinds("core", "v1", TRUE, FALSE, {<<"ConfigMap", "configmaps">>, <<"Secret", "secrets">>}),
           Kinds("rbac.authorization.k8s.io", "v1", FALSE, FALSE,
                 {<<"ClusterRoleBinding", "clusterrolebindings">>, <<"ClusterRole", "clusterroles">>}),
           Kinds("rbac.authorization.k8s.io", "v1", TRUE, FALSE, {<<"RoleBinding", "rolebindings">>, <<"Role", "roles">>})}

ClusterModels ==
    UNION {Kinds("authorization.k8s.io", "v1", TRUE, FALSE, {<<"SelfSubjectAccessReview", "selfsubjectaccessreviews">>}),
           Kinds("tco.coreos.com", "v1", TRUE, FALSE,
                 {<<"TectonicVersion", "tectonicversions">>, <<"ChannelOperatorConfig", "channeloperatorconfigs">>,
                  <<"AppVersion", "appversions">>}),
           Kinds("core", "v1", FALSE, FALSE, {<<"PersistentVolume", "persistentvolumes">>, <<"Petset", "petsets">>}),
           Kinds("core", "v1", TRUE, FALSE,
                 {<<"PersistentVolumeClaim", "persistentvolumeclaims">>, <<"ResourceQuota", "resourcequotas">>}),
           Kinds("apps", "v1", TRUE, FALSE, {<<"StatefulSet", "statefulsets">>}),
           Kinds("networking.k8s.io", "v1", TRUE, FALSE, {<<"NetworkPolicy", "networkpolicies">>}),
           Kinds("apiextensions.k8s.io", "v1beta1", FALSE, FALSE, {<<"CustomResourceDefinition", "customresourcedefinitions">>})}

CatalogModels ==
    UNION {Kinds("batch", "v1beta1", TRUE, FALSE, {<<"CronJob", "cronjobs">>}),
           Kinds("storage.k8s.io", "v1", FALSE, FALSE, {<<"StorageClass", "storageclasses">>}),
           Kinds("servicecatalog.k8s.io", "v1beta1", FALSE, FALSE,
                 {<<"ClusterServiceBroker", "clusterservicebrokers">>, <<"ClusterServiceClass", "clusterserviceclasses">>,
                  <<"ClusterServicePlan", "clusterserviceplans">>}),
           Kinds("servicecatalog.k8s.io", "v1beta1", TRUE, FALSE,
                 {<<"ServiceInstance", "serviceinstances">>, <<"ServiceBinding", "servicebindings">>}),
           Kinds("core", "v1", TRUE, FALSE, {<<"LimitRange", "limitranges">>}),
           Kinds("apiregistration.k8s.io", "v1", FALSE, TRUE, {<<"APIService", "apiservices">>})}

VirtualMachineModels ==
    Kinds("kubevirt.io", "v1alpha2", TRUE, FALSE,
          {<<"VirtualMachine", "virtualmachines">>, <<"VirtualMachineInstance", "virtualmachineinstances">>,
           <<"VirtualMachineInstancePreset", "virtualmachineinstancepresets">>})

Static == UNION {CustomModels, WorkloadModels, BuildModels, ProjectModels, ClusterModels, CatalogModels, VirtualMachineModels}

\* Kinds without a static model: two of one name, one with the name of a static
\* kind, older and newer versions of static kinds, a kind of a static group.
OtherKinds ==
    UNION {Kinds("a.example", "v1", TRUE, TRUE, {<<"Widget", "widgets">>}),
           Kinds("b.example", "v1", FALSE, TRUE, {<<"Widget", "widgets">>}),
           Kinds("serving.knative.dev", "v1", TRUE, TRUE, {<<"Service", "services">>}),
           Kinds("extensions", "v1beta1", TRUE, TRUE, {<<"Deployment", "deployments">>}),
           Kinds("autoscaling", "v1", TRUE, TRUE, {<<"HorizontalPodAutoscaler", "horizontalpodautoscalers">>}),
           Kinds("chargeback.coreos.com", "v1alpha1", TRUE, TRUE, {<<"ReportGenerationQuery", "reportgenerationqueries">>})}

ServerKinds == {m \in Static : m.kind \notin {"Container", "Petset"}} \cup OtherKinds

-----------------------------------------------------------------------------
\* "group:version:Kind", and the two other names a kind may be looked up by.
ReferenceForModel(m) == <<m.group, m.version, m.kind>>
IsGroupVersionKind(ref) == Len(ref) = 3
KindForReference(ref) == <<ref[Len(ref)]>>

\* k8sModels and the reducer: static kinds that are not custom are kept under
\* their kind alone, in the store too.
KeyOf(m) ==
    IF \E s \in Static : ~s.crd /\ ReferenceForModel(s) = ReferenceForModel(m) THEN <<m.kind>> ELSE ReferenceForModel(m)

StaticAt(ref) == {m \in Static : (IF m.crd THEN ReferenceForModel(m) ELSE <<m.kind>>) = ref}

StoredAt(ref) == {m \in stored : KeyOf(m) = ref}

\* What a discovery that reaches these groups adds: what is there stays.
Discovered(groups) == {m \in ServerKinds : m.group \notin LateGroup \/ m.group \in groups}

OrElse(a, b) == IF a # {} THEN a ELSE b

ModelFor(ref) ==
    OrElse(StaticAt(ref), OrElse(StaticAt(KindForReference(ref)), OrElse(StoredAt(ref), StoredAt(KindForReference(ref)))))

\* connectToModel.
ConnectedModel(ref) == OrElse(StoredAt(ref), StoredAt(KindForReference(ref)))

\* connectToPlural: a part of an address is a reference or a plural.
PluralModel(part) == IF IsGroupVersionKind(part) THEN StoredAt(part) ELSE {m \in Static : <<m.plural>> = part}
ModelRef(part) == IF IsGroupVersionKind(part) THEN {part} ELSE {<<m.kind>> : m \in PluralModel(part)}

-----------------------------------------------------------------------------
HomePage == [page |-> "home", scope |-> "none", part |-> <<>>]

\* Fault: custom resources are named by their plural too.
ResourcePath_Plural(page, m, inNamespace) ==
    [page |-> page, part |-> <<m.plural>>,
     scope |-> IF ~m.namespaced THEN "cluster" ELSE IF inNamespace THEN "namespace" ELSE "all"]

ResourcePath(page, m, inNamespace) ==
    [page |-> page, part |-> IF m.crd THEN ReferenceForModel(m) ELSE <<m.plural>>,
     scope |-> IF ~m.namespaced THEN "cluster" ELSE IF inNamespace THEN "namespace" ELSE "all"]

\* The model a page is shown for; the search page is given a reference.
ModelOf(v) ==
    CASE v.page = "home" -> {}
      [] v.page = "search" -> ConnectedModel(v.part)
      [] OTHER -> PluralModel(v.part)

\* The kind a page hands to its list or its object, and what is watched for it.
KindOf(v) ==
    IF v.page = "search" THEN {IF m.crd THEN ReferenceForModel(m) ELSE <<m.kind>> : m \in ModelOf(v)} ELSE ModelRef(v.part)
Watched(v) == UNION {StoredAt(kind) : kind \in IF v.page = "home" THEN {} ELSE KindOf(v)}

\* Kinds with a list page of their own: those whose button opens the form of a new
\* object, and those without one.
OwnCreate ==
    {"Cluster", "ClusterServiceBroker", "ConfigMap", "DaemonSet", "DeploymentConfig", "Deployment", "BuildConfig",
     "ImageStream", "Job", "CronJob", "NetworkPolicy", "Pod", "ReplicaSet", "ReplicationController", "Secret",
     "ServiceAccount", "Service", "Ingress", "Route", "Role", "Prometheus", "ServiceMonitor", "StatefulSet",
     "ResourceQuota", "LimitRange", "HorizontalPodAutoscaler", "PersistentVolume", "PersistentVolumeClaim", "Report",
     "ReportGenerationQuery", "StorageClass", "CustomResourceDefinition", "VirtualMachine"}
OwnPageOnly ==
    {"ClusterServiceClass", "ClusterServicePlan", "Build", "Project", "Namespace", "Node", "ServiceInstance", "ServiceBinding",
     "RoleBinding", "Alertmanager", "ClusterServiceVersion", "CatalogSource", "Subscription", "InstallPlan"}

\* The pages are found by reference: a kind of the same name has the default page,
\* where only custom resources are created.  Pages below the list of definitions are
\* default pages.
CanCreate(v, m) ==
    LET own(kinds) == m.kind \in kinds /\ (m \in Static \/ m.kind = "ReportGenerationQuery") /\ v.page # "crd"
    IN own(OwnCreate) \/ (~own(OwnPageOnly) /\ m.crd)

-----------------------------------------------------------------------------
\* yamlTemplates: what its samples say they are.  Every sample of a kind is of the
\* kind, its group and its version.
PolicyTemplates == {<<"networking.k8s.io", "v1", "NetworkPolicy">>, <<"build.openshift.io", "v1", "BuildConfig">>}

WorkloadTemplates ==
    {<<"chargeback.coreos.com", "v1alpha1", "Report">>, <<"apps", "v1", "Deployment">>,
     <<"multicluster.coreos.com", "v1", "Cluster">>, <<"core", "v1", "ConfigMap">>, <<"batch", "v1beta1", "CronJob">>,
     <<"apiextensions.k8s.io", "v1beta1", "CustomResourceDefinition">>, <<"apps.openshift.io", "v1", "DeploymentConfig">>,
     <<"core", "v1", "PersistentVolume">>, <<"autoscaling", "v2beta1", "HorizontalPodAutoscaler">>}

ServiceTemplates ==
    {<<"core", "v1", "Pod">>, <<"extensions", "v1beta1", "Ingress">>, <<"batch", "v1", "Job">>,
     <<"image.openshift.io", "v1", "ImageStream">>, <<"rbac.authorization.k8s.io", "v1", "RoleBinding">>,
     <<"rbac.authorization.k8s.io", "v1", "Role">>, <<"core", "v1", "Service">>}

StorageTemplates ==
    {<<"apps", "v1", "DaemonSet">>, <<"core", "v1", "PersistentVolumeClaim">>, <<"core", "v1", "ResourceQuota">>,
     <<"core", "v1", "LimitRange">>, <<"apps", "v1", "StatefulSet">>, <<"storage.k8s.io", "v1", "StorageClass">>,
     <<"core", "v1", "ServiceAccount">>, <<"core", "v1", "Secret">>, <<"apps", "v1", "ReplicaSet">>,
     <<"route.openshift.io", "v1", "Route">>}

ControllerTemplates ==
    {<<"core", "v1", "ReplicationController">>, <<"servicecatalog.k8s.io", "v1beta1", "ClusterServiceBroker">>}

Templates == UNION {PolicyTemplates, WorkloadTemplates, ServiceTemplates, StorageTemplates, ControllerTemplates}

\* The samples beside the form, by the kind of the object in it.
Samples(kind) ==
    CASE kind \in {"Role", "ClusterRole"} ->
           {<<"rbac.authorization.k8s.io", "v1", "Role">>, <<"rbac.authorization.k8s.io", "v1", "ClusterRole">>}
      [] kind \in {"BuildConfig", "NetworkPolicy", "ResourceQuota"} -> {t \in Templates : t[3] = kind}
      [] OTHER -> {}

\* What the tables above say, which TLC evaluates: a reference is of one kind, and in the
\* source a name and a plural too; the other kinds are custom, and no name of theirs is one
\* of the two that no server has; a sample is of a kind that a server has.
ASSUME KindsAreDistinct ==
    /\ \A m, n \in Static \cup OtherKinds : ReferenceForModel(m) = ReferenceForModel(n) => m = n
    /\ \A s, t \in Static : s.kind = t.kind \/ s.plural = t.plural => s = t
    /\ \A m \in OtherKinds : m.crd /\ m.kind \notin {"Container", "Petset"}
    /\ \A m \in ServerKinds : \A t \in Samples(m.kind) : \E n \in ServerKinds : t[3] = n.kind

NoObject == <<"", "", "">>

\* The object the form starts with: a template's, or an empty one, of the kind asked
\* for; only custom resources are given their apiVersion.
NewObject(m) ==
    IF ReferenceForModel(m) \in Templates \/ m.crd THEN ReferenceForModel(m) ELSE <<"", "", m.kind>>

-----------------------------------------------------------------------------
\* Kinds the search offers: of a kind with several versions the preferred one, and
\* not the copies the console knows of.
Blacklisted(m) == m.group = "extensions" /\ m.kind \in {"DaemonSet", "Deployment", "NetworkPolicy", "ReplicaSet"}
Preferred(m) == <<m.group, m.version>> \notin {<<"autoscaling", "v2beta1">>, <<"batch", "v1beta1">>, <<"core", "v1">>}
Offered ==
    {m \in stored : /\ ~Blacklisted(m)
                    /\ ~\E n \in stored : n.group = m.group /\ n.kind = m.kind /\ n.version # m.version /\ Preferred(n)}

\* A page loaded at its address, kept from an earlier visit, before any discovery has ended.
ResourceOpens(v, m) ==
    /\ stored = {} /\ kindsInFlight = TRUE
    /\ place = v /\ meant = m /\ newObject = NoObject
ResourceInit ==
    \/ ResourceOpens(HomePage, {})
    \/ \E m \in ServerKinds, page \in {"list", "details", "new"} : ResourceOpens(ResourcePath(page, m, TRUE), {m})

\* The link to an object of this kind, which the page has by its kind alone or by
\* its reference (an owner's, a definition's).
FollowKindLink ==
    /\ place = HomePage /\ ~kindsInFlight
    /\ \E m \in ServerKinds, byKind \in BOOLEAN, page \in {"list", "details"}, inNamespace \in BOOLEAN :
          /\ byKind => m \in Static /\ ~m.crd
          /\ \E found \in ModelFor(IF byKind THEN <<m.kind>> ELSE ReferenceForModel(m)) :
                place' = ResourcePath(page, found, inNamespace)
          /\ meant' = {m}
    /\ UNCHANGED <<stored, kindsInFlight, newObject>>

\* Edit in the menu of an object.
FollowCog ==
    /\ place = HomePage
    /\ \E m \in ServerKinds :
          /\ \E k \in ConnectedModel(ReferenceForModel(m)) :
                \E found \in ModelFor(IF k.crd THEN ReferenceForModel(k) ELSE <<k.kind>>) :
                   place' = ResourcePath("details", found, TRUE)
          /\ meant' = {m}
    /\ UNCHANGED <<stored, kindsInFlight, newObject>>

\* The list of custom resource definitions links to the objects of each, those of
\* kinds that the source describes without its mark included.
Defined == {m \in stored : m.group \notin {"core", "apps", "extensions", "autoscaling", "batch", "apiregistration.k8s.io"}
                          /\ (m.crd \/ m.group \in {"tco.coreos.com", "kubevirt.io"})}
FollowDefinition ==
    /\ place = HomePage
    /\ \E m \in Defined :
          /\ place' = [page |-> "crd", scope |-> "all", part |-> ReferenceForModel(m)]
          /\ meant' = {m}
    /\ UNCHANGED <<stored, kindsInFlight, newObject>>

PickKind ==
    /\ place = HomePage
    /\ \E m \in Offered :
          /\ place' = [page |-> "search", scope |-> "none", part |-> ReferenceForModel(m)]
          /\ meant' = {m}
    /\ UNCHANGED <<stored, kindsInFlight, newObject>>

\* The create button, whose link is built from the model of the kind of the list.
PressCreate ==
    /\ place.page \in {"list", "crd", "search"} /\ ModelOf(place) # {}
    /\ \E kind \in KindOf(place) :
          \E m \in ModelFor(kind) : CanCreate(place, m) /\ place' = ResourcePath("new", m, TRUE)
    /\ UNCHANGED <<stored, kindsInFlight, meant, newObject>>

\* CreateYAML waits for the kind, then the editor loads what it is given, once.
FormOpens ==
    /\ place.page = "new" /\ newObject = NoObject
    /\ \E m \in ModelOf(place) : newObject' = NewObject(m)
    /\ UNCHANGED <<stored, kindsInFlight, place, meant>>

LoadSample ==
    /\ place.page = "new" /\ newObject # NoObject
    /\ newObject' \in Samples(newObject[3])
    /\ UNCHANGED <<stored, kindsInFlight, place, meant>>

\* The editor finds the kind by the object's reference, else by its kind; after it
\* is created the object's page is opened.
SubmitNew ==
    /\ place.page = "new" /\ newObject # NoObject /\ newObject[2] # ""
    /\ \E m \in OrElse(StoredAt(newObject), StoredAt(KindForReference(newObject))) : meant' = {m}
    /\ \E found \in ModelFor(newObject) : place' = ResourcePath("details", found, TRUE)
    /\ newObject' = NoObject
    /\ UNCHANGED <<stored, kindsInFlight>>

DiscoveryStarts ==
    /\ place = HomePage
    /\ ~kindsInFlight /\ kindsInFlight' = TRUE
    /\ UNCHANGED <<stored, place, meant, newObject>>

DiscoveryAnswers ==
    /\ kindsInFlight /\ kindsInFlight' = FALSE
    /\ \E groups \in SUBSET LateGroup : stored' = stored \cup Discovered(groups)
    /\ UNCHANGED <<place, meant, newObject>>

LeaveResource ==
    /\ place # HomePage /\ place' = HomePage
    /\ meant' = {} /\ newObject' = NoObject
    /\ UNCHANGED <<stored, kindsInFlight>>

ResourceNext ==
    \/ FollowKindLink \/ FollowCog \/ FollowDefinition \/ PickKind
    \/ PressCreate \/ FormOpens \/ LoadSample \/ SubmitNew
    \/ DiscoveryStarts \/ DiscoveryAnswers \/ LeaveResource

ResourceTypeOK ==
    /\ stored \subseteq ServerKinds /\ kindsInFlight \in BOOLEAN
    /\ place.page \in {"home", "list", "details", "crd", "search", "new"}
    /\ place.scope \in {"none", "cluster", "namespace", "all"} /\ Len(place.part) <= 3
    /\ meant \subseteq ServerKinds
    /\ newObject = NoObject \/ \E m \in ServerKinds : newObject[3] = m.kind

-----------------------------------------------------------------------------
\* A kind of another group or version with the name of a kind of the source that is
\* kept under its name: modelFor finds the latter (k8s-models.ts:29).
Shadowed(m) == \E s \in Static : ~s.crd /\ s.kind = m.kind /\ ReferenceForModel(s) # ReferenceForModel(m)

\* A custom kind that the source does not mark as one is kept under its name, where the
\* link of its definition does not find it (custom-resource-definition.tsx:30).
KeptByName(m) == place.page = "crd" /\ ~m.crd

\* Links, menus, searches and addresses lead to the kind they stand for, and its objects
\* are watched as soon as the server is known to have it: a kind is linked by its plural or
\* its reference (resource-link.jsx:13), looked up in the source or in the store, there by
\* its name or by its reference (kinds.ts:37), and watched under a key that must be the
\* store's (firehose.jsx:120).
LinksLeadHome ==
    \A m \in meant :
       ~Shadowed(m) =>
          /\ \A n \in ModelOf(place) \cup Watched(place) : ReferenceForModel(n) = ReferenceForModel(m)
          /\ m \in stored /\ ~KeptByName(m) => Watched(place) # {}

\* The form a create button opens holds an object of the kind of its list, or a sample of
\* its sidebar; its apiVersion is the kind's, unless the kind has no template and is not
\* marked as custom (create-yaml.tsx:37): then there is none, and it cannot be saved.
NewObjectIsOfItsKind ==
    \A m \in meant :
       newObject # NoObject /\ ~Shadowed(m) =>
          \/ newObject \in {ReferenceForModel(m)} \cup Samples(m.kind)
          \/ newObject = <<"", "", m.kind>> /\ ~m.crd

KindsAreKept == LinksLeadHome /\ NewObjectIsOfItsKind
=============================================================================
