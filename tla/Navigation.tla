----------------------------- MODULE Navigation -----------------------------
(***************************************************************************)
(* The navigation at the side (src/frontend/public/components/nav.jsx):    *)
(* its sections keep, each for itself, whether they are folded out and     *)
(* which of their links the location belongs to.  A path is the sequence   *)
(* of its segments.                                                        *)
(***************************************************************************)
EXTENDS FiniteSets, Sequences, SequencesExt, Selections

CONSTANTS
    NavSection,  \* the sections looked at, of DOMAIN SectionLinks
    Detectable,  \* the sets of monitoring routes that a cluster may have
    NavFlag      \* the flags that are looked at: they are pending at first

VARIABLES
    navPath,    \* UI.location
    navNs,      \* UI.activeNamespace
    navFlags,   \* the flags of the store
    urls,       \* the monitoring routes found so far
    detected,   \* the routes that there are, which are told in order
    sections,   \* the state of every NavSection
    menuOpen    \* Nav's isOpen

navVars == <<navPath, navNs, navFlags, urls, detected, sections, menuOpen>>

MonitoringRoute == <<"prometheus-k8s", "alertmanager-main", "grafana">>

\* flags.get: what is not looked at is set.
FlagValue(f) == IF f \in NavFlag THEN navFlags[f] ELSE "set"

-----------------------------------------------------------------------------
\* The links, with the props that isActive and render look at.
Link(type, name, to) ==
    [type |-> type, name |-> name, to |-> to, model |-> <<>>, startsWith |-> {}, required |-> "", disallowed |-> ""]
ResourceNSLink(name, resource) == Link("namespaced", name, <<resource>>)
ResourceClusterLink(name, resource) == Link("cluster", name, <<resource>>)
HrefLink(name, href) == Link("href", name, href)
ExternalLink(name, route) == Link("external", name, <<"https:", "", route>>)

Requires(link, flag) == [link EXCEPT !.required = flag]
WithStarts(link, resources) == [link EXCEPT !.startsWith = {<<r>> : r \in resources}]
OfModel(name, plural, reference) == [ResourceNSLink(name, plural) EXCEPT !.model = <<reference>>]

\* Nav.render.
SectionLinks ==
    [Home |-> <<
        HrefLink("Status", <<"status">>),
        WithStarts(HrefLink("Search", <<"search">>), {"search"}),
        ResourceNSLink("Events", "events")>>,
     Operators |-> <<
        OfModel("Cluster Service Versions", "clusterserviceversions", "operators.coreos.com:v1alpha1:ClusterServiceVersion"),
        OfModel("Catalog Sources", "catalogsources", "operators.coreos.com:v1alpha1:CatalogSource"),
        OfModel("Subscriptions", "subscriptions", "operators.coreos.com:v1alpha1:Subscription"),
        OfModel("Install Plans", "installplans", "operators.coreos.com:v1alpha1:InstallPlan")>>,
     Workloads |-> <<
        ResourceNSLink("Pods", "pods"), ResourceNSLink("Deployments", "deployments"),
        Requires(ResourceNSLink("Deployment Configs", "deploymentconfigs"), "OPENSHIFT"),
        ResourceNSLink("Stateful Sets", "statefulsets"), ResourceNSLink("Secrets", "secrets"),
        ResourceNSLink("Config Maps", "configmaps"), ResourceNSLink("Cron Jobs", "cronjobs"),
        ResourceNSLink("Jobs", "jobs"), ResourceNSLink("Daemon Sets", "daemonsets"),
        ResourceNSLink("Replica Sets", "replicasets"),
        ResourceNSLink("Replication Controllers", "replicationcontrollers"),
        ResourceNSLink("HPAs", "horizontalpodautoscalers")>>,
     Networking |-> <<
        ResourceNSLink("Services", "services"), Requires(ResourceNSLink("Routes", "routes"), "OPENSHIFT"),
        ResourceNSLink("Ingress", "ingresses"), ResourceNSLink("Network Policies", "networkpolicies")>>,
     Storage |-> <<
        Requires(ResourceClusterLink("Persistent Volumes", "persistentvolumes"), "CAN_LIST_PV"),
        ResourceNSLink("Persistent Volume Claims", "persistentvolumeclaims"),
        Requires(ResourceClusterLink("Storage Classes", "storageclasses"), "CAN_LIST_STORE")>>,
     Builds |-> <<
        Requires(ResourceNSLink("Build Configs", "buildconfigs"), "OPENSHIFT"),
        Requires(ResourceNSLink("Builds", "builds"), "OPENSHIFT"),
        Requires(WithStarts(ResourceNSLink("Image Streams", "imagestreams"), {"imagestreams", "imagestreamtags"}), "OPENSHIFT")>>,
     Catalog |-> <<
        ResourceClusterLink("Service Brokers", "clusterservicebrokers"),
        ResourceClusterLink("Service Classes", "clusterserviceclasses"),
        ResourceNSLink("Service Instances", "serviceinstances"),
        ResourceNSLink("Service Bindings", "servicebindings")>>,
     Monitoring |-> <<
        HrefLink("Alerts", <<"monitoring", "alerts">>), ExternalLink("Metrics", "prometheus-k8s"),
        ExternalLink("Alertmanager", "alertmanager-main"), ExternalLink("Dashboards", "grafana")>>,
     Administration |-> <<
        Requires(ResourceClusterLink("Projects", "projects"), "OPENSHIFT"),
        Requires(ResourceClusterLink("Namespaces", "namespaces"), "CAN_LIST_NS"),
        Requires(ResourceClusterLink("Nodes", "nodes"), "CAN_LIST_NODE"),
        [HrefLink("Cluster Settings", <<"settings", "cluster">>) EXCEPT
            !.startsWith = {<<"settings", "cluster">>, <<"settings", "ldap">>}, !.disallowed = "OPENSHIFT"],
        ResourceNSLink("Service Accounts", "serviceaccounts"),
        WithStarts(ResourceNSLink("Roles", "roles"), {"roles", "clusterroles"}),
        WithStarts(ResourceNSLink("Role Bindings", "rolebindings"), {"rolebindings", "clusterrolebindings"}),
        ResourceNSLink("Resource Quotas", "resourcequotas"), ResourceNSLink("Limit Ranges", "limitranges"),
        [ResourceNSLink("Chargeback", "chargeback.coreos.com:v1alpha1:Report") EXCEPT !.disallowed = "OPENSHIFT"],
        Requires(ResourceClusterLink("CRDs", "customresourcedefinitions"), "CAN_LIST_CRD")>>,
     User |-> <<HrefLink("My Account", <<"settings", "profile">>)>>]

ASSUME NavigationAssumption ==
    /\ NavSection \subseteq DOMAIN SectionLinks
    /\ \A found \in Detectable : found \subseteq ToSet(MonitoringRoute)

\* The flag without which a section is not drawn.
SectionRequires ==
    [s \in DOMAIN SectionLinks |->
        CASE s = "Operators" -> "OPERATOR_LIFECYCLE_MANAGER" [] s = "Catalog" -> "SERVICE_CATALOG" [] OTHER -> ""]

\* The children of a section: MonitoringNavSection_ and UserNavSection leave some out.
Children(s, found, flags) ==
    CASE s = "Monitoring" ->
            Among(SectionLinks[s], {link \in ToSet(SectionLinks[s]) :
                                       IF link.type = "external" THEN link.to[3] \in found
                                       ELSE "prometheus-k8s" \in found})
      [] s = "User" -> IF "OPENSHIFT" \in NavFlag /\ flags["OPENSHIFT"] = "unset" THEN SectionLinks[s] ELSE <<>>
      [] OTHER -> SectionLinks[s]

\* Whether there is a NavSection at all; what it draws is another matter.
HasSection(s, found, flags) ==
    CASE s = "Monitoring" -> found # {}
      [] s = "User" -> \A f \in NavFlag : /\ f = "AUTH_ENABLED" => flags[f] = "set"
                                          /\ f = "OPENSHIFT" => flags[f] # "pending"
      [] OTHER -> TRUE

-----------------------------------------------------------------------------
\* stripNS.
StripNS(p) ==
    LET inner == IF p # <<>> /\ p[1] = "k8s" THEN Tail(p) ELSE p
    IN  IF inner = <<>> THEN inner
        ELSE IF inner[1] \in {"cluster", "all-namespaces"} THEN Tail(inner)
        ELSE IF inner[1] = "ns" /\ Len(inner) > 1 THEN SubSeq(inner, 3, Len(inner)) ELSE inner

\* isActive, or startsWith in its place.
IsActive(link, resourcePath) ==
    IF link.startsWith # {} THEN \E prefix \in link.startsWith : IsPrefix(prefix, resourcePath)
    ELSE IsPrefix(link.to, resourcePath) \/ (link.model # <<>> /\ IsPrefix(link.model, resourcePath))

\* getActiveChild, "" for none; without children it compares with "undefined".
GetActiveChild(links, p) ==
    LET active == Among(links, {link \in ToSet(links) : IsActive(link, StripNS(p))})
    IN  IF active = <<>> THEN "" ELSE active[1].name

NoNavSection == [mounted |-> FALSE, isOpen |-> FALSE, activeChild |-> ""]

\* The constructor.
Constructed(links, p) ==
    [mounted |-> TRUE, isOpen |-> GetActiveChild(links, p) # "", activeChild |-> GetActiveChild(links, p)]

\* componentDidUpdate with a new location.
DidUpdate(section, links, p) ==
    LET child == GetActiveChild(links, p)
    IN  [section EXCEPT !.activeChild = child, !.isOpen = @ \/ (child # "" /\ section.activeChild = "")]

\* `to` of a link, for the active namespace.
TargetIn(link, ns) ==
    CASE link.type = "namespaced" ->
            (IF ns = "#ALL_NS#" THEN <<"k8s", "all-namespaces">> ELSE <<"k8s", "ns", ns>>) \o link.to
      [] link.type = "cluster" -> <<"k8s", "cluster">> \o link.to
      [] OTHER -> link.to
Target(link) == TargetIn(link, navNs)

\* The links that are drawn in a section that is.
CanRender(s) == sections[s].mounted /\ (SectionRequires[s] = "" \/ FlagValue(SectionRequires[s]) = "set")
IsDrawn(link) ==
    /\ link.required # "" => FlagValue(link.required) = "set"
    /\ link.disallowed # "" => FlagValue(link.disallowed) = "unset"
DrawnLinks(s) == {link \in ToSet(Children(s, urls, navFlags)) : CanRender(s) /\ IsDrawn(link)}

-----------------------------------------------------------------------------
AllLinks == UNION {ToSet(SectionLinks[s]) : s \in DOMAIN SectionLinks}

\* Pages of the console: those of these links, pages below them, and others.
LocationsOf(links) ==
    {link.to : link \in {l \in links : l.type = "href"}}
        \cup {<<"k8s", "ns", "n1">> \o link.to \o <<"x">> : link \in {l \in links : l.type = "namespaced"}}
        \cup {<<"k8s", "cluster">> \o link.to : link \in {l \in links : l.type = "cluster"}}
        \cup {<<"settings", "ldap">>, <<"monitoring", "alerts", "rules", "x">>, <<"k8s", "cluster", "clusterroles", "x">>,
              <<"k8s", "ns", "n1", "operators.coreos.com:v1alpha1:Subscription">>, <<"search", "ns", "n1">>,
              <<"k8s", "all-namespaces", "events">>, <<"start-guide">>}

\* Those of the sections looked at.
NavLocations == LocationsOf(UNION {ToSet(SectionLinks[s]) : s \in NavSection})

\* Every page that the browser may be at, and what the tables above say of them, which TLC
\* evaluates: a page is that of one link at most, and not of one to another site; and every
\* other link is the one of the page that it goes to.
NavNamespaces == {"#ALL_NS#", "n1"}
InnerLinks == {link \in AllLinks : link.type # "external"}
AnyLocation == LocationsOf(AllLinks) \cup {TargetIn(link, ns) : link \in InnerLinks, ns \in NavNamespaces}

ASSUME LinksAreOfOnePage ==
    /\ \A p \in AnyLocation : LET here == {link \in AllLinks : IsActive(link, StripNS(p))}
                              IN  here \subseteq InnerLinks /\ \A one, other \in here : one = other
    /\ \A link \in InnerLinks, ns \in NavNamespaces : IsActive(link, StripNS(TargetIn(link, ns)))
    /\ \A p \in AnyLocation : p \in Seq(STRING) /\ (Len(p) > 2 /\ p[2] = "ns" => p[3] \in NavNamespaces)

\* The namespace of a path (ui-reducers.js:42), if it has one.
NsOf(p) ==
    IF Len(p) > 1 /\ p[2] = "all-namespaces" THEN "#ALL_NS#"
    ELSE IF Len(p) > 2 /\ p[2] = "ns" THEN p[3] ELSE navNs

\* A nav that is not looked at, and the first one of a page.
NavOpens(p) ==
    /\ navPath = p /\ navNs = "n1" /\ urls = {} /\ menuOpen = FALSE
    /\ navFlags = [f \in NavFlag |-> "pending"]
    /\ sections = [s \in NavSection |->
                     IF HasSection(s, {}, navFlags) THEN Constructed(Children(s, {}, navFlags), p) ELSE NoNavSection]

NavInit == detected \in Detectable /\ \E p \in NavLocations : NavOpens(p)

\* The browser is at another page.
Arrives(p) ==
    /\ navPath' = p /\ navNs' = NsOf(p)
    /\ sections' = IF p = navPath THEN sections
                   ELSE [s \in NavSection |->
                           IF sections[s].mounted THEN DidUpdate(sections[s], Children(s, urls, navFlags), p) ELSE sections[s]]

\* A link of the page, the address bar or the history is followed.
GoesTo(p) == Arrives(p) /\ UNCHANGED <<navFlags, urls, detected, menuOpen>>

\* A link of the navigation is clicked, which a folded section has none of.
FollowsNavLink(s, link) ==
    /\ sections[s].isOpen /\ link \in DrawnLinks(s)
    /\ IF link.type = "external" THEN UNCHANGED <<navPath, navNs, sections>> ELSE Arrives(Target(link))
    /\ menuOpen' = FALSE
    /\ UNCHANGED <<navFlags, urls, detected>>

\* NavSection.toggle_.
TogglesSection(s) ==
    /\ CanRender(s)
    /\ sections' = [sections EXCEPT ![s].isOpen = ~@]
    /\ UNCHANGED <<navPath, navNs, navFlags, urls, detected, menuOpen>>

TogglesMenu == menuOpen' = ~menuOpen /\ UNCHANGED <<navPath, navNs, navFlags, urls, detected, sections>>

\* Sections that have their flag or route now are mounted.
SectionsWith(found, flags) ==
    [s \in NavSection |->
        IF sections[s].mounted \/ ~HasSection(s, found, flags) THEN sections[s]
        ELSE Constructed(Children(s, found, flags), navPath)]

FlagIsDetected(f) ==
    /\ navFlags[f] = "pending"
    /\ \E value \in {"set", "unset"} : navFlags' = [navFlags EXCEPT ![f] = value]
    /\ sections' = SectionsWith(urls, navFlags')
    /\ UNCHANGED <<navPath, navNs, urls, detected, menuOpen>>

\* detectMonitoringURLs, one dispatch after the other.
UrlIsFound ==
    \E i \in DOMAIN MonitoringRoute :
        /\ MonitoringRoute[i] \in detected \ urls
        /\ \A j \in 1 .. i - 1 : MonitoringRoute[j] \in detected => MonitoringRoute[j] \in urls
        /\ urls' = urls \cup {MonitoringRoute[i]}
        /\ sections' = SectionsWith(urls', navFlags)
        /\ UNCHANGED <<navPath, navNs, navFlags, detected, menuOpen>>

NavNext ==
    \/ UrlIsFound \/ TogglesMenu
    \/ \E p \in NavLocations : GoesTo(p)
    \/ \E s \in NavSection :
          \/ TogglesSection(s)
          \/ \E link \in ToSet(SectionLinks[s]) : FollowsNavLink(s, link)
    \/ \E f \in NavFlag : FlagIsDetected(f)

-----------------------------------------------------------------------------
NavTypeOK ==
    /\ navPath \in Seq(STRING) /\ navNs \in NavNamespaces
    /\ navFlags \in [NavFlag -> {"pending", "set", "unset"}]
    /\ urls \subseteq detected /\ menuOpen \in BOOLEAN
    /\ DOMAIN sections = NavSection
    /\ \A s \in NavSection :
          /\ sections[s].mounted \in BOOLEAN /\ sections[s].isOpen \in BOOLEAN
          /\ sections[s].activeChild \in {link.name : link \in ToSet(SectionLinks[s])} \cup {""}

\* The link that is lit is the one of the page shown, in one section at most, whichever
\* way the page was come to and whenever a section was mounted (nav.jsx:160-191), and a link
\* that is drawn goes to a page that it is lit for (lines 68-128).
NavIsCurrent ==
    /\ \A s \in NavSection : sections[s].mounted =>
          sections[s].activeChild = GetActiveChild(Children(s, urls, navFlags), navPath)
    /\ Cardinality({link \in AllLinks : IsActive(link, StripNS(navPath))}) <= 1
    /\ \A s \in NavSection : \A link \in DrawnLinks(s) : link.type # "external" =>
          GetActiveChild(Children(s, urls, navFlags), Target(link)) = link.name

\* A section that the page comes into is folded out (nav.jsx:187), and it is folded by nothing
\* but a click on its own title, which moves nothing else (line 197).
OnlyTitlesFold ==
    [][\A s \in NavSection :
          /\ sections[s].activeChild = "" /\ sections'[s].activeChild # "" => sections'[s].isOpen
          /\ sections[s].isOpen /\ ~sections'[s].isOpen =>
                navPath' = navPath /\ \A other \in NavSection \ {s} : sections'[other] = sections[other]
      ]_navVars
=============================================================================
