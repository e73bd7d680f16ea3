------------------------------- MODULE Pages -------------------------------
(***************************************************************************)
(* The pages and forms of the console.  A behaviour is the life of one of  *)
(* them: they share no state but the store, which ListWatch and K8sObject  *)
(* model entry by entry.  One that is not shown stays in one first state.  *)
(***************************************************************************)
EXTENDS EditYAML, Discovery, EventStream, PodPages, SecretForm, RBAC, Namespaces, Features, Polling,
        LdapSettings, MonitoringSettings, Dialogs, Environment, Listing, Resources, Bridge, Account, Login,
        Impersonation, SourceSecret, PullSecret, OperatorLifecycle, Dropdown, Alerts, Chargeback,
        Navigation, Overview, ChannelOperators

CONSTANT Page  \* the pages looked at

VARIABLE page

pagesVars == <<page, editVars, discoveryVars, eventVars, logVars, execVars, secretVars, rbacVars,
               namespaceVars, featureVars, pollingVars, ldapVars, dialogVars, scalingVars, environmentVars,
               listingVars, resourceVars, bridgeVars, accountVars, loginVars, impersonationVars,
               sourceVars, pullVars, ruleVars, bindingVars, subscriptionVars, operatorsVars,
               pairVars, menuVars, monitoringVars, alertsVars, chargebackVars, asyncVars,
               navVars, overviewVars, channelVars>>

Init ==
    /\ page \in Page
    /\ EditInit /\ DiscoveryInit /\ EventInit /\ LogInit /\ ExecInit /\ FeatureInit
    /\ PollingInit /\ AsyncInit /\ LdapInit /\ ScalingInit /\ ListingInit
    /\ OverviewInit
    /\ IF page = "secret" THEN SecretInit ELSE SecretOpens("generic", TRUE, Json, NoContents)
    /\ IF page = "roles" THEN RbacInit ELSE RbacOpens("role", <<>>)
    /\ IF page = "namespaces" THEN NamespaceInit
       ELSE NamespaceOpens(CHOOSE p \in Paths : p.scope = "none")
    /\ IF page = "dialog" THEN DialogInit ELSE DialogStarts(Deletes(<<"object">>))
    /\ IF page = "environment" THEN EnvironmentInit ELSE EnvironmentOpens(TRUE)
    /\ IF page = "resources" THEN ResourceInit ELSE ResourceOpens(HomePage, {})
    /\ IF page = "bridge" THEN BridgeInit
       ELSE BridgeAt(CHOOSE f \in WrongFlags : TRUE, NoFile, "exited")
    /\ IF page = "account" THEN AccountInit ELSE AccountOpens(FALSE, FALSE, {}, <<>>)
    /\ LoginInit
    /\ IF page = "identity" THEN ImpersonationInit ELSE ImpersonationStarts("native")
    /\ IF page = "source" THEN SourceInit ELSE SourceOpens(TRUE, "source", NewSecretOf("source"))
    /\ IF page = "pullsecret" THEN PullInit ELSE PullOpens(<<>>)
    /\ IF page = "rule" THEN RuleInit ELSE RuleOpens(TRUE, FALSE)
    /\ IF page = "binding" THEN BindingInit ELSE BindingOpens(TRUE, FALSE, FALSE, FALSE, NewBinding("", NoRole))
    /\ IF page = "subscription" THEN SubscriptionInit
       ELSE SubscriptionOpens("plan", [channel |-> FirstChannel, approval |-> "Manual", approved |-> TRUE, plan |-> ""])
    /\ IF page = "operators" THEN OperatorsInit ELSE GateOpens(FALSE, FALSE) /\ InstanceOpens(<<>>, NoOwners)
    /\ IF page = "pairs" THEN PairsInit ELSE PairsOpen("tags", <<Pair("", "", "none", "")>>)
    /\ IF page = "selector" THEN DropdownInit ELSE DropdownOpens(CHOOSE key \in MenuItem : TRUE)
    /\ IF page = "monitoring" THEN MonitoringInit ELSE MonitoringOpens(Nothing)
    /\ IF page = "alerts" THEN AlertsInit ELSE AlertsOpen(TRUE)
    /\ IF page = "report" THEN ChargebackInit ELSE ReportOpens(CHOOSE c \in Columns : TRUE, "Started", "", "", "", "none")
    /\ IF page = "navigation" THEN NavInit ELSE detected = {} /\ NavOpens(<<"start-guide">>)
    /\ IF page = "updates" THEN ChannelInit
       ELSE channelConfig = NoConfig /\ ChannelOpens(CHOOSE v \in Installed : TRUE, "", {}, "", "none")

Unshown(p, pageVars) == IF page = p THEN TRUE ELSE UNCHANGED pageVars

Next ==
    /\ UNCHANGED page
    /\ Unshown("editor", editVars)
    /\ Unshown("discovery", discoveryVars)
    /\ Unshown("events", eventVars)
    /\ Unshown("logs", logVars)
    /\ Unshown("terminal", execVars)
    /\ Unshown("secret", secretVars)
    /\ Unshown("roles", rbacVars)
    /\ Unshown("namespaces", namespaceVars)
    /\ Unshown("flags", featureVars)
    /\ Unshown("graphs", pollingVars)
    /\ Unshown("ldap", ldapVars)
    /\ Unshown("dialog", dialogVars)
    /\ Unshown("scaling", scalingVars)
    /\ Unshown("environment", environmentVars)
    /\ Unshown("listing", listingVars)
    /\ Unshown("resources", resourceVars)
    /\ Unshown("bridge", bridgeVars)
    /\ Unshown("account", accountVars)
    /\ Unshown("login", loginVars)
    /\ Unshown("identity", impersonationVars)
    /\ Unshown("source", sourceVars)
    /\ Unshown("pullsecret", pullVars)
    /\ Unshown("rule", ruleVars)
    /\ Unshown("binding", bindingVars)
    /\ Unshown("subscription", subscriptionVars)
    /\ Unshown("operators", operatorsVars)
    /\ Unshown("pairs", pairVars)
    /\ Unshown("selector", menuVars)
    /\ Unshown("monitoring", monitoringVars)
    /\ Unshown("alerts", alertsVars)
    /\ Unshown("report", chargebackVars)
    /\ Unshown("loader", asyncVars)
    /\ Unshown("navigation", navVars)
    /\ Unshown("overview", overviewVars)
    /\ Unshown("updates", channelVars)
    /\ \/ page = "editor" /\ EditNext
       \/ page = "discovery" /\ DiscoveryNext
       \/ page = "events" /\ EventNext
       \/ page = "logs" /\ LogNext
       \/ page = "terminal" /\ ExecNext
       \/ page = "secret" /\ SecretNext
       \/ page = "roles" /\ RbacNext
       \/ page = "namespaces" /\ NamespaceNext
       \/ page = "flags" /\ FeatureNext
       \/ page = "graphs" /\ PollingNext
       \/ page = "ldap" /\ LdapNext
       \/ page = "dialog" /\ DialogNext
       \/ page = "scaling" /\ ScalingNext
       \/ page = "environment" /\ EnvironmentNext
       \/ page = "listing" /\ ListingNext
       \/ page = "resources" /\ ResourceNext
       \/ page = "bridge" /\ BridgeNext
       \/ page = "account" /\ AccountNext
       \/ page = "login" /\ LoginNext
       \/ page = "identity" /\ ImpersonationNext
       \/ page = "source" /\ SourceNext
       \/ page = "pullsecret" /\ PullNext
       \/ page = "rule" /\ RuleNext
       \/ page = "binding" /\ BindingNext
       \/ page = "subscription" /\ SubscriptionNext
       \/ page = "operators" /\ OperatorsNext
       \/ page = "pairs" /\ PairsNext
       \/ page = "selector" /\ DropdownNext
       \/ page = "monitoring" /\ MonitoringNext
       \/ page = "alerts" /\ AlertsNext
       \/ page = "report" /\ ChargebackNext
       \/ page = "loader" /\ AsyncNext
       \/ page = "navigation" /\ NavNext
       \/ page = "overview" /\ OverviewNext
       \/ page = "updates" /\ ChannelNext

\* Nothing is fair of a page that is not shown: it has started nothing.
Spec ==
    /\ Init /\ [][Next]_pagesVars
    /\ EditFairness /\ DiscoveryFairness /\ EventFairness /\ FeatureFairness
    /\ PollingFairness /\ DialogFairness /\ ScalingFairness /\ EnvironmentFairness
    /\ BridgeFairness /\ AlertsFairness /\ ChargebackFairness /\ AsyncFairness /\ ChannelFairness

-----------------------------------------------------------------------------
\* The state of the page that is shown has its types; the others stay in theirs.
TypeOK ==
    /\ page \in Page
    /\ page = "editor" => EditTypeOK
    /\ page = "discovery" => DiscoveryTypeOK
    /\ page = "events" => EventTypeOK
    /\ page = "logs" => LogTypeOK
    /\ page = "terminal" => ExecTypeOK
    /\ page = "secret" => SecretTypeOK
    /\ page = "roles" => RbacTypeOK
    /\ page = "namespaces" => NamespaceTypeOK
    /\ page = "flags" => FeatureTypeOK
    /\ page = "graphs" => PollingTypeOK
    /\ page = "ldap" => LdapTypeOK
    /\ page = "dialog" => DialogTypeOK
    /\ page = "scaling" => ScalingTypeOK
    /\ page = "environment" => EnvironmentTypeOK
    /\ page = "listing" => ListingTypeOK
    /\ page = "resources" => ResourceTypeOK
    /\ page = "bridge" => BridgeTypeOK
    /\ page = "account" => AccountTypeOK
    /\ page = "login" => LoginTypeOK
    /\ page = "identity" => ImpersonationTypeOK
    /\ page = "source" => SourceTypeOK
    /\ page = "pullsecret" => PullTypeOK
    /\ page = "rule" => RuleTypeOK
    /\ page = "binding" => BindingTypeOK
    /\ page = "subscription" => SubscriptionTypeOK
    /\ page = "operators" => OperatorsTypeOK
    /\ page = "pairs" => PairsTypeOK
    /\ page = "selector" => DropdownTypeOK
    /\ page = "monitoring" => MonitoringTypeOK
    /\ page = "alerts" => AlertsTypeOK
    /\ page = "report" => ChargebackTypeOK
    /\ page = "loader" => AsyncTypeOK
    /\ page = "navigation" => NavTypeOK
    /\ page = "overview" => OverviewTypeOK
    /\ page = "updates" => ChannelTypeOK

\* What a page has on the screen is what the state behind it says, in whatever order filters,
\* rows, queries and containers were changed, answers came and pages were taken down:
\* the events shown (events.jsx:289), the lines counted (resource-log.jsx:203), the rows of
\* a form (create-secret.tsx:446), the status of a query (status.jsx:57), the rows of a list
\* (list-page.jsx:108), the links of a subscription (subscription.tsx:127), whether operators
\* are disabled (clusterserviceversion.tsx:71), the row that is dragged
\* (name-value-editor.jsx:269), what closes a dropdown (dropdown.jsx:41), the rule of an
\* alert (alert.tsx:113) and the button and the tasks of an update (detail-status.jsx:60).
ScreensAreTrue ==
    /\ FilterApplied
    /\ BehindIsCounted /\ LogIsFollowed
    /\ RowsAreTheForms
    /\ StatusIsOfItsQuery
    /\ RowsAreTheAsked
    /\ LinksAreCurrent /\ DisabledIsTrue
    /\ DraggedIsHeld
    /\ MenusAreDismissed
    /\ DetailsAreTheLinked
    /\ OffersAreTrue /\ UnfinishedIsShown

\* What is found or made by going through a list is what was meant: the model of a kind
\* (k8s-models.ts:29), what an operator's instance owns (k8s-resource.tsx:30), the resource of a
\* key (value-from-pair.jsx:96), a dropdown's choice and rows (dropdown.jsx:186), the column a
\* report is sorted by (chargeback.tsx:218), the link that is lit (nav.jsx:160) and the groups
\* of a project's workloads (overview.jsx:78); the last two, which go through every link and
\* workload, are looked at while their page is shown: it does not change otherwise.
ListsAreTrue ==
    /\ KindsAreKept
    /\ OwnedAreShown /\ KeysAreTheirs
    /\ MenuIsTrue /\ SortIsShown
    /\ page = "navigation" => NavIsCurrent
    /\ page = "overview" => OverviewIsTrue

\* What is pending settles: a deleted object disappears (k8s-actions.ts:102), a box shows its
\* query (base.jsx:66), a flag is decided (features.ts:76), a dialog is not busy for ever
\* (promise-component.jsx:15), a spinner ends (deployment-pod-counts.tsx:50), the server
\* either serves or gives up (auth.go:165), the alerts become those of Prometheus (alert.tsx:89),
\* a report that finishes is fetched (chargeback.tsx:183), a page's code is loaded (async.tsx:43)
\* and the button of an update comes back (detail-status.jsx:17).
SettlesInTheEnd ==
    ShowsTheDeletion /\ ShowsItsQuery /\ FlagsAreDecided /\ InProgressEnds /\ SpinnerEnds
    /\ StartEnds /\ AlertsAreCurrent /\ ReportIsShown /\ ShowsItsComponent
    /\ ButtonComesBack

\* Nothing is asked for ever on behalf of a page that is gone: its timers and late answers
\* end what they belong to (base.jsx:65, alert.tsx:93, async.tsx:53).
PollingStops == ChartPollsEnd /\ AlertPollsEnd /\ LoadsEnd

\* Dialogs of several requests, some of which fail or are given up, do not say that they are
\* done when they are not: creating and deleting (create-namespace-modal.jsx:60) and the
\* clients' tokens (client-tokens.jsx:50); nor write a file that was not parsed
\* (configure-ns-pull-secret-modal.jsx:112), set a limit below its request
\* (cluster-monitoring.jsx:179) or in a unit of another setting (units.js:191).
DialogsKeepTheirWord ==
    DialogsAreDone /\ AccountIsTrue /\ UploadsParse /\ RequestsFit /\ UnitsAreTheirs

\* The server and every page send requests for the user who is shown and logged in: the
\* token of an old page is still the cookie's (co-fetch.js:86), and an impersonation is the
\* same by way of headers and of subprotocols (proxy.go:138).
RequestsAreTheUsers == FetchesAreAccepted /\ ActsAsShown

\* A form sends what its fields, boxes and dropdowns show, though each of them has a state of
\* its own that its parent copies: rows of a secret (create-secret.tsx:446), the subforms of a
\* source secret (line 587), the boxes of a rule (edit-rule.jsx:148), a binding (bindings.jsx:425).
SendsWhatIsShown ==
    ListIsSent /\ SourceIsWhatIsShown /\ GrantsWhatIsShown /\ ShownRoleIsSent /\ BindingIsWhole

\* A save never replaces what the server has by a text or fields made from an older version
\* (edit-yaml.jsx:246, create-secret.tsx:142, subscription-channel-modal.tsx:23).
EditsAreSafe == TextIsSafe /\ NoSecretIsLost /\ ChangesOneField

\* One click does the one thing it is for: editing a rule of a role leaves the other rules
\* (edit-rule.jsx:158), a box the other boxes (line 215), a setting the other settings
\* (cluster-monitoring.jsx:74), a pick is of a row that is shown (dropdown.jsx:230), the
\* navigation folds the section whose title is clicked (nav.jsx:197), and an update is paused or
\* resumed as the last click wanted (detail-status.jsx:53).
ClicksDoOneThing ==
    OtherRulesAreKept /\ OneBoxAtATime /\ PicksWhatIsShown /\ OtherSettingsAreKept /\ OnlyTitlesFold
    /\ []LastClickWins
=============================================================================
