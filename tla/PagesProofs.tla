---------------------------- MODULE PagesProofs -----------------------------
(***************************************************************************)
(* The pages together.  A step of the console is one of the page that is   *)
(* shown, and for every other page nothing: what each page keeps, the      *)
(* console keeps, for any constants; so it is with the types.              *)
(***************************************************************************)
EXTENDS Pages, PageProofs, FormProofs, AccessProofs

\* A step of the console is one of the login, the impersonation and the server, or leaves them as they are.
LEMMA StepsOfAccess ==
    [Next]_pagesVars =>
       /\ [LoginNext]_loginVars
       /\ [ImpersonationNext]_impersonationVars
       /\ [BridgeNext]_bridgeVars
<1> SUFFICES ASSUME [Next]_pagesVars
             PROVE  /\ [LoginNext]_loginVars
                    /\ [ImpersonationNext]_impersonationVars
                    /\ [BridgeNext]_bridgeVars
  OBVIOUS
<1>1. CASE UNCHANGED pagesVars
  BY <1>1 DEF pagesVars
<1>2. CASE Next
  <2>1. page = "login" => LoginNext
    BY <1>2 DEF Next
  <2>2. page # "login" => UNCHANGED loginVars
    BY <1>2 DEF Next, Unshown
  <2>3. page = "identity" => ImpersonationNext
    BY <1>2 DEF Next
  <2>4. page # "identity" => UNCHANGED impersonationVars
    BY <1>2 DEF Next, Unshown
  <2>5. page = "bridge" => BridgeNext
    BY <1>2 DEF Next
  <2>6. page # "bridge" => UNCHANGED bridgeVars
    BY <1>2 DEF Next, Unshown
  <2> QED
    BY <2>1, <2>2, <2>3, <2>4, <2>5, <2>6
<1> QED
  BY <1>1, <1>2

\* A step of the console is one of the log, the terminal and the path, or leaves them as they are.
LEMMA StepsOfPods ==
    [Next]_pagesVars =>
       /\ [LogNext]_logVars
       /\ [ExecNext]_execVars
       /\ [NamespaceNext]_namespaceVars
<1> SUFFICES ASSUME [Next]_pagesVars
             PROVE  /\ [LogNext]_logVars
                    /\ [ExecNext]_execVars
                    /\ [NamespaceNext]_namespaceVars
  OBVIOUS
<1>1. CASE UNCHANGED pagesVars
  BY <1>1 DEF pagesVars
<1>2. CASE Next
  <2>1. page = "logs" => LogNext
    BY <1>2 DEF Next
  <2>2. page # "logs" => UNCHANGED logVars
    BY <1>2 DEF Next, Unshown
  <2>3. page = "terminal" => ExecNext
    BY <1>2 DEF Next
  <2>4. page # "terminal" => UNCHANGED execVars
    BY <1>2 DEF Next, Unshown
  <2>5. page = "namespaces" => NamespaceNext
    BY <1>2 DEF Next
  <2>6. page # "namespaces" => UNCHANGED namespaceVars
    BY <1>2 DEF Next, Unshown
  <2> QED
    BY <2>1, <2>2, <2>3, <2>4, <2>5, <2>6
<1> QED
  BY <1>1, <1>2

\* A step of the console is one of the settings and dialogs, or leaves them as they are.
LEMMA StepsOfDialogs ==
    [Next]_pagesVars =>
       /\ [LdapNext]_ldapVars
       /\ [DialogNext]_dialogVars
       /\ [AccountNext]_accountVars
       /\ [PullNext]_pullVars
       /\ [MonitoringNext]_monitoringVars
<1> SUFFICES ASSUME [Next]_pagesVars
             PROVE  /\ [LdapNext]_ldapVars
                    /\ [DialogNext]_dialogVars
                    /\ [AccountNext]_accountVars
                    /\ [PullNext]_pullVars
                    /\ [MonitoringNext]_monitoringVars
  OBVIOUS
<1>1. CASE UNCHANGED pagesVars
  BY <1>1 DEF pagesVars
<1>2. CASE Next
  <2>1. page = "ldap" => LdapNext
    BY <1>2 DEF Next
  <2>2. page # "ldap" => UNCHANGED ldapVars
    BY <1>2 DEF Next, Unshown
  <2>3. page = "dialog" => DialogNext
    BY <1>2 DEF Next
  <2>4. page # "dialog" => UNCHANGED dialogVars
    BY <1>2 DEF Next, Unshown
  <2>5. page = "account" => AccountNext
    BY <1>2 DEF Next
  <2>6. page # "account" => UNCHANGED accountVars
    BY <1>2 DEF Next, Unshown
  <2>7. page = "pullsecret" => PullNext
    BY <1>2 DEF Next
  <2>8. page # "pullsecret" => UNCHANGED pullVars
    BY <1>2 DEF Next, Unshown
  <2>9. page = "monitoring" => MonitoringNext
    BY <1>2 DEF Next
  <2>10. page # "monitoring" => UNCHANGED monitoringVars
    BY <1>2 DEF Next, Unshown
  <2> QED
    BY <2>1, <2>2, <2>3, <2>4, <2>5, <2>6, <2>7, <2>8, <2>9, <2>10
<1> QED
  BY <1>1, <1>2

\* A step of the console is one of the editor, a form or a role's page, or leaves them as they are.
LEMMA StepsOfForms ==
    [Next]_pagesVars =>
       /\ [EditNext]_editVars
       /\ [SecretNext]_secretVars
       /\ [SourceNext]_sourceVars
       /\ [SubscriptionNext]_subscriptionVars
       /\ [OperatorsNext]_operatorsVars
       /\ [RbacNext]_rbacVars
       /\ [RuleNext]_ruleVars
       /\ [BindingNext]_bindingVars
<1> SUFFICES ASSUME [Next]_pagesVars
             PROVE  /\ [EditNext]_editVars
                    /\ [SecretNext]_secretVars
                    /\ [SourceNext]_sourceVars
                    /\ [SubscriptionNext]_subscriptionVars
                    /\ [OperatorsNext]_operatorsVars
                    /\ [RbacNext]_rbacVars
                    /\ [RuleNext]_ruleVars
                    /\ [BindingNext]_bindingVars
  OBVIOUS
<1>1. CASE UNCHANGED pagesVars
  BY <1>1 DEF pagesVars
<1>2. CASE Next
  <2>1. page = "editor" => EditNext
    BY <1>2 DEF Next
  <2>2. page # "editor" => UNCHANGED editVars
    BY <1>2 DEF Next, Unshown
  <2>3. page = "secret" => SecretNext
    BY <1>2 DEF Next
  <2>4. page # "secret" => UNCHANGED secretVars
    BY <1>2 DEF Next, Unshown
  <2>5. page = "source" => SourceNext
    BY <1>2 DEF Next
  <2>6. page # "source" => UNCHANGED sourceVars
    BY <1>2 DEF Next, Unshown
  <2>7. page = "subscription" => SubscriptionNext
    BY <1>2 DEF Next
  <2>8. page # "subscription" => UNCHANGED subscriptionVars
    BY <1>2 DEF Next, Unshown
  <2>9. page = "operators" => OperatorsNext
    BY <1>2 DEF Next
  <2>10. page # "operators" => UNCHANGED operatorsVars
    BY <1>2 DEF Next, Unshown
  <2>11. page = "roles" => RbacNext
    BY <1>2 DEF Next
  <2>12. page # "roles" => UNCHANGED rbacVars
    BY <1>2 DEF Next, Unshown
  <2>13. page = "rule" => RuleNext
    BY <1>2 DEF Next
  <2>14. page # "rule" => UNCHANGED ruleVars
    BY <1>2 DEF Next, Unshown
  <2>15. page = "binding" => BindingNext
    BY <1>2 DEF Next
  <2>16. page # "binding" => UNCHANGED bindingVars
    BY <1>2 DEF Next, Unshown
  <2> QED
    BY <2>1, <2>2, <2>3, <2>4, <2>5, <2>6, <2>7, <2>8, <2>9, <2>10, <2>11, <2>12, <2>13, <2>14, <2>15, <2>16
<1> QED
  BY <1>1, <1>2

\* A step of the console is one of what a screen shows, or leaves it as it is.
LEMMA StepsOfScreens ==
    [Next]_pagesVars =>
       /\ [PollingNext]_pollingVars
       /\ [EventNext]_eventVars
       /\ [DropdownNext]_menuVars
       /\ [AlertsNext]_alertsVars
       /\ [NavNext]_navVars
       /\ [ListingNext]_listingVars
       /\ [PairsNext]_pairVars
       /\ [ChannelNext]_channelVars
<1> SUFFICES ASSUME [Next]_pagesVars
             PROVE  /\ [PollingNext]_pollingVars
                    /\ [EventNext]_eventVars
                    /\ [DropdownNext]_menuVars
                    /\ [AlertsNext]_alertsVars
                    /\ [NavNext]_navVars
                    /\ [ListingNext]_listingVars
                    /\ [PairsNext]_pairVars
                    /\ [ChannelNext]_channelVars
  OBVIOUS
<1>1. CASE UNCHANGED pagesVars
  BY <1>1 DEF pagesVars
<1>2. CASE Next
  <2>1. page = "graphs" => PollingNext
    BY <1>2 DEF Next
  <2>2. page # "graphs" => UNCHANGED pollingVars
    BY <1>2 DEF Next, Unshown
  <2>3. page = "events" => EventNext
    BY <1>2 DEF Next
  <2>4. page # "events" => UNCHANGED eventVars
    BY <1>2 DEF Next, Unshown
  <2>5. page = "selector" => DropdownNext
    BY <1>2 DEF Next
  <2>6. page # "selector" => UNCHANGED menuVars
    BY <1>2 DEF Next, Unshown
  <2>7. page = "alerts" => AlertsNext
    BY <1>2 DEF Next
  <2>8. page # "alerts" => UNCHANGED alertsVars
    BY <1>2 DEF Next, Unshown
  <2>9. page = "navigation" => NavNext
    BY <1>2 DEF Next
  <2>10. page # "navigation" => UNCHANGED navVars
    BY <1>2 DEF Next, Unshown
  <2>11. page = "listing" => ListingNext
    BY <1>2 DEF Next
  <2>12. page # "listing" => UNCHANGED listingVars
    BY <1>2 DEF Next, Unshown
  <2>13. page = "pairs" => PairsNext
    BY <1>2 DEF Next
  <2>14. page # "pairs" => UNCHANGED pairVars
    BY <1>2 DEF Next, Unshown
  <2>15. page = "updates" => ChannelNext
    BY <1>2 DEF Next
  <2>16. page # "updates" => UNCHANGED channelVars
    BY <1>2 DEF Next, Unshown
  <2> QED
    BY <2>1, <2>2, <2>3, <2>4, <2>5, <2>6, <2>7, <2>8, <2>9, <2>10, <2>11, <2>12, <2>13, <2>14, <2>15, <2>16
<1> QED
  BY <1>1, <1>2

\* A step of the console is one of what goes through a list, or leaves it as it is.
LEMMA StepsOfLists ==
    [Next]_pagesVars =>
       /\ [PairsNext]_pairVars
       /\ [DropdownNext]_menuVars
       /\ [ChargebackNext]_chargebackVars
       /\ [OverviewNext]_overviewVars
       /\ [NavNext]_navVars
       /\ [OperatorsNext]_operatorsVars
       /\ [ResourceNext]_resourceVars
<1> SUFFICES ASSUME [Next]_pagesVars
             PROVE  /\ [ChargebackNext]_chargebackVars
                    /\ [OverviewNext]_overviewVars
                    /\ [ResourceNext]_resourceVars
  BY StepsOfScreens, StepsOfForms
<1>1. CASE UNCHANGED pagesVars
  BY <1>1 DEF pagesVars
<1>2. CASE Next
  <2>1. page = "report" => ChargebackNext
    BY <1>2 DEF Next
  <2>2. page # "report" => UNCHANGED chargebackVars
    BY <1>2 DEF Next, Unshown
  <2>3. page = "overview" => OverviewNext
    BY <1>2 DEF Next
  <2>4. page # "overview" => UNCHANGED overviewVars
    BY <1>2 DEF Next, Unshown
  <2>5. page = "resources" => ResourceNext
    BY <1>2 DEF Next
  <2>6. page # "resources" => UNCHANGED resourceVars
    BY <1>2 DEF Next, Unshown
  <2> QED
    BY <2>1, <2>2, <2>3, <2>4, <2>5, <2>6
<1> QED
  BY <1>1, <1>2

\* What the pages of users, pods and settings keep.
PagesInv ==
    /\ LoginInv /\ ImpersonationInv /\ BridgeInv
    /\ LogInv /\ ExecInv /\ PathInv
    /\ LdapInv /\ MonitoringInv /\ DialogInv /\ AccountInv /\ PullInv

\* A page that is not shown is in a first state of its own.
LEMMA PagesInitInv == Init => PagesInv
<1> SUFFICES ASSUME Init
             PROVE  PagesInv
  OBVIOUS
<1>1. LoginInv
  BY LoginInitInv DEF Init
<1>2. ImpersonationInv
  BY ImpersonationInitInv DEF Init, ImpersonationInit
<1>3. BridgeInv
  <2>1. CASE page = "bridge"
    BY <2>1, BridgeInitInv DEF Init
  <2>2. CASE page # "bridge"
    <3>1. WrongFlags # {}
      <4> DEFINE given == CompleteFile \cup {"secret", "secret-file"}
      <4>1. [mode |-> "in-cluster", k8sAuth |-> "bearer-token", userAuth |-> "disabled", malformed |-> FALSE,
             given |-> given] \in WrongFlags
        BY DEF WrongFlags
      <4> QED
        BY <4>1
    <3>2. (CHOOSE f \in WrongFlags : TRUE) \in Flags \cup WrongFlags
      BY <3>1
    <3>3. BridgeAt(CHOOSE f \in WrongFlags : TRUE, NoFile, "exited")
      BY <2>2 DEF Init
    <3> QED
      BY <3>2, <3>3, BridgeAtInv
  <2> QED
    BY <2>1, <2>2
<1>4. LogInv /\ ExecInv
  BY LogInitInv, ExecInitInv DEF Init
<1>5. PathInv
  <2>1. [scope |-> "none", resource |-> "", tail |-> ""] \in Paths
    BY DEF Paths
  <2>2. (CHOOSE p \in Paths : p.scope = "none") \in Paths
    BY <2>1
  <2>3. NamespaceInit
    BY <2>2 DEF Init, NamespaceInit
  <2> QED
    BY <2>3, PathInitInv
<1>6. LdapInv
  BY LdapInitInv DEF Init
<1>7. MonitoringInv
  <2>1. MonitoringInit \/ MonitoringOpens(Nothing)
    BY DEF Init
  <2>2. Nothing \in Configs /\ AllSound(Nothing)
    BY QuantitiesAreTyped
  <2> QED
    BY <2>1, <2>2, MonitoringInitInv, MonitoringOpensInv
<1>8. DialogInv
  <2>1. DialogInit
    BY DEF Init, DialogInit, Plans, DeletePlans
  <2> QED
    BY <2>1, DialogInitInv
<1>9. AccountInv
  <2>1. AccountInit \/ AccountOpens(FALSE, FALSE, {}, <<>>)
    BY DEF Init
  <2>2. <<>> \in Seq((SUBSET Client) \cup {Unanswered})
    BY EmptySeq
  <2> QED
    BY <2>1, <2>2, AccountInitInv, AccountOpensInv
<1>10. PullInv
  <2>1. PullInit \/ PullOpens(<<>>)
    BY DEF Init
  <2>2. DOMAIN <<>> = {}
    OBVIOUS
  <2> QED
    BY <2>1, <2>2, PullInitInv, PullOpensInv
<1> QED
  BY <1>1, <1>2, <1>3, <1>4, <1>5, <1>6, <1>7, <1>8, <1>9, <1>10 DEF PagesInv

LEMMA PagesNextInv == PagesInv /\ [Next]_pagesVars => PagesInv'
<1> SUFFICES ASSUME PagesInv, [Next]_pagesVars
             PROVE  PagesInv'
  OBVIOUS
<1>1. LoginInv' /\ ImpersonationInv' /\ BridgeInv'
  BY StepsOfAccess, LoginNextInv, ImpersonationNextInv, BridgeNextInv DEF PagesInv
<1>2. LogInv' /\ ExecInv' /\ PathInv'
  BY StepsOfPods, LogNextInv, ExecNextInv, PathNextInv DEF PagesInv
<1>3. LdapInv' /\ MonitoringInv' /\ DialogInv' /\ AccountInv' /\ PullInv'
  BY StepsOfDialogs, LdapNextInv, MonitoringNextInv, DialogNextInv, AccountNextInv, PullNextInv DEF PagesInv
<1> QED
  BY <1>1, <1>2, <1>3 DEF PagesInv

LEMMA PagesInvariant == Spec => []PagesInv
<1>1. Spec => Init /\ [][Next]_pagesVars
  BY DEF Spec
<1> QED
  BY <1>1, PagesInitInv, PagesNextInv, PTL

\* What the editor and the forms keep.
FormsInv ==
    /\ EditInv /\ SecretInv /\ SourceInv /\ SubscriptionInv /\ GateInv /\ SettingsInv
    /\ RbacInv /\ RuleInv /\ ruleForm \in RuleForms /\ BindingInv

LEMMA FormsInitInv == Init => FormsInv
<1> SUFFICES ASSUME Init
             PROVE  FormsInv
  OBVIOUS
<1>1. EditInv
  BY EditInitInv DEF Init
<1>2. SecretInv
  <2>1. SecretInit \/ SecretOpens("generic", TRUE, Json, NoContents)
    BY DEF Init
  <2> QED
    BY <2>1, SecretInitInv, SecretOpensInv, NoContentsIsTyped
<1>3. SourceInv
  <2>1. SourceInit \/ SourceOpens(TRUE, "source", NewSecretOf("source"))
    BY DEF Init
  <2> QED
    BY <2>1, SourceInitInv, SourceOpensInv, NewSecretIsTyped
<1>4. SubscriptionInv
  <2> DEFINE first == [channel |-> FirstChannel, approval |-> "Manual", approved |-> TRUE, plan |-> ""]
  <2>1. SubscriptionInit \/ SubscriptionOpens("plan", first)
    BY DEF Init
  <2>2. FirstChannel \in Channel
    BY SubscriptionAssumption DEF FirstChannel
  <2>3. first \in OlmObject
    BY <2>2 DEF OlmObject, Approval
  <2> HIDE DEF first
  <2> QED
    BY <2>1, <2>3, SubscriptionInitInv, SubscriptionOpensInv
<1>5. GateInv
  <2>1. OperatorsInit \/ GateOpens(FALSE, FALSE)
    BY DEF Init
  <2> QED
    BY <2>1, GateInitInv, GateOpensInv
<1>6. SettingsInv
  <2>1. MonitoringInit \/ MonitoringOpens(Nothing)
    BY DEF Init
  <2> QED
    BY <2>1, SettingsInitInv, SettingsOpenInv, NothingIsANumber
<1>7. RbacInv
  <2>1. RbacInit \/ RbacOpens("role", <<>>)
    BY DEF Init
  <2>2. RbacInit => RbacInv
    BY ItemsAreTyped, RbacOpensInv DEF RbacInit
  <2>3. <<>> \in Seq(Item)
    BY EmptySeq
  <2> QED
    BY <2>1, <2>2, <2>3, RbacOpensInv
<1>8. RuleInv /\ ruleForm \in RuleForms
  <2>1. RuleInit
    BY DEF Init, RuleInit
  <2> QED
    BY <2>1, RuleInitInv, RuleFormInit
<1>9. BindingInv
  <2>1. BindingInit \/ BindingOpens(TRUE, FALSE, FALSE, FALSE, NewBinding("", NoRole))
    BY DEF Init
  <2>2. /\ NewBinding("", NoRole) \in BindingRecord
        /\ NewBinding("", NoRole).kind = "RoleBinding"
        /\ NewBinding("", NoRole).subject.namespace = ""
    BY RolesAreTyped DEF NewBinding, BindingRecord, NewSubject, SubjectKind, RoleRecord
  <2> QED
    BY <2>1, <2>2, BindingInitInv, BindingOpensInv
<1> QED
  BY <1>1, <1>2, <1>3, <1>4, <1>5, <1>6, <1>7, <1>8, <1>9 DEF FormsInv

LEMMA FormsNextInv == PagesInv /\ FormsInv /\ [Next]_pagesVars => FormsInv'
<1> SUFFICES ASSUME PagesInv, FormsInv, [Next]_pagesVars
             PROVE  FormsInv'
  OBVIOUS
<1>1. EditInv' /\ SecretInv' /\ SourceInv' /\ SubscriptionInv' /\ GateInv'
  BY StepsOfForms, EditNextInv, SecretNextInv, SourceNextInv, SubscriptionNextInv, GateNextInv DEF FormsInv
<1>2. SettingsInv'
  BY StepsOfDialogs, SettingsNextInv DEF FormsInv, PagesInv
<1>3. RbacInv' /\ RuleInv' /\ ruleForm' \in RuleForms /\ BindingInv'
  BY StepsOfForms, RbacNextInv, RuleNextInv, RuleFormNext, BindingNextInv DEF FormsInv
<1>4. RuleForms' = RuleForms
  BY DEF RuleForms
<1> QED
  BY <1>1, <1>2, <1>3, <1>4 DEF FormsInv

\* What the screens keep.
ScreensInv ==
    /\ ChartInv /\ EventInv /\ MenusAreDismissed /\ AlertsInv /\ NavInv /\ ListInv /\ PairsInv
    /\ ChannelInv

LEMMA ScreensInitInv == Init => ScreensInv
<1> SUFFICES ASSUME Init
             PROVE  ScreensInv
  OBVIOUS
<1>1. ChartInv /\ EventInv /\ ListInv
  BY ChartInitInv, EventInitInv, ListingInitInv DEF Init
<1>2. MenusAreDismissed
  <2>1. DropdownInit \/ \E key : DropdownOpens(key)
    BY DEF Init
  <2> QED
    BY <2>1, DropdownInitInv DEF DropdownOpens, MenusAreDismissed
<1>3. AlertsInv
  <2>1. AlertsInit \/ AlertsOpen(TRUE)
    BY DEF Init
  <2> QED
    BY <2>1, AlertsInitInv, AlertsOpenInv
<1>4. NavInv
  <2>1. NavInit \/ NavOpens(<<"start-guide">>)
    BY DEF Init
  <2> QED
    BY <2>1, NavInitInv, NavOpensInv
<1>5. PairsInv
  <2>1. PairsInit \/ PairsOpen("tags", <<Pair("", "", "none", "")>>)
    BY DEF Init
  <2> QED
    BY <2>1, PairsInitInv, PairsOpenInv
<1>6. ChannelInv
  <2> DEFINE v == CHOOSE version \in Installed : TRUE
  <2>1. ChannelInit \/ (channelConfig = NoConfig /\ ChannelOpens(v, "", {}, "", "none"))
    BY DEF Init
  <2>2. v \in ClusterVersion
    BY ChannelAssumption
  <2>3. "" \in Versions /\ NoConfig \in SomeConfigs
    BY DEF Versions, SomeConfigs
  <2> HIDE DEF v
  <2> QED
    BY <2>1, <2>2, <2>3, ChannelInitInv, ChannelOpensInv
<1> QED
  BY <1>1, <1>2, <1>3, <1>4, <1>5, <1>6 DEF ScreensInv

LEMMA ScreensNextInv == ScreensInv /\ [Next]_pagesVars => ScreensInv'
<1> SUFFICES ASSUME ScreensInv, [Next]_pagesVars
             PROVE  ScreensInv'
  OBVIOUS
<1>1. ChartInv' /\ EventInv' /\ MenusAreDismissed' /\ AlertsInv'
  BY StepsOfScreens, ChartNextInv, EventNextInv, DropdownNextInv, AlertsNextInv DEF ScreensInv
<1>2. NavInv' /\ ListInv' /\ PairsInv' /\ ChannelInv'
  BY StepsOfScreens, NavNextInv, ListNextInv, PairsNextInv, ChannelNextInv DEF ScreensInv
<1> QED
  BY <1>1, <1>2 DEF ScreensInv

\* What is kept of what goes through a list.
ListsInv ==
    /\ KeysInv /\ MenuInv /\ ReportInv /\ OverviewInv /\ CurrentInv /\ InstanceInv /\ ResourceInv

LEMMA ListsInitInv == Init => ListsInv
<1> SUFFICES ASSUME Init
             PROVE  ListsInv
  OBVIOUS
<1>1. KeysInv
  <2>1. PairsInit \/ PairsOpen("tags", <<Pair("", "", "none", "")>>)
    BY DEF Init
  <2>2. Pair("", "", "none", "") \in AnyPair
    BY SomePairs
  <2> QED
    BY <2>1, <2>2, PairsInitKeys, PairsOpenKeys
<1>2. MenuInv
  <2> DEFINE first == CHOOSE key \in MenuItem : TRUE
  <2>1. DropdownInit \/ DropdownOpens(first)
    BY DEF Init
  <2>2. first \in MenuItem
    BY DropdownAssumption
  <2> HIDE DEF first
  <2> QED
    BY <2>1, <2>2, DropdownInitMenu, DropdownOpensMenu
<1>3. ReportInv
  <2> DEFINE c == CHOOSE cs \in Columns : TRUE
  <2>1. ChargebackInit \/ ReportOpens(c, "Started", "", "", "", "none")
    BY DEF Init
  <2>2. c \in Columns
    BY SomeColumns
  <2> HIDE DEF c
  <2>3. "Started" \in ReportPhases
    BY DEF ReportPhases
  <2> QED
    BY <2>1, <2>2, <2>3, ChargebackInitInv, ReportOpensInv
<1>4. OverviewInv
  BY OverviewInitInv DEF Init
<1>5. CurrentInv
  BY NavInitCurrent DEF Init
<1>6. InstanceInv
  <2>1. OperatorsInit \/ InstanceOpens(<<>>, NoOwners)
    BY DEF Init
  <2>2. NoOwners \in [ResourceKind -> ResourceKind \cup {"instance", "none"}]
    BY DEF NoOwners
  <2> QED
    BY <2>1, <2>2, InstanceInitInv, InstanceOpensInv
<1>7. ResourceInv
  <2>1. ResourceInit
    BY DEF Init, ResourceInit
  <2> QED
    BY <2>1, ResourceInitInv
<1> QED
  BY <1>1, <1>2, <1>3, <1>4, <1>5, <1>6, <1>7 DEF ListsInv

LEMMA ListsNextInv == ListsInv /\ [Next]_pagesVars => ListsInv'
<1> SUFFICES ASSUME ListsInv, [Next]_pagesVars
             PROVE  ListsInv'
  OBVIOUS
<1>1. KeysInv' /\ MenuInv' /\ ReportInv' /\ OverviewInv'
  BY StepsOfLists, PairsNextKeys, DropdownNextMenu, ChargebackNextInv, OverviewNextInv DEF ListsInv
<1>2. CurrentInv' /\ InstanceInv' /\ ResourceInv'
  BY StepsOfLists, NavNextCurrent, InstanceNextInv, ResourceNextInv DEF ListsInv
<1> QED
  BY <1>1, <1>2 DEF ListsInv

\* All of it holds, whichever page is shown.
LEMMA EveryPageInvariant == Spec => [](PagesInv /\ FormsInv /\ ScreensInv /\ ListsInv)
<1>1. Spec => Init /\ [][Next]_pagesVars
  BY DEF Spec
<1> QED
  BY <1>1, PagesInitInv, PagesNextInv, FormsInitInv, FormsNextInv, ScreensInitInv, ScreensNextInv,
     ListsInitInv, ListsNextInv, PTL

\* What is on the screen is what the state behind it says (events.jsx:289, resource-log.jsx:203,
\* create-secret.tsx:446, status.jsx:57, list-page.jsx:108, subscription.tsx:127,
\* clusterserviceversion.tsx:71, name-value-editor.jsx:269, dropdown.jsx:41, alert.tsx:113,
\* detail-status.jsx:60).
THEOREM PagesShowTheTruth == Spec => []ScreensAreTrue
<1>1. PagesInv /\ FormsInv /\ ScreensInv => ScreensAreTrue
  <2> SUFFICES ASSUME PagesInv, FormsInv, ScreensInv
               PROVE  ScreensAreTrue
    OBVIOUS
  <2>1. FilterApplied /\ StatusIsOfItsQuery /\ MenusAreDismissed /\ DraggedIsHeld
    BY DEF ScreensInv, EventInv, ChartInv, PairsInv
  <2>2. BehindIsCounted /\ LogIsFollowed
    BY DEF PagesInv, LogInv, WindowInv
  <2>3. RowsAreTheForms /\ LinksAreCurrent /\ DisabledIsTrue
    BY SecretInvShows, SubscriptionInvLinks, GateInvIsTrue DEF FormsInv
  <2>4. RowsAreTheAsked /\ DetailsAreTheLinked
    BY ListInvShows, AddressIsOfOne DEF ScreensInv
  <2>5. OffersAreTrue /\ UnfinishedIsShown
    BY ChannelInvShows DEF ScreensInv
  <2> QED
    BY <2>1, <2>2, <2>3, <2>4, <2>5 DEF ScreensAreTrue
<1> QED
  BY <1>1, EveryPageInvariant, PTL

\* What is found or made by going through a list is what was meant (k8s-models.ts:29,
\* k8s-resource.tsx:30, value-from-pair.jsx:96, dropdown.jsx:186, chargeback.tsx:218, nav.jsx:160,
\* overview.jsx:78).
THEOREM PagesListTheTruth == Spec => []ListsAreTrue
<1>1. ListsInv => ListsAreTrue
  BY KeysInvShows, ReportInvShows, OverviewInvShows, CurrentInvShows, InstanceInvShows, ResourceInvShows
     DEF ListsInv, MenuInv, ListsAreTrue
<1> QED
  BY <1>1, EveryPageInvariant, PTL

\* A form sends what its fields, boxes and dropdowns show (create-secret.tsx:446,
\* edit-rule.jsx:148, bindings.jsx:425).
THEOREM PagesSendWhatIsShown == Spec => []SendsWhatIsShown
<1>1. FormsInv => SendsWhatIsShown
  BY SecretInvShows, SourceInvSends, RuleInvGrants, BindingInvSends DEF FormsInv, SendsWhatIsShown
<1> QED
  BY <1>1, EveryPageInvariant, PTL

\* A save replaces only what its text or fields were made from (edit-yaml.jsx:246,
\* create-secret.tsx:142, subscription-channel-modal.tsx:23).
THEOREM PagesEditSafely == Spec => EditsAreSafe
<1>1. Spec => [][Next]_pagesVars
  BY DEF Spec
<1>2. FormsInv /\ [Next]_pagesVars =>
        /\ [editor.typed /\ ~editor'.typed
              => Reload \/ Saved \/ Frame(entry') # Frame(entry)]_editVars
        /\ [save.phase = "sent" /\ save'.phase = "done" => save.base = server.val]_editVars
  BY StepsOfForms, EditNextInv DEF FormsInv
<1>3. FormsInv /\ [Next]_pagesVars =>
        [saving.at = "sent" /\ saving'.at = "stored" /\ secret.ver > 0 => saving.base = secret.data]_sourceVars
  BY StepsOfForms, SourceStepIsSafe DEF FormsInv
<1>4. FormsInv /\ [Next]_pagesVars =>
        [operatorPut.at = "sent" /\ operatorPut'.at = "stored" =>
           LET field == IF operatorPut.by = "dialog" THEN {"channel", "approval"} ELSE {"approved"}
               new == versions'[Len(versions')]
           IN  /\ \A f \in DOMAIN new \ field : new[f] = versions[Latest][f]
               /\ new.channel = versions[Latest].channel \/ new.approval = versions[Latest].approval]_subscriptionVars
  BY StepsOfForms, SubscriptionStepIsSafe DEF FormsInv
<1> QED
  BY <1>1, <1>2, <1>3, <1>4, EveryPageInvariant, PTL
     DEF EditsAreSafe, TextIsSafe, TypedIsKept, NoLostUpdate, NoSecretIsLost, ChangesOneField

\* One click does the one thing it is for (edit-rule.jsx:158, cluster-monitoring.jsx:74,
\* dropdown.jsx:230, nav.jsx:197, detail-status.jsx:53).
THEOREM PagesDoOneThing == Spec => ClicksDoOneThing
<1>1. Spec => [][Next]_pagesVars
  BY DEF Spec
<1>2. FormsInv /\ [Next]_pagesVars =>
        [Answering("put") =>
           IF request.index = 0 THEN object'.items = Append(object.items, request.item)
           ELSE object'.items = [object.items EXCEPT ![request.index] = request.item]]_rbacVars
  BY StepsOfForms, RbacStepKeepsRules DEF FormsInv
<1>3. FormsInv /\ [Next]_pagesVars =>
        [(\A v \in VerbBoxes : ToggleVerb(v) => Checked' = <<Toggled(Checked[1], v), Checked[2]>>)
         /\ (\A r \in ResourceBoxes : ToggleResource(r) => Checked' = <<Checked[1], Toggled(Checked[2], r)>>)]_ruleVars
  BY ClicksOneBox DEF FormsInv
<1>4. [Next]_pagesVars =>
        [menu = "open" /\ menu' = "closed" /\ chosen' # chosen => chosen' \in Range(menuRows)]_menuVars
  BY StepsOfScreens, PicksOfTheMenu
<1>5. FormsInv /\ [Next]_pagesVars =>
        [\A patch \in patches \ patches' :
          settings = patch.base /\ settings' = patch.value =>
            \A s \in Settings \ {patch.of} :
               settings[s].limit.as = "text" => settings'[s] = settings[s]]_monitoringVars
  BY StepsOfDialogs, SettingsStepKeeps DEF FormsInv
<1>6. ScreensInv /\ [Next]_pagesVars =>
        [\A s \in NavSection :
            /\ sections[s].activeChild = "" /\ sections'[s].activeChild # "" => sections'[s].isOpen
            /\ sections[s].isOpen /\ ~sections'[s].isOpen =>
                  navPath' = navPath /\ \A other \in NavSection \ {s} : sections'[other] = sections[other]]_navVars
  BY StepsOfScreens, NavNextInv DEF ScreensInv
<1>7. ScreensInv => LastClickWins
  BY DEF ScreensInv, ChannelInv, ClicksAreFollowed, LastClickWins
<1> QED
  BY <1>1, <1>2, <1>3, <1>4, <1>5, <1>6, <1>7, EveryPageInvariant, PTL
     DEF ClicksDoOneThing, OtherRulesAreKept, OneBoxAtATime, PicksWhatIsShown, OtherSettingsAreKept, OnlyTitlesFold

\* Whoever is shown is the user that the requests are for, and none is refused for its token
\* (co-fetch.js:86, proxy.go:138).
THEOREM PagesSendForTheUser == Spec => []RequestsAreTheUsers
<1>1. PagesInv => RequestsAreTheUsers
  BY LoginInvFetches DEF PagesInv, ImpersonationInv, RequestsAreTheUsers
<1> QED
  BY <1>1, PagesInvariant, PTL

\* Dialogs of several requests do not say that they are done when they are not; a revoked token
\* stays away until its client gets a new one, and a configuration is offered with its token unless
\* a revocation given up before took it; and no limit is below its request
\* (create-namespace-modal.jsx:60, client-tokens.jsx:50, cluster-monitoring.jsx:179)
\* or in a unit of another setting (units.js:191).
THEOREM PagesKeepTheirWord == Spec => []DialogsKeepTheirWord
<1>1. PagesInv => DialogsKeepTheirWord
  <2> SUFFICES ASSUME PagesInv
               PROVE  DialogsKeepTheirWord
    OBVIOUS
  <2>1. DialogsAreDone
    BY DialogInvDone DEF PagesInv
  <2>2. AccountIsTrue
    BY DEF PagesInv, AccountInv
  <2>3. UploadsParse
    BY DEF PagesInv, PullInv
  <2>4. RequestsFit /\ UnitsAreTheirs
    BY MonitoringInvKeeps DEF PagesInv
  <2> QED
    BY <2>1, <2>2, <2>3, <2>4 DEF DialogsKeepTheirWord
<1> QED
  BY <1>1, PagesInvariant, PTL

\* The server that started serves what its flags and file say (main.go:489, auth.go:165).
THEOREM PagesAreServedAsConfigured == Spec => []ServesAsConfigured
<1>1. PagesInv => ServesAsConfigured
  BY BridgeInvServes DEF PagesInv
<1> QED
  BY <1>1, PagesInvariant, PTL

\* What one page of the console keeps is kept with all of them: the lines of a log are of the
\* stream that is open, a terminal's of its session, the path is of the active namespace, and
\* only what was tested is offered.
THEOREM PagesKeepTheirOwn ==
    Spec => [](LaterLinesAreOurs /\ TerminalIsCurrent /\ PathIsActive /\ OnlyTestedIsOffered)
<1>1. PagesInv => LaterLinesAreOurs
  BY DEF PagesInv, LogInv, LinesInv, WindowInv
<1>2. PagesInv => TerminalIsCurrent /\ PathIsActive
  BY DEF PagesInv, ExecInv, PathInv
<1>3. PagesInv => OnlyTestedIsOffered
  BY DEF PagesInv, LdapInv, LdapTypeOK, OnlyTestedIsOffered
<1> QED
  BY <1>1, <1>2, <1>3, PagesInvariant, PTL

\* The path to come back to gives way only to that of a page that is refused there and then,
\* and the tab that takes it goes there (auth.js:11, tokener.html:45).
THEOREM PagesComeBack == Spec => BackWhereTheyWere
<1>1. PagesInv /\ [Next]_pagesVars => [NextIsKept]_loginVars
  BY StepsOfAccess, LoginNextInv DEF PagesInv
<1>2. Spec => [][Next]_pagesVars
  BY DEF Spec
<1> QED
  BY <1>1, <1>2, PagesInvariant, PTL DEF BackWhereTheyWere

-----------------------------------------------------------------------------
(* The types *)

\* A step of the console is one of the page that is shown.
LEMMA StepsOfTheShown ==
    [Next]_pagesVars =>
       /\ page' = page
       /\ page = "discovery" => [DiscoveryNext]_discoveryVars
       /\ page = "flags" => [FeatureNext]_featureVars
       /\ page = "scaling" => [ScalingNext]_scalingVars
       /\ page = "environment" => [EnvironmentNext]_environmentVars
       /\ page = "loader" => [AsyncNext]_asyncVars
BY DEF Next, pagesVars

\* What the pages keep besides, for their types: what is shown was asked for, written or told.
TypesInv ==
    /\ page \in Page
    /\ page = "discovery" => DiscoveryTypeOK
    /\ page = "flags" => FeatureTypeOK
    /\ page = "graphs" => PollingTypeOK
    /\ page = "loader" => AsyncTypeOK
    /\ page = "scaling" => ScalingTypeOK
    /\ page = "environment" => EnvironmentTypeOK
    /\ page = "terminal" => ExecTyped
    /\ page = "namespaces" => StoreTyped
    /\ page = "events" => EventTyped
    /\ page = "alerts" => AlertsTyped
    /\ page = "listing" => AskedTyped
    /\ page = "identity" => Len(starting) <= 2
    /\ page = "roles" => rbacKind \in {"binding", "role"}
    /\ page = "rule" => RuleTyped
    /\ page = "binding" => bound \in {"none", "incomplete", "sent"}
    /\ page = "subscription" => SubscriptionTyped
    /\ page = "source" => SourceBounded /\ KeyIsAwaited
    /\ page = "monitoring" => MonitoringTyped
    /\ page = "editor" => ObjectTyped
    /\ page = "secret" => RowsAreGiven

LEMMA TypesInitInv == Init => TypesInv
<1> SUFFICES ASSUME Init
             PROVE  TypesInv
  OBVIOUS
<1>1. page \in Page
  BY DEF Init
<1>2. DiscoveryTypeOK /\ FeatureTypeOK /\ PollingTypeOK /\ AsyncTypeOK /\ ScalingTypeOK
  BY DiscoveryInitTyped, FeatureInitTyped, PollingInitTyped, AsyncInitTyped, ScalingInitTyped DEF Init
<1>3. page = "environment" => EnvironmentTypeOK
  BY EnvironmentOpensTyped DEF Init, EnvironmentInit
<1>4. ExecTyped
  BY ExecInitTyped DEF Init, ExecTyped, ExecInit
<1>5. page = "namespaces" => StoreTyped
  BY StoreInitTyped DEF Init
<1>6. EventTyped /\ AskedTyped /\ ObjectTyped
  BY EventInitTyped, AskedInitTyped, ObjectInitTyped DEF Init, EditInit
<1>7. page = "alerts" => AlertsTyped
  BY AlertsOpenTyped DEF Init, AlertsInit
<1>8. page = "identity" => Len(starting) <= 2
  BY WaitingInit DEF Init
<1>9. page = "roles" => rbacKind \in {"binding", "role"}
  BY RbacKindInit DEF Init
<1>10. page = "rule" => RuleTyped
  BY RuleInitTyped DEF Init
<1>11. page = "binding" => bound \in {"none", "incomplete", "sent"}
  BY BoundInit DEF Init
<1>12. page = "subscription" => SubscriptionTyped
  BY SubscriptionInitTyped DEF Init
<1>13. page = "source" => SourceBounded /\ KeyIsAwaited
  BY SourceInitTyped DEF Init
<1>14. page = "monitoring" => MonitoringTyped
  BY MonitoringInitTyped DEF Init
<1>15. page = "secret" => RowsAreGiven
  BY SecretInitGiven DEF Init
<1> QED
  BY <1>1, <1>2, <1>3, <1>4, <1>5, <1>6, <1>7, <1>8, <1>9, <1>10, <1>11, <1>12, <1>13, <1>14, <1>15 DEF TypesInv

\* Each page keeps its types with what it keeps anyway.
LEMMA TypesNextInv ==
    PagesInv /\ FormsInv /\ ScreensInv /\ TypesInv /\ [Next]_pagesVars => TypesInv'
<1> SUFFICES ASSUME PagesInv, FormsInv, ScreensInv, TypesInv, [Next]_pagesVars
             PROVE  TypesInv'
  OBVIOUS
<1>1. page' = page /\ page' \in Page
  BY StepsOfTheShown DEF TypesInv
<1>2. CASE page \in {"discovery", "flags", "scaling", "environment", "loader"}
  <2>1. /\ page = "discovery" => DiscoveryTypeOK'
        /\ page = "flags" => FeatureTypeOK'
        /\ page = "scaling" => ScalingTypeOK'
        /\ page = "environment" => EnvironmentTypeOK'
        /\ page = "loader" => AsyncTypeOK'
    BY StepsOfTheShown, DiscoveryNextTyped, FeatureNextTyped, ScalingNextTyped, EnvironmentNextTyped,
       AsyncNextTyped DEF TypesInv
  <2> QED
    BY <1>1, <1>2, <2>1 DEF TypesInv
<1>3. CASE page \in {"terminal", "namespaces", "identity"}
  <2>1. page = "terminal" => ExecTyped'
    BY StepsOfPods, ExecNextTyped DEF TypesInv
  <2>2. page = "namespaces" => StoreTyped'
    BY StepsOfPods, StoreNextTyped DEF TypesInv, PagesInv
  <2>3. page = "identity" => (Len(starting) <= 2)'
    BY StepsOfAccess, WaitingNext DEF TypesInv, PagesInv
  <2> QED
    BY <1>1, <1>3, <2>1, <2>2, <2>3 DEF TypesInv
<1>4. CASE page \in {"graphs", "events", "alerts", "listing"}
  <2>1. /\ page = "graphs" => PollingTypeOK'
        /\ page = "events" => EventTyped'
        /\ page = "alerts" => AlertsTyped'
    BY StepsOfScreens, PollingNextTyped, EventNextTyped, AlertsNextTyped DEF TypesInv
  <2>2. page = "listing" => AskedTyped'
    BY StepsOfScreens, AskedNextTyped DEF TypesInv, ScreensInv
  <2> QED
    BY <1>1, <1>4, <2>1, <2>2 DEF TypesInv
<1>5. CASE page \in {"roles", "rule", "binding"}
  <2>1. /\ page = "roles" => (rbacKind \in {"binding", "role"})'
        /\ page = "rule" => RuleTyped'
        /\ page = "binding" => (bound \in {"none", "incomplete", "sent"})'
    BY StepsOfForms, RbacKindNext, RuleNextTyped, BoundNext DEF TypesInv
  <2> QED
    BY <1>1, <1>5, <2>1 DEF TypesInv
<1>6. CASE page \in {"subscription", "source", "monitoring", "editor", "secret"}
  <2>1. page = "subscription" => SubscriptionTyped'
    BY StepsOfForms, SubscriptionNextTyped DEF TypesInv, FormsInv
  <2>2. page = "source" => SourceBounded' /\ KeyIsAwaited'
    BY StepsOfForms, SourceBoundedNext, KeyIsAwaitedNext DEF TypesInv, FormsInv
  <2>3. page = "monitoring" => MonitoringTyped'
    BY StepsOfDialogs, MonitoringNextTyped DEF TypesInv, PagesInv
  <2>4. page = "editor" => ObjectTyped'
    BY StepsOfForms, EditNextTyped DEF TypesInv, FormsInv
  <2>5. page = "secret" => RowsAreGiven'
    BY StepsOfForms, SecretNextGiven DEF TypesInv, FormsInv
  <2> QED
    BY <1>1, <1>6, <2>1, <2>2, <2>3, <2>4, <2>5 DEF TypesInv
<1>7. CASE page \notin {"discovery", "flags", "scaling", "environment", "loader", "terminal", "namespaces", "identity",
                        "graphs", "events", "alerts", "listing", "roles", "rule", "binding", "subscription",
                        "source", "monitoring", "editor", "secret"}
  BY <1>1, <1>7 DEF TypesInv
<1> QED
  BY <1>2, <1>3, <1>4, <1>5, <1>6, <1>7

\* Every variable of the page that is shown has its type and its bound: a flush leaves no more
\* events than are kept (events.jsx:335), a row that is read has an identity of its own
\* (create-secret.tsx:430), a dialog's PUT is of a version that there is
\* (subscription-channel-modal.tsx:23).
THEOREM PagesKeepTheirTypes == Spec => []TypeOK
<1>1. PagesInv /\ FormsInv /\ ScreensInv /\ ListsInv /\ TypesInv => TypeOK
  <2> SUFFICES ASSUME PagesInv, FormsInv, ScreensInv, ListsInv, TypesInv
               PROVE  TypeOK
    OBVIOUS
  <2>1. LogTypeOK /\ LdapTypeOK /\ DialogTypeOK /\ AccountTypeOK /\ PullTypeOK /\ LoginTypeOK /\ BridgeTypeOK
    BY LoginInvFetches, BridgeIsTyped DEF PagesInv, LogInv, LdapInv, DialogInv, AccountInv, PullInv
  <2>2. ChannelTypeOK /\ OperatorsTypeOK
    BY OperatorsAreTyped DEF FormsInv, ScreensInv, ListsInv, ChannelInv
  <2>3. PairsTypeOK /\ DropdownTypeOK /\ ChargebackTypeOK /\ OverviewTypeOK /\ NavTypeOK /\ ResourceTypeOK
    BY KeysInvShows, ReportInvShows, CurrentInvShows, ResourceInvShows DEF ListsInv, MenuInv, OverviewInv
  <2>4. /\ page = "terminal" => ExecTypeOK
        /\ page = "namespaces" => NamespaceTypeOK
        /\ page = "events" => EventTypeOK
        /\ page = "alerts" => AlertsTypeOK
        /\ page = "listing" => ListingTypeOK
        /\ page = "identity" => ImpersonationTypeOK
    BY NamespaceIsTyped, ListingIsTyped, ImpersonationIsTyped
       DEF TypesInv, PagesInv, ScreensInv, ExecTyped, EventTyped, AlertsTyped
  <2>5. /\ page = "roles" => RbacTypeOK
        /\ page = "rule" => RuleTypeOK
        /\ page = "binding" => BindingTypeOK
        /\ page = "subscription" => SubscriptionTypeOK
        /\ page = "source" => SourceTypeOK
        /\ page = "monitoring" => MonitoringTypeOK
        /\ page = "editor" => EditTypeOK
        /\ page = "secret" => SecretTypeOK
    BY RbacIsTyped, RuleIsTyped, BindingIsTyped, SubscriptionIsTyped, SourceIsTyped, MonitoringIsTyped, EditIsTyped,
       SecretIsTyped DEF TypesInv, PagesInv, FormsInv
  <2> QED
    BY <2>1, <2>2, <2>3, <2>4, <2>5 DEF TypeOK, TypesInv
<1>2. Spec => Init /\ [][Next]_pagesVars
  BY DEF Spec
<1>3. Spec => []TypesInv
  BY <1>2, TypesInitInv, TypesNextInv, EveryPageInvariant, PTL
<1> QED
  BY <1>1, <1>3, EveryPageInvariant, PTL
=============================================================================
