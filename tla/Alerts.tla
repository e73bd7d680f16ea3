------------------------------- MODULE Alerts -------------------------------
(***************************************************************************)
(* The pages of alerts (src/frontend/public/components/alert.tsx): each    *)
(* page that is mounted polls Prometheus for all rules and puts them into  *)
(* one entry of the store, monitoringRules; the page of an alert, or of a  *)
(* rule, finds its own by the labels in its address.  The rules are those  *)
(* of one name, told apart by their labels.                                *)
(***************************************************************************)
EXTENDS Integers, FiniteSets

CONSTANTS
    RuleLabels,    \* a rule is the set of its labels
    Series,        \* time series that fire, each with a label of its own
    MaxFirings,    \* bound: changes in Prometheus
    MaxAlertPages, \* bound: pages mounted
    MaxPollFails   \* bound: polls that fail

\* Prometheus tells rules of one name apart by their labels.  That the labels
\* of none are among those of another is more than it asks: see DetailsAreTheLinked.
ASSUME AlertsAssumption ==
    /\ \A r \in RuleLabels, s \in RuleLabels : r \subseteq s => r = s
    /\ \A r \in RuleLabels : r \cap Series = {}
    /\ MaxFirings \in Nat /\ MaxAlertPages \in Nat /\ MaxPollFails \in Nat

VARIABLES
    firing,     \* Prometheus: the series that fire, of each rule
    alertsSet,  \* SERVER_FLAGS.prometheusBaseURL is set
    alertPage,  \* the page that is mounted
    labelsOf,   \* the labels in its address
    linked,     \* history: the rule whose link was followed
    mounts,     \* pages mounted so far; the last is the one that is there
    polls,      \* polls that run: requests, answers on their way, timers
    rulesInStore, \* monitoringRules
    firings, pollFails

alertsVars == <<firing, alertsSet, alertPage, labelsOf, linked, mounts, polls, rulesInStore, firings, pollFails>>

Firing == [RuleLabels -> SUBSET Series]
NoRules == [r \in {} |-> {}]
RulesLoading == [state |-> "loading", rules |-> NoRules]
RulesErrored == [state |-> "error", rules |-> NoRules]
RulesLoaded(f) == [state |-> "loaded", rules |-> f]

Poll(n) == [of |-> n, at |-> "asked", rules |-> NoRules]

\* An alert has its rule's labels and the series'.
AlertLabels(r, s) == r \cup {s}

AlertsOpen(configured) ==
    /\ firing = [r \in RuleLabels |-> {}] /\ alertsSet = configured
    /\ alertPage = "none" /\ labelsOf = {} /\ linked = {}
    /\ mounts = 0 /\ polls = {} /\ rulesInStore = RulesLoading
    /\ firings = 0 /\ pollFails = 0

AlertsInit == \E configured \in BOOLEAN : AlertsOpen(configured)

-----------------------------------------------------------------------------
\* What the details pages find: _.find takes any entry whose labels include
\* those of the address; an alert's rule is looked for through the alerts first.
StoredRules == rulesInStore.rules

RulesByAlert == {r \in DOMAIN StoredRules : \E s \in StoredRules[r] : labelsOf \subseteq AlertLabels(r, s)}

RulesByLabels == {r \in DOMAIN StoredRules : labelsOf \subseteq r}

RuleFound == IF alertPage = "alert" /\ RulesByAlert # {} THEN RulesByAlert ELSE RulesByLabels

-----------------------------------------------------------------------------
\* componentDidMount: a page of another kind is another instance; the one
\* before is unmounted, its poll goes on until its timer.
PageMounts ==
    /\ mounts < MaxAlertPages
    /\ mounts' = mounts + 1
    /\ IF alertsSet
       THEN /\ rulesInStore' = RulesLoading
            /\ polls' = polls \cup {Poll(mounts + 1)}
       ELSE rulesInStore' = RulesErrored /\ UNCHANGED polls

ShowsAlerts(p, labels, rule) ==
    /\ alertPage' = p /\ labelsOf' = labels /\ linked' = rule
    /\ IF p = alertPage THEN UNCHANGED <<mounts, polls, rulesInStore>> ELSE PageMounts
    /\ UNCHANGED <<firing, alertsSet, firings, pollFails>>

\* The list links to a rule's alert by the labels of the rule (line 308), a
\* rule to its alerts by theirs (line 207), an alert to its rule (line 159).
OpensList == alertPage # "list" /\ ShowsAlerts("list", {}, {})

\* The address of a rule, from outside the console.
OpensRule(r) == alertPage = "none" /\ ShowsAlerts("rule", r, r)

FollowsRow(r) == alertPage = "list" /\ r \in DOMAIN StoredRules /\ ShowsAlerts("alert", r, r)

FollowsAlert(r, s) ==
    /\ alertPage = "rule" /\ r \in RuleFound /\ s \in StoredRules[r]
    /\ ShowsAlerts("alert", AlertLabels(r, s), r)

FollowsRule(r) == alertPage = "alert" /\ r \in RuleFound /\ ShowsAlerts("rule", r, r)

LeavesAlerts ==
    /\ alertPage # "none"
    /\ alertPage' = "none" /\ labelsOf' = {} /\ linked' = {}
    /\ UNCHANGED <<firing, alertsSet, mounts, polls, rulesInStore, firings, pollFails>>

-----------------------------------------------------------------------------
\* Prometheus answers with the rules of some moment between question and answer.
PollReads(p) ==
    /\ p.at = "asked"
    /\ polls' = (polls \ {p}) \cup {[p EXCEPT !.at = "read", !.rules = firing]}
    /\ UNCHANGED <<firing, alertsSet, alertPage, labelsOf, linked, mounts, rulesInStore, firings, pollFails>>

ToTimer(p) == polls' = (polls \ {p}) \cup {[p EXCEPT !.at = "timer", !.rules = NoRules]}

\* The answer goes into the store, whether its page is there or not.
PollAnswered(p) ==
    /\ p.at = "read" /\ ToTimer(p)
    /\ rulesInStore' = RulesLoaded(p.rules)
    /\ UNCHANGED <<firing, alertsSet, alertPage, labelsOf, linked, mounts, firings, pollFails>>

PollFails(p) ==
    /\ p.at \in {"asked", "read"} /\ pollFails < MaxPollFails /\ ToTimer(p)
    /\ rulesInStore' = RulesErrored
    /\ pollFails' = pollFails + 1
    /\ UNCHANGED <<firing, alertsSet, alertPage, labelsOf, linked, mounts, firings>>

AlertsMounted(n) == n = mounts /\ alertPage # "none"  \* this.isMounted_

\* The timer polls again, or ends the poll of a page that is gone.
PollsAgain(p) ==
    /\ p.at = "timer"
    /\ polls' = (polls \ {p}) \cup (IF AlertsMounted(p.of) THEN {Poll(p.of)} ELSE {})
    /\ UNCHANGED <<firing, alertsSet, alertPage, labelsOf, linked, mounts, rulesInStore, firings, pollFails>>

FiringChanges(r, s) ==
    /\ firings < MaxFirings
    /\ firings' = firings + 1
    /\ firing' = [firing EXCEPT ![r] = IF s \in @ THEN @ \ {s} ELSE @ \cup {s}]
    /\ UNCHANGED <<alertsSet, alertPage, labelsOf, linked, mounts, polls, rulesInStore, pollFails>>

AlertsNext ==
    \/ OpensList \/ LeavesAlerts
    \/ \E r \in RuleLabels : OpensRule(r) \/ FollowsRow(r) \/ FollowsRule(r)
    \/ \E r \in RuleLabels, s \in Series : FollowsAlert(r, s) \/ FiringChanges(r, s)
    \/ \E p \in polls : PollReads(p) \/ PollAnswered(p) \/ PollFails(p) \/ PollsAgain(p)

\* A poll is answered, or fails, and its timer fires.
AlertsFairness ==
    \A n \in 1 .. MaxAlertPages :
        WF_alertsVars(\E p \in polls : p.of = n /\ (PollReads(p) \/ PollAnswered(p) \/ PollsAgain(p)))

AlertsSpec == AlertsInit /\ [][AlertsNext]_alertsVars /\ AlertsFairness

-----------------------------------------------------------------------------
AlertsTypeOK ==
    /\ firing \in Firing /\ alertsSet \in BOOLEAN
    /\ alertPage \in {"none", "list", "alert", "rule"}
    /\ labelsOf \subseteq (UNION RuleLabels) \cup Series /\ linked \in RuleLabels \cup {{}}
    /\ mounts \in 0 .. MaxAlertPages /\ firings \in 0 .. MaxFirings /\ pollFails \in 0 .. MaxPollFails
    /\ polls \subseteq [of : 1 .. MaxAlertPages, at : {"asked", "read", "timer"}, rules : Firing \cup {NoRules}]
    /\ rulesInStore \in {RulesLoading, RulesErrored} \cup {RulesLoaded(f) : f \in Firing}

\* The page of an alert or of a rule shows the rule whose link was followed or
\* none, whichever answers come while the alerts of that rule, and of the
\* others of its name, start and stop firing (alert.tsx:113, 217).  Two rules of one name, where
\* the labels of one are among those of the other, are taken for each other.
DetailsAreTheLinked == alertPage \in {"alert", "rule"} => RuleFound \subseteq {linked}

\* Violated: the rule of an alert that has stopped firing is looked for by the
\* labels of the alert, which no rule has, and is "not found" (alert.tsx:119).
LinkedIsFound == alertPage = "alert" /\ linked \in DOMAIN StoredRules => RuleFound # {}

\* The alerts of a page that stays become those of Prometheus, though answers
\* to pages that are gone are still written to the same entry (alert.tsx:89).
AlertsAreCurrent ==
    <>[](alertPage # "none" /\ alertsSet) => <>[](rulesInStore = RulesLoaded(firing))

\* A page that is gone polls no more in the end (alert.tsx:93).
AlertPollsEnd == []<>(\A p \in polls : AlertsMounted(p.of))
=============================================================================
