-------------------------------- MODULE RBAC --------------------------------
(***************************************************************************)
(* Role bindings and roles while others change them too                    *)
(* (src/frontend/public/components/RBAC): the subjects of a binding are    *)
(* deleted and replaced by their index with a JSON patch (bindings.jsx),   *)
(* the rules of a role are deleted that way (rules.jsx) and edited by      *)
(* replacing the whole role (edit-rule.jsx).  That form is temporarily     *)
(* disabled at this commit: neither its routes (app.jsx:179) nor the menu  *)
(* of a rule (rules.jsx:104) lead to it.  It is modelled as it stands.     *)
(***************************************************************************)
EXTENDS Integers, Sequences, SequencesExt, FiniteSets

CONSTANTS
    Item,      \* subjects of a binding, rules of a role
    MaxItems,  \* bound: items of one object
    MaxEdits   \* bound: changes by others; one save more

ASSUME RBACAssumption == Item # {} /\ MaxItems \in Nat \ {0} /\ MaxEdits \in Nat

VARIABLES
    rbacKind,  \* "binding" or "role"
    object,    \* the API server's object: its items, its version, whether it is there
    listed,    \* the items the page shows
    task,      \* the dialog or the form that is open
    request    \* the request in flight

rbacVars == <<rbacKind, object, listed, task, request>>

Items == UNION {[1 .. n -> Item] : n \in 0 .. MaxItems}
NoTask == [op |-> "none", index |-> 0, item |-> CHOOSE i \in Item : TRUE, role |-> <<>>, ver |-> 0]

RbacOpens(kind, items) ==
    /\ rbacKind = kind
    /\ object = [items |-> items, ver |-> 1, there |-> TRUE] /\ listed = items
    /\ task = NoTask /\ request = NoTask

RbacInit == \E kind \in {"binding", "role"}, items \in Items : RbacOpens(kind, items)

OthersEdit ==
    /\ object.there /\ object.ver < MaxEdits
    /\ \E items \in Items \ {object.items} :
         object' = [object EXCEPT !.items = items, !.ver = @ + 1]
    /\ UNCHANGED <<rbacKind, listed, task, request>>

\* The watch of the page catches up.
Noticed ==
    /\ listed # object.items /\ object.there
    /\ listed' = object.items
    /\ UNCHANGED <<rbacKind, object, task, request>>

-----------------------------------------------------------------------------
(* The dialogs and forms *)

\* The menu of a row: the last subject is deleted with its binding.
MenuAction == IF rbacKind = "binding" /\ Len(listed) = 1 THEN "delete" ELSE "remove"

\* confirmModal names the item as the row has it.
AskToRemove(i) ==
    /\ task = NoTask
    /\ task' = [NoTask EXCEPT !.op = MenuAction, !.index = i, !.item = listed[i]]
    /\ UNCHANGED <<rbacKind, object, listed, request>>

\* BaseEditRoleBinding: the subject at the index as it was shown.
EditSubject(i) ==
    /\ rbacKind = "binding" /\ task = NoTask
    /\ task' = [NoTask EXCEPT !.op = "replace", !.index = i, !.item = listed[i]]
    /\ UNCHANGED <<rbacKind, object, listed, request>>

\* getResource of EditRule: the role is read once; index 0 is a new rule.
EditRule(i) ==
    /\ rbacKind = "role" /\ task = NoTask /\ object.there
    /\ IF i = 0 THEN Len(object.items) < MaxItems ELSE i <= Len(object.items)
    /\ task' = [NoTask EXCEPT !.op = "put", !.index = i, !.role = object.items, !.ver = object.ver]
    /\ UNCHANGED <<rbacKind, object, listed, request>>

CancelTask ==
    /\ task # NoTask
    /\ task' = NoTask
    /\ UNCHANGED <<rbacKind, object, listed, request>>

\* save() of EditRule: the role as it was read, with one rule more or changed.
SaveRule(item) == [task EXCEPT !.item = item]

RoleOf(r) == IF r.index = 0 THEN Append(r.role, r.item)
             ELSE [i \in DOMAIN r.role |-> IF i = r.index THEN r.item ELSE r.role[i]]

Submit ==
    /\ task # NoTask /\ request = NoTask /\ object.ver <= MaxEdits
    /\ \/ task.op \in {"remove", "delete"} /\ request' = task
       \/ task.op = "replace" /\ \E item \in Item : request' = [task EXCEPT !.item = item]
       \/ task.op = "put" /\ \E item \in Item : request' = SaveRule(item)
    /\ task' = NoTask
    /\ UNCHANGED <<rbacKind, object, listed>>

-----------------------------------------------------------------------------
(* The API server *)

Accepted ==
    /\ object.there
    /\ request.op \in {"remove", "replace"} => request.index \in DOMAIN object.items
    /\ request.op = "put" => request.ver = object.ver

Applied ==
    CASE request.op = "remove" -> RemoveAt(object.items, request.index)
      [] request.op = "replace" -> [object.items EXCEPT ![request.index] = request.item]
      [] request.op = "put" -> RoleOf(request)
      [] OTHER -> object.items

ServerAnswers ==
    /\ request # NoTask
    /\ request' = NoTask
    /\ object' = IF Accepted
                 THEN [items |-> Applied, ver |-> object.ver + 1, there |-> request.op # "delete"]
                 ELSE object
    /\ UNCHANGED <<rbacKind, listed, task>>

RbacNext ==
    \/ OthersEdit \/ Noticed
    \/ (\E i \in DOMAIN listed : AskToRemove(i) \/ EditSubject(i))
    \/ (\E i \in 0 .. MaxItems : EditRule(i))
    \/ CancelTask \/ Submit \/ ServerAnswers

RbacSpec == RbacInit /\ [][RbacNext]_rbacVars

-----------------------------------------------------------------------------
RbacTypeOK ==
    /\ rbacKind \in {"binding", "role"} /\ listed \in Seq(Item)
    /\ object.items \in Seq(Item) /\ object.ver \in Nat /\ object.there \in BOOLEAN
    /\ \A t \in {task, request} :
         t.op \in {"none", "remove", "delete", "replace", "put"} /\ t.item \in Item /\ t.role \in Seq(Item)

Answering(op) == request.op = op /\ request' = NoTask /\ object'.ver # object.ver

\* Saving one rule changes no other: what the role lost or gained since it was
\* read is not undone by writing it back whole (edit-rule.jsx:148-169).
OtherRulesAreKept ==
    [][Answering("put") =>
         IF request.index = 0 THEN object'.items = Append(object.items, request.item)
         ELSE object'.items = [object.items EXCEPT ![request.index] = request.item]]_rbacVars

\* The subject that is deleted is the one the dialog named
\* (bindings.jsx:59-67).
RemovesTheNamed ==
    [][Answering("remove") => object.items[request.index] = request.item]_rbacVars

-----------------------------------------------------------------------------
(***************************************************************************)
(* The form of one access rule                                             *)
(* (src/frontend/public/components/RBAC/edit-rule.jsx): radio buttons and  *)
(* check boxes for verbs and resources, the list of which is discovered    *)
(* while the form is shown, as is the role whose rule is edited.           *)
(***************************************************************************)

CONSTANTS
    ReadVerbs, WriteVerbs,  \* READ_VERBS, and what READ_WRITE_VERBS adds
    NonResourceVerbs,       \* NON_RESOURCE_VERBS
    SafeResources, AdminResources,
    Namespaced,             \* namespacedSet
    Unlisted                \* a verb and a resource a rule may name that the form does not list

ASSUME RuleAssumption ==
    /\ ReadVerbs \cap WriteVerbs = {} /\ NonResourceVerbs \subseteq ReadVerbs \cup WriteVerbs
    /\ SafeResources \cap AdminResources = {} /\ Namespaced \subseteq SafeResources \cup AdminResources
    /\ {Unlisted, "*"} \cap (ReadVerbs \cup WriteVerbs \cup SafeResources \cup AdminResources) = {}

VARIABLES
    ruleOf,     \* whether the role is a namespace's, and a rule of it is edited
    ruleForm,   \* EditRule's state
    discovered, \* RESOURCES of the store are there
    ruleSaved   \* whether it was saved, and the rule that was sent

ruleVars == <<ruleOf, ruleForm, discovered, ruleSaved>>

AllVerbs == ReadVerbs \cup WriteVerbs
AllResources == IF discovered THEN SafeResources \cup AdminResources ELSE {}

\* A rule: "*" is all of them.
Star == "*"
Rules ==
    [verbs : {{Star}} \cup (SUBSET (AllVerbs \cup {Unlisted}) \ {{}}),
     resources : {{Star}} \cup SUBSET (SafeResources \cup AdminResources \cup {Unlisted})]

NewForm == [role |-> FALSE, verbControl |-> "RO", resourceControl |-> "SAFE", verbsSet |-> {}, resourceSet |-> {}]

NoRule == [verbs |-> {}, resources |-> {}]
NotSaved == [at |-> FALSE, rule |-> NoRule]

RuleOpens(namespaced, edits) ==
    /\ ruleOf = [namespaced |-> namespaced, edits |-> edits]
    /\ ruleForm = NewForm /\ discovered = FALSE /\ ruleSaved = NotSaved

RuleInit == \E namespaced \in BOOLEAN, edits \in BOOLEAN : RuleOpens(namespaced, edits)

-----------------------------------------------------------------------------
IsVerbSelected(v) ==
    CASE ruleForm.verbControl = "CUSTOM" -> v \in ruleForm.verbsSet
      [] ruleForm.verbControl = "RO" -> v \in ReadVerbs
      [] OTHER -> TRUE

IsResourceSelected(r) ==
    CASE ruleForm.resourceControl = "CUSTOM" -> r \in ruleForm.resourceSet
      [] ruleForm.resourceControl = "SAFE" -> r \notin AdminResources
      [] ruleForm.resourceControl = "NON" -> FALSE
      [] OTHER -> TRUE

SelectedVerbs == {v \in AllVerbs : IsVerbSelected(v)}
SelectedResources == {r \in AllResources : IsResourceSelected(r)}

\* The boxes: API_VERBS leaves out all verbs of non-resource URLs.
VerbBoxes == IF ruleOf.namespaced THEN AllVerbs \ NonResourceVerbs ELSE AllVerbs
ResourceBoxes == IF ruleOf.namespaced THEN AllResources \cap Namespaced ELSE AllResources

\* getResource of the form: what was chosen by then is replaced.
RoleArrives ==
    /\ ~ruleForm.role
    /\ IF ~ruleOf.edits THEN ruleForm' = [ruleForm EXCEPT !.role = TRUE]
       ELSE \E rule \in Rules :
              ruleForm' = [role |-> TRUE,
                           verbControl |-> IF Star \in rule.verbs THEN "ALL" ELSE "CUSTOM",
                           resourceControl |-> IF Star \in rule.resources THEN "ALL" ELSE "CUSTOM",
                           verbsSet |-> rule.verbs \ {Star}, resourceSet |-> rule.resources \ {Star}]
    /\ UNCHANGED <<ruleOf, discovered, ruleSaved>>

ResourcesArrive ==
    /\ ~discovered
    /\ discovered' = TRUE
    /\ UNCHANGED <<ruleOf, ruleForm, ruleSaved>>

\* set: a radio button; the set chosen before is kept.
Choose(control, value) ==
    /\ ruleForm' = [ruleForm EXCEPT ![control] = value]
    /\ UNCHANGED <<ruleOf, discovered, ruleSaved>>

Toggled(set, x) == IF x \in set THEN set \ {x} ELSE set \cup {x}

\* toggleVerb_: the boxes that are checked become the custom set.
ToggleVerb(v) ==
    /\ LET base == IF ruleForm.verbControl = "CUSTOM" THEN ruleForm.verbsSet ELSE SelectedVerbs
       IN  ruleForm' = [ruleForm EXCEPT !.verbControl = "CUSTOM",
                          !.verbsSet = IF IsVerbSelected(v) THEN base \ {v} ELSE base \cup {v}]
    /\ UNCHANGED <<ruleOf, discovered, ruleSaved>>

ToggleResource(r) ==
    /\ LET base == IF ruleForm.resourceControl = "CUSTOM" THEN ruleForm.resourceSet ELSE SelectedResources
       IN  ruleForm' = [ruleForm EXCEPT !.resourceControl = "CUSTOM",
                          !.resourceSet = IF IsResourceSelected(r) THEN base \ {r} ELSE base \cup {r}]
    /\ UNCHANGED <<ruleOf, discovered, ruleSaved>>

\* save: without the role it throws.
RuleToSave ==
    [verbs |-> IF ruleForm.verbControl = "ALL" THEN {Star} ELSE SelectedVerbs,
     resources |-> IF ruleForm.resourceControl = "ALL" THEN {Star} ELSE SelectedResources]

SaveTheRule ==
    /\ ruleForm.role
    /\ ruleSaved' = [at |-> TRUE, rule |-> RuleToSave]
    /\ UNCHANGED <<ruleOf, ruleForm, discovered>>

RuleNext ==
    /\ ~ruleSaved.at
    /\ \/ RoleArrives \/ ResourcesArrive
       \/ \E c \in {"RO", "ALL", "CUSTOM"} : Choose("verbControl", c)
       \/ \E c \in {"SAFE", "ALL", "CUSTOM"} \cup (IF ruleOf.namespaced THEN {} ELSE {"NON"}) :
            Choose("resourceControl", c)
       \/ \E v \in VerbBoxes : ToggleVerb(v)
       \/ \E r \in ResourceBoxes : ToggleResource(r)
       \/ SaveTheRule

RuleSpec == RuleInit /\ [][RuleNext]_ruleVars

-----------------------------------------------------------------------------
RuleTypeOK ==
    /\ ruleForm.verbControl \in {"RO", "ALL", "CUSTOM"} /\ ruleForm.verbsSet \subseteq AllVerbs \cup {Unlisted}
    /\ ruleForm.resourceControl \in {"SAFE", "ALL", "CUSTOM", "NON"}
    /\ ruleForm.resourceSet \subseteq SafeResources \cup AdminResources \cup {Unlisted}
    /\ discovered \in BOOLEAN /\ ruleSaved.at \in BOOLEAN

Checked == <<{v \in VerbBoxes : IsVerbSelected(v)}, {r \in ResourceBoxes : IsResourceSelected(r)}>>

\* A rule of a cluster role grants what its form showed and no more; one of a
\* namespace grants beyond that only what the form does not list there
\* (edit-rule.jsx:148-170, 358-417).
GrantsWhatIsShown ==
    ruleSaved.at =>
        LET verbs == ruleSaved.rule.verbs  resources == ruleSaved.rule.resources
        IN  /\ IF Star \in verbs THEN Checked[1] = VerbBoxes ELSE verbs \cap VerbBoxes = Checked[1]
            /\ IF Star \in resources THEN Checked[2] = ResourceBoxes
               ELSE resources \cap ResourceBoxes = Checked[2]
            /\ ~ruleOf.namespaced => verbs \ {Star} \subseteq VerbBoxes /\ resources \ {Star} \subseteq ResourceBoxes

\* A click on a box changes that box and no other, whichever radio button had set them
\* (edit-rule.jsx:209-247).
OneBoxAtATime ==
    [][(\A v \in VerbBoxes : ToggleVerb(v) => Checked' = <<Toggled(Checked[1], v), Checked[2]>>)
       /\ (\A r \in ResourceBoxes : ToggleResource(r) => Checked' = <<Checked[1], Toggled(Checked[2], r)>>)]_ruleVars

-----------------------------------------------------------------------------
(***************************************************************************)
(* The form that creates, edits and duplicates a role binding              *)
(* (bindings.jsx): its kind and namespace, the role, chosen from a         *)
(* dropdown with a state of its own, and the subject, whose fields depend  *)
(* on its kind.                                                            *)
(***************************************************************************)
CONSTANTS
    BindingNs,     \* namespaces, each of which has one role of its own
    ClusterRole,   \* names of cluster roles
    SubjectName    \* names of users, groups and service accounts

ASSUME BindingAssumption == "" \notin BindingNs \cup ClusterRole \cup SubjectName

VARIABLES
    bindingProps, \* props: isCreate, and what is fixed
    binding,  \* BaseEditRoleBinding's state.data
    dropdown, \* ListDropdown_ of the roles: which one, loaded, selectedKey, title
    bound     \* how far a save is: "none", "incomplete" or "sent"

bindingVars == <<bindingProps, binding, dropdown, bound>>

NoRole == [kind |-> "", name |-> ""]
RoleIn(n) == [kind |-> "Role", name |-> n]
ClusterRoles == [kind : {"ClusterRole"}, name : ClusterRole]

\* NsRoleDropdown, ClusterRoleDropdown: without a namespace, cluster roles only.
RolesFor(kind, ns) == ClusterRoles \cup IF kind = "RoleBinding" /\ ns # "" THEN {RoleIn(ns)} ELSE {}

SubjectKind == {"User", "Group", "ServiceAccount"}
NewSubject == [kind |-> "User", name |-> "", namespace |-> "", apiGroup |-> TRUE]

\* setSubject: a service account has a namespace and no group, others no namespace.
SubjectOf(kind, name, namespace) ==
    [kind |-> kind, name |-> name, namespace |-> IF kind = "ServiceAccount" THEN namespace ELSE "",
     apiGroup |-> kind # "ServiceAccount"]

\* defaultsDeep gives the first subject the group of the default one.
Existing(index, subject) == IF index = 0 THEN [subject EXCEPT !.apiGroup = TRUE] ELSE subject

RoleDropdown(kind, role) == [kind |-> kind, loaded |-> FALSE, selectedKey |-> role, title |-> NoRole]

BindingOpens(create, fixedKind, fixedNs, fixedRole, d) ==
    /\ bindingProps = [create |-> create, kind |-> fixedKind, namespace |-> fixedNs, role |-> fixedRole]
    /\ binding = d
    /\ dropdown = RoleDropdown(d.kind, d.role)
    /\ bound = "none"

NewBinding(ns, role) ==
    [kind |-> "RoleBinding", name |-> "", namespace |-> ns, role |-> role, subject |-> NewSubject]

\* CreateRoleBinding: a namespace or a role of one fixes the kind.
CreateOpens ==
    \E ns \in BindingNs \cup {""}, role \in ClusterRoles \cup {NoRole} \cup {RoleIn(n) : n \in BindingNs} :
        /\ role.kind = "Role" => ns = role.name
        /\ BindingOpens(TRUE, ns # "" \/ role.kind = "Role", ns # "", role # NoRole,
                        NewBinding(ns, role))

\* EditRoleBinding fixes all but the subject, CopyRoleBinding nothing: not even the kind is
\* taken over, a copy begins as a RoleBinding.
ExistingOpens(copy) ==
    \E ns \in BindingNs \cup {""}, k \in SubjectKind, n \in SubjectName, m \in BindingNs, index \in 0 .. 1 :
        LET kind == IF ns = "" /\ ~copy THEN "ClusterRoleBinding" ELSE "RoleBinding"
        IN  \E role \in RolesFor(kind, ns) :
                BindingOpens(copy, ~copy, ~copy /\ ns # "", ~copy,
                             [kind |-> kind, name |-> "b", namespace |-> ns, role |-> role,
                              subject |-> Existing(index, SubjectOf(k, n, m))])

BindingInit == CreateOpens \/ ExistingOpens(TRUE) \/ ExistingOpens(FALSE)

-----------------------------------------------------------------------------
(* The fields *)

FillsIn == bound \in {"none", "incomplete"}

\* componentWillReceiveProps of the dropdown: the title is of an item that is there.
RolesLoad ==
    /\ FillsIn /\ ~dropdown.loaded
    /\ dropdown' = [dropdown EXCEPT !.loaded = TRUE,
                      !.title = IF dropdown.selectedKey \in RolesFor(binding.kind, binding.namespace)
                                THEN dropdown.selectedKey ELSE @]
    /\ UNCHANGED <<bindingProps, binding, bound>>

\* setKind: the other kind has another dropdown, with the role there is.
SetKind(kind) ==
    /\ FillsIn /\ ~bindingProps.kind /\ kind # binding.kind
    /\ binding' = [binding EXCEPT !.kind = kind, !.namespace = IF kind = "ClusterRoleBinding" THEN "" ELSE @]
    /\ dropdown' = RoleDropdown(kind, binding.role)
    /\ UNCHANGED <<bindingProps, bound>>

ChangeName ==
    /\ FillsIn /\ bindingProps.create
    /\ binding' = [binding EXCEPT !.name = "b"]
    /\ UNCHANGED <<bindingProps, dropdown, bound>>

\* The roles of the other namespace are loaded; the title stays till then, and
\* after.
ChangeBindingNs(ns) ==
    /\ FillsIn /\ binding.kind = "RoleBinding" /\ ~bindingProps.namespace
    /\ binding' = [binding EXCEPT !.namespace = ns]
    /\ dropdown' = [dropdown EXCEPT !.loaded = FALSE]
    /\ UNCHANGED <<bindingProps, bound>>

\* onChange of the dropdown, changeRoleRef.
ChangeRoleRef(role) ==
    /\ FillsIn /\ dropdown.loaded /\ ~bindingProps.role
    /\ dropdown' = [dropdown EXCEPT !.selectedKey = role, !.title = role]
    /\ binding' = [binding EXCEPT !.role = role]
    /\ UNCHANGED <<bindingProps, bound>>

\* changeSubjectKind, changeSubjectName, changeSubjectNamespace.
SetSubject(kind, name, namespace) ==
    /\ FillsIn
    /\ binding' = [binding EXCEPT !.subject = SubjectOf(kind, name, namespace)]
    /\ UNCHANGED <<bindingProps, dropdown, bound>>

Filled(d) ==
    /\ d.name # "" /\ d.role # NoRole /\ d.subject.name # ""
    /\ d.kind = "RoleBinding" => d.namespace # ""
    /\ d.subject.kind = "ServiceAccount" => d.subject.namespace # ""

\* save: the binding is created, or its subject replaced.
SaveBinding ==
    /\ FillsIn
    /\ bound' = IF Filled(binding) THEN "sent" ELSE "incomplete"
    /\ UNCHANGED <<bindingProps, binding, dropdown>>

\* An error leaves the form as it is.
BindingRefused ==
    /\ bound = "sent"
    /\ bound' = "none"
    /\ UNCHANGED <<bindingProps, binding, dropdown>>

BindingNext ==
    \/ RolesLoad \/ ChangeName
    \/ (\E kind \in {"RoleBinding", "ClusterRoleBinding"} : SetKind(kind))
    \/ (\E ns \in BindingNs : ChangeBindingNs(ns))
    \/ (\E role \in RolesFor(binding.kind, binding.namespace) : ChangeRoleRef(role))
    \/ (\E kind \in SubjectKind : SetSubject(kind, binding.subject.name, binding.subject.namespace))
    \/ (\E name \in SubjectName \cup {""} : SetSubject(binding.subject.kind, name, binding.subject.namespace))
    \/ (\E ns \in BindingNs : binding.subject.kind = "ServiceAccount"
                                /\ SetSubject("ServiceAccount", binding.subject.name, ns))
    \/ SaveBinding \/ BindingRefused

BindingSpec == BindingInit /\ [][BindingNext]_bindingVars

-----------------------------------------------------------------------------
BindingTypeOK ==
    /\ binding.kind \in {"RoleBinding", "ClusterRoleBinding"} /\ binding.namespace \in BindingNs \cup {""}
    /\ binding.subject.kind \in SubjectKind /\ dropdown.loaded \in BOOLEAN
    /\ bound \in {"none", "incomplete", "sent"}

\* The role on the screen is the one a save sends, whichever way the kind, the
\* namespace and the role were changed (bindings.jsx:183-240, 385).
ShownRoleIsSent == dropdown.title # NoRole => dropdown.title = binding.role

\* What is sent belongs together: no namespace of another kind is left in the
\* binding or its subject (bindings.jsx:391-410, 415-421).
BindingIsWhole ==
    bound = "sent" =>
        /\ (binding.kind = "RoleBinding") = (binding.namespace # "")
        /\ (binding.subject.kind = "ServiceAccount") = (binding.subject.namespace # "")
=============================================================================
