--------------------------- MODULE LdapSettings ----------------------------
(***************************************************************************)
(* The LDAP settings (src/frontend/public/components/cluster-settings/     *)
(* ldap.jsx): the form is tested against the LDAP server, and what was     *)
(* tested may then be downloaded.  Contents of the form are told apart by  *)
(* their version, the nonce props.error that validate() counts up at least *)
(* by one, whatever was changed.                                           *)
(***************************************************************************)
EXTENDS Integers, Sequences

CONSTANTS
    MaxDrafts,  \* bound: versions of the form
    MaxTests    \* bound: tests at once

ASSUME LdapAssumption == MaxDrafts \in Nat \ {0} /\ MaxTests \in Nat \ {0}

VARIABLES
    ldapConfig,       \* the config map: "loading", "loaded" or "error"
    stepsShown,       \* steps of the form that are shown, by state.populated
    stateMachine,     \* state.stateMachine
    draft,            \* props.error
    validatedVersion, \* state.validatedVersion, or 0
    tests,            \* the tests in flight: their versions, or the answers
    passed,           \* versions the LDAP server has accepted
    downloaded        \* versions that were downloaded

ldapVars == <<ldapConfig, stepsShown, stateMachine, draft, validatedVersion, tests, passed, downloaded>>

LdapSteps == <<"Globals", "ServiceAccount", "Users", "Groups", "TestData">>

Tests == [id : 1 .. MaxTests, ver : 1 .. MaxDrafts, result : {"none", "valid", "invalid"}]

LdapInit ==
    /\ ldapConfig = "loading" /\ stepsShown = 1 /\ stateMachine = "untested"
    /\ draft = 1 /\ validatedVersion = 0
    /\ tests = {} /\ passed = {} /\ downloaded = {}

\* componentDidMount: a form that is filled from an LDAP connector is validated anew.
LdapLoads ==
    /\ ldapConfig = "loading" /\ ldapConfig' = "loaded"
    /\ draft' \in {draft, draft + 1} \cap 1 .. MaxDrafts
    /\ UNCHANGED <<stepsShown, stateMachine, validatedVersion, tests, passed, downloaded>>

LdapLoadFails ==
    /\ ldapConfig = "loading" /\ ldapConfig' = "error"
    /\ UNCHANGED <<stepsShown, stateMachine, draft, validatedVersion, tests, passed, downloaded>>

\* populate: the last of the steps shown has the button.
Populate ==
    /\ ldapConfig = "loaded" /\ stepsShown < Len(LdapSteps)
    /\ stepsShown' = stepsShown + 1
    /\ UNCHANGED <<ldapConfig, stateMachine, draft, validatedVersion, tests, passed, downloaded>>

\* componentWillReceiveProps, with the nonce of the new props.
Received(error) ==
    stateMachine' = IF validatedVersion \notin {0, error} THEN "untested" ELSE stateMachine

\* A field changes: validate() counts.
FieldChanges ==
    /\ ldapConfig = "loaded" /\ draft < MaxDrafts
    /\ draft' = draft + 1
    /\ Received(draft')
    /\ UNCHANGED <<ldapConfig, stepsShown, validatedVersion, tests, passed, downloaded>>

\* Props come without a change of the form, as when a field is visited.
FieldVisited ==
    /\ ldapConfig = "loaded"
    /\ Received(draft)
    /\ UNCHANGED <<ldapConfig, stepsShown, draft, validatedVersion, tests, passed, downloaded>>

\* What is below the steps is there with the last of them.
TestIsShown == ldapConfig = "loaded" /\ stepsShown = Len(LdapSteps)

\* test(): its button stays while other tests run.
Test ==
    /\ TestIsShown /\ stateMachine \in {"untested", "invalid"}
    /\ stateMachine' = "untested"
    /\ \E id \in 1 .. MaxTests :
         /\ \A t \in tests : t.id # id
         /\ tests' = tests \cup {[id |-> id, ver |-> draft, result |-> "none"]}
    /\ UNCHANGED <<ldapConfig, stepsShown, draft, validatedVersion, passed, downloaded>>

\* The LDAP server tries the configuration.
ServerTries(t) ==
    /\ t.result = "none"
    /\ \E result \in {"valid", "invalid"} :
         /\ tests' = (tests \ {t}) \cup {[t EXCEPT !.result = result]}
         /\ passed' = IF result = "valid" THEN passed \cup {t.ver} ELSE passed
    /\ UNCHANGED <<ldapConfig, stepsShown, stateMachine, draft, validatedVersion, downloaded>>

\* Fault: the version is read when the answer comes.
VersionOf_Now(t) == draft

VersionOf(t) == t.ver

\* The answer, whatever the form and the machine are by now.
TestAnswered(t) ==
    /\ t.result # "none"
    /\ tests' = tests \ {t}
    /\ stateMachine' = t.result
    /\ validatedVersion' = IF t.result = "valid" THEN VersionOf(t) ELSE validatedVersion
    /\ UNCHANGED <<ldapConfig, stepsShown, draft, passed, downloaded>>

\* No answer comes, be the server asked or not.
TestFails(t) ==
    /\ tests' = tests \ {t}
    /\ stateMachine' = "invalid"
    /\ UNCHANGED <<ldapConfig, stepsShown, draft, validatedVersion, passed, downloaded>>

Disabled == validatedVersion # draft

Continue ==
    /\ TestIsShown /\ stateMachine = "valid" /\ ~Disabled
    /\ stateMachine' = "updating"
    /\ UNCHANGED <<ldapConfig, stepsShown, draft, validatedVersion, tests, passed, downloaded>>

\* downloadNewConfig: of the form as it is; the credentials of the test are
\* deleted from it, which counts no version.
DownloadNewConfig ==
    /\ TestIsShown /\ stateMachine = "updating"
    /\ downloaded' = downloaded \cup {draft}
    /\ UNCHANGED <<ldapConfig, stepsShown, stateMachine, draft, validatedVersion, tests, passed>>

LdapNext ==
    \/ LdapLoads \/ LdapLoadFails \/ Populate \/ FieldChanges \/ FieldVisited
    \/ Test \/ Continue \/ DownloadNewConfig
    \/ \E t \in tests : ServerTries(t) \/ TestAnswered(t) \/ TestFails(t)

LdapSpec == LdapInit /\ [][LdapNext]_ldapVars

-----------------------------------------------------------------------------
LdapTypeOK ==
    /\ ldapConfig \in {"loading", "loaded", "error"} /\ stepsShown \in 1 .. Len(LdapSteps)
    /\ stateMachine \in {"untested", "invalid", "valid", "updating"}
    /\ draft \in 1 .. MaxDrafts /\ validatedVersion \in 0 .. MaxDrafts
    /\ tests \subseteq Tests /\ passed \subseteq 1 .. MaxDrafts /\ downloaded \subseteq 1 .. MaxDrafts

\* A configuration is offered for download, and downloaded, only if exactly this
\* form was accepted by the LDAP server, although it may be edited while tests of
\* several versions run and their answers come in any order
\* (ldap.jsx:339-344, 370-444).
OnlyTestedIsOffered ==
    (stateMachine = "updating" => draft \in passed) /\ downloaded \subseteq passed
=============================================================================
