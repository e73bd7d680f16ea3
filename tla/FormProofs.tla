----------------------------- MODULE FormProofs -----------------------------
(***************************************************************************)
(* What forms and dialogs promise before they send or offer anything: the  *)
(* LDAP settings, for any number of tests in flight; the requests and      *)
(* limits of the cluster's monitoring, for any amounts; dialogs of one and *)
(* two requests; the clients' tokens; the secrets, with any rows and keys; *)
(* the subscriptions and versions of operators; the cluster's updates; and *)
(* the types of what the forms hold.                                       *)
(***************************************************************************)
EXTENDS LdapSettings, MonitoringSettings, ChannelOperators, Dialogs, Account, PullSecret, SourceSecret, SecretForm, OperatorLifecycle,
        PageProofs, SequenceTheorems, FiniteSetTheorems, WellFoundedInduction, TLAPS

\* The version that was validated is one that the LDAP server has accepted, as is that of
\* every test that is about to say so; and the download is of that version.
LdapInv ==
    /\ LdapTypeOK
    /\ validatedVersion \in passed \cup {0}
    /\ \A t \in tests : t.result = "valid" => t.ver \in passed
    /\ stateMachine = "updating" => validatedVersion = draft
    /\ downloaded \subseteq passed
    /\ ldapConfig # "loaded" => stateMachine = "untested" /\ tests = {}

\* The form is filled before anything is tested.
LEMMA LdapInitInv == LdapInit => LdapInv
BY LdapAssumption DEF LdapInit, LdapInv, LdapTypeOK, LdapSteps, Tests

\* Edits, tests and answers in any order keep to what was accepted.
LEMMA LdapNextInv == LdapInv /\ [LdapNext]_ldapVars => LdapInv'
<1> SUFFICES ASSUME LdapInv, [LdapNext]_ldapVars PROVE LdapInv'
  OBVIOUS
<1> USE LdapAssumption DEF LdapInv, LdapTypeOK
<1>1. CASE LdapLoads
  BY <1>1 DEF LdapLoads
<1>2. CASE LdapLoadFails
  BY <1>2 DEF LdapLoadFails
<1>3. CASE Populate
  <2>1. stepsShown' \in 1 .. Len(LdapSteps)
    BY <1>3 DEF Populate, LdapSteps
  <2> QED
    BY <1>3, <2>1 DEF Populate
<1>4. CASE FieldChanges
  BY <1>4 DEF FieldChanges, Received
<1>5. CASE FieldVisited
  BY <1>5 DEF FieldVisited, Received
<1>6. CASE Test
  BY <1>6 DEF Test, Tests, TestIsShown
<1>7. CASE Continue
  BY <1>7 DEF Continue, Disabled, TestIsShown
<1>8. CASE DownloadNewConfig
  BY <1>8 DEF DownloadNewConfig, TestIsShown
<1>9. ASSUME NEW t \in tests, ServerTries(t) PROVE LdapInv'
  <2>1. PICK result \in {"valid", "invalid"} :
          /\ tests' = (tests \ {t}) \cup {[t EXCEPT !.result = result]}
          /\ passed' = IF result = "valid" THEN passed \cup {t.ver} ELSE passed
    BY <1>9 DEF ServerTries
  <2>2. t \in Tests /\ t.ver \in 1 .. MaxDrafts
    BY DEF Tests
  <2>3. [t EXCEPT !.result = result] \in Tests
    BY <2>2 DEF Tests
  <2>4. [t EXCEPT !.result = result].result = result /\ [t EXCEPT !.result = result].ver = t.ver
    BY <2>2 DEF Tests
  <2>5. passed \subseteq passed' /\ passed' \subseteq 1 .. MaxDrafts /\ tests' \subseteq Tests
    BY <2>1, <2>2, <2>3
  <2>6. \A u \in tests' : u.result = "valid" => u.ver \in passed'
    BY <2>1, <2>4, <2>5
  <2> QED
    BY <1>9, <2>5, <2>6 DEF ServerTries
<1>10. ASSUME NEW t \in tests, TestAnswered(t) PROVE LdapInv'
  BY <1>10 DEF TestAnswered, VersionOf, Tests
<1>11. ASSUME NEW t \in tests, TestFails(t) PROVE LdapInv'
  BY <1>11 DEF TestFails
<1>12. CASE UNCHANGED ldapVars
  BY <1>12 DEF ldapVars
<1> QED
  BY <1>1, <1>2, <1>3, <1>4, <1>5, <1>6, <1>7, <1>8, <1>9, <1>10, <1>11, <1>12 DEF LdapNext

\* A configuration is offered for download, and downloaded, only if exactly this form was
\* accepted by the LDAP server (ldap.jsx:339-344, 370-444), however many versions are
\* tested at once.
THEOREM OfferedWasTested == LdapSpec => []OnlyTestedIsOffered
<1>1. LdapInv => OnlyTestedIsOffered
  BY DEF LdapInv, LdapTypeOK, OnlyTestedIsOffered
<1> QED
  BY <1>1, LdapInitInv, LdapNextInv, PTL DEF LdapSpec

-----------------------------------------------------------------------------
Units == CpuUnits \cup MemoryUnits \cup TimeUnits
Quantities == [as : {"text", "number"}, amount : Nat, unit : Units]
Pairs == [request : Quantities, limit : Quantities]
Configs == [Settings -> Pairs]
Patches == [id : Int, of : Settings, base : Configs, value : Configs, saved : BOOLEAN]

\* What a dialog of the setting may save.
Sound(s, pair) ==
    /\ Accepts(s, pair.request) /\ Accepts(s, pair.limit)
    /\ s \in Part => Fits(pair) \/ Misread(pair)
AllSound(config) == \A s \in Settings : Sound(s, config[s])

\* Whatever was once read of the server, and whatever is sent to it, is sound; a dialog may be
\* open on any of those versions, and its fields may hold anything.
MonitoringInv ==
    /\ settings \in Configs /\ seenSettings \in Configs /\ opened \in Configs
    /\ setting \in Settings \cup {"none"} /\ writes \in Int
    /\ fields \in Pairs
    /\ AllSound(settings) /\ AllSound(seenSettings) /\ AllSound(opened)
    /\ patches \subseteq Patches
    /\ \A patch \in patches : AllSound(patch.value)

\* What can be typed is a quantity, and nothing at all is sound.
LEMMA QuantitiesAreTyped ==
    /\ Typeable \subseteq Quantities /\ Absent \in Quantities
    /\ \A as \in {"text", "number"}, a \in Amount, u \in Unit \cup {""} : Quantity(as, a, u) \in Quantities
    /\ NoFields \in Pairs /\ Nothing \in Configs /\ AllSound(Nothing)
<1>1. Absent \in Quantities
  BY DEF Quantities, Absent, Quantity, Units, CpuUnits
<1>2. ASSUME NEW as \in {"text", "number"}, NEW a \in Amount, NEW u \in Unit \cup {""}
      PROVE  Quantity(as, a, u) \in Quantities
  <2>1. a \in Nat /\ u \in Units
    BY MonitoringAssumption DEF Units, CpuUnits
  <2> QED
    BY <2>1 DEF Quantities, Quantity
<1>3. ASSUME NEW q \in Typeable PROVE q \in Quantities
  <2>1. CASE q = Absent
    BY <1>1, <2>1
  <2>2. CASE q # Absent
    <3>1. PICK a \in Amount, u \in Unit : q = Quantity("text", a, u)
      BY <2>2 DEF Typeable
    <3> QED
      BY <1>2, <3>1
  <2> QED
    BY <2>1, <2>2
<1>4. NoFields \in Pairs
  BY <1>1 DEF NoFields, OnlyLimit, Pairs
<1>5. Nothing \in Configs
  BY <1>4 DEF Nothing, Configs
<1>6. AllSound(Nothing)
  BY DEF AllSound, Sound, Accepts, Fits, Nothing, NoFields, OnlyLimit
<1> QED
  BY <1>1, <1>2, <1>3, <1>4, <1>5, <1>6

\* The units of requests and limits stand for a number, and amounts of one unit compare as
\* what they stand for.
LEMMA ScaleIsNat == \A u \in CpuUnits \cup MemoryUnits : Scale(u) \in Nat
<1>1. Scale("") \in Nat /\ Scale("m") \in Nat
  BY DEF Scale
<1>2. Scale("k") \in Nat /\ Scale("K") \in Nat /\ Scale("M") \in Nat
  BY DEF Scale
<1>3. Scale("G") \in Nat /\ Scale("T") \in Nat
  BY DEF Scale
<1>4. Scale("P") \in Nat /\ Scale("E") \in Nat
  BY DEF Scale
<1>5. Scale("Ki") \in Nat /\ Scale("Mi") \in Nat /\ Scale("Gi") \in Nat
  BY DEF Scale
<1>6. Scale("Ti") \in Nat /\ Scale("Pi") \in Nat
  BY DEF Scale
<1> QED
  BY <1>1, <1>2, <1>3, <1>4, <1>5, <1>6 DEF CpuUnits, MemoryUnits

LEMMA TimesIsMonotone == \A a, b, c \in Nat : a <= b => a * c <= b * c
  OBVIOUS

\* What validateForm lets through is sound, whatever the units.
LEMMA ValidIsSound ==
    ASSUME NEW s \in Settings, NEW pair \in Pairs, ValidateForm(s, pair)
    PROVE  Sound(s, pair)
<1> SUFFICES ASSUME s \in Part, Absent \notin {pair.request, pair.limit}, ~Misread(pair)
             PROVE  InThousandths(pair.request) <= InThousandths(pair.limit)
  BY DEF Sound, Fits, ValidateForm
<1> DEFINE q == pair.request
           r == pair.limit
<1>1. q \in Quantities /\ r \in Quantities /\ q.amount \in Nat /\ r.amount \in Nat
  BY DEF Quantities, Pairs
<1>2. q.unit \in CpuUnits \cup MemoryUnits /\ r.unit \in CpuUnits \cup MemoryUnits
  BY MonitoringAssumption DEF ValidateForm, Accepts, UnitsOf
<1>3. Scale(q.unit) \in Nat /\ Scale(r.unit) \in Nat
  BY <1>2, ScaleIsNat
<1>4. ~Exceeds(q, r)
  BY DEF ValidateForm
<1>5. CASE q.unit = r.unit
  <2>1. q.amount <= r.amount
    BY <1>1, <1>4, <1>5 DEF Exceeds
  <2> QED
    BY <1>1, <1>3, <1>5, <2>1, TimesIsMonotone DEF InThousandths
<1>6. CASE q.unit # r.unit
  <2>1. "k" \notin {q.unit, r.unit} /\ "E" \notin {q.unit, r.unit}
    BY <1>6 DEF Misread
  <2>2. ConvertToBaseUnit(q) = InThousandths(q) /\ ConvertToBaseUnit(r) = InThousandths(r)
    BY <2>1 DEF ConvertToBaseUnit, InThousandths
  <2>3. InThousandths(q) \in Nat /\ InThousandths(r) \in Nat
    BY <1>1, <1>3 DEF InThousandths
  <2> QED
    BY <1>4, <1>6, <2>1, <2>2, <2>3 DEF Exceeds
<1> QED
  BY <1>5, <1>6

\* And is sound when sanitizeForProm_ has dropped what it drops.
LEMMA SanitizedIsSound ==
    ASSUME NEW s \in Settings, NEW pair \in Pairs, Sound(s, pair)
    PROVE  LET clean == [request |-> SanitizeForProm(pair.request), limit |-> SanitizeForProm(pair.limit)]
           IN  clean \in Pairs /\ Sound(s, clean)
<1> DEFINE clean == [request |-> SanitizeForProm(pair.request), limit |-> SanitizeForProm(pair.limit)]
<1>1. /\ SanitizeForProm(pair.request) \in {pair.request, Absent}
      /\ SanitizeForProm(pair.limit) \in {pair.limit, Absent}
  BY DEF SanitizeForProm
<1>2. clean \in Pairs
  BY <1>1, QuantitiesAreTyped DEF Pairs
<1>3. Sound(s, clean)
  <2>1. Accepts(s, clean.request) /\ Accepts(s, clean.limit)
    BY <1>1 DEF Accepts, Sound
  <2>2. CASE clean.request = Absent \/ clean.limit = Absent
    BY <2>1, <2>2 DEF Fits, Sound
  <2>3. CASE clean.request # Absent /\ clean.limit # Absent
    <3>1. clean.request = pair.request /\ clean.limit = pair.limit
      BY <1>1, <2>3
    <3> QED
      BY <2>1, <3>1 DEF Fits, Misread, Sound
  <2> QED
    BY <2>2, <2>3
<1> QED
  BY <1>2, <1>3

\* A page opens on what is sound.
LEMMA MonitoringOpensInv ==
    ASSUME NEW was \in Configs, AllSound(was), MonitoringOpens(was)
    PROVE  MonitoringInv
<1>1. /\ settings = was /\ seenSettings = was /\ opened = Nothing /\ setting = "none"
      /\ fields = NoFields /\ patches = {} /\ writes = 0
  BY DEF MonitoringOpens
<1>2. NoFields \in Pairs /\ Nothing \in Configs /\ AllSound(Nothing)
  BY QuantitiesAreTyped
<1> QED
  BY <1>1, <1>2 DEF MonitoringInv, AllSound

\* The server starts with one limit, which the page shows.
LEMMA MonitoringInitInv == MonitoringInit => MonitoringInv
<1> SUFFICES ASSUME NEW s \in Part, NEW a \in Amount, NEW as \in {"text", "number"},
                    MonitoringOpens([Nothing EXCEPT ![s] = OnlyLimit(Quantity(as, a, ""))])
             PROVE  MonitoringInv
  BY DEF MonitoringInit
<1> DEFINE limit == Quantity(as, a, "")
           was == [Nothing EXCEPT ![s] = OnlyLimit(limit)]
<1>1. s \in Settings /\ limit \in Quantities /\ Nothing \in Configs
  BY QuantitiesAreTyped DEF Settings
<1>2. was = [u \in Settings |-> IF u = s THEN OnlyLimit(limit) ELSE NoFields]
  BY <1>1 DEF Nothing
<1>3. OnlyLimit(limit) \in Pairs /\ NoFields \in Pairs
  BY <1>1, QuantitiesAreTyped DEF OnlyLimit, Pairs
<1>4. was \in Configs
  BY <1>2, <1>3 DEF Configs
<1>5. Sound(s, OnlyLimit(limit))
  <2>1. s # "retention" /\ limit.unit = ""
    BY MonitoringAssumption DEF Quantity
  <2>2. Accepts(s, limit)
    BY <2>1 DEF Accepts, UnitsOf, MemoryUnits, CpuUnits
  <2> HIDE DEF limit
  <2> QED
    BY <2>2 DEF Sound, OnlyLimit, Fits, Accepts
<1>6. \A u \in Settings : Sound(u, NoFields)
  BY DEF Sound, NoFields, OnlyLimit, Fits, Accepts
<1>7. AllSound(was)
  <2> HIDE DEF was, limit
  <2> QED
    BY <1>2, <1>5, <1>6 DEF AllSound
<1> HIDE DEF was
<1> QED
  BY <1>4, <1>7, MonitoringOpensInv DEF was

\* What a submit sends is typed and sound, from whatever version the dialog was opened with.
LEMMA SubmittedIsSound ==
    ASSUME MonitoringInv, SubmitSetting
    PROVE  patches' \subseteq Patches /\ \A patch \in patches' : AllSound(patch.value)
<1> DEFINE new == [opened EXCEPT ![setting] = fields]
           value == [s \in Settings |->
                       [request |-> SanitizeForProm(new[s].request), limit |-> SanitizeForProm(new[s].limit)]]
           sent == [id |-> writes, of |-> setting, base |-> opened, value |-> value, saved |-> FALSE]
<1>1. setting \in Settings /\ new \in Configs
  BY DEF SubmitSetting, MonitoringInv, Configs
<1>2. AllSound(new)
  <2> SUFFICES ASSUME NEW s \in Settings PROVE Sound(s, new[s])
    BY DEF AllSound
  <2>1. CASE s = setting
    BY <1>1, <2>1, ValidIsSound DEF SubmitSetting, MonitoringInv, Configs
  <2>2. CASE s # setting
    BY <1>1, <2>2 DEF MonitoringInv, Configs, AllSound
  <2> QED
    BY <2>1, <2>2
<1>3. patches' = patches \cup {sent}
  <2>1. NewConfig = value
    BY DEF NewConfig
  <2> HIDE DEF value
  <2> QED
    BY <2>1 DEF SubmitSetting
<1> HIDE DEF new
<1>4. \A s \in Settings : value[s] \in Pairs /\ Sound(s, value[s])
  <2> TAKE s \in Settings
  <2>1. new[s] \in Pairs /\ Sound(s, new[s])
    BY <1>1, <1>2 DEF Configs, AllSound
  <2> QED
    BY <2>1, SanitizedIsSound
<1>5. AllSound(value)
  BY <1>4 DEF AllSound
<1>6. value \in Configs
  BY <1>4 DEF Configs
<1> HIDE DEF value
<1>7. ASSUME NEW patch \in patches' PROVE patch \in Patches /\ AllSound(patch.value)
  <2>1. CASE patch \in patches
    BY <2>1 DEF MonitoringInv
  <2>2. CASE patch = sent
    <3>1. patch \in Patches /\ patch.value = value
      BY <1>1, <1>6, <2>2 DEF Patches, MonitoringInv
    <3> QED
      BY <1>5, <3>1
  <2> QED
    BY <1>3, <2>1, <2>2
<1> QED
  BY <1>7

\* Dialogs, answers, the watch and other writers keep the settings sound.
LEMMA MonitoringNextInv == MonitoringInv /\ [MonitoringNext]_monitoringVars => MonitoringInv'
<1> SUFFICES ASSUME MonitoringInv, [MonitoringNext]_monitoringVars PROVE MonitoringInv'
  OBVIOUS
<1> USE DEF MonitoringInv
<1>1. CASE SettingsArrive
  BY <1>1 DEF SettingsArrive
<1>2. CASE CancelSetting
  BY <1>2, QuantitiesAreTyped DEF CancelSetting
<1>3. CASE SubmitSetting
  BY <1>3, SubmittedIsSound DEF SubmitSetting
<1>4. ASSUME NEW s \in Settings, OpenSetting(s) PROVE MonitoringInv'
  BY <1>4 DEF OpenSetting, Configs
<1>5. ASSUME NEW s \in Settings, NEW a \in Amount, NEW u \in Unit, OthersWriteSettings(s, Quantity("text", a, u))
      PROVE  MonitoringInv'
  <2> DEFINE q == Quantity("text", a, u)
             pair == OnlyLimit(q)
  <2>1. settings' = [v \in Settings |-> IF v = s THEN pair ELSE settings[v]]
    BY <1>5 DEF OthersWriteSettings, Configs
  <2>2. q \in Quantities /\ Accepts(s, q)
    BY <1>5, QuantitiesAreTyped DEF OthersWriteSettings
  <2>3. UNCHANGED <<seenSettings, opened, setting, fields, patches>> /\ writes' \in Int
    BY <1>5 DEF OthersWriteSettings
  <2> HIDE DEF q
  <2>4. pair \in Pairs /\ Sound(s, pair)
    BY <2>2, QuantitiesAreTyped DEF OnlyLimit, Pairs, Sound, Fits, Accepts
  <2> HIDE DEF pair
  <2>5. settings' \in Configs
    BY <2>1, <2>4 DEF Configs
  <2>6. AllSound(settings')
    BY <2>1, <2>4 DEF AllSound
  <2> QED
    BY <2>3, <2>5, <2>6
<1>6. ASSUME NEW field \in {"request", "limit"}, NEW q \in Typeable, TypeSetting(field, q)
      PROVE  MonitoringInv'
  <2>1. fields' \in Pairs
    BY <1>6, QuantitiesAreTyped DEF TypeSetting, Pairs
  <2> QED
    BY <1>6, <2>1 DEF TypeSetting
<1>7. ASSUME NEW patch \in patches, PatchSaved(patch) PROVE MonitoringInv'
  <2> DEFINE kept == [patch EXCEPT !.saved = TRUE]
  <2>1. patch \in Patches /\ kept \in Patches /\ kept.value = patch.value
    BY <1>7 DEF Patches
  <2>2. patches' = (patches \ {patch}) \cup {kept} /\ settings' = patch.value
    BY <1>7 DEF PatchSaved
  <2> HIDE DEF kept
  <2>3. patches' \subseteq Patches /\ \A q \in patches' : AllSound(q.value)
    BY <1>7, <2>1, <2>2
  <2>4. settings' \in Configs /\ AllSound(settings')
    BY <1>7, <2>1, <2>2 DEF Patches
  <2> QED
    BY <1>7, <2>3, <2>4 DEF PatchSaved
<1>8. ASSUME NEW patch \in patches, PatchAnswered(patch) PROVE MonitoringInv'
  BY <1>8, QuantitiesAreTyped DEF PatchAnswered
<1>9. ASSUME NEW patch \in patches, PatchFails(patch) PROVE MonitoringInv'
  BY <1>9 DEF PatchFails
<1>10. CASE UNCHANGED monitoringVars
  BY <1>10 DEF monitoringVars
<1> QED
  BY <1>1, <1>2, <1>3, <1>4, <1>5, <1>6, <1>7, <1>8, <1>9, <1>10 DEF MonitoringNext

LEMMA MonitoringInvKeeps == MonitoringInv => RequestsFit /\ UnitsAreTheirs
BY DEF MonitoringInv, AllSound, Sound, RequestsFit, UnitsAreTheirs, Settings

\* "The request may not exceed the limit" (cluster-monitoring.jsx:179): not on the server
\* either, for any settings and amounts, whichever dialogs were saved from whichever versions,
\* unless one of the two is in a unit that units.dehumanize does not read.
THEOREM RequestsAlwaysFit == MonitoringSpec => []RequestsFit
<1>1. MonitoringInv => RequestsFit
  BY MonitoringInvKeeps
<1> QED
  BY <1>1, MonitoringInitInv, MonitoringNextInv, PTL DEF MonitoringSpec

\* What is saved is in a unit of its own setting (units.js:191-225), for any settings and units.
THEOREM UnitsAreAlwaysTheirs == MonitoringSpec => []UnitsAreTheirs
<1>1. MonitoringInv => UnitsAreTheirs
  BY MonitoringInvKeeps
<1> QED
  BY <1>1, MonitoringInitInv, MonitoringNextInv, PTL DEF MonitoringSpec

\* No request is a number, and what a dialog sends for the settings of others is what it
\* was opened with, but for the limits that are numbers.
SettingsInv ==
    /\ \A s \in Settings : settings[s].request.as = "text"
    /\ \A s \in Settings : seenSettings[s].request.as = "text"
    /\ \A s \in Settings : opened[s].request.as = "text"
    /\ \A patch \in patches : \A s \in Settings :
         /\ patch.value[s].request.as = "text"
         /\ s # patch.of /\ patch.base[s].limit.as = "text" => patch.value[s] = patch.base[s]

LEMMA NothingIsANumber == \A s \in Settings : Nothing[s].request.as = "text"
  BY DEF Nothing, NoFields, OnlyLimit, Absent, Quantity

LEMMA SettingsOpenInv ==
    ASSUME NEW was, \A s \in Settings : was[s].request.as = "text", MonitoringOpens(was)
    PROVE  SettingsInv
  BY NothingIsANumber DEF MonitoringOpens, SettingsInv

LEMMA SettingsInitInv == MonitoringInit => SettingsInv
<1> SUFFICES ASSUME NEW s \in Part, NEW a \in Amount, NEW as \in {"text", "number"},
                    MonitoringOpens([Nothing EXCEPT ![s] = OnlyLimit(Quantity(as, a, ""))])
             PROVE  SettingsInv
  BY DEF MonitoringInit
<1> DEFINE was == [Nothing EXCEPT ![s] = OnlyLimit(Quantity(as, a, ""))]
<1>1. \A u \in Settings : was[u].request.as = "text"
  BY DEF Nothing, NoFields, OnlyLimit, Absent, Quantity
<1> HIDE DEF was
<1> QED
  BY <1>1, SettingsOpenInv DEF was

\* What a submit sends keeps the other settings.
LEMMA SubmittedKeeps ==
    ASSUME MonitoringInv, SettingsInv, SubmitSetting, NEW patch \in patches', NEW s \in Settings
    PROVE  /\ patch.value[s].request.as = "text"
           /\ s # patch.of /\ patch.base[s].limit.as = "text" => patch.value[s] = patch.base[s]
<1> DEFINE new == [opened EXCEPT ![setting] = fields]
           value == [u \in Settings |->
                       [request |-> SanitizeForProm(new[u].request), limit |-> SanitizeForProm(new[u].limit)]]
           sent == [id |-> writes, of |-> setting, base |-> opened, value |-> value, saved |-> FALSE]
<1>1. patches' = patches \cup {sent}
  <2>1. NewConfig = value
    BY DEF NewConfig
  <2> HIDE DEF value
  <2> QED
    BY <2>1 DEF SubmitSetting
<1>2. CASE patch \in patches
  BY <1>2 DEF SettingsInv
<1>3. CASE patch = sent
  <2>1. setting \in Settings /\ opened \in Configs /\ new \in Configs
    BY DEF SubmitSetting, MonitoringInv, Configs
  <2>2. value[s] = [request |-> SanitizeForProm(new[s].request), limit |-> SanitizeForProm(new[s].limit)]
    OBVIOUS
  <2>3. patch.value = value /\ patch.of = setting /\ patch.base = opened
    <3> HIDE DEF value
    <3> QED
      BY <1>3
  <2>4. new[s].request \in Quantities /\ (s # setting => new[s] = opened[s])
    BY <2>1 DEF Configs, Pairs
  <2> HIDE DEF new, value
  <2>5. value[s].request.as = "text"
    <3>1. SanitizeForProm(new[s].request).as = "text"
      BY <2>4 DEF SanitizeForProm, Absent, Quantity, Quantities
    <3> QED
      BY <2>2, <3>1
  <2>6. ASSUME s # setting, opened[s].limit.as = "text" PROVE value[s] = opened[s]
    <3>1. opened[s] \in Pairs /\ opened[s].request.as = "text"
      BY <2>1 DEF Configs, SettingsInv
    <3>2. /\ SanitizeForProm(opened[s].request) = opened[s].request
          /\ SanitizeForProm(opened[s].limit) = opened[s].limit
      BY <2>6, <3>1 DEF SanitizeForProm
    <3>3. value[s] = [request |-> opened[s].request, limit |-> opened[s].limit]
      BY <2>2, <2>4, <2>6, <3>2
    <3> QED
      BY <3>1, <3>3 DEF Pairs
  <2> QED
    BY <2>3, <2>5, <2>6
<1> QED
  BY <1>1, <1>2, <1>3

LEMMA SettingsNextInv == MonitoringInv /\ SettingsInv /\ [MonitoringNext]_monitoringVars => SettingsInv'
<1> SUFFICES ASSUME MonitoringInv, SettingsInv, [MonitoringNext]_monitoringVars PROVE SettingsInv'
  OBVIOUS
<1> USE DEF SettingsInv
<1>1. CASE SettingsArrive
  BY <1>1 DEF SettingsArrive
<1>2. CASE CancelSetting
  BY <1>2, NothingIsANumber DEF CancelSetting
<1>3. CASE SubmitSetting
  BY <1>3, SubmittedKeeps DEF SubmitSetting
<1>4. ASSUME NEW s \in Settings, OpenSetting(s) PROVE SettingsInv'
  BY <1>4 DEF OpenSetting
<1>5. ASSUME NEW s \in Settings, NEW a \in Amount, NEW u \in Unit, OthersWriteSettings(s, Quantity("text", a, u))
      PROVE  SettingsInv'
  <2> DEFINE pair == OnlyLimit(Quantity("text", a, u))
  <2>1. settings' = [v \in Settings |-> IF v = s THEN pair ELSE settings[v]]
    BY <1>5 DEF OthersWriteSettings, MonitoringInv, Configs
  <2>2. pair.request.as = "text"
    BY DEF OnlyLimit, Absent, Quantity
  <2>3. UNCHANGED <<seenSettings, opened, patches>>
    BY <1>5 DEF OthersWriteSettings
  <2> HIDE DEF pair
  <2> QED
    BY <2>1, <2>2, <2>3
<1>6. ASSUME NEW field \in {"request", "limit"}, NEW q \in Typeable, TypeSetting(field, q)
      PROVE  SettingsInv'
  BY <1>6 DEF TypeSetting
<1>7. ASSUME NEW patch \in patches, PatchSaved(patch) PROVE SettingsInv'
  <2> DEFINE kept == [patch EXCEPT !.saved = TRUE]
  <2>1. patches' = (patches \ {patch}) \cup {kept} /\ settings' = patch.value /\ UNCHANGED <<seenSettings, opened>>
    BY <1>7 DEF PatchSaved
  <2>2. kept.value = patch.value /\ kept.of = patch.of /\ kept.base = patch.base
    BY DEF MonitoringInv, Patches
  <2> HIDE DEF kept
  <2>3. ASSUME NEW q \in patches', NEW s \in Settings
        PROVE  /\ q.value[s].request.as = "text"
               /\ s # q.of /\ q.base[s].limit.as = "text" => q.value[s] = q.base[s]
    <3>1. CASE q \in patches
      BY <3>1
    <3>2. CASE q = kept
      BY <2>2, <3>2
    <3> QED
      BY <2>1, <2>3, <3>1, <3>2
  <2> QED
    BY <2>1, <2>3
<1>8. ASSUME NEW patch \in patches, PatchAnswered(patch) PROVE SettingsInv'
  BY <1>8, NothingIsANumber DEF PatchAnswered
<1>9. ASSUME NEW patch \in patches, PatchFails(patch) PROVE SettingsInv'
  BY <1>9 DEF PatchFails
<1>10. CASE UNCHANGED monitoringVars
  BY <1>10 DEF monitoringVars
<1> QED
  BY <1>1, <1>2, <1>3, <1>4, <1>5, <1>6, <1>7, <1>8, <1>9, <1>10 DEF MonitoringNext

\* A save from the version that is still the server's changes no other setting that is text
\* (cluster-monitoring.jsx:74, 80).
LEMMA SettingsStepKeeps ==
    SettingsInv /\ [MonitoringNext]_monitoringVars =>
      [\A patch \in patches \ patches' :
          settings = patch.base /\ settings' = patch.value =>
            \A s \in Settings \ {patch.of} :
               settings[s].limit.as = "text" => settings'[s] = settings[s]]_monitoringVars
<1> SUFFICES ASSUME SettingsInv, NEW patch \in patches \ patches',
                    settings = patch.base, settings' = patch.value,
                    NEW s \in Settings \ {patch.of}, settings[s].limit.as = "text"
             PROVE  settings'[s] = settings[s]
  OBVIOUS
<1> QED
  BY DEF SettingsInv

-----------------------------------------------------------------------------
(* Dialogs of one request, two in a row or two at once *)

\* What the step was to do is done.
Done(step) == (plan.does = "create") <=> (step \in objects)

\* Nothing undoes a step: what was answered as applied stays done, and the second request of a
\* row is sent only when the first was done, whichever submit sent it.
DialogInv ==
    /\ DialogTypeOK
    /\ objects \cup finished \subseteq DOMAIN plan.steps
    /\ \A r \in requests : r.step \in DOMAIN plan.steps
    /\ \A r \in requests : r.at = "applied" => Done(r.step)
    /\ \A s \in finished : Done(s)
    /\ form = "done" => \A s \in DOMAIN plan.steps : Done(s)
    /\ plan.does = "create" => \A s \in objects \cup {r.step : r \in requests} : s = 2 => 1 \in objects

\* The shapes of the plans.
LEMMA PlansAreTyped ==
    ASSUME NEW p \in Plans
    PROVE  /\ p.does \in {"create", "delete"}
           /\ p.atOnce = TRUE <=> p.does = "delete"
           /\ DOMAIN p.steps = {1} \/ DOMAIN p.steps = {1, 2}
BY DEF Plans, NamespacePlans, InstancePlans, BindingPlans, SubscriptionPlans, DeletePlans, Creates, Deletes

LEMMA DialogStartInv ==
    ASSUME NEW p \in Plans, DialogStarts(p)
    PROVE  DialogInv
<1>1. /\ p.does \in {"create", "delete"}
      /\ DOMAIN p.steps = {1} \/ DOMAIN p.steps = {1, 2}
  BY PlansAreTyped
<1>2. objects = IF p.does = "create" THEN {} ELSE DOMAIN p.steps
  BY DEF DialogStarts
<1>3. DialogTypeOK
  <2>1. objects \subseteq {1, 2} /\ finished = {} /\ requests = {} /\ submits \in 0 .. MaxTries
    BY <1>1, <1>2, DialogAssumption DEF DialogStarts
  <2> QED
    BY <2>1 DEF DialogStarts, DialogTypeOK
<1>4. \A s \in DOMAIN p.steps : s \in {1, 2}
  BY <1>1
<1> QED
  BY <1>1, <1>2, <1>3, <1>4 DEF DialogStarts, DialogInv, Done

LEMMA DialogInitInv == DialogInit => DialogInv
BY DialogStartInv DEF DialogInit

LEMMA DialogNextInv == DialogInv /\ [DialogNext]_dialogVars => DialogInv'
<1> SUFFICES ASSUME DialogInv, [DialogNext]_dialogVars
             PROVE  DialogInv'
  OBVIOUS
<1> USE DialogAssumption
<1>0. /\ plan.does \in {"create", "delete"}
      /\ plan.atOnce = TRUE <=> plan.does = "delete"
      /\ DOMAIN plan.steps = {1} \/ DOMAIN plan.steps = {1, 2}
  BY PlansAreTyped DEF DialogInv, DialogTypeOK
<1>1. CASE UNCHANGED dialogVars
  BY <1>1 DEF dialogVars, DialogInv, DialogTypeOK, Done
<1>2. CASE OpenDialog \/ Leave
  BY <1>2 DEF OpenDialog, Leave, DialogInv, DialogTypeOK, Done
<1>3. CASE SubmitDialog
  <2>1. FirstOf \subseteq DOMAIN plan.steps /\ (plan.does = "create" => 2 \notin FirstOf)
    BY <1>0 DEF FirstOf
  <2>2. requests' \subseteq Request /\ \A r \in requests' : r \in requests \/ (r.step \in FirstOf /\ r.at = "sent")
    BY <1>3, <1>0, <2>1 DEF SubmitDialog, Sent, Request, DialogInv, DialogTypeOK
  <2> QED
    BY <1>3, <2>1, <2>2 DEF SubmitDialog, DialogInv, DialogTypeOK, Done
<1>4. ASSUME NEW r \in requests, Possible(r.step), objects' = After(r.step), UNCHANGED <<plan, form, inProgress, submits, finished>>,
             requests' \subseteq Request,
             \A q \in requests' : q \in requests \/ q.step = r.step
      PROVE  DialogInv'
  <2>1. r.step \in DOMAIN plan.steps /\ (plan.does = "create" => (r.step = 2 => 1 \in objects))
    BY DEF DialogInv
  <2>2. \A s : s # r.step => (s \in objects' <=> s \in objects)
    BY <1>4 DEF After
  <2>3. r.step \in objects' <=> plan.does = "create"
    BY <1>4 DEF After, Possible
  <2>4. Done(r.step)' /\ \A s : Done(s) => Done(s)'
    BY <1>4, <2>2, <2>3 DEF Done
  <2>5. objects' \cup finished' \subseteq DOMAIN plan.steps
    BY <1>4, <2>1, <2>2 DEF DialogInv
  <2>6. DialogTypeOK'
    BY <1>0, <1>4, <2>5 DEF DialogInv, DialogTypeOK
  <2>7. \A q \in requests' : q.step \in DOMAIN plan.steps /\ (q.at = "applied" => Done(q.step)')
    BY <1>4, <2>1, <2>4 DEF DialogInv
  <2>8. plan.does = "create" => \A s \in objects' \cup {q.step : q \in requests'} : s = 2 => 1 \in objects'
    BY <1>4, <2>1, <2>2, <2>3 DEF DialogInv
  <2> QED
    BY <1>4, <2>4, <2>5, <2>6, <2>7, <2>8 DEF DialogInv
<1>10. ASSUME UNCHANGED <<plan, form, submits, finished, objects>>, inProgress' \in BOOLEAN, requests' \subseteq Request,
              \A q \in requests' : \E p \in requests : q.step = p.step /\ (q.at = "applied" => p.at = "applied")
       PROVE  DialogInv'
  <2>1. DialogTypeOK'
    BY <1>10 DEF DialogInv, DialogTypeOK
  <2>2. \A q \in requests' : q.step \in DOMAIN plan.steps /\ (q.at = "applied" => Done(q.step))
    BY <1>10 DEF DialogInv
  <2>3. \A s \in {q.step : q \in requests'} : s \in {q.step : q \in requests}
    BY <1>10
  <2>4. \A s : Done(s)' <=> Done(s)
    BY <1>10 DEF Done
  <2> QED
    BY <1>10, <2>1, <2>2, <2>3, <2>4 DEF DialogInv
<1>5. ASSUME NEW r \in requests, ServerActs(r)
      PROVE  DialogInv'
  <2>0. r \in Request
    BY DEF DialogInv, DialogTypeOK
  <2>1. CASE Possible(r.step) /\ objects' = After(r.step) /\ requests' = Becomes(r, "applied")
    <3>1. [r EXCEPT !.at = "applied"] \in Request /\ [r EXCEPT !.at = "applied"].step = r.step
      BY <2>0 DEF Request
    <3>2. requests' \subseteq Request /\ \A q \in requests' : q \in requests \/ q.step = r.step
      BY <2>1, <3>1 DEF Becomes, DialogInv, DialogTypeOK
    <3> QED
      BY <1>4, <1>5, <2>1, <3>2 DEF ServerActs
  <2>2. CASE requests' = Becomes(r, "refused") /\ UNCHANGED objects
    <3>1. [r EXCEPT !.at = "refused"] \in Request /\ [r EXCEPT !.at = "refused"].step = r.step /\ [r EXCEPT !.at = "refused"].at = "refused"
      BY <2>0 DEF Request
    <3>2. requests' \subseteq Request /\ inProgress' \in BOOLEAN
      BY <1>5, <2>2, <3>1 DEF ServerActs, Becomes, DialogInv, DialogTypeOK
    <3> QED
      BY <1>5, <1>10, <2>2, <3>1, <3>2 DEF ServerActs, Becomes
  <2> QED
    BY <1>5, <2>1, <2>2 DEF ServerActs
<1>6. ASSUME NEW r \in requests, ActsOnStray(r)
      PROVE  DialogInv'
  <2>1. CASE Possible(r.step)
    BY <1>4, <1>6, <2>1 DEF ActsOnStray, DialogInv, DialogTypeOK
  <2>2. CASE ~Possible(r.step)
    BY <1>6, <2>2 DEF ActsOnStray, DialogInv, DialogTypeOK, Done
  <2> QED
    BY <2>1, <2>2
<1>7. ASSUME NEW r \in requests, Awaited(r), StepDone(r)
      PROVE  DialogInv'
  <2>1. r.step \in DOMAIN plan.steps /\ Done(r.step) /\ r.step \in {1, 2} /\ submits \in 1 .. MaxTries
    BY <1>0, <1>7 DEF StepDone, Awaited, DialogInv, DialogTypeOK, Request
  <2>2. finished' = finished \cup {r.step} /\ UNCHANGED <<plan, submits, objects>>
    BY <1>7 DEF StepDone
  <2>3. finished' \subseteq DOMAIN plan.steps /\ \A s \in finished' : Done(s)
    BY <2>1, <2>2 DEF DialogInv
  <2>4. CASE Complete(finished')
    BY <1>7, <2>1, <2>2, <2>3, <2>4 DEF StepDone, Complete, DialogInv, DialogTypeOK, Done
  <2>5. CASE ~Complete(finished') /\ plan.atOnce
    BY <1>7, <2>1, <2>2, <2>3, <2>5 DEF StepDone, DialogInv, DialogTypeOK, Done
  <2>6. CASE ~Complete(finished') /\ ~plan.atOnce
    <3>1. plan.does = "create" /\ 1 \in objects
      BY <1>0, <2>1, <2>6 DEF Done, DialogInv
    <3>2. DOMAIN plan.steps = {1, 2}
      BY <1>0, <2>1, <2>2, <2>3, <2>6 DEF Complete
    <3>3. requests' \subseteq Request /\ \A q \in requests' : q \in requests \/ (q.step = 2 /\ q.at = "sent")
      BY <1>7, <2>1, <2>6 DEF StepDone, Sent, Request, DialogInv, DialogTypeOK
    <3> QED
      BY <1>7, <2>1, <2>2, <2>3, <2>6, <3>1, <3>2, <3>3 DEF StepDone, DialogInv, DialogTypeOK, Done
  <2> QED
    BY <2>4, <2>5, <2>6
<1>8. ASSUME NEW r \in requests, StepFails(r)
      PROVE  DialogInv'
  <2>0. r \in Request
    BY DEF DialogInv, DialogTypeOK
  <2>1. [r EXCEPT !.at = "stray"] \in Request /\ [r EXCEPT !.at = "stray"].step = r.step /\ [r EXCEPT !.at = "stray"].at = "stray"
    BY <2>0 DEF Request
  <2>2. requests' \subseteq requests \cup {[r EXCEPT !.at = "stray"]}
    BY <1>8 DEF StepFails, Becomes
  <2>3. requests' \subseteq Request /\ inProgress' \in BOOLEAN
    BY <1>8, <2>1, <2>2 DEF StepFails, InProgressAfter, DialogInv, DialogTypeOK
  <2> QED
    BY <1>8, <1>10, <2>1, <2>2, <2>3 DEF StepFails
<1>9. ASSUME NEW r \in requests, Unheeded(r)
      PROVE  DialogInv'
  BY <1>9 DEF Unheeded, DialogInv, DialogTypeOK, Done
<1> QED
  BY <1>1, <1>2, <1>3, <1>5, <1>6, <1>7, <1>8, <1>9 DEF DialogNext, DialogAnswers

LEMMA DialogInvDone == DialogInv => DialogsAreDone /\ DialogTypeOK
<1> SUFFICES ASSUME DialogInv
             PROVE  DialogsAreDone /\ DialogTypeOK
  OBVIOUS
<1>1. plan.does = "create" \/ plan.does = "delete"
  BY PlansAreTyped DEF DialogInv, DialogTypeOK
<1> QED
  BY <1>1 DEF DialogInv, DialogsAreDone, ClosedMeansDone, SecondNeedsFirst, Done

\* A dialog of several requests that has closed itself has done all of them, and never leaves
\* the second without the first, for any number of submits that fail or are given up.
THEOREM DialogsDoTheirSteps == DialogSpec => [](DialogsAreDone /\ DialogTypeOK)
BY DialogInitInv, DialogNextInv, DialogInvDone, PTL DEF DialogSpec

-----------------------------------------------------------------------------
(* The clients' tokens *)

\* One dialog is open at a time; a client whose revocation was done holds no token but one it
\* got since.
AccountInv ==
    /\ AccountTypeOK
    /\ listings \in Seq((SUBSET Client) \cup {Unanswered}) /\ strays \in SUBSET Strays
    /\ clients \in [loaded : BOOLEAN, failed : BOOLEAN, shown : SUBSET Client]
    /\ revocation \in [step : {"closed", "asking", "sent", "done", "refused"}, client : Client \cup {"none"}, told : BOOLEAN]
    /\ kubectl \in [step : {"closed", "identity", "code", "sent", "download"}, code : {"none", "fresh", "used"},
                    file : BOOLEAN, told : BOOLEAN]
    /\ revocation.step # "closed" => revocation.client \in Client
    /\ kubectl.step # "closed" => revocation.step = "closed"
    /\ kubectl.file => kubectl.step = "download"
    /\ revocation.step = "done" => revocation.client \notin granted \ renewed
    /\ AccountIsTrue

LEMMA ListingRemoved ==
    ASSUME NEW T, NEW s \in Seq(T), NEW i \in 1 .. Len(s)
    PROVE  RemoveAt(s, i) \in Seq(T)
<1>1. SubSeq(s, 1, i - 1) \in Seq(T)
  BY SubSeqProperties
<1>2. SubSeq(s, i + 1, Len(s)) \in Seq(T)
  BY SubSeqProperties
<1> QED
  BY <1>1, <1>2 DEF RemoveAt

LEMMA AccountOpensInv ==
    ASSUME NEW auther \in BOOLEAN, NEW dex \in BOOLEAN, NEW holders \in SUBSET Client,
           NEW asked \in Seq((SUBSET Client) \cup {Unanswered}), AccountOpens(auther, dex, holders, asked)
    PROVE  AccountInv
<1>1. \A i \in 1 .. Len(asked) : asked[i] = Unanswered \/ asked[i] \subseteq Client
  OBVIOUS
<1> QED
  BY <1>1, AccountAssumption DEF AccountOpens, NoRevocation, NoKubectl, ListsClients, AccountInv, AccountTypeOK, AccountIsTrue

LEMMA AccountInitInv == AccountInit => AccountInv
<1> SUFFICES ASSUME AccountInit
             PROVE  AccountInv
  OBVIOUS
<1>1. PICK auther, dex \in BOOLEAN, holders \in SUBSET Client : AccountOpens(auther, dex, holders, <<Unanswered>>)
  BY DEF AccountInit
<1>2. <<Unanswered>> \in Seq((SUBSET Client) \cup {Unanswered})
  OBVIOUS
<1> QED
  BY <1>1, <1>2, AccountOpensInv

LEMMA AccountNextInv == AccountInv /\ [AccountNext]_accountVars => AccountInv'
<1> SUFFICES ASSUME AccountInv, [AccountNext]_accountVars
             PROVE  AccountInv'
  OBVIOUS
<1> USE AccountAssumption DEF AccountInv, AccountTypeOK, AccountIsTrue
<1> DEFINE Asked == (SUBSET Client) \cup {Unanswered}
<1>0. /\ granted \in Asked /\ Unanswered \in Asked
      /\ \A s \in Seq(Asked) : \A i \in 1 .. Len(s) : s[i] = Unanswered \/ s[i] \subseteq Client
  OBVIOUS
<1>18. Append(listings, Unanswered) \in Seq(Asked) /\ listings \in Seq(Asked)
  BY <1>0, AppendProperties
<1>19. ASSUME NEW does \in {"revoke", "grant"}, NEW client \in Client, NEW heard \in BOOLEAN,
              Leaves(does, client, heard)
       PROVE  strays' \subseteq Strays
  BY <1>19 DEF Leaves, Strays
<1>1. CASE UNCHANGED accountVars
  BY <1>1 DEF accountVars
<1>2. CASE ListClients
  <2>1. listings' \in Seq(Asked)
    BY <1>2, <1>0 DEF ListClients
  <2> QED
    BY <1>2, <1>0, <2>1 DEF ListClients
<1>3. CASE ClientsArrive
  <2>1. listings' \in Seq(Asked)
    BY <1>3, ListingRemoved DEF ClientsArrive
  <2> QED
    BY <1>3, <1>0, <2>1 DEF ClientsArrive
<1>4. CASE ClientsFail
  <2>1. listings' \in Seq(Asked)
    BY <1>4, ListingRemoved DEF ClientsFail
  <2> QED
    BY <1>4, <1>0, <2>1 DEF ClientsFail
<1>5. CASE PressRevoke
  BY <1>5 DEF PressRevoke
<1>6. CASE SubmitRevoke
  BY <1>6 DEF SubmitRevoke
<1>7. CASE RevokeToken
  BY <1>7 DEF RevokeToken
<1>8. CASE RevocationFails
  <2>1. strays' \subseteq Strays
    BY <1>8, <1>19 DEF RevocationFails
  <2> QED
    BY <1>8, <2>1 DEF RevocationFails
<1>9. CASE RevocationAnswered
  <2>1. listings' \in Seq(Asked)
    BY <1>9, <1>18 DEF RevocationAnswered
  <2>2. \A i \in 1 .. Len(listings') : listings'[i] = Unanswered \/ listings'[i] \subseteq Client
    BY <1>0, <2>1
  <2> HIDE DEF Asked
  <2>3. UNCHANGED <<granted, renewed, clients, kubectl, strays, grants, withdrawn>>
    BY <1>9 DEF RevocationAnswered
  <2>4. CASE revocation.step = "done" /\ revocation' = NoRevocation /\ revoked' = revocation.client
    BY <2>1, <2>2, <2>3, <2>4 DEF NoRevocation
  <2>5. CASE revocation.step = "refused" /\ revocation' = [revocation EXCEPT !.step = "asking", !.told = TRUE] /\ UNCHANGED revoked
    <3>1. revocation' \in [step : {"closed", "asking", "sent", "done", "refused"}, client : Client \cup {"none"}, told : BOOLEAN]
          /\ revocation'.step = "asking" /\ revocation'.client = revocation.client
      BY <2>5
    <3>2. revocation.step = "refused" /\ revoked' = revoked
      BY <2>5
    <3> QED
      BY <2>1, <2>2, <2>3, <3>1, <3>2 DEF Asked
  <2> QED
    BY <1>9, <2>4, <2>5 DEF RevocationAnswered
<1>10. CASE CancelRevoke
  <2>1. listings' \in Seq(Asked)
    BY <1>10, <1>18 DEF CancelRevoke
  <2>2. strays' \subseteq Strays
    BY <1>10, <1>19 DEF CancelRevoke
  <2> QED
    BY <1>10, <1>0, <2>1, <2>2 DEF CancelRevoke, NoRevocation
<1>11. CASE OpenKubectl
  BY <1>11 DEF OpenKubectl, NoKubectl
<1>12. CASE VerifyIdentity
  BY <1>12 DEF VerifyIdentity
<1>13. CASE VerifyCode
  BY <1>13 DEF VerifyCode
<1>14. CASE RenderKubeConfig
  <2>1. /\ kubectl' \in [step : {"closed", "identity", "code", "sent", "download"}, code : {"none", "fresh", "used"},
                         file : BOOLEAN, told : BOOLEAN]
        /\ kubectl'.file => kubectl'.step = "download"
    BY <1>14 DEF RenderKubeConfig
  <2>2. /\ granted' = granted \cup {"kubectl"} /\ renewed' = renewed \cup {"kubectl"}
        /\ UNCHANGED <<setup, listings, clients, revocation, grants, revoked>>
    BY <1>14 DEF RenderKubeConfig
  <2> QED
    BY <1>14, <2>1, <2>2 DEF RenderKubeConfig
<1>15. CASE KubeConfigFails
  <2>1. strays' \subseteq Strays
    BY <1>15, <1>19 DEF KubeConfigFails, LeavesGrant
  <2> QED
    BY <1>15, <2>1 DEF KubeConfigFails
<1>16. CASE CloseKubectl
  <2>1. strays' \subseteq Strays
    BY <1>16, <1>19 DEF CloseKubectl, LeavesGrant
  <2> QED
    BY <1>16, <2>1 DEF CloseKubectl, NoKubectl
<1>17. CASE GrantElsewhere
  BY <1>17 DEF GrantElsewhere
<1>20. CASE StrayRevokes
  <2>1. PICK s \in strays : /\ strays' = strays \ {s} /\ granted' = granted \ {s.client}
                            /\ withdrawn' = withdrawn \cup ({s.client} \cap granted)
                            /\ UNCHANGED listings \/ listings' = Append(listings, Unanswered)
    BY <1>20 DEF StrayRevokes
  <2>2. listings' \in Seq(Asked)
    BY <2>1, <1>18
  <2>3. \A i \in 1 .. Len(listings') : listings'[i] = Unanswered \/ listings'[i] \subseteq Client
    BY <1>0, <2>2
  <2>4. UNCHANGED <<clients, revocation, kubectl, grants, revoked, renewed>>
    BY <1>20 DEF StrayRevokes
  <2>5. /\ strays' \subseteq Strays /\ granted' \subseteq granted /\ withdrawn' \subseteq Client
        /\ granted \cup withdrawn \subseteq granted' \cup withdrawn'
    BY <2>1
  <2> HIDE DEF Asked
  <2> QED
    BY <2>2, <2>3, <2>4, <2>5 DEF Asked
<1>21. CASE StrayGrants
  <2>1. PICK s \in strays : /\ strays' = strays \ {s} /\ granted' = granted \cup {s.client}
                            /\ renewed' = renewed \cup {s.client}
    BY <1>21 DEF StrayGrants
  <2>2. s.client \in Client
    BY DEF Strays
  <2>3. UNCHANGED <<listings, clients, revocation, kubectl, grants, revoked, withdrawn>>
    BY <1>21 DEF StrayGrants
  <2> QED
    BY <2>1, <2>2, <2>3
<1> HIDE DEF AccountInv, AccountTypeOK, AccountIsTrue
<1> QED
  BY <1>1, <1>2, <1>3, <1>4, <1>5, <1>6, <1>7, <1>8, <1>9, <1>10, <1>11, <1>12, <1>13, <1>14, <1>15, <1>16, <1>17, <1>20, <1>21
     DEF AccountNext

\* A client whose revocation was done holds no token but one it got since, and a configuration is
\* offered only while its client has one or an older revocation took it: for any clients, any
\* requests given up, and tokens given out elsewhere (client-tokens.jsx:50, server.go:560,
\* kubectl-config.jsx:78).
THEOREM AccountStaysTrue == AccountSpec => [](AccountIsTrue /\ AccountTypeOK)
<1>1. AccountInv => AccountIsTrue /\ AccountTypeOK
  BY DEF AccountInv
<1> QED
  BY <1>1, AccountInitInv, AccountNextInv, PTL DEF AccountSpec

-----------------------------------------------------------------------------
(* The pull secret *)

PullRecords == [name : Nat, content : Content \cup {NoContent}]
OneRegistry == {c \in Content : c.auths = "one"}
PullDialogs == [open : BOOLEAN, secret : PullRecords, method : {"form", "upload"}, first : Credentials \cup {""},
                fileData : OneRegistry \cup {NoContent}, invalidJson : BOOLEAN, busy : BOOLEAN]
PullSaves == [at : {"none", "sent", "done", "failed"}, op : {"create", "patch"}, name : Nat,
              content : Content \cup {NoContent}, warned : BOOLEAN]

\* What the dialog could send was parsed.
PullInv ==
    /\ PullTypeOK
    /\ pullDialog \in PullDialogs /\ panel \in [isLoading : BOOLEAN, data : PullRecords]
    /\ pullSave \in PullSaves /\ UploadsParse
    /\ pullSave.at # "none" => pullSave.name \in SecretName

\* What secrets, and the lack of one, hold.
LEMMA ContentsAreTyped ==
    /\ \A c \in Content \cup {NoContent} : c.first \in Credentials \cup {""}
    /\ \A first \in Credentials : GenerateSecretData(first) \in OneRegistry
    /\ FileTexts = OneRegistry \cup {Broken}
    /\ TheNull \in Content
<1>1. \A c \in Content \cup {NoContent} : c.first \in Credentials \cup {""}
  <2>1. NoContent.first = ""
    BY DEF NoContent
  <2>2. \A c \in Content : c.first \in Credentials \cup {""}
    BY DEF Content
  <2> QED
    BY <2>1, <2>2
<1>2. TheNull \in Content
  BY DEF TheNull, Content
<1>3. \A first \in Credentials : GenerateSecretData(first) \in [auths : {"one"}, first : Credentials]
                               /\ GenerateSecretData(first).auths = "one"
  BY DEF GenerateSecretData
<1>4. [auths : {"one"}, first : Credentials] \subseteq Content
  BY DEF Content
<1> QED
  BY <1>1, <1>2, <1>3, <1>4 DEF OneRegistry, FileTexts

LEMMA NothingIsTyped ==
    /\ NoPull \in PullRecords /\ Closed \in PullDialogs
    /\ NoPullSave \in PullSaves /\ NoPullSave.at = "none" /\ NoPullSave.op = "create"
BY DEF NoPull, PullRecords, Closed, PullDialogs, NoPullSave, PullSaves

LEMMA PullEditsAreCounted == MaxPullEdits \in Nat
BY PullAssumption

LEMMA PullOpensInv ==
    ASSUME NEW there, DOMAIN there \subseteq SecretName, \A n \in DOMAIN there : there[n] \in Content, PullOpens(there)
    PROVE  PullInv
<1>2. DOMAIN pulls \subseteq SecretName /\ \A n \in DOMAIN pulls : pulls[n] \in Content
  BY DEF PullOpens
<1>3. Closed.method = "form" /\ Closed.first = ""
  BY DEF Closed
<1>4. panel \in [isLoading : BOOLEAN, data : PullRecords] /\ panel.isLoading \in BOOLEAN
  BY NothingIsTyped DEF PullOpens
<1>5. pullDialog = Closed /\ pullReads = {} /\ pullSave = NoPullSave /\ pullEdits = 0
  BY DEF PullOpens
<1>6. PullTypeOK
  <2>1. pullDialog.method = "form" /\ pullDialog.first = "" /\ pullReads \subseteq FileTexts
    BY ONLY <1>3, <1>5
  <2>2. pullEdits \in 0 .. MaxPullEdits
    BY ONLY <1>5, PullEditsAreCounted
  <2>3. panel.isLoading \in BOOLEAN
    BY ONLY <1>4
  <2> QED
    BY ONLY <1>2, <2>1, <2>2, <2>3 DEF PullTypeOK
<1> QED
  BY <1>4, <1>5, <1>6, NothingIsTyped DEF PullInv, UploadsParse

LEMMA PullInitInv == PullInit => PullInv
<1> SUFFICES ASSUME PullInit
             PROVE  PullInv
  OBVIOUS
<1>1. PICK N \in SUBSET SecretName : \E there \in [N -> Content] : PullOpens(there)
  BY DEF PullInit
<1>2. PICK there \in [N -> Content] : PullOpens(there)
  BY <1>1
<1> QED
  BY <1>2, PullOpensInv

LEMMA PullNextInv == PullInv /\ [PullNext]_pullVars => PullInv'
<1> SUFFICES ASSUME PullInv, [PullNext]_pullVars
             PROVE  PullInv'
  OBVIOUS
<1> USE PullAssumption DEF PullInv, PullTypeOK, UploadsParse
<1>0. ASSUME NEW d \in PullDialogs, pullDialog' = d
      PROVE  pullDialog' \in PullDialogs /\ pullDialog'.method \in {"form", "upload"} /\ pullDialog'.first \in Credentials \cup {""}
  BY <1>0 DEF PullDialogs
<1>15. pullDialog.secret \in PullRecords /\ pullDialog.secret.content \in Content \cup {NoContent}
       /\ pullDialog.fileData \in OneRegistry \cup {NoContent} /\ pullDialog.secret.name \in Nat
       /\ panel.data \in PullRecords /\ \A r \in PullRecords : r.content \in Content \cup {NoContent}
  BY DEF PullDialogs, PullRecords
<1>16. ASSUME NEW n \in SecretName, NEW c \in Content, pulls' = With(n, c)
       PROVE  DOMAIN pulls' \subseteq SecretName /\ \A m \in DOMAIN pulls' : pulls'[m] \in Content
  <2>1. pulls' = [m \in DOMAIN pulls \cup {n} |-> IF m = n THEN c ELSE pulls[m]]
    BY <1>16 DEF With
  <2> QED
    BY <2>1
<1>1. CASE UNCHANGED pullVars
  BY <1>1 DEF pullVars
<1>2. CASE PanelLoads
  <2>1. FirstPull \in PullRecords
    <3>1. CASE DOMAIN pulls = {}
      BY <3>1, NothingIsTyped DEF FirstPull
    <3>2. CASE DOMAIN pulls # {}
      <4> DEFINE first == CHOOSE m \in DOMAIN pulls : \A k \in DOMAIN pulls : m <= k
      <4>1. \E m \in DOMAIN pulls : \A k \in DOMAIN pulls : m <= k
        <5>1. DOMAIN pulls \subseteq Nat
          BY DEF PullInv
        <5> QED
          BY <3>2, <5>1, SmallestOfSome
      <4>2. first \in DOMAIN pulls
        BY <4>1
      <4>3. FirstPull = [name |-> first, content |-> pulls[first]]
        BY <3>2 DEF FirstPull
      <4> HIDE DEF first
      <4> QED
        BY <4>2, <4>3 DEF PullRecords
    <3> QED
      BY <3>1, <3>2
  <2>2. PICK pulled \in {FirstPull, NoPull} : panel' = [isLoading |-> FALSE, data |-> pulled]
    BY <1>2 DEF PanelLoads
  <2>3. pulled \in PullRecords
    BY <2>1, <2>2, NothingIsTyped
  <2>4. panel' \in [isLoading : BOOLEAN, data : PullRecords] /\ panel'.isLoading \in BOOLEAN
    BY ONLY <2>2, <2>3
  <2> QED
    BY <1>2, <2>4 DEF PanelLoads
<1>3. CASE PageReturns
  BY <1>3, NothingIsTyped DEF PageReturns
<1>4. CASE ClickLink
  <2>1. DialogOf(panel.data) \in PullDialogs
    BY <1>15, NothingIsTyped, ContentsAreTyped DEF DialogOf, Parsed, PullDialogs
  <2> QED
    BY <1>0, <1>4, <2>1 DEF ClickLink
<1>5. ASSUME NEW first \in Credentials \cup {""}, TypeCredentials(first)
      PROVE  PullInv'
  <2>1. [pullDialog EXCEPT !.first = first] \in PullDialogs
    BY DEF PullDialogs
  <2> QED
    BY <1>0, <1>5, <2>1 DEF TypeCredentials
<1>6. CASE MethodChange
  <2>1. Parsed(pullDialog.secret).first \in Credentials \cup {""}
    BY <1>15, ContentsAreTyped DEF Parsed
  <2>2. pullDialog' \in PullDialogs
    BY <1>6, <2>1 DEF MethodChange, PullDialogs
  <2> QED
    BY <1>0, <1>6, <2>2 DEF MethodChange
<1>7. ASSUME NEW text \in FileTexts, ChoosePullFile(text)
      PROVE  PullInv'
  <2>1. pullDialog' \in PullDialogs
    BY <1>7 DEF ChoosePullFile, PullDialogs
  <2> QED
    BY <1>0, <1>7, <2>1 DEF ChoosePullFile
<1>8. CASE ChooseOtherType
  <2>1. pullDialog' \in PullDialogs
    BY <1>8 DEF ChooseOtherType, PullDialogs
  <2> QED
    BY <1>0, <1>8, <2>1 DEF ChooseOtherType
<1>9. ASSUME NEW text \in pullReads, PullFileRead(text)
      PROVE  PullInv'
  <2>1. text \in OneRegistry \cup {Broken}
    BY ContentsAreTyped
  <2>2. pullDialog' \in PullDialogs
    BY <1>9, <2>1 DEF PullFileRead, FileParsed, PullDialogs
  <2> QED
    BY <1>0, <1>9, <2>2 DEF PullFileRead
<1>10. ASSUME NEW name \in SecretName, PullSubmit(name)
       PROVE  PullInv'
  <2>1. SecretData \in Content
    BY <1>10, <1>15, ContentsAreTyped DEF PullSubmit, SecretData, OneRegistry
  <2>2. pullDialog' \in PullDialogs
    BY <1>10 DEF PullSubmit, PullDialogs
  <2>4. pullSave' \in PullSaves
    BY <1>10, <1>15, <2>1 DEF PullSubmit, Parsed, PullSaves
  <2>3. pullSave'.name = name /\ pullSave'.content = SecretData
    BY <1>10 DEF PullSubmit
  <2> QED
    BY <1>0, <1>10, <2>1, <2>2, <2>3, <2>4 DEF PullSubmit
<1>11. CASE ClosePull
  BY <1>0, <1>11, NothingIsTyped DEF ClosePull
<1>12. CASE ServerSaves
  <2>3. pullSave' \in PullSaves
    BY <1>12 DEF ServerSaves, PullSaves
  <2>1. pullSave'.name = pullSave.name /\ pullSave'.content = pullSave.content
    BY <1>12 DEF ServerSaves, PullSaves
  <2>2. DOMAIN pulls' \subseteq SecretName /\ \A n \in DOMAIN pulls' : pulls'[n] \in Content
    <3>1. pullSave.name \in SecretName /\ pullSave.content \in Content
      BY <1>12 DEF ServerSaves
    <3> QED
      BY <1>12, <1>16, <3>1 DEF ServerSaves
  <2> QED
    BY <1>12, <2>1, <2>2, <2>3 DEF ServerSaves
<1>13. CASE PullAnswered
  <2>1. pullDialog' \in PullDialogs
    <3>1. pullDialog' = [pullDialog EXCEPT !.busy = FALSE] \/ pullDialog' = Closed
      BY <1>13 DEF PullAnswered
    <3>2. pullDialog \in PullDialogs /\ Closed \in PullDialogs
      BY NothingIsTyped
    <3>3. [pullDialog EXCEPT !.busy = FALSE] \in PullDialogs
      BY ONLY <3>2 DEF PullDialogs
    <3> QED
      BY ONLY <3>1, <3>2, <3>3
  <2>2. pullReads' \subseteq FileTexts
    BY <1>13 DEF PullAnswered
  <2> QED
    BY <1>0, <1>13, <2>1, <2>2, NothingIsTyped DEF PullAnswered
<1>14. CASE OthersPull
  <2>1. DOMAIN pulls' \subseteq SecretName /\ \A n \in DOMAIN pulls' : pulls'[n] \in Content
    <3>1. ASSUME NEW n \in SecretName, NEW c \in Content \ {TheNull}, pulls' = With(n, c)
          PROVE  DOMAIN pulls' \subseteq SecretName /\ \A m \in DOMAIN pulls' : pulls'[m] \in Content
      BY <1>16, <3>1
    <3>2. ASSUME NEW n \in DOMAIN pulls, pulls' = [m \in DOMAIN pulls \ {n} |-> pulls[m]]
          PROVE  DOMAIN pulls' \subseteq SecretName /\ \A m \in DOMAIN pulls' : pulls'[m] \in Content
      BY <3>2
    <3> QED
      BY <1>14, <3>1, <3>2 DEF OthersPull
  <2>2. UNCHANGED <<panel, pullDialog, pullReads, pullSave>>
    BY ONLY <1>14 DEF OthersPull
  <2>3. pullEdits' \in 0 .. MaxPullEdits
    <3>1. pullEdits \in 0 .. MaxPullEdits
      OBVIOUS
    <3>2. pullEdits < MaxPullEdits /\ pullEdits' = pullEdits + 1
      BY ONLY <1>14 DEF OthersPull
    <3> QED
      BY ONLY <3>1, <3>2, PullEditsAreCounted
  <2> QED
    BY <2>1, <2>2, <2>3
<1> QED
  BY <1>1, <1>2, <1>3, <1>4, <1>5, <1>6, <1>7, <1>8, <1>9, <1>10, <1>11, <1>12, <1>13, <1>14 DEF PullNext

\* What is written was parsed, or is the text of no file, for any secrets and any files that are
\* being read.
THEOREM PullSecretsAreParsed == PullSpec => [](UploadsParse /\ PullTypeOK)
<1>1. PullInv => UploadsParse /\ PullTypeOK
  BY DEF PullInv
<1> QED
  BY <1>1, PullInitInv, PullNextInv, PTL DEF PullSpec
-----------------------------------------------------------------------------
(* Source and webhook secrets *)

FieldName == {"username", "password", "ssh-privatekey", "WebHookSecretKey", "ca.crt"}
Words == Word \cup {""}
SourceData == UNION {[K -> Words] : K \in SUBSET FieldName}
SecretType == {"basic", "ssh", "opaque"}

SecretRecord == [type : SecretType, data : SourceData, ver : Nat]
FrameRecord ==
    [create : BOOLEAN, abstraction : {"source", "webhook"}, ver : Nat, type : SecretType \cup {"unset"},
     obj : SourceData, data : SourceData, touched : BOOLEAN]
SubformRecord == [type : SecretType, data : SourceData, fields : SourceData, text : Words]
SavingRecord ==
    [at : {"none", "sent", "stored", "refusing", "refused", "left"}, type : SecretType \cup {"unset", ""},
     data : SourceData, ver : Nat, base : SourceData]

\* The data, a field of it and the data with a field changed are of the names and words there are.
LEMMA DataIsTyped ==
    ASSUME NEW d
    PROVE  d \in SourceData <=>
             /\ d = [f \in DOMAIN d |-> d[f]] /\ DOMAIN d \subseteq FieldName
             /\ \A f \in DOMAIN d : d[f] \in Words
<1>1. ASSUME d \in SourceData
      PROVE  /\ d = [f \in DOMAIN d |-> d[f]] /\ DOMAIN d \subseteq FieldName
             /\ \A f \in DOMAIN d : d[f] \in Words
  <2>1. PICK K \in SUBSET FieldName : d \in [K -> Words]
    BY <1>1 DEF SourceData
  <2> QED
    BY <2>1
<1>2. ASSUME d = [f \in DOMAIN d |-> d[f]], DOMAIN d \subseteq FieldName, \A f \in DOMAIN d : d[f] \in Words
      PROVE  d \in SourceData
  <2>1. d \in [DOMAIN d -> Words]
    BY <1>2
  <2> QED
    BY <1>2, <2>1 DEF SourceData
<1> QED
  BY <1>1, <1>2

LEMMA NoDataIsTyped == NoData \in SourceData
<1>1. DOMAIN NoData = {} /\ NoData = [f \in DOMAIN NoData |-> NoData[f]]
  BY DEF NoData
<1> QED
  BY <1>1, DataIsTyped

LEMMA DataOfIsTyped == \A type \in SecretType : DataOf(type) \subseteq SourceData
<1> SUFFICES ASSUME NEW type \in SecretType, NEW d \in DataOf(type) PROVE d \in SourceData
  OBVIOUS
<1>1. FieldsOf(type) \cup {"ca.crt"} \subseteq FieldName
  BY DEF FieldsOf, FieldName
<1>2. PICK K \in {L \in SUBSET (FieldsOf(type) \cup {"ca.crt"}) : L \cap Required # {}} : d \in [K -> Word]
  BY DEF DataOf
<1>3. K \subseteq FieldName /\ d \in [K -> Words]
  BY <1>1, <1>2 DEF Words
<1> QED
  BY <1>3 DEF SourceData

LEMMA FieldIsTyped ==
    ASSUME NEW d \in SourceData, NEW f
    PROVE  Field(d, f) \in Words /\ (f \in DOMAIN d => Field(d, f) = d[f])
BY DataIsTyped DEF Field, Words

LEMMA MountedIsTyped ==
    ASSUME NEW type \in SecretType, NEW d \in SourceData
    PROVE  /\ MountedFields(type, d) \in SourceData
           /\ DOMAIN MountedFields(type, d) = FieldsOf(type)
           /\ \A f \in FieldsOf(type) : MountedFields(type, d)[f] = Field(d, f)
<1>1. FieldsOf(type) \subseteq FieldName
  BY DEF FieldsOf, FieldName
<1>2. \A f \in FieldsOf(type) : Field(d, f) \in Words
  BY FieldIsTyped
<1>3. MountedFields(type, d) \in [FieldsOf(type) -> Words]
  BY <1>2 DEF MountedFields
<1> QED
  BY <1>1, <1>3 DEF SourceData, MountedFields

LEMMA ExceptIsTyped ==
    ASSUME NEW d \in SourceData, NEW f, NEW text \in Words
    PROVE  /\ [d EXCEPT ![f] = text] \in SourceData
           /\ DOMAIN [d EXCEPT ![f] = text] = DOMAIN d
<1>1. PICK K \in SUBSET FieldName : d \in [K -> Words]
  BY DEF SourceData
<1>2. [d EXCEPT ![f] = text] \in [K -> Words]
  BY <1>1
<1> QED
  BY <1>1, <1>2 DEF SourceData

\* What the frame sends is what the fields of the subform are, a file input aside that was
\* emptied; and what a save replaces is what the form was made from, if the version is.
SourceInv ==
    /\ secret \in SecretRecord /\ frameState \in FrameRecord /\ subform \in SubformRecord /\ saving \in SavingRecord
    /\ DOMAIN subform.fields = FieldsOf(subform.type)
    /\ \A f \in FieldsOf(subform.type) : Field(frameState.data, f) = subform.fields[f]
    /\ subform.type = "ssh" => subform.text \in {"", subform.fields["ssh-privatekey"]}
    /\ frameState.touched = TRUE => frameState.type \in {subform.type, "unset"}
    /\ frameState.ver <= secret.ver /\ (frameState.ver = secret.ver => frameState.obj = secret.data)
    /\ saving.at = "sent" =>
          /\ saving.type # ""
          /\ saving.ver <= secret.ver /\ (saving.ver = secret.ver => saving.base = secret.data)

\* A form mounted for a secret shows and sends what is in it.
LEMMA FormOfSecret ==
    ASSUME NEW create \in BOOLEAN, NEW abstraction \in {"source", "webhook"}, NEW s \in SecretRecord
    PROVE  LET frame_ == FrameOf(create, abstraction, s)
               sub == SubformOf(s)
           IN  /\ frame_ \in FrameRecord /\ sub \in SubformRecord
               /\ frame_.ver = s.ver /\ frame_.obj = s.data /\ frame_.touched = FALSE
               /\ DOMAIN sub.fields = FieldsOf(sub.type)
               /\ \A f \in FieldsOf(sub.type) : Field(frame_.data, f) = sub.fields[f]
               /\ sub.type = "ssh" => sub.text \in {"", sub.fields["ssh-privatekey"]}
<1>0. s.type \in SecretType /\ s.data \in SourceData /\ s.ver \in Nat
  BY DEF SecretRecord
<1>1. DefaultType(abstraction) \in SecretType
  BY DEF DefaultType, SecretType
<1>2. FrameOf(create, abstraction, s) \in FrameRecord
  BY <1>0, <1>1 DEF FrameOf, FrameRecord
<1>3. /\ FrameOf(create, abstraction, s).ver = s.ver /\ FrameOf(create, abstraction, s).obj = s.data
      /\ FrameOf(create, abstraction, s).data = s.data /\ FrameOf(create, abstraction, s).touched = FALSE
  BY DEF FrameOf
<1>4. /\ SubformOf(s).type = s.type /\ SubformOf(s).fields = MountedFields(s.type, s.data)
      /\ SubformOf(s).text = Field(s.data, "ssh-privatekey")
  BY DEF SubformOf
<1>5. Field(s.data, "ssh-privatekey") \in Words
  BY <1>0, FieldIsTyped
<1>6. SubformOf(s) \in SubformRecord
  BY <1>0, <1>5, MountedIsTyped DEF SubformOf, SubformRecord
<1>7. s.type = "ssh" => "ssh-privatekey" \in FieldsOf(s.type)
  BY DEF FieldsOf
<1> QED
  BY <1>0, <1>2, <1>3, <1>4, <1>6, <1>7, MountedIsTyped

LEMMA NoSaveIsTyped ==
    ASSUME NEW at \in {"none", "stored", "refusing", "refused", "left"}
    PROVE  /\ NoSecretSave \in SavingRecord /\ NoSecretSave.at = "none"
           /\ [NoSecretSave EXCEPT !.at = at] \in SavingRecord
           /\ [NoSecretSave EXCEPT !.at = at].at = at
BY NoDataIsTyped DEF NoSecretSave, SavingRecord

LEMMA SourceOpensInv ==
    ASSUME NEW create \in BOOLEAN, NEW abstraction \in {"source", "webhook"}, NEW s \in SecretRecord,
           SourceOpens(create, abstraction, s)
    PROVE  SourceInv
<1>1. /\ secret = s /\ frameState = FrameOf(create, abstraction, s) /\ subform = SubformOf(s)
      /\ saving = NoSecretSave
  BY DEF SourceOpens
<1>2. saving \in SavingRecord /\ saving.at = "none"
  BY <1>1, NoSaveIsTyped
<1>3. s.ver \in Nat
  BY DEF SecretRecord
<1>4. /\ frameState \in FrameRecord /\ subform \in SubformRecord
      /\ frameState.ver = s.ver /\ frameState.obj = s.data /\ frameState.touched = FALSE
      /\ DOMAIN subform.fields = FieldsOf(subform.type)
      /\ \A f \in FieldsOf(subform.type) : Field(frameState.data, f) = subform.fields[f]
      /\ subform.type = "ssh" => subform.text \in {"", subform.fields["ssh-privatekey"]}
  BY <1>1, FormOfSecret
<1>5. frameState.ver <= secret.ver /\ (frameState.ver = secret.ver => frameState.obj = secret.data)
  <2>1. frameState.ver = secret.ver /\ frameState.obj = secret.data /\ secret.ver \in Nat
    BY <1>1, <1>3, <1>4
  <2> QED
    BY ONLY <2>1
<1>6. ~(frameState.touched = TRUE) /\ secret \in SecretRecord
  BY <1>1, <1>4
<1> QED
  BY <1>2, <1>4, <1>5, <1>6 DEF SourceInv

LEMMA NewSecretIsTyped ==
    ASSUME NEW abstraction \in {"source", "webhook"}
    PROVE  NewSecretOf(abstraction) \in SecretRecord
BY NoDataIsTyped DEF NewSecretOf, DefaultType, SecretRecord, SecretType

LEMMA SourceInitInv == SourceInit => SourceInv
<1> SUFFICES ASSUME SourceInit PROVE SourceInv
  OBVIOUS
<1>1. ASSUME NEW a \in {"source", "webhook"}, SourceOpens(TRUE, a, NewSecretOf(a)) PROVE SourceInv
  BY <1>1, NewSecretIsTyped, SourceOpensInv
<1>2. ASSUME NEW type \in SecretType, NEW pulled \in DataOf(type),
             LET s == [type |-> type, data |-> pulled, ver |-> 1]
             IN  Abstraction(s) # "generic" /\ SourceOpens(FALSE, Abstraction(s), s)
      PROVE  SourceInv
  <2> DEFINE s == [type |-> type, data |-> pulled, ver |-> 1]
  <2>1. s \in SecretRecord
    BY DataOfIsTyped DEF SecretRecord
  <2>2. Abstraction(s) \in {"source", "webhook"} /\ SourceOpens(FALSE, Abstraction(s), s)
    BY <1>2 DEF Abstraction
  <2> QED
    BY <2>1, <2>2, SourceOpensInv
<1> QED
  BY <1>1, <1>2 DEF SourceInit, SecretType

\* A change of a field.
LEMMA ChangedInv ==
    ASSUME SourceInv, NEW fields_ \in SourceData, DOMAIN fields_ = DOMAIN subform.fields,
           Changed(fields_), UNCHANGED <<secret, saving>>
    PROVE  SourceInv'
<1>0. /\ secret \in SecretRecord /\ frameState \in FrameRecord /\ subform \in SubformRecord /\ saving \in SavingRecord
      /\ DOMAIN fields_ = FieldsOf(subform.type) /\ subform.type \in SecretType
  BY DEF SourceInv, SubformRecord
<1>1. Field(fields_, "ssh-privatekey") \in Words
  BY FieldIsTyped
<1>2. /\ subform' = [type |-> subform.type, data |-> fields_, fields |-> fields_,
                     text |-> Field(fields_, "ssh-privatekey")]
  BY <1>0 DEF Changed, SubformRecord
<1>3. subform' \in SubformRecord
  BY <1>0, <1>1, <1>2 DEF SubformRecord
<1>4. /\ frameState' \in FrameRecord /\ frameState'.data = fields_
      /\ frameState'.ver = frameState.ver /\ frameState'.obj = frameState.obj
      /\ frameState'.type \in {subform.type, "unset"}
  BY <1>0 DEF Changed, FrameRecord
<1>5. subform.type = "ssh" => "ssh-privatekey" \in FieldsOf(subform.type)
  BY DEF FieldsOf
<1>6. /\ subform'.type = subform.type /\ subform'.fields = fields_ /\ subform'.text = Field(fields_, "ssh-privatekey")
  BY <1>2
<1>7. \A f \in FieldsOf(subform.type) : Field(fields_, f) = fields_[f]
  BY <1>0, FieldIsTyped
<1> QED
  BY <1>0, <1>3, <1>4, <1>5, <1>6, <1>7 DEF SourceInv

LEMMA SourceNextInv == SourceInv /\ [SourceNext]_sourceVars => SourceInv'
<1> SUFFICES ASSUME SourceInv, [SourceNext]_sourceVars PROVE SourceInv'
  OBVIOUS
<1>0. /\ secret \in SecretRecord /\ frameState \in FrameRecord /\ subform \in SubformRecord /\ saving \in SavingRecord
      /\ subform.fields \in SourceData /\ subform.data \in SourceData /\ subform.type \in SecretType
      /\ secret.ver \in Nat /\ secret.type \in SecretType /\ secret.data \in SourceData
      /\ frameState.ver \in Nat /\ saving.ver \in Nat
  BY DEF SourceInv, SubformRecord, SecretRecord, FrameRecord, SavingRecord
<1>1. ASSUME NEW f \in DOMAIN subform.fields, NEW text \in Word \cup {""}, TypeField(f, text) PROVE SourceInv'
  <2>1. text \in Words
    BY DEF Words
  <2> QED
    BY <1>0, <1>1, <2>1, ExceptIsTyped, ChangedInv DEF TypeField
<1>2. ASSUME NEW text \in Word, KeyIsRead(text) PROVE SourceInv'
  <2>1. text \in Words
    BY DEF Words
  <2> QED
    BY <1>0, <1>2, <2>1, ExceptIsTyped, ChangedInv DEF KeyIsRead
<1>3. CASE ReadKey
  BY <1>3 DEF ReadKey, SourceInv
<1>4. CASE DropTooLarge
  <2>1. /\ subform' \in SubformRecord /\ subform'.text = ""
        /\ subform'.type = subform.type /\ subform'.fields = subform.fields
        /\ UNCHANGED <<secret, frameState, saving>>
    BY <1>0, <1>4 DEF DropTooLarge, SubformRecord, Words
  <2> QED
    BY <2>1 DEF SourceInv
<1>5. CASE ChangeAuthenticationType
  <2> DEFINE type == IF subform.type = "basic" THEN "ssh" ELSE "basic"
  <2>0. type \in SecretType /\ (type = "ssh" => "ssh-privatekey" \in FieldsOf(type))
    BY DEF SecretType, FieldsOf
  <2>1. /\ subform' = [type |-> type, data |-> subform.data, fields |-> MountedFields(type, subform.data),
                       text |-> Field(subform.data, "ssh-privatekey")]
        /\ frameState' = [frameState EXCEPT !.type = type, !.data = subform.data, !.touched = TRUE]
        /\ UNCHANGED <<secret, saving>>
    BY <1>5 DEF ChangeAuthenticationType
  <2> HIDE DEF type
  <2>2. subform' \in SubformRecord
    BY <1>0, <2>0, <2>1, MountedIsTyped, FieldIsTyped DEF SubformRecord
  <2>3. /\ subform'.type = type /\ subform'.fields = MountedFields(type, subform.data)
        /\ subform'.text = Field(subform.data, "ssh-privatekey")
    BY <2>1
  <2>4. /\ frameState' \in FrameRecord /\ frameState'.data = subform.data /\ frameState'.type = type
        /\ frameState'.ver = frameState.ver /\ frameState'.obj = frameState.obj
    BY <1>0, <2>0, <2>1 DEF FrameRecord
  <2>5. /\ DOMAIN MountedFields(type, subform.data) = FieldsOf(type)
        /\ \A f \in FieldsOf(type) : MountedFields(type, subform.data)[f] = Field(subform.data, f)
    BY <1>0, <2>0, MountedIsTyped
  <2> QED
    BY <1>0, <2>0, <2>1, <2>2, <2>3, <2>4, <2>5 DEF SourceInv
<1>6. CASE OthersWriteSecret
  <2>1. PICK pulled \in DataOf(secret.type) : secret' = [secret EXCEPT !.data = pulled, !.ver = @ + 1]
    BY <1>6 DEF OthersWriteSecret
  <2>2. pulled \in SourceData
    BY <1>0, DataOfIsTyped
  <2>3. secret' = [type |-> secret.type, data |-> pulled, ver |-> secret.ver + 1]
    BY <1>0, <2>1 DEF SecretRecord
  <2>4. secret' \in SecretRecord /\ secret'.ver = secret.ver + 1
    BY <1>0, <2>2, <2>3 DEF SecretRecord
  <2>5. UNCHANGED <<frameState, subform, saving>>
    BY <1>6 DEF OthersWriteSecret
  <2>6. /\ frameState.ver <= secret'.ver /\ frameState.ver # secret'.ver
        /\ saving.at = "sent" => saving.ver <= secret'.ver /\ saving.ver # secret'.ver
    <3>1. frameState.ver <= secret.ver /\ (saving.at = "sent" => saving.ver <= secret.ver)
      BY DEF SourceInv
    <3> QED
      BY ONLY <1>0, <2>4, <3>1
  <2> QED
    BY <2>4, <2>5, <2>6 DEF SourceInv
<1>7. CASE SecretArrives
  <2>1. Abstraction(secret) \in {"source", "webhook"}
    BY <1>7 DEF SecretArrives, Abstraction
  <2>2. /\ frameState' = FrameOf(FALSE, Abstraction(secret), secret) /\ subform' = SubformOf(secret)
        /\ UNCHANGED <<secret, saving>>
    BY <1>7 DEF SecretArrives
  <2>3. /\ frameState' \in FrameRecord /\ subform' \in SubformRecord
        /\ frameState'.ver = secret.ver /\ frameState'.obj = secret.data /\ frameState'.touched = FALSE
        /\ DOMAIN subform'.fields = FieldsOf(subform'.type)
        /\ \A f \in FieldsOf(subform'.type) : Field(frameState'.data, f) = subform'.fields[f]
        /\ subform'.type = "ssh" => subform'.text \in {"", subform'.fields["ssh-privatekey"]}
    BY <1>0, <2>1, <2>2, FormOfSecret
  <2>4. frameState'.ver <= secret'.ver /\ (frameState'.ver = secret'.ver => frameState'.obj = secret'.data)
    <3>1. frameState'.ver = secret'.ver /\ frameState'.obj = secret'.data /\ secret'.ver \in Nat
      BY <1>0, <2>2, <2>3
    <3> QED
      BY ONLY <3>1
  <2>5. ~(frameState'.touched = TRUE)
    BY <2>3
  <2> QED
    BY <2>2, <2>3, <2>4, <2>5 DEF SourceInv
<1>8. CASE SaveSecret
  <2>1. saving' = NewSecret /\ UNCHANGED <<secret, frameState, subform>>
    BY <1>8 DEF SaveSecret
  <2>2. saving' \in SavingRecord
    BY <1>0, <2>1 DEF NewSecret, SavingRecord, FrameRecord
  <2>3. saving'.ver = frameState.ver /\ saving'.base = frameState.obj /\ saving'.type = frameState.type
    BY <2>1 DEF NewSecret
  <2>4. frameState.type # ""
    BY <1>0 DEF FrameRecord, SecretType
  <2> QED
    BY <2>1, <2>2, <2>3, <2>4 DEF SourceInv
<1>9. CASE StoresSecret
  <2>1. UNCHANGED <<frameState, subform>>
    BY <1>9 DEF StoresSecret
  <2>2. CASE saving' = [saving EXCEPT !.at = "stored"]
               /\ secret' = [type |-> TypeSent, data |-> saving.data, ver |-> secret.ver + 1]
    <3>1. saving' \in SavingRecord /\ saving'.at = "stored"
      BY <1>0, <2>2 DEF SavingRecord
    <3>2. TypeSent \in SecretType
      BY <1>0, <1>9 DEF SourceInv, StoresSecret, TypeSent, SavingRecord, SecretType
    <3>3. secret' \in SecretRecord /\ secret'.ver = secret.ver + 1
      <4>1. saving.data \in SourceData
        BY <1>0 DEF SavingRecord
      <4> QED
        BY <1>0, <2>2, <3>2, <4>1 DEF SecretRecord
    <3>4. frameState.ver <= secret'.ver /\ frameState.ver # secret'.ver
      <4>1. frameState.ver <= secret.ver
        BY DEF SourceInv
      <4> QED
        BY ONLY <1>0, <3>3, <4>1
    <3> QED
      BY <2>1, <3>1, <3>3, <3>4 DEF SourceInv
  <2>3. CASE saving' = [saving EXCEPT !.at = "refusing"] /\ UNCHANGED secret
    <3>1. saving' \in SavingRecord /\ saving'.at = "refusing"
      BY <1>0, <2>3 DEF SavingRecord
    <3> QED
      BY <2>1, <2>3, <3>1 DEF SourceInv
  <2> QED
    BY <1>9, <2>2, <2>3 DEF StoresSecret
<1>10. CASE SaveAnswered
  <2>1. /\ saving' \in SavingRecord /\ saving'.at # "sent"
        /\ UNCHANGED <<secret, frameState, subform>>
    BY <1>10, NoSaveIsTyped DEF SaveAnswered
  <2> QED
    BY <2>1 DEF SourceInv
<1>11. CASE UNCHANGED sourceVars
  BY <1>11 DEF sourceVars, SourceInv
<1> QED
  BY <1>1, <1>2, <1>3, <1>4, <1>5, <1>6, <1>7, <1>8, <1>9, <1>10, <1>11 DEF SourceNext

\* What a save sends is on the screen (create-secret.tsx:120-125, 587-596).
LEMMA SourceInvSends == SourceInv => SourceIsWhatIsShown
<1> SUFFICES ASSUME SourceInv, OnPage, Savable
             PROVE  /\ \A f \in FieldsOf(subform.type) : Field(frameState.data, f) = ShownField(f)
                    /\ frameState.touched => frameState.type \in {subform.type, "unset"}
  BY DEF SourceIsWhatIsShown
<1>1. subform.type \in SecretType /\ frameState.touched \in BOOLEAN
  BY DEF SourceInv, SubformRecord, FrameRecord
<1>2. ASSUME NEW f \in FieldsOf(subform.type)
      PROVE  Field(frameState.data, f) = ShownField(f)
  <2>1. CASE f = "ssh-privatekey"
    <3>1. subform.type = "ssh"
      BY <1>1, <1>2, <2>1 DEF FieldsOf, SecretType
    <3>2. ShownField(f) = subform.text /\ subform.text # ""
      BY <2>1 DEF Savable, ShownField, Required
    <3> QED
      BY <2>1, <3>1, <3>2 DEF SourceInv
  <2>2. CASE f # "ssh-privatekey"
    BY <2>2 DEF SourceInv, ShownField
  <2> QED
    BY <2>1, <2>2
<1> QED
  BY <1>1, <1>2 DEF SourceInv

\* A save replaces no contents but those the form was made from (create-secret.tsx:97, 142-148).
LEMMA SourceStepIsSafe ==
    ASSUME SourceInv, [SourceNext]_sourceVars, saving.at = "sent", saving'.at = "stored"
    PROVE  saving.base = secret.data
<1>1. saving' # saving
  OBVIOUS
<1>2. StoresSecret
  <2>1. saving.at \notin {"none", "refused", "stored", "refusing"}
    OBVIOUS
  <2> QED
    BY <1>1, <2>1 DEF SourceNext, sourceVars, TypeField, ReadKey, KeyIsRead, DropTooLarge, ChangeAuthenticationType,
                     OthersWriteSecret, SecretArrives, SaveSecret, SaveAnswered
<1>3. saving.ver = secret.ver
  <2>1. saving' # [saving EXCEPT !.at = "refusing"]
    BY DEF SourceInv, SavingRecord
  <2> QED
    BY <1>2, <2>1 DEF StoresSecret
<1> QED
  BY <1>3 DEF SourceInv
-----------------------------------------------------------------------------
(* Subscriptions and install plans *)

PutRecord ==
    [at : {"none", "sent", "stored", "refusing"}, of : Nat, obj : OlmObject, by : {"none", "dialog", "approve", "gone"}]
OlmDialogRecord ==
    [change : {"none", "channel", "approval"}, of : Nat, selected : Channel \cup Approval \cup {""},
     busy : BOOLEAN, error : BOOLEAN]
UpdatesRecord == [waiting : BOOLEAN, channel : Channel, approval : Approval]

\* One of the fields that a dialog changes, and nothing else.
ChangedByDialog(obj, old) ==
    /\ obj.approved = old.approved /\ obj.plan = old.plan
    /\ obj.channel = old.channel \/ obj.approval = old.approval

ChangedByButton(obj, old) == obj.channel = old.channel /\ obj.approval = old.approval /\ obj.plan = old.plan

\* The links are of the version shown, which is at most one behind the last that this page
\* saved; and a request was made from a version that was shown.
SubscriptionInv ==
    /\ versions \in Seq(OlmObject) /\ shownAt \in 1 .. Len(versions) /\ answered \in Nat
    /\ updates \in UpdatesRecord /\ operatorDialog \in OlmDialogRecord /\ operatorPut \in PutRecord
    /\ updates.channel = versions[shownAt].channel /\ updates.approval = versions[shownAt].approval
    /\ answered <= shownAt + 1 /\ (~(updates.waiting = TRUE) => answered <= shownAt)
    /\ operatorDialog.of \in 1 .. shownAt
    /\ operatorDialog.change = "channel" => operatorDialog.selected \in Channel
    /\ operatorDialog.change = "approval" => operatorDialog.selected \in Approval
    /\ operatorPut.at = "stored" => operatorPut.of <= shownAt + 1
    /\ operatorPut.at = "sent" =>
          /\ operatorPut.of \in 1 .. shownAt
          /\ operatorPut.by = "dialog" => ChangedByDialog(operatorPut.obj, versions[operatorPut.of])
          /\ operatorPut.by # "dialog" => ChangedByButton(operatorPut.obj, versions[operatorPut.of])

LEMMA SubscriptionOpensInv ==
    ASSUME NEW kind, NEW obj \in OlmObject, SubscriptionOpens(kind, obj)
    PROVE  SubscriptionInv
<1>0. /\ versions = <<obj>> /\ shownAt = 1 /\ updates = DerivedUpdates(obj) /\ operatorDialog = NoDialog
      /\ operatorPut = [at |-> "none", of |-> 1, obj |-> obj, by |-> "none"] /\ answered = 0
  BY DEF SubscriptionOpens
<1>1. versions \in Seq(OlmObject) /\ Len(versions) = 1 /\ versions[1] = obj
  BY <1>0
<1>2. /\ updates \in UpdatesRecord /\ updates.channel = obj.channel /\ updates.approval = obj.approval
      /\ operatorDialog \in OlmDialogRecord /\ operatorDialog.of = 1 /\ operatorDialog.change = "none"
      /\ operatorPut \in PutRecord /\ operatorPut.at = "none"
  BY <1>0 DEF DerivedUpdates, UpdatesRecord, OlmObject, NoDialog, OlmDialogRecord, PutRecord
<1>3. answered \in Nat /\ answered <= shownAt + 1 /\ answered <= shownAt /\ shownAt \in 1 .. Len(versions)
      /\ operatorDialog.of \in 1 .. shownAt
  BY <1>0, <1>1, <1>2
<1> QED
  BY <1>0, <1>1, <1>2, <1>3 DEF SubscriptionInv

LEMMA SubscriptionInitInv == SubscriptionInit => SubscriptionInv
BY SubscriptionOpensInv DEF SubscriptionInit

\* An update of the props keeps the links as they are, if they wait and nothing has changed.
LEMMA NextUpdatesAreOf ==
    ASSUME NEW obj \in OlmObject, updates \in UpdatesRecord
    PROVE  /\ NextUpdates(obj) \in UpdatesRecord
           /\ NextUpdates(obj).channel = obj.channel /\ NextUpdates(obj).approval = obj.approval
           /\ updates.waiting = TRUE /\ obj.channel = updates.channel /\ obj.approval = updates.approval
                => NextUpdates(obj).waiting = TRUE
BY DEF NextUpdates, DerivedUpdates, UpdatesRecord, OlmObject

LEMMA UpdatedObjIsOf ==
    ASSUME SubscriptionInv, operatorDialog.change # "none"
    PROVE  UpdatedObj \in OlmObject /\ ChangedByDialog(UpdatedObj, versions[operatorDialog.of])
<1> DEFINE old == versions[operatorDialog.of]
<1>1. operatorDialog.of \in 1 .. Len(versions)
  <2>1. operatorDialog.of \in 1 .. shownAt /\ shownAt \in 1 .. Len(versions)
    BY DEF SubscriptionInv
  <2>2. Len(versions) \in Nat
    BY DEF SubscriptionInv
  <2> QED
    BY ONLY <2>1, <2>2
<1>2. old \in OlmObject
  BY <1>1 DEF SubscriptionInv
<1>3. operatorDialog.change \in {"channel", "approval"}
  BY DEF SubscriptionInv, OlmDialogRecord
<1> HIDE DEF old
<1>4. CASE operatorDialog.change = "channel"
  <2>1. UpdatedObj = [old EXCEPT !.channel = operatorDialog.selected] /\ operatorDialog.selected \in Channel
    BY <1>4 DEF UpdatedObj, SubscriptionInv, old
  <2> QED
    BY <1>2, <2>1 DEF OlmObject, ChangedByDialog, old
<1>5. CASE operatorDialog.change = "approval"
  <2>1. UpdatedObj = [old EXCEPT !.approval = operatorDialog.selected] /\ operatorDialog.selected \in Approval
    BY <1>5 DEF UpdatedObj, SubscriptionInv, old
  <2> QED
    BY <1>2, <2>1 DEF OlmObject, ChangedByDialog, old
<1> QED
  BY <1>3, <1>4, <1>5

\* A version more: those there were stay what they are.
LEMMA VersionIsAdded ==
    ASSUME SubscriptionInv, NEW obj \in OlmObject, versions' = Append(versions, obj)
    PROVE  /\ versions' \in Seq(OlmObject) /\ Len(versions') = Len(versions) + 1
           /\ shownAt \in 1 .. Len(versions')
           /\ \A i \in 1 .. shownAt : versions'[i] = versions[i]
           /\ versions'[Len(versions')] = obj
<1>1. versions \in Seq(OlmObject) /\ shownAt \in 1 .. Len(versions)
  BY DEF SubscriptionInv
<1> QED
  BY ONLY <1>1, obj \in OlmObject, versions' = Append(versions, obj)

LEMMA SubscriptionNextInv == SubscriptionInv /\ [SubscriptionNext]_subscriptionVars => SubscriptionInv'
<1> SUFFICES ASSUME SubscriptionInv, [SubscriptionNext]_subscriptionVars PROVE SubscriptionInv'
  OBVIOUS
<1>0. /\ versions \in Seq(OlmObject) /\ shownAt \in 1 .. Len(versions) /\ answered \in Nat
      /\ updates \in UpdatesRecord /\ operatorDialog \in OlmDialogRecord /\ operatorPut \in PutRecord
  BY DEF SubscriptionInv
<1>00. versions[shownAt] \in OlmObject /\ shownAt \in Nat /\ Len(versions) \in Nat
  BY ONLY <1>0
<1>1. CASE OthersChangeObj
  <2>1. PICK obj \in OlmObject : versions' = Append(versions, obj)
    BY <1>1 DEF OthersChangeObj
  <2>2. UNCHANGED <<shownAt, updates, operatorDialog, operatorPut, answered>>
    BY <1>1 DEF OthersChangeObj
  <2>3. shownAt \in 1 .. shownAt
    BY <1>0
  <2> QED
    BY <2>1, <2>2, <2>3, VersionIsAdded DEF SubscriptionInv
<1>2. CASE ObjArrives
  <2>1. /\ shownAt < Len(versions) /\ shownAt' = shownAt + 1 /\ updates' = NextUpdates(versions[shownAt + 1])
        /\ UNCHANGED <<versions, operatorDialog, operatorPut, answered>>
    BY <1>2 DEF ObjArrives, Latest
  <2>2. versions[shownAt + 1] \in OlmObject /\ shownAt' \in 1 .. Len(versions)
    BY ONLY <1>0, <1>00, <2>1
  <2>3. /\ updates' \in UpdatesRecord
        /\ updates'.channel = versions[shownAt'].channel /\ updates'.approval = versions[shownAt'].approval
    BY <1>0, <2>1, <2>2, NextUpdatesAreOf
  <2>4. answered <= shownAt + 1 /\ operatorDialog.of \in 1 .. shownAt
        /\ (operatorPut.at = "stored" => operatorPut.of <= shownAt + 1)
        /\ (operatorPut.at = "sent" => operatorPut.of \in 1 .. shownAt)
    BY DEF SubscriptionInv
  <2>5. operatorPut.of \in Nat
    BY <1>0 DEF PutRecord
  <2>6. answered <= shownAt' /\ answered <= shownAt' + 1 /\ operatorDialog.of \in 1 .. shownAt'
        /\ (operatorPut.at = "stored" => operatorPut.of <= shownAt' + 1)
        /\ (operatorPut.at = "sent" => operatorPut.of \in 1 .. shownAt')
    BY ONLY <1>0, <1>00, <2>1, <2>4, <2>5
  <2> QED
    BY <2>1, <2>2, <2>3, <2>6 DEF SubscriptionInv
<1>3. CASE OtherPropsArrive
  <2>1. /\ updates' = NextUpdates(versions[shownAt])
        /\ UNCHANGED <<versions, shownAt, operatorDialog, operatorPut, answered>>
    BY <1>3 DEF OtherPropsArrive, Obj
  <2>2. /\ updates' \in UpdatesRecord
        /\ updates'.channel = versions[shownAt].channel /\ updates'.approval = versions[shownAt].approval
        /\ updates.waiting = TRUE => updates'.waiting = TRUE
    BY <1>0, <1>00, <2>1, NextUpdatesAreOf DEF SubscriptionInv
  <2> QED
    BY <2>1, <2>2 DEF SubscriptionInv
<1>4. ASSUME NEW change \in {"channel", "approval"}, OpenOperatorDialog(change) PROVE SubscriptionInv'
  <2>1. /\ operatorDialog' = [NoDialog EXCEPT !.change = change, !.of = shownAt,
                                !.selected = IF change = "channel" THEN Obj.channel ELSE Obj.approval]
        /\ UNCHANGED <<versions, shownAt, updates, operatorPut, answered>>
    BY <1>4 DEF OpenOperatorDialog
  <2>2. Obj.channel \in Channel /\ Obj.approval \in Approval
    BY <1>00 DEF Obj, OlmObject
  <2>3. /\ operatorDialog' \in OlmDialogRecord /\ operatorDialog'.of = shownAt /\ operatorDialog'.change = change
        /\ operatorDialog'.selected = IF change = "channel" THEN Obj.channel ELSE Obj.approval
    BY <1>00, <2>1, <2>2 DEF NoDialog, OlmDialogRecord
  <2>4. operatorDialog'.of \in 1 .. shownAt
    BY <1>0, <2>3
  <2> QED
    BY <2>1, <2>2, <2>3, <2>4 DEF SubscriptionInv
<1>5. ASSUME NEW value \in Channel \cup Approval, SelectValue(value) PROVE SubscriptionInv'
  <2>1. /\ operatorDialog' = [operatorDialog EXCEPT !.selected = value]
        /\ operatorDialog.change # "none"
        /\ value \in IF operatorDialog.change = "channel" THEN Channel ELSE Approval
        /\ UNCHANGED <<versions, shownAt, updates, operatorPut, answered>>
    BY <1>5 DEF SelectValue
  <2>2. /\ operatorDialog' \in OlmDialogRecord /\ operatorDialog'.of = operatorDialog.of
        /\ operatorDialog'.change = operatorDialog.change /\ operatorDialog'.selected = value
    BY <1>0, <2>1 DEF OlmDialogRecord
  <2> QED
    BY <2>1, <2>2 DEF SubscriptionInv
<1>6. CASE SubmitOperatorDialog
  <2>1. /\ operatorPut' = [at |-> "sent", of |-> operatorDialog.of, obj |-> UpdatedObj, by |-> "dialog"]
        /\ operatorDialog' = [operatorDialog EXCEPT !.busy = TRUE, !.error = FALSE]
        /\ operatorDialog.change # "none"
        /\ UNCHANGED <<versions, shownAt, updates, answered>>
    BY <1>6 DEF SubmitOperatorDialog
  <2>2. /\ operatorDialog' \in OlmDialogRecord /\ operatorDialog'.of = operatorDialog.of
        /\ operatorDialog'.change = operatorDialog.change /\ operatorDialog'.selected = operatorDialog.selected
    BY <1>0, <2>1 DEF OlmDialogRecord
  <2>3. UpdatedObj \in OlmObject /\ ChangedByDialog(UpdatedObj, versions[operatorDialog.of])
    BY <2>1, UpdatedObjIsOf
  <2>4. operatorDialog.of \in Nat
    BY <1>0 DEF OlmDialogRecord
  <2>5. /\ operatorPut' \in PutRecord /\ operatorPut'.at = "sent" /\ operatorPut'.of = operatorDialog.of
        /\ operatorPut'.obj = UpdatedObj /\ operatorPut'.by = "dialog"
    BY <2>1, <2>3, <2>4 DEF PutRecord
  <2> QED
    BY <2>1, <2>2, <2>3, <2>5 DEF SubscriptionInv
<1>7. CASE CancelOperatorDialog
  <2>1. operatorDialog' = NoDialog /\ UNCHANGED <<versions, shownAt, updates, operatorPut, answered>>
    BY <1>7 DEF CancelOperatorDialog
  <2>2. operatorDialog' \in OlmDialogRecord /\ operatorDialog'.of = 1 /\ operatorDialog'.change = "none"
    BY <2>1 DEF NoDialog, OlmDialogRecord
  <2>3. operatorDialog'.of \in 1 .. shownAt
    BY <1>0, <2>2
  <2> QED
    BY <2>1, <2>2, <2>3 DEF SubscriptionInv
<1>8. CASE ShowComponents
  BY <1>8 DEF ShowComponents, SubscriptionInv
<1>9. CASE LeaveComponents
  <2>1. /\ operatorPut' \in PutRecord /\ operatorPut'.at = operatorPut.at /\ operatorPut'.of = operatorPut.of
        /\ operatorPut'.obj = operatorPut.obj
        /\ operatorPut'.by = "dialog" <=> operatorPut.by = "dialog"
        /\ UNCHANGED <<versions, shownAt, updates, operatorDialog, answered>>
    BY <1>0, <1>9 DEF LeaveComponents, PutRecord
  <2> QED
    BY <2>1 DEF SubscriptionInv
<1>10. CASE ApprovePlan
  <2>1. /\ operatorPut' = [at |-> "sent", of |-> shownAt, obj |-> [Obj EXCEPT !.approved = TRUE], by |-> "approve"]
        /\ UNCHANGED <<versions, shownAt, updates, operatorDialog, answered>>
    BY <1>10 DEF ApprovePlan
  <2>2. [Obj EXCEPT !.approved = TRUE] \in OlmObject /\ ChangedByButton([Obj EXCEPT !.approved = TRUE], Obj)
    BY <1>00 DEF Obj, OlmObject, ChangedByButton
  <2>3. /\ operatorPut' \in PutRecord /\ operatorPut'.at = "sent" /\ operatorPut'.of = shownAt
        /\ operatorPut'.obj = [Obj EXCEPT !.approved = TRUE] /\ operatorPut'.by = "approve"
    BY <1>00, <2>1, <2>2 DEF PutRecord
  <2>4. operatorPut'.of \in 1 .. shownAt
    BY <1>0, <2>3
  <2> QED
    BY <2>1, <2>2, <2>3, <2>4 DEF SubscriptionInv, Obj
<1>11. CASE ServerPuts
  <2>1. UNCHANGED <<shownAt, updates, operatorDialog, answered>> /\ operatorPut.at = "sent"
    BY <1>11 DEF ServerPuts
  <2>2. CASE operatorPut' = [operatorPut EXCEPT !.at = "refusing"] /\ UNCHANGED versions
    <3>1. operatorPut' \in PutRecord /\ operatorPut'.at = "refusing"
      BY <1>0, <2>2 DEF PutRecord
    <3> QED
      BY <2>1, <2>2, <3>1 DEF SubscriptionInv
  <2>3. CASE /\ IsCurrent
             /\ versions' = IF operatorPut.obj = versions[Latest] THEN versions ELSE Append(versions, operatorPut.obj)
             /\ operatorPut' = [operatorPut EXCEPT !.at = "stored", !.of = Len(versions')]
    <3>1. operatorPut.obj \in OlmObject
      BY <1>0 DEF PutRecord
    <3>2. /\ versions' \in Seq(OlmObject) /\ Len(versions') <= Len(versions) + 1 /\ Len(versions') \in Nat
          /\ shownAt \in 1 .. Len(versions')
          /\ versions'[shownAt] = versions[shownAt]
      <4>1. shownAt \in 1 .. shownAt
        BY <1>0
      <4>2. CASE versions' = versions
        BY <1>0, <1>00, <4>2
      <4>3. CASE versions' = Append(versions, operatorPut.obj)
        BY <1>0, <1>00, <3>1, <4>1, <4>3, VersionIsAdded
      <4> QED
        BY <2>3, <4>2, <4>3
    <3>3. operatorPut' \in PutRecord /\ operatorPut'.at = "stored" /\ operatorPut'.of = Len(versions')
      BY <1>0, <2>3, <3>2 DEF PutRecord
    <3>4. operatorPut.of \in 1 .. shownAt /\ operatorPut.of = Len(versions)
      BY <2>1, <2>3 DEF SubscriptionInv, IsCurrent, Latest
    <3>5. operatorPut'.of <= shownAt + 1
      BY ONLY <1>00, <3>2, <3>3, <3>4
    <3> QED
      BY <2>1, <3>2, <3>3, <3>5 DEF SubscriptionInv
  <2> QED
    BY <1>11, <2>2, <2>3 DEF ServerPuts
<1>12. CASE PutAnswered
  <2>1. /\ operatorPut' = [operatorPut EXCEPT !.at = "none", !.by = "none"]
        /\ UNCHANGED <<versions, shownAt>>
    BY <1>12 DEF PutAnswered
  <2>2. operatorPut' \in PutRecord /\ operatorPut'.at = "none"
    BY <1>0, <2>1 DEF PutRecord
  <2>3. CASE operatorPut.at = "stored"
    <3>1. /\ answered' = IF operatorPut.by = "dialog" THEN operatorPut.of ELSE answered
          /\ updates' = [updates EXCEPT !.waiting = @ \/ operatorPut.by = "dialog"]
          /\ operatorDialog' = IF operatorPut.by = "dialog" THEN NoDialog ELSE operatorDialog
      BY <1>12, <2>3 DEF PutAnswered
    <3>2. /\ updates' \in UpdatesRecord
          /\ updates'.channel = updates.channel /\ updates'.approval = updates.approval
          /\ operatorPut.by = "dialog" \/ updates.waiting = TRUE => updates'.waiting = TRUE
      BY <1>0, <3>1 DEF UpdatesRecord
    <3>3. /\ operatorDialog' \in OlmDialogRecord
          /\ operatorDialog' = operatorDialog \/ (operatorDialog'.of = 1 /\ operatorDialog'.change = "none")
      BY <1>0, <3>1 DEF NoDialog, OlmDialogRecord
    <3>4. 1 \in 1 .. shownAt
      BY <1>0
    <3>5. operatorPut.of \in Nat /\ operatorPut.of <= shownAt + 1
      BY <1>0, <2>3 DEF PutRecord, SubscriptionInv
    <3>6. /\ answered' \in Nat /\ answered' <= shownAt + 1
          /\ ~(updates'.waiting = TRUE) => answered' <= shownAt
      BY <3>1, <3>2, <3>5 DEF SubscriptionInv
    <3>7. /\ operatorDialog'.of \in 1 .. shownAt
          /\ operatorDialog'.change = "channel" => operatorDialog'.selected \in Channel
          /\ operatorDialog'.change = "approval" => operatorDialog'.selected \in Approval
      BY <3>3, <3>4 DEF SubscriptionInv
    <3> QED
      BY <2>1, <2>2, <3>2, <3>3, <3>6, <3>7 DEF SubscriptionInv
  <2>4. CASE operatorPut.at # "stored"
    <3>1. /\ operatorDialog' = IF operatorDialog.busy THEN [operatorDialog EXCEPT !.busy = FALSE, !.error = TRUE]
                               ELSE operatorDialog
          /\ UNCHANGED <<answered, updates>>
      BY <1>12, <2>4 DEF PutAnswered
    <3>2. /\ operatorDialog' \in OlmDialogRecord /\ operatorDialog'.of = operatorDialog.of
          /\ operatorDialog'.change = operatorDialog.change /\ operatorDialog'.selected = operatorDialog.selected
      BY <1>0, <3>1 DEF OlmDialogRecord
    <3> QED
      BY <2>1, <2>2, <3>1, <3>2 DEF SubscriptionInv
  <2> QED
    BY <2>3, <2>4
<1>13. CASE UNCHANGED subscriptionVars
  BY <1>13 DEF subscriptionVars, SubscriptionInv
<1> QED
  BY <1>1, <1>2, <1>3, <1>4, <1>5, <1>6, <1>7, <1>8, <1>9, <1>10, <1>11, <1>12, <1>13 DEF SubscriptionNext

\* The object behind the links has what this page saved last (subscription.tsx:127-141).
LEMMA SubscriptionInvLinks == SubscriptionInv => LinksAreCurrent
<1> SUFFICES ASSUME SubscriptionInv, ~updates.waiting PROVE shownAt >= answered
  BY DEF LinksAreCurrent
<1>1. answered <= shownAt /\ answered \in Nat /\ shownAt \in 1 .. Len(versions)
  BY DEF SubscriptionInv
<1> QED
  BY ONLY <1>1

\* One field is changed of what the server has (subscription-channel-modal.tsx:23, install-plan.tsx:120).
LEMMA SubscriptionStepIsSafe ==
    ASSUME SubscriptionInv, [SubscriptionNext]_subscriptionVars,
           operatorPut.at = "sent", operatorPut'.at = "stored"
    PROVE  LET field == IF operatorPut.by = "dialog" THEN {"channel", "approval"} ELSE {"approved"}
               new == versions'[Len(versions')]
           IN  /\ \A f \in DOMAIN new \ field : new[f] = versions[Latest][f]
               /\ new.channel = versions[Latest].channel \/ new.approval = versions[Latest].approval
<1>0. versions \in Seq(OlmObject) /\ operatorPut \in PutRecord /\ shownAt \in 1 .. Len(versions)
  BY DEF SubscriptionInv
<1>1. ServerPuts
  <2>1. operatorPut' # operatorPut /\ operatorPut.at \notin {"none", "stored", "refusing"}
    OBVIOUS
  <2>2. ~LeaveComponents
    BY <1>0 DEF LeaveComponents, PutRecord
  <2> QED
    BY <2>1, <2>2 DEF SubscriptionNext, subscriptionVars, OthersChangeObj, ObjArrives, OtherPropsArrive,
                      OpenOperatorDialog, SelectValue, SubmitOperatorDialog, CancelOperatorDialog, ShowComponents,
                      ApprovePlan, PutAnswered
<1>2. operatorPut' # [operatorPut EXCEPT !.at = "refusing"]
  BY <1>0 DEF PutRecord
<1>3. /\ IsCurrent
      /\ versions' = IF operatorPut.obj = versions[Latest] THEN versions ELSE Append(versions, operatorPut.obj)
  BY <1>1, <1>2 DEF ServerPuts
<1>4. operatorPut.obj \in OlmObject
  BY <1>0 DEF PutRecord
<1>5. versions'[Len(versions')] = operatorPut.obj
  BY <1>0, <1>3, <1>4, VersionIsAdded DEF Latest
<1>6. operatorPut.of = Latest /\ Latest \in 1 .. Len(versions)
  BY <1>0, <1>3 DEF IsCurrent, Latest
<1>7. /\ operatorPut.by = "dialog" => ChangedByDialog(operatorPut.obj, versions[Latest])
      /\ operatorPut.by # "dialog" => ChangedByButton(operatorPut.obj, versions[Latest])
  BY <1>6 DEF SubscriptionInv
<1>8. DOMAIN operatorPut.obj = {"channel", "approval", "approved", "plan"}
  BY <1>4 DEF OlmObject
<1> QED
  BY <1>5, <1>7, <1>8 DEF ChangedByDialog, ChangedByButton

-----------------------------------------------------------------------------
(* The page of cluster service versions *)

Gates ==
    [isOpenshift : BOOLEAN, flag : {"pending", "yes", "no"}, enabled : BOOLEAN, wasDisabled : BOOLEAN,
     changes : Int, loaded : [NamespaceList -> BOOLEAN], annotated : [NamespaceList -> BOOLEAN]]

\* A list without the annotation was read while the namespace was disabled.
GateInv ==
    /\ gate \in Gates
    /\ gate.wasDisabled = TRUE \/ gate.enabled = TRUE
    /\ \A l \in NamespaceList : gate.loaded[l] = TRUE /\ gate.annotated[l] # TRUE => gate.wasDisabled = TRUE

LEMMA GateOpensInv ==
    ASSUME NEW openshift \in BOOLEAN, NEW enabled \in BOOLEAN, GateOpens(openshift, enabled)
    PROVE  GateInv
<1>1. gate \in Gates
  BY DEF GateOpens, Gates
<1>2. \A l \in NamespaceList : gate.loaded[l] = FALSE
  BY DEF GateOpens
<1>3. gate.wasDisabled = TRUE \/ gate.enabled = TRUE
  BY DEF GateOpens
<1> QED
  BY <1>1, <1>2, <1>3 DEF GateInv

LEMMA GateInitInv == OperatorsInit => GateInv
  BY GateOpensInv DEF OperatorsInit

LEMMA GateNextInv == GateInv /\ [OperatorsNext]_operatorsVars => GateInv'
<1> SUFFICES ASSUME GateInv, [OperatorsNext]_operatorsVars
             PROVE  GateInv'
  OBVIOUS
<1> USE DEF GateInv
<1>1. ASSUME gate' = gate
      PROVE  GateInv'
  BY <1>1
<1>2. CASE DetectFlag
  BY <1>2 DEF DetectFlag, Gates
<1>3. CASE Annotate
  <2> DEFINE was == gate.wasDisabled \/ gate.enabled
             is == ~gate.enabled
             count == gate.changes + 1
  <2>1. was = TRUE /\ is \in BOOLEAN /\ count \in Int
    BY DEF Gates
  <2>2. gate' = [gate EXCEPT !.enabled = is, !.wasDisabled = was, !.changes = count]
    BY <1>3 DEF Annotate
  <2> HIDE DEF was, is, count
  <2>3. gate' \in Gates
    BY <2>1, <2>2 DEF Gates
  <2>4. gate'.wasDisabled = TRUE
    BY <2>1, <2>2 DEF Gates
  <2> QED
    BY <2>3, <2>4
<1>4. ASSUME NEW l \in NamespaceList, NamespacesLoad(l)
      PROVE  GateInv'
  BY <1>4 DEF NamespacesLoad, Gates
<1>5. ASSUME NEW l \in NamespaceList, NamespacesStop(l)
      PROVE  GateInv'
  BY <1>5 DEF NamespacesStop, Gates
<1> QED
  BY <1>1, <1>2, <1>3, <1>4, <1>5 DEF OperatorsNext, ResourceAppears, ResourceGone, operatorsVars

\* A namespace that is called disabled was so while the page was open.
LEMMA GateInvIsTrue == GateInv => DisabledIsTrue
  BY DEF GateInv, Gates, DisabledIsTrue, VersionsPage, GateLoading, NamespaceEnabled, FlagsList, NamespaceList

\* What one step of the pass adds, and a pass over the first lists.
Adds(S, n) == {o \in firehose.present : o = firehose.order[n] /\ owner[o] \in S \cup {"instance"}}
IsPass(g, m) == g = [n \in 0 .. m |-> IF n = 0 THEN {} ELSE g[n - 1] \cup Adds(g[n - 1], n)]

\* There is a pass over any number of lists, by induction.
LEMMA PassExists == \A m \in Nat : \E g : IsPass(g, m)
<1> DEFINE without == {m \in Nat : ~ \E g : IsPass(g, m)}
<1> SUFFICES ASSUME without # {} PROVE FALSE
  OBVIOUS
<1>1. PICK m \in without : \A k \in without : m <= k
  BY SmallestOfSome
<1>2. CASE m = 0
  <2> DEFINE g == [n \in 0 .. 0 |-> {}]
  <2>1. \A n \in 0 .. 0 : n = 0
    OBVIOUS
  <2>2. IsPass(g, 0)
    BY <2>1 DEF IsPass
  <2> QED
    BY <1>2, <2>2
<1>3. CASE m # 0
  <2>1. m - 1 \in Nat /\ m - 1 \notin without
    BY <1>1, <1>3
  <2>2. PICK g : IsPass(g, m - 1)
    BY <2>1
  <2> DEFINE h == [n \in 0 .. m |-> IF n = m THEN g[m - 1] \cup Adds(g[m - 1], m) ELSE g[n]]
  <2>3. ASSUME NEW n \in 0 .. m
        PROVE  h[n] = IF n = 0 THEN {} ELSE h[n - 1] \cup Adds(h[n - 1], n)
    <3>1. n # 0 => n - 1 \in 0 .. m /\ n - 1 # m /\ n - 1 \in 0 .. m - 1
      BY <1>1
    <3>2. n # 0 => h[n - 1] = g[n - 1]
      BY <3>1
    <3>3. CASE n = m
      <4>1. n \in 0 .. m /\ n # 0
        BY <1>3, <3>3
      <4>2. h[n] = g[n - 1] \cup Adds(g[n - 1], n)
        BY <3>3
      <4> HIDE DEF h
      <4> QED
        BY <3>2, <4>1, <4>2
    <3>4. CASE n # m
      <4>1. n \in 0 .. m - 1
        BY <1>1, <3>4
      <4>2. h[n] = g[n]
        BY <3>4
      <4>3. g[n] = IF n = 0 THEN {} ELSE g[n - 1] \cup Adds(g[n - 1], n)
        BY <2>2, <4>1 DEF IsPass
      <4> HIDE DEF h
      <4> QED
        BY <3>2, <4>2, <4>3
    <3> QED
      BY <3>3, <3>4
  <2>4. IsPass(h, m)
    <3> DEFINE k == [n \in 0 .. m |-> IF n = 0 THEN {} ELSE h[n - 1] \cup Adds(h[n - 1], n)]
    <3>1. \A n \in 0 .. m : h[n] = k[n]
      BY <2>3
    <3>2. h = k
      BY <3>1
    <3> QED
      BY <3>2 DEF IsPass
  <2> QED
    BY <1>1, <2>4
<1> QED
  BY <1>2, <1>3

\* The pass, list by list.
LEMMA PassByList ==
    ASSUME Len(firehose.order) \in Nat
    PROVE  /\ OwnedAfter[0] = {}
           /\ \A n \in 1 .. Len(firehose.order) : OwnedAfter[n] = OwnedAfter[n - 1] \cup Adds(OwnedAfter[n - 1], n)
<1> DEFINE N == Len(firehose.order)
<1>1. OwnedAfter = CHOOSE g : IsPass(g, N)
  BY DEF OwnedAfter, IsPass, Adds
<1>2. IsPass(OwnedAfter, N)
  BY <1>1, PassExists
<1>3. \A n \in 0 .. N : OwnedAfter[n] = IF n = 0 THEN {} ELSE OwnedAfter[n - 1] \cup Adds(OwnedAfter[n - 1], n)
  BY <1>2 DEF IsPass
<1>4. 0 \in 0 .. N /\ \A n \in 1 .. N : n \in 0 .. N /\ n # 0
  OBVIOUS
<1> QED
  BY <1>3, <1>4

\* The lists are in some order of all kinds; a page without lists shows no instance.
InstanceInv ==
    /\ firehose \in [order : ListOrders \cup {<<>>}, present : SUBSET ResourceKind]
    /\ owner \in [ResourceKind -> ResourceKind \cup {"instance", "none"}]
    /\ firehose.order \notin ListOrders => owner = NoOwners

\* Every kind has one place in the order.
LEMMA OrderIsOfAll ==
    ASSUME firehose.order \in ListOrders
    PROVE  /\ Len(firehose.order) = Cardinality(ResourceKind) /\ Len(firehose.order) \in Nat
           /\ DOMAIN firehose.order = 1 .. Len(firehose.order)
           /\ \A i, j \in 1 .. Len(firehose.order) : firehose.order[i] = firehose.order[j] => i = j
           /\ \A o \in ResourceKind : \E i \in 1 .. Len(firehose.order) : firehose.order[i] = o
<1> DEFINE n == Cardinality(ResourceKind)
           order == firehose.order
<1>1. n \in Nat /\ IsFiniteSet(1 .. n) /\ Cardinality(1 .. n) = n
  BY OperatorsAssumption, FS_CardinalityType, FS_Interval
<1>2. order \in Injection(1 .. n, ResourceKind)
  BY DEF ListOrders
<1>3. order \in [1 .. n -> ResourceKind] /\ \A i, j \in 1 .. n : order[i] = order[j] => i = j
  BY <1>2 DEF Injection, IsInjective
<1>4. order \in Surjection(1 .. n, ResourceKind)
  BY <1>1, <1>2, OperatorsAssumption, FS_Injection
<1>5. \A o \in ResourceKind : \E i \in 1 .. n : order[i] = o
  BY <1>4 DEF Surjection
<1>6. order \in Seq(ResourceKind) /\ Len(order) = n
  BY <1>1, <1>3
<1> QED
  BY <1>1, <1>3, <1>5, <1>6

\* What a pass has found it keeps, and it finds each object at its list or not at all.
LEMMA PassGrows ==
    ASSUME Len(firehose.order) \in Nat
    PROVE  \A n \in 0 .. Len(firehose.order) : \A i \in 0 .. n : OwnedAfter[i] \subseteq OwnedAfter[n]
<1> DEFINE N == Len(firehose.order)
           fails == {n \in 0 .. N : ~ \A i \in 0 .. n : OwnedAfter[i] \subseteq OwnedAfter[n]}
<1> SUFFICES ASSUME fails # {} PROVE FALSE
  OBVIOUS
<1>0. fails \in SUBSET Nat
  OBVIOUS
<1>1. PICK n \in fails : \A k \in fails : n <= k
  BY <1>0, SmallestOfSome
<1>2. PICK i \in 0 .. n : ~(OwnedAfter[i] \subseteq OwnedAfter[n])
  BY <1>1
<1>3. i # n /\ n # 0 /\ n \in 1 .. N /\ i \in 0 .. n - 1 /\ n - 1 \in 0 .. N /\ n - 1 \notin fails
  BY <1>1, <1>2
<1>4. OwnedAfter[i] \subseteq OwnedAfter[n - 1]
  BY <1>3
<1>5. OwnedAfter[n - 1] \subseteq OwnedAfter[n]
  BY <1>3, PassByList
<1> QED
  BY <1>2, <1>4, <1>5

LEMMA PassFindsAtItsList ==
    ASSUME Len(firehose.order) \in Nat
    PROVE  \A n \in 0 .. Len(firehose.order) : \A o \in OwnedAfter[n] :
              \E i \in 1 .. n : firehose.order[i] = o /\ o \in Adds(OwnedAfter[i - 1], i)
<1> DEFINE N == Len(firehose.order)
           Found(n) == \A o \in OwnedAfter[n] :
              \E i \in 1 .. n : firehose.order[i] = o /\ o \in Adds(OwnedAfter[i - 1], i)
           fails == {n \in 0 .. N : ~Found(n)}
<1> SUFFICES ASSUME fails # {} PROVE FALSE
  OBVIOUS
<1>0. fails \in SUBSET Nat
  OBVIOUS
<1>1. PICK n \in fails : \A k \in fails : n <= k
  BY <1>0, SmallestOfSome
<1>2. n # 0
  BY <1>1, PassByList
<1>3. n \in 1 .. N /\ n - 1 \in 0 .. N /\ n - 1 \notin fails /\ n \in 1 .. n
  BY <1>1, <1>2
<1>4. Found(n - 1)
  BY <1>3
<1>5. ASSUME NEW o \in OwnedAfter[n]
      PROVE  \E i \in 1 .. n : firehose.order[i] = o /\ o \in Adds(OwnedAfter[i - 1], i)
  <2>1. CASE o \in OwnedAfter[n - 1]
    <3>1. PICK i \in 1 .. n - 1 : firehose.order[i] = o /\ o \in Adds(OwnedAfter[i - 1], i)
      BY <1>4, <2>1
    <3>2. i \in 1 .. n
      BY <1>3, <3>1
    <3> QED
      BY <3>1, <3>2
  <2>2. CASE o \in Adds(OwnedAfter[n - 1], n)
    BY <1>3, <2>2 DEF Adds
  <2> QED
    BY <1>3, <2>1, <2>2, PassByList
<1> QED
  BY <1>1, <1>5

\* Nothing is found that the instance does not own.
LEMMA PassIsOfOwned ==
    ASSUME Len(firehose.order) \in Nat
    PROVE  FlattenOwned \subseteq OwnedIn(firehose.present)
<1> DEFINE N == Len(firehose.order)
           S == firehose.present
           HasOwned(T) == \A x \in S : owner[x] \in T \cup {"instance"} => x \in T
<1>1. \A n \in 0 .. N : OwnedAfter[n] \subseteq S
  BY PassFindsAtItsList DEF Adds
<1>2. ASSUME NEW T, HasOwned(T)
      PROVE  \A n \in 0 .. N : OwnedAfter[n] \subseteq T
  <2> DEFINE fails == {n \in 0 .. N : ~(OwnedAfter[n] \subseteq T)}
  <2> SUFFICES ASSUME fails # {} PROVE FALSE
    OBVIOUS
  <2>0. fails \in SUBSET Nat
    OBVIOUS
  <2>1. PICK n \in fails : \A k \in fails : n <= k
    BY <2>0, SmallestOfSome
  <2>2. n # 0
    BY <2>1, PassByList
  <2>3. n \in 1 .. N /\ n - 1 \in 0 .. N /\ n - 1 \notin fails
    BY <2>1, <2>2
  <2>4. OwnedAfter[n - 1] \subseteq T
    BY <2>3
  <2>5. Adds(OwnedAfter[n - 1], n) \subseteq T
    BY <1>2, <2>4 DEF Adds
  <2>6. OwnedAfter[n] \subseteq T
    BY <2>3, <2>4, <2>5, PassByList
  <2> QED
    BY <2>1, <2>6
<1>3. N \in 0 .. N
  OBVIOUS
<1> QED
  BY <1>1, <1>2, <1>3 DEF FlattenOwned, OwnedIn

\* All that it owns is found, if no list comes before that of its owners.
LEMMA PassFindsOwned ==
    ASSUME InstanceInv, firehose.order \in ListOrders,
           \A o \in ResourceKind : owner[o] \in ResourceKind => Before(owner[o], o)
    PROVE  OwnedIn(firehose.present) \subseteq FlattenOwned
<1> DEFINE N == Len(firehose.order)
           S == firehose.present
           Flat == OwnedAfter[N]
<1>1. N \in Nat /\ DOMAIN firehose.order = 1 .. N /\ S \subseteq ResourceKind
  BY OrderIsOfAll DEF InstanceInv
<1>2. Flat \subseteq S
  <2>1. N \in 0 .. N
    BY <1>1
  <2> QED
    BY <1>1, <2>1, PassFindsAtItsList DEF Adds
<1>3. ASSUME NEW x \in S, owner[x] \in Flat \cup {"instance"}
      PROVE  x \in Flat
  <2>1. PICK j \in 1 .. N : firehose.order[j] = x
    BY <1>1, OrderIsOfAll
  <2>2. j - 1 \in 0 .. N /\ N \in 0 .. N /\ j \in 0 .. N
    BY <1>1
  <2>3. owner[x] \in OwnedAfter[j - 1] \cup {"instance"}
    <3>1. CASE owner[x] \in Flat
      <4>1. PICK i \in 1 .. N : firehose.order[i] = owner[x] /\ owner[x] \in Adds(OwnedAfter[i - 1], i)
        BY <1>1, <2>2, <3>1, PassFindsAtItsList
      <4>2. PICK a, b \in DOMAIN firehose.order : a < b /\ firehose.order[a] = owner[x] /\ firehose.order[b] = x
        BY <1>1, <1>2, <3>1 DEF Before
      <4>3. a = i /\ b = j
        BY <1>1, <2>1, <4>1, <4>2, OrderIsOfAll
      <4>4. i \in 0 .. j - 1
        BY <4>2, <4>3
      <4>5. owner[x] \in OwnedAfter[i]
        BY <1>1, <4>1, PassByList
      <4> QED
        BY <1>1, <2>2, <4>4, <4>5, PassGrows
    <3> QED
      BY <1>3, <3>1
  <2>4. x \in Adds(OwnedAfter[j - 1], j)
    BY <2>1, <2>3 DEF Adds
  <2>5. x \in OwnedAfter[j]
    BY <1>1, <2>1, <2>4, PassByList
  <2> QED
    BY <1>1, <2>2, <2>5, PassGrows
<1> HIDE DEF Flat, S
<1>4. OwnedIn(S) \subseteq Flat
  BY <1>2, <1>3 DEF OwnedIn
<1> QED
  BY <1>4 DEF FlattenOwned, Flat, S

LEMMA InstanceInvShows == InstanceInv => OwnedAreShown
<1> SUFFICES ASSUME InstanceInv
             PROVE  OwnedAreShown
  OBVIOUS
<1>1. CASE firehose.order \in ListOrders
  BY <1>1, OrderIsOfAll, PassIsOfOwned, PassFindsOwned DEF OwnedAreShown
<1>2. CASE firehose.order \notin ListOrders
  <2>1. firehose.order = <<>> /\ Len(firehose.order) = 0 /\ owner = NoOwners
    BY <1>2 DEF InstanceInv
  <2>2. FlattenOwned = {}
    BY <2>1, PassByList DEF FlattenOwned
  <2>3. OwnedIn(firehose.present) = {}
    BY <2>1 DEF OwnedIn, InstanceInv, NoOwners
  <2> QED
    BY <2>2, <2>3 DEF OwnedAreShown
<1> QED
  BY <1>1, <1>2 DEF InstanceInv

LEMMA InstanceOpensInv ==
    ASSUME NEW order, NEW owners \in [ResourceKind -> ResourceKind \cup {"instance", "none"}],
           order \in ListOrders \/ (order = <<>> /\ owners = NoOwners), InstanceOpens(order, owners)
    PROVE  InstanceInv
BY DEF InstanceOpens, InstanceInv

LEMMA InstanceInitInv == OperatorsInit => InstanceInv
<1>1. NoOwners \in [ResourceKind -> ResourceKind \cup {"instance", "none"}]
  BY DEF NoOwners
<1> QED
  BY <1>1, InstanceOpensInv DEF OperatorsInit

LEMMA InstanceNextInv == InstanceInv /\ [OperatorsNext]_operatorsVars => InstanceInv'
<1> SUFFICES ASSUME InstanceInv, [OperatorsNext]_operatorsVars
             PROVE  InstanceInv'
  OBVIOUS
<1>1. /\ owner' = owner /\ firehose'.order = firehose.order
      /\ firehose' \in [order : ListOrders \cup {<<>>}, present : SUBSET ResourceKind]
  <2>1. CASE UNCHANGED operatorsVars
    BY <2>1 DEF operatorsVars, InstanceInv
  <2>2. CASE DetectFlag \/ Annotate \/ (\E l \in NamespaceList : NamespacesLoad(l) \/ NamespacesStop(l))
    BY <2>2 DEF DetectFlag, Annotate, NamespacesLoad, NamespacesStop, InstanceInv
  <2>3. ASSUME NEW o \in ResourceKind, ResourceAppears(o) \/ ResourceGone(o)
        PROVE  /\ owner' = owner /\ firehose'.order = firehose.order
               /\ firehose' \in [order : ListOrders \cup {<<>>}, present : SUBSET ResourceKind]
    BY <2>3 DEF ResourceAppears, ResourceGone, InstanceInv
  <2> QED
    BY <2>1, <2>2, <2>3 DEF OperatorsNext
<1>2. ListOrders' = ListOrders /\ NoOwners' = NoOwners
  BY DEF ListOrders, NoOwners
<1> QED
  BY <1>1, <1>2 DEF InstanceInv

-----------------------------------------------------------------------------
(* The rows of a secret *)

\* What a row holds: the value and auth of a key or registry.
Held == [value : RowValue \cup {""}, auth : RowValue \cup {""}]
RowEntry == [key : Text \cup {""}, value : RowValue \cup {""}, auth : RowValue \cup {""}]
ListRow == [uid : Nat, entry : RowEntry]
Contents == {c \in UNION {[K -> Held] : K \in SUBSET (Text \cup {""})} : IsFiniteSet(DOMAIN c)}

LEMMA KeyedContents == \A kind : ContentsOf(kind) \subseteq Contents
<1> SUFFICES ASSUME NEW kind, NEW c \in ContentsOf(kind)
             PROVE  c \in Contents
  OBVIOUS
<1>1. PICK K \in {S \in SUBSET Text : IsFiniteSet(S)} :
         c \in {[k \in K |-> [value |-> f[k], auth |-> IF kind = "image" THEN f[k] ELSE ""]] : f \in [K -> RowValue]}
  BY DEF ContentsOf
<1>2. PICK f \in [K -> RowValue] : c = [k \in K |-> [value |-> f[k], auth |-> IF kind = "image" THEN f[k] ELSE ""]]
  BY <1>1
<1>3. c \in [K -> Held]
  BY <1>2 DEF Held
<1>4. K \in SUBSET (Text \cup {""}) /\ IsFiniteSet(K) /\ DOMAIN c = K
  BY <1>1, <1>3
<1>5. c \in UNION {[L -> Held] : L \in SUBSET (Text \cup {""})}
  BY <1>3, <1>4
<1> QED
  BY <1>4, <1>5 DEF Contents

LEMMA NoContentsIsTyped == NoContents \in Contents
<1>1. NoContents \in [{} -> Held] /\ DOMAIN NoContents = {}
  BY DEF NoContents
<1>2. {} \in SUBSET (Text \cup {""}) /\ IsFiniteSet({})
  BY FS_EmptySet
<1>3. NoContents \in UNION {[L -> Held] : L \in SUBSET (Text \cup {""})}
  BY <1>1, <1>2
<1> QED
  BY <1>1, <1>2, <1>3 DEF Contents

LEMMA ContentsAreFunctions ==
    ASSUME NEW c \in Contents
    PROVE  /\ IsFiniteSet(DOMAIN c) /\ DOMAIN c \subseteq Text \cup {""}
           /\ c \in [DOMAIN c -> Held]
  BY DEF Contents

LEMMA OneRow ==
    ASSUME NEW T, NEW x \in T
    PROVE  <<x>> \in Seq(T) /\ DOMAIN <<x>> = {1} /\ <<x>>[1] = x
  OBVIOUS

\* The rows made of some contents are of those contents.
LEMMA RowsAreTheContents ==
    ASSUME NEW c \in Contents, NEW from \in Nat
    PROVE  LET rs == NewRows(c, from)
           IN  /\ rs \in Seq(ListRow)
               /\ \A i \in DOMAIN rs : rs[i].uid = from + i
               /\ (\A i \in DOMAIN rs : rs[i].entry.key # "") => AsObject(rs) = c
<1> DEFINE rs == NewRows(c, from)
           held == SetToSeq(DOMAIN c)
           n == Cardinality(DOMAIN c)
<1>1. IsFiniteSet(DOMAIN c) /\ DOMAIN c \subseteq Text \cup {""} /\ c \in [DOMAIN c -> Held]
  BY ContentsAreFunctions
<1>2. /\ held \in [1 .. n -> DOMAIN c] /\ n \in Nat
      /\ \A i, j \in 1 .. n : held[i] = held[j] => i = j
      /\ \A x \in DOMAIN c : \E i \in 1 .. n : held[i] = x
  BY <1>1, ListsTheSet
<1>0. rs = IF held = <<>> THEN <<[uid |-> from + 1, entry |-> Blank]>>
           ELSE [i \in DOMAIN held |->
                  [uid |-> from + i, entry |-> [key |-> held[i], value |-> c[held[i]].value,
                                                auth |-> c[held[i]].auth]]]
  BY DEF NewRows
<1> SUFFICES /\ rs \in Seq(ListRow)
             /\ \A i \in DOMAIN rs : rs[i].uid = from + i
             /\ (\A i \in DOMAIN rs : rs[i].entry.key # "") => AsObject(rs) = c
  OBVIOUS
<1> HIDE DEF rs, held, n
<1>3. CASE held = <<>>
  <2>1. rs = <<[uid |-> from + 1, entry |-> Blank]>>
    BY <1>0, <1>3
  <2>2. [uid |-> from + 1, entry |-> Blank] \in ListRow
    BY DEF ListRow, RowEntry, Blank
  <2>3. rs \in Seq(ListRow) /\ DOMAIN rs = {1} /\ rs[1].uid = from + 1 /\ rs[1].entry.key = ""
    <3> DEFINE row == [uid |-> from + 1, entry |-> Blank]
    <3>1. row.uid = from + 1 /\ row.entry.key = "" /\ row \in ListRow
      BY <2>2 DEF Blank
    <3> HIDE DEF row
    <3>2. <<row>> \in Seq(ListRow) /\ DOMAIN <<row>> = {1} /\ <<row>>[1] = row
      BY <3>1, OneRow
    <3>3. rs = <<row>>
      BY <2>1 DEF row
    <3> QED
      BY <3>1, <3>2, <3>3
  <2> QED
    BY <2>3
<1>4. CASE held # <<>>
  <2>1. rs = [i \in 1 .. n |-> [uid |-> from + i, entry |-> [key |-> held[i], value |-> c[held[i]].value,
                                                              auth |-> c[held[i]].auth]]]
    BY <1>0, <1>2, <1>4
  <2>2. \A i \in 1 .. n : /\ rs[i] \in ListRow /\ rs[i].uid = from + i /\ rs[i].entry.key = held[i]
                           /\ rs[i].entry.value = c[held[i]].value /\ rs[i].entry.auth = c[held[i]].auth
    <3> TAKE i \in 1 .. n
    <3>1. held[i] \in DOMAIN c
      BY <1>2
    <3>2. held[i] \in Text \cup {""} /\ c[held[i]] \in Held
      BY <1>1, <3>1
    <3>3. rs[i] = [uid |-> from + i, entry |-> [key |-> held[i], value |-> c[held[i]].value,
                                               auth |-> c[held[i]].auth]]
      BY <2>1
    <3>4. from + i \in Nat
      BY <1>2
    <3>5. [key |-> held[i], value |-> c[held[i]].value, auth |-> c[held[i]].auth] \in RowEntry
      BY <3>2 DEF Held, RowEntry
    <3>6. rs[i] \in ListRow
      BY <3>3, <3>4, <3>5 DEF ListRow
    <3> QED
      BY <3>3, <3>6
  <2>3. rs \in [1 .. n -> ListRow]
    BY <2>1, <2>2
  <2>4. rs \in Seq(ListRow) /\ DOMAIN rs = 1 .. n /\ Len(rs) = n
    BY <1>2, <2>3, SeqDef
  <2>5. {rs[i].entry.key : i \in DOMAIN rs} = DOMAIN c
    <3>1. \A i \in 1 .. n : rs[i].entry.key \in DOMAIN c
      BY <1>2, <2>2
    <3>2. \A x \in DOMAIN c : \E i \in 1 .. n : rs[i].entry.key = x
      BY <1>2, <2>2
    <3> QED
      BY <2>4, <3>1, <3>2
  <2>6. ASSUME NEW k \in DOMAIN c
        PROVE  AsObject(rs)[k] = c[k]
    <3> DEFINE isLast(i) == rs[i].entry.key = k /\ \A j \in i + 1 .. Len(rs) : rs[j].entry.key # k
               last == CHOOSE i \in DOMAIN rs : isLast(i)
    <3>1. PICK i \in 1 .. n : held[i] = k
      BY <1>2
    <3>2. isLast(i)
      BY <1>2, <2>2, <2>4, <3>1
    <3>3. last \in 1 .. n /\ isLast(last)
      BY <2>4, <3>2
    <3>4. held[last] = k
      BY <2>2, <3>3
    <3>5. AsObject(rs)[k] = [value |-> rs[last].entry.value, auth |-> rs[last].entry.auth]
      BY <2>5 DEF AsObject
    <3>6. c[k] = [value |-> c[k].value, auth |-> c[k].auth]
      BY <1>1 DEF Held
    <3> QED
      BY <2>2, <3>3, <3>4, <3>5, <3>6
  <2>7. AsObject(rs) = c
    <3>1. AsObject(rs) = [k \in DOMAIN c |-> AsObject(rs)[k]]
      BY <2>5 DEF AsObject
    <3>2. c = [k \in DOMAIN c |-> c[k]]
      BY <1>1
    <3> QED
      BY <2>6, <3>1, <3>2
  <2> QED
    BY <2>2, <2>4, <2>7
<1> QED
  BY <1>3, <1>4

\* The object that is made of a held has the last row of every key.
LEMMA ObjectIsTyped ==
    ASSUME NEW rs \in Seq(ListRow)
    PROVE  AsObject(rs) \in Contents
<1> DEFINE K == {rs[i].entry.key : i \in DOMAIN rs}
           o == AsObject(rs)
<1>1. Len(rs) \in Nat /\ DOMAIN rs = 1 .. Len(rs) /\ \A i \in DOMAIN rs : rs[i] \in ListRow
  OBVIOUS
<1>2. IsFiniteSet(K)
  <2> DEFINE f == [i \in DOMAIN rs |-> rs[i].entry.key]
  <2>1. f \in Surjection(DOMAIN rs, K)
    BY DEF Surjection
  <2>2. IsFiniteSet(DOMAIN rs)
    BY <1>1, FS_Interval
  <2> HIDE DEF f, K
  <2> QED
    BY <2>1, <2>2, FS_Surjection
<1>3. K \in SUBSET (Text \cup {""})
  BY <1>1 DEF ListRow, RowEntry
<1>4. DOMAIN o = K
  BY DEF AsObject
<1>5. ASSUME NEW k \in K
      PROVE  o[k] \in Held
  <2> DEFINE isLast(i) == rs[i].entry.key = k /\ \A j \in i + 1 .. Len(rs) : rs[j].entry.key # k
             last == CHOOSE i \in DOMAIN rs : isLast(i)
             S == {m \in Nat : \E i \in DOMAIN rs : rs[i].entry.key = k /\ m = Len(rs) - i}
  <2>1. \E i \in DOMAIN rs : isLast(i)
    <3>1. PICK i \in DOMAIN rs : rs[i].entry.key = k
      OBVIOUS
    <3>2. Len(rs) - i \in S
      BY <1>1, <3>1
    <3>3. PICK m \in S : \A l \in S : m <= l
      <4>1. S \in SUBSET Nat /\ S # {}
        BY <3>2
      <4> HIDE DEF S
      <4> QED
        BY <4>1, SmallestOfSome
    <3>4. PICK h \in DOMAIN rs : rs[h].entry.key = k /\ m = Len(rs) - h
      BY <3>3
    <3>5. ASSUME NEW j \in h + 1 .. Len(rs), rs[j].entry.key = k
          PROVE  FALSE
      <4>1. j \in DOMAIN rs /\ Len(rs) - j \in Nat /\ Len(rs) - j < m
        BY <1>1, <3>4
      <4>2. Len(rs) - j \in S
        BY <3>5, <4>1
      <4> QED
        BY <3>3, <4>1, <4>2
    <3> QED
      BY <3>4, <3>5
  <2>2. last \in DOMAIN rs
    BY <2>1
  <2>3. o[k] = [value |-> rs[last].entry.value, auth |-> rs[last].entry.auth]
    BY DEF AsObject
  <2> HIDE DEF last, o, K, S
  <2>4. rs[last] \in ListRow
    BY <1>1, <2>2
  <2>5. rs[last].entry.value \in RowValue \cup {""} /\ rs[last].entry.auth \in RowValue \cup {""}
    BY <2>4 DEF ListRow, RowEntry
  <2>6. [value |-> rs[last].entry.value, auth |-> rs[last].entry.auth] \in Held
    BY <2>5 DEF Held
  <2> QED
    BY ONLY <2>3, <2>6
<1>6. o = [k \in K |-> o[k]]
  BY DEF AsObject
<1> HIDE DEF o, K
<1>7. o \in [K -> Held]
  BY <1>5, <1>6
<1>8. o \in UNION {[L -> Held] : L \in SUBSET (Text \cup {""})}
  BY <1>3, <1>7
<1>9. o \in Contents
  BY <1>2, <1>4, <1>8 DEF Contents
<1> QED
  BY <1>9 DEF o

-----------------------------------------------------------------------------
(* The list and its row forms *)

\* Every row has a uid of its own, given already, and its form shows its entry.
ListIsOne(rs, fs, n) ==
    /\ rs \in Seq(ListRow) /\ n \in Nat
    /\ \A i \in DOMAIN rs : rs[i].uid <= n
    /\ \A i, j \in DOMAIN rs : rs[i].uid = rs[j].uid => i = j
    /\ fs \in [UidsOf(rs) -> RowEntry]
    /\ \A i \in DOMAIN rs : fs[rs[i].uid] = rs[i].entry

\* The row of a uid is the one that has it.
LEMMA RowHasUid ==
    ASSUME NEW rs \in Seq(ListRow), \A i, j \in DOMAIN rs : rs[i].uid = rs[j].uid => i = j,
           NEW i \in DOMAIN rs
    PROVE  Row(rs, rs[i].uid) = rs[i] /\ rs[i].uid \in UidsOf(rs)
<1>1. (CHOOSE j \in DOMAIN rs : rs[j].uid = rs[i].uid) = i
  OBVIOUS
<1> QED
  BY <1>1 DEF Row, UidsOf

\* What is mounted of new rows.
LEMMA MountIsOne ==
    ASSUME NEW c \in Contents, NEW from \in Nat, NEW fs,
           fs = [u \in UidsOf(NewRows(c, from)) |-> Row(NewRows(c, from), u).entry]
    PROVE  ListIsOne(NewRows(c, from), fs, from + Len(NewRows(c, from)))
<1> DEFINE rs == NewRows(c, from)
<1>1. rs \in Seq(ListRow) /\ \A i \in DOMAIN rs : rs[i].uid = from + i
  BY RowsAreTheContents
<1>2. Len(rs) \in Nat /\ DOMAIN rs = 1 .. Len(rs) /\ \A i \in DOMAIN rs : rs[i] \in ListRow
  BY <1>1
<1> HIDE DEF rs
<1>3. \A i, j \in DOMAIN rs : rs[i].uid = rs[j].uid => i = j
  BY <1>1, <1>2
<1>4. \A i \in DOMAIN rs : Row(rs, rs[i].uid) = rs[i] /\ rs[i].uid \in UidsOf(rs)
  BY <1>1, <1>3, RowHasUid
<1>5. fs = [u \in UidsOf(rs) |-> Row(rs, u).entry]
  BY DEF rs
<1>6. \A i \in DOMAIN rs : fs[rs[i].uid] = rs[i].entry
  BY <1>4, <1>5
<1>7. \A u \in UidsOf(rs) : fs[u] \in RowEntry
  <2> TAKE u \in UidsOf(rs)
  <2>1. PICK i \in DOMAIN rs : u = rs[i].uid
    BY DEF UidsOf
  <2> QED
    BY <1>2, <1>6, <2>1 DEF ListRow
<1>8. fs \in [UidsOf(rs) -> RowEntry]
  BY <1>5, <1>7
<1>9. from + Len(rs) \in Nat /\ \A i \in DOMAIN rs : rs[i].uid <= from + Len(rs)
  BY <1>1, <1>2
<1> QED
  BY <1>1, <1>3, <1>6, <1>8, <1>9 DEF ListIsOne, rs

\* A row form is typed into or filled: its entry is what it shows.
LEMMA ChangeIsOne ==
    ASSUME NEW rs, NEW fs, NEW n, ListIsOne(rs, fs, n), NEW i \in DOMAIN rs, NEW entered \in RowEntry
    PROVE  ListIsOne([rs EXCEPT ![i].entry = entered], [fs EXCEPT ![rs[i].uid] = entered], n)
<1> DEFINE revised == [rs EXCEPT ![i].entry = entered]
           visible == [fs EXCEPT ![rs[i].uid] = entered]
<1>1. /\ rs \in Seq(ListRow) /\ Len(rs) \in Nat /\ DOMAIN rs = 1 .. Len(rs)
      /\ \A j \in DOMAIN rs : rs[j] \in ListRow
  BY DEF ListIsOne
<1>2. \A j \in DOMAIN rs : revised[j] = IF j = i THEN [rs[i] EXCEPT !.entry = entered] ELSE rs[j]
  OBVIOUS
<1>3. [rs[i] EXCEPT !.entry = entered] = [uid |-> rs[i].uid, entry |-> entered]
  BY <1>1 DEF ListRow
<1>4. /\ DOMAIN revised = DOMAIN rs
      /\ \A j \in DOMAIN rs : revised[j] \in ListRow /\ revised[j].uid = rs[j].uid
      /\ revised[i].entry = entered /\ \A j \in DOMAIN rs \ {i} : revised[j] = rs[j]
  BY <1>1, <1>2, <1>3 DEF ListRow
<1>5. revised \in Seq(ListRow)
  <2>1. revised = [j \in 1 .. Len(rs) |-> revised[j]]
    BY <1>1
  <2> HIDE DEF revised
  <2> QED
    BY <1>1, <1>4, <2>1, SeqDef
<1> HIDE DEF revised
<1>6. UidsOf(revised) = UidsOf(rs)
  BY <1>4 DEF UidsOf
<1>7. rs[i].uid \in UidsOf(rs) /\ fs \in [UidsOf(rs) -> RowEntry]
  BY DEF ListIsOne, UidsOf
<1>8. visible \in [UidsOf(rs) -> RowEntry] /\ visible[rs[i].uid] = entered
      /\ \A u \in UidsOf(rs) \ {rs[i].uid} : visible[u] = fs[u]
  BY <1>7
<1> HIDE DEF visible
<1>9. \A j \in DOMAIN revised : visible[revised[j].uid] = revised[j].entry
  <2> TAKE j \in DOMAIN revised
  <2>1. CASE j = i
    BY <1>4, <1>8, <2>1
  <2>2. CASE j # i
    <3>1. rs[j].uid # rs[i].uid /\ rs[j].uid \in UidsOf(rs) /\ fs[rs[j].uid] = rs[j].entry
      BY <1>4, <2>2 DEF ListIsOne, UidsOf
    <3> QED
      BY <1>4, <1>8, <2>2, <3>1
  <2> QED
    BY <2>1, <2>2
<1>10. ListIsOne(revised, visible, n)
  BY <1>4, <1>5, <1>6, <1>8, <1>9 DEF ListIsOne
<1> QED
  BY <1>10 DEF revised, visible

\* Rows are added and removed: forms that are there keep what they show.
LEMMA RenderedIsOne ==
    ASSUME NEW n, ListIsOne(rows, forms, n), NEW m \in Nat, n <= m, NEW rs \in Seq(ListRow),
           \A i, j \in DOMAIN rs : rs[i].uid = rs[j].uid => i = j,
           \A i \in DOMAIN rs : /\ rs[i].uid <= m
                                /\ \/ \E j \in DOMAIN rows : rs[i] = rows[j]
                                   \/ rs[i].uid > n
    PROVE  ListIsOne(rs, Rendered(rs), m)
<1> DEFINE fs == Rendered(rs)
<1>1. forms \in [UidsOf(rows) -> RowEntry] /\ n \in Nat /\ rows \in Seq(ListRow)
  BY DEF ListIsOne
<1>2. fs = [u \in UidsOf(rs) |-> IF u \in DOMAIN forms THEN forms[u] ELSE Row(rs, u).entry]
  BY DEF Rendered
<1> HIDE DEF fs
<1>3. ASSUME NEW i \in DOMAIN rs
      PROVE  fs[rs[i].uid] = rs[i].entry
  <2>1. Row(rs, rs[i].uid) = rs[i] /\ rs[i].uid \in UidsOf(rs)
    BY RowHasUid
  <2>2. CASE rs[i].uid \in UidsOf(rows)
    <3>1. PICK k \in DOMAIN rows : rs[i].uid = rows[k].uid
      BY <2>2 DEF UidsOf
    <3>2. rows[k].uid <= n
      BY DEF ListIsOne
    <3>5. rows[k] \in ListRow
      BY <1>1
    <3>6. rows[k].uid \in Nat
      BY <3>5 DEF ListRow
    <3>7. ~(rs[i].uid > n)
      BY ONLY <1>1, <3>1, <3>2, <3>6
    <3>3. PICK j \in DOMAIN rows : rs[i] = rows[j]
      BY <3>7
    <3>4. forms[rows[j].uid] = rows[j].entry
      BY DEF ListIsOne
    <3> QED
      BY <1>1, <1>2, <2>1, <2>2, <3>3, <3>4
  <2>3. CASE rs[i].uid \notin UidsOf(rows)
    BY <1>1, <1>2, <2>1, <2>3
  <2> QED
    BY <2>2, <2>3
<1>4. \A u \in UidsOf(rs) : fs[u] \in RowEntry
  <2> TAKE u \in UidsOf(rs)
  <2>1. PICK i \in DOMAIN rs : u = rs[i].uid
    BY DEF UidsOf
  <2>2. rs[i] \in ListRow
    OBVIOUS
  <2> QED
    BY <1>3, <2>1, <2>2 DEF ListRow
<1>5. fs \in [UidsOf(rs) -> RowEntry]
  BY <1>2, <1>4
<1>6. ListIsOne(rs, fs, m)
  BY <1>3, <1>5 DEF ListIsOne
<1> QED
  BY <1>6 DEF fs

-----------------------------------------------------------------------------
(* The forms of a secret *)

SecretKey == {"", Json, Cfg}
KeyedFrame ==
    [kind : {"generic", "image"}, create : BOOLEAN, type : {"opaque", Json, Cfg},
     key : SecretKey, contents : Contents, disabled : BOOLEAN]
ImageForm ==
    [mode : {"credentials", "config-file", "crashed"}, dataKey : SecretKey, key : SecretKey,
     contents : Contents, json : BOOLEAN, upload : {"untouched", "good", "bad"}]

\* The frame has what the image form has, and what the list has once it is filled;
\* only a new secret is uploaded.
FrameFollows ==
    /\ frame \in KeyedFrame /\ image \in ImageForm
    /\ frame.kind = "image" => frame.contents = image.contents
    /\ frame.kind = "image" /\ frame.create => frame.type = image.key
    /\ frame.kind = "generic" \/ ~frame.create => image.mode = "credentials"
    /\ ListShown /\ (\A i \in DOMAIN rows : rows[i].entry.key # "") => frame.contents = AsObject(rows)

\* Only the rows of a key/value secret are read from files.
SecretInv ==
    /\ ListIsOne(rows, forms, uids) /\ FrameFollows
    /\ reading # 0 => frame.kind = "generic"

LEMMA NewFrameIsTyped ==
    ASSUME NEW kind \in {"generic", "image"}, NEW create \in BOOLEAN, NEW key \in SecretKey,
           NEW contents \in Contents
    PROVE  NewFrame(kind, create, key, contents) \in KeyedFrame
  BY DEF NewFrame, KeyedFrame

LEMMA NewImageIsTyped ==
    ASSUME NEW key \in SecretKey, NEW contents \in Contents
    PROVE  NewImage(key, contents) \in ImageForm
<1>1. (key = Json \/ contents = NoContents) \in BOOLEAN
  OBVIOUS
<1> DEFINE json == key = Json \/ contents = NoContents
<1> HIDE DEF json
<1>2. [mode |-> "credentials", dataKey |-> key, key |-> key, contents |-> contents,
       json |-> json, upload |-> "untouched"] \in ImageForm
  BY <1>1 DEF ImageForm, json
<1> QED
  BY <1>2 DEF NewImage, json

LEMMA SecretOpensInv ==
    ASSUME NEW kind \in {"generic", "image"}, NEW create \in BOOLEAN, NEW key \in {Json, Cfg},
           NEW contents \in Contents, create => key = Json, SecretOpens(kind, create, key, contents)
    PROVE  SecretInv
<1>1. /\ frame = NewFrame(kind, create, IF create \/ kind = "generic" THEN "" ELSE key, contents)
      /\ image = NewImage(key, contents)
      /\ rows = NewRows(contents, 0) /\ uids = Len(rows)
      /\ forms = [u \in UidsOf(rows) |-> Row(rows, u).entry]
  BY DEF SecretOpens
<1>2. ListIsOne(rows, forms, uids)
  <2>1. ListIsOne(rows, forms, 0 + Len(rows))
    BY <1>1, MountIsOne
  <2>2. rows \in Seq(ListRow)
    BY <2>1 DEF ListIsOne
  <2>3. 0 + Len(rows) = Len(rows)
    BY <2>2
  <2> QED
    BY <1>1, <2>1, <2>3
<1>3. (IF create \/ kind = "generic" THEN "" ELSE key) \in SecretKey /\ key \in SecretKey
  BY DEF SecretKey
<1>4. frame \in KeyedFrame /\ image \in ImageForm
  BY <1>1, <1>3, NewFrameIsTyped, NewImageIsTyped
<1>5. /\ frame.kind = kind /\ frame.create = create /\ frame.contents = contents
      /\ kind = "image" => frame.type = Json
      /\ image.key = key /\ image.contents = contents /\ image.mode = "credentials"
  BY <1>1 DEF NewFrame, NewImage
<1>6. (\A i \in DOMAIN rows : rows[i].entry.key # "") => AsObject(rows) = contents
  BY <1>1, RowsAreTheContents
<1>7. FrameFollows
  BY <1>4, <1>5, <1>6 DEF FrameFollows
<1> QED
  BY <1>2, <1>7 DEF SecretInv, SecretOpens

LEMMA SecretInitInv == SecretInit => SecretInv
<1> SUFFICES ASSUME SecretInit
             PROVE  SecretInv
  OBVIOUS
<1>1. PICK kind \in {"generic", "image"} :
        \/ SecretOpens(kind, TRUE, Json, NoContents)
        \/ \E key \in {Json, Cfg}, contents \in ContentsOf(kind) : SecretOpens(kind, FALSE, key, contents)
  BY DEF SecretInit
<1>2. CASE SecretOpens(kind, TRUE, Json, NoContents)
  BY <1>2, NoContentsIsTyped, SecretOpensInv
<1>3. ASSUME NEW key \in {Json, Cfg}, NEW contents \in ContentsOf(kind), SecretOpens(kind, FALSE, key, contents)
      PROVE  SecretInv
  <2>1. contents \in Contents
    BY KeyedContents
  <2> QED
    BY <1>3, <2>1, SecretOpensInv
<1> QED
  BY <1>1, <1>2, <1>3

\* The list tells the frame and the image form what it has now.
LEMMA PropagateFollows ==
    ASSUME FrameFollows, NEW rs \in Seq(ListRow), Propagate(rs), rows' = rs, ListShown
    PROVE  FrameFollows'
<1> DEFINE key == IF frame.kind = "generic" THEN "" ELSE IF image.json THEN Json ELSE Cfg
<1>1. AsObject(rs) \in Contents
  BY ObjectIsTyped
<1>2. frame \in KeyedFrame /\ image \in ImageForm
  BY DEF FrameFollows
<1>3. /\ frame' = [frame EXCEPT !.contents = AsObject(rs), !.key = key,
                                 !.type = IF frame.kind = "generic" THEN "opaque" ELSE key]
      /\ image' = IF frame.kind = "generic" THEN image
                  ELSE [image EXCEPT !.key = key, !.contents = AsObject(rs)]
  BY DEF Propagate
<1>4. key \in SecretKey /\ (frame.kind # "generic" => key \in {Json, Cfg})
  BY DEF SecretKey
<1> HIDE DEF key
<1>5. /\ frame' \in KeyedFrame /\ frame'.kind = frame.kind /\ frame'.create = frame.create
      /\ frame'.contents = AsObject(rs) /\ (frame.kind # "generic" => frame'.type = key)
  BY <1>1, <1>2, <1>3, <1>4 DEF KeyedFrame
<1>6. /\ image' \in ImageForm /\ image'.mode = image.mode
      /\ frame.kind # "generic" => image'.key = key /\ image'.contents = AsObject(rs)
  BY <1>1, <1>2, <1>3, <1>4 DEF ImageForm
<1> QED
  BY <1>5, <1>6 DEF FrameFollows

LEMMA RowChangesInv ==
    ASSUME SecretInv, NEW i \in DOMAIN rows, NEW entered \in RowEntry, RowChanges(i, entered), ListShown,
           uids' = uids
    PROVE  ListIsOne(rows', forms', uids') /\ FrameFollows' /\ frame'.kind = frame.kind
<1>1. rows' = [rows EXCEPT ![i].entry = entered] /\ forms' = [forms EXCEPT ![rows[i].uid] = entered]
  BY DEF RowChanges
<1>2. ListIsOne(rows', forms', uids')
  BY <1>1, ChangeIsOne DEF SecretInv
<1>3. rows' \in Seq(ListRow) /\ Propagate(rows')
  BY <1>2 DEF ListIsOne, RowChanges
<1>4. FrameFollows'
  <2> DEFINE rs == rows'
  <2>1. rs \in Seq(ListRow) /\ Propagate(rs) /\ rows' = rs
    BY <1>3
  <2> HIDE DEF rs
  <2> QED
    BY <2>1, PropagateFollows DEF SecretInv
<1>5. frame \in KeyedFrame
  BY DEF SecretInv, FrameFollows
<1>6. frame'.kind = frame.kind
  BY <1>3, <1>5 DEF Propagate, KeyedFrame
<1> QED
  BY <1>2, <1>4, <1>6

LEMMA ListChangesInv ==
    ASSUME SecretInv, NEW rs \in Seq(ListRow), NEW m \in Nat, uids <= m, ListChanges(rs), ListShown,
           \A i, j \in DOMAIN rs : rs[i].uid = rs[j].uid => i = j,
           \A i \in DOMAIN rs : /\ rs[i].uid <= m
                                /\ \/ \E j \in DOMAIN rows : rs[i] = rows[j]
                                   \/ rs[i].uid > uids
    PROVE  ListIsOne(rows', forms', m) /\ FrameFollows' /\ frame'.kind = frame.kind
<1>1. rows' = rs /\ forms' = Rendered(rs) /\ Propagate(rs)
  BY DEF ListChanges
<1>2. ListIsOne(rows', forms', m)
  BY <1>1, RenderedIsOne DEF SecretInv
<1>3. FrameFollows'
  BY <1>1, PropagateFollows DEF SecretInv
<1>4. frame \in KeyedFrame
  BY DEF SecretInv, FrameFollows
<1>5. frame'.kind = frame.kind
  BY <1>1, <1>4 DEF Propagate, KeyedFrame
<1> QED
  BY <1>2, <1>3, <1>5

LEMMA SecretNextInv == SecretInv /\ [SecretNext]_secretVars => SecretInv'
<1> SUFFICES ASSUME SecretInv, [SecretNext]_secretVars
             PROVE  SecretInv'
  OBVIOUS
<1>0. /\ rows \in Seq(ListRow) /\ Len(rows) \in Nat /\ DOMAIN rows = 1 .. Len(rows)
      /\ \A i \in DOMAIN rows : rows[i] \in ListRow /\ rows[i].uid \in Nat /\ rows[i].uid <= uids
      /\ \A i, j \in DOMAIN rows : rows[i].uid = rows[j].uid => i = j
      /\ uids \in Nat /\ forms \in [UidsOf(rows) -> RowEntry]
      /\ frame \in KeyedFrame /\ image \in ImageForm
  <2>1. /\ rows \in Seq(ListRow) /\ uids \in Nat /\ forms \in [UidsOf(rows) -> RowEntry]
        /\ \A i \in DOMAIN rows : rows[i].uid <= uids
        /\ \A i, j \in DOMAIN rows : rows[i].uid = rows[j].uid => i = j
        /\ frame \in KeyedFrame /\ image \in ImageForm
    BY DEF SecretInv, ListIsOne, FrameFollows
  <2>2. Len(rows) \in Nat /\ DOMAIN rows = 1 .. Len(rows) /\ \A i \in DOMAIN rows : rows[i] \in ListRow
    BY <2>1
  <2>3. \A i \in DOMAIN rows : rows[i].uid \in Nat
    BY <2>2 DEF ListRow
  <2> QED
    BY <2>1, <2>2, <2>3
<1>1. CASE UNCHANGED secretVars
  BY <1>1 DEF secretVars, list, SecretInv, FrameFollows, ListShown
<1>2. CASE SecretUpdated
  <2>1. PICK contents \in ContentsOf(frame.kind) :
          /\ frame' = NewFrame(frame.kind, FALSE, IF frame.kind = "image" THEN image.dataKey ELSE "", contents)
          /\ image' = NewImage(image.dataKey, contents)
          /\ ListMounts(contents)
    BY <1>2 DEF SecretUpdated
  <2>2. contents \in Contents
    BY KeyedContents
  <2>3. ListIsOne(rows', forms', uids')
    BY <1>0, <2>1, <2>2, MountIsOne DEF ListMounts
  <2>4. frame.kind \in {"generic", "image"} /\ image.dataKey \in SecretKey
    BY <1>0 DEF KeyedFrame, ImageForm
  <2>5. frame' \in KeyedFrame
    <3>1. (IF frame.kind = "image" THEN image.dataKey ELSE "") \in SecretKey
      BY <2>4 DEF SecretKey
    <3> QED
      BY <2>1, <2>2, <2>4, <3>1, NewFrameIsTyped
  <2>6. image' \in ImageForm
    BY <2>1, <2>2, <2>4, NewImageIsTyped
  <2>7. /\ frame'.kind = frame.kind /\ frame'.create = FALSE /\ frame'.contents = contents
        /\ image'.contents = contents /\ image'.mode = "credentials"
    BY <2>1 DEF NewFrame, NewImage
  <2>8. (\A i \in DOMAIN rows' : rows'[i].entry.key # "") => AsObject(rows') = contents
    BY <1>0, <2>1, <2>2, RowsAreTheContents DEF ListMounts
  <2>9. FrameFollows'
    BY <2>5, <2>6, <2>7, <2>8 DEF FrameFollows
  <2>10. reading' = 0
    BY <1>2 DEF SecretUpdated
  <2> QED
    BY <2>3, <2>9, <2>10 DEF SecretInv
<1>3. ASSUME NEW i \in DOMAIN rows, RemoveRow(i)
      PROVE  SecretInv'
  <2>1. ListShown /\ ListChanges(RemoveAt(rows, i)) /\ UNCHANGED <<uids, reading>>
    BY <1>3 DEF RemoveRow
  <2> DEFINE rs == RemoveAt(rows, i)
  <2>2. /\ rs \in Seq(ListRow) /\ DOMAIN rs = 1 .. Len(rows) - 1
        /\ \A j \in 1 .. Len(rows) - 1 : rs[j] = IF j < i THEN rows[j] ELSE rows[j + 1]
    <3>1. rows \in Seq(ListRow) /\ i \in 1 .. Len(rows)
      BY <1>0
    <3> QED
      BY <3>1, RemovedRows
  <2>3. ListChanges(rs)
    BY <2>1
  <2> HIDE DEF rs
  <2>4. \A j \in DOMAIN rs : \E k \in DOMAIN rows : rs[j] = rows[k] /\ k = IF j < i THEN j ELSE j + 1
    BY <1>0, <2>2
  <2>5. \A j, k \in DOMAIN rs : rs[j].uid = rs[k].uid => j = k
    <3> TAKE j, k \in DOMAIN rs
    <3> HAVE rs[j].uid = rs[k].uid
    <3>1. (IF j < i THEN j ELSE j + 1) = (IF k < i THEN k ELSE k + 1)
      BY <1>0, <2>4
    <3>2. j \in Int /\ k \in Int /\ i \in Int
      BY <1>0, <2>2
    <3> QED
      BY ONLY <3>1, <3>2
  <2>6. \A j \in DOMAIN rs : rs[j].uid <= uids /\ \E k \in DOMAIN rows : rs[j] = rows[k]
    BY <1>0, <2>4
  <2>7. uids <= uids
    BY <1>0
  <2>8. ListIsOne(rows', forms', uids) /\ FrameFollows' /\ frame'.kind = frame.kind
    BY <1>0, <2>1, <2>2, <2>3, <2>5, <2>6, <2>7, ListChangesInv
  <2> QED
    BY <2>1, <2>8 DEF SecretInv
<1>4. ASSUME NEW i \in DOMAIN rows, ChooseFile(i)
      PROVE  SecretInv'
  BY <1>4 DEF ChooseFile, list, SecretInv, FrameFollows, ListShown
<1>5. ASSUME NEW i \in DOMAIN rows, \/ \E text \in Text : RowTyped(i, "key", text)
                                   \/ \E text \in RowValue : RowTyped(i, "value", text)
      PROVE  SecretInv'
  <2> DEFINE entered == forms[rows[i].uid]
  <2>1. entered \in RowEntry
    BY <1>0 DEF UidsOf
  <2>2. ListShown /\ UNCHANGED <<uids, reading>>
    BY <1>5 DEF RowTyped
  <2>3. PICK revised \in RowEntry : RowChanges(i, revised)
    <3>1. UpdateAuth(entered, "key") \in RowValue \cup {""} /\ UpdateAuth(entered, "value") \in RowValue \cup {""}
      BY <2>1 DEF UpdateAuth, RowEntry
    <3> HIDE DEF entered
    <3>2. ASSUME NEW text \in Text
          PROVE  [entered EXCEPT !["key"] = text, !.auth = UpdateAuth(entered, "key")] \in RowEntry
      BY <2>1, <3>1 DEF RowEntry
    <3>3. ASSUME NEW text \in RowValue
          PROVE  [entered EXCEPT !["value"] = text, !.auth = UpdateAuth(entered, "value")] \in RowEntry
      BY <2>1, <3>1 DEF RowEntry
    <3> QED
      BY <1>5, <3>2, <3>3 DEF RowTyped, entered
  <2> QED
    BY <2>2, <2>3, RowChangesInv DEF SecretInv
<1>6. CASE AddRow
  <2> DEFINE row == [uid |-> uids + 1, entry |-> Blank]
             rs == Append(rows, row)
  <2>1. ListShown /\ ListChanges(rs) /\ uids' = uids + 1 /\ reading' = reading
    BY <1>6 DEF AddRow
  <2>2. row \in ListRow /\ row.uid = uids + 1
    <3>1. uids + 1 \in Nat
      BY <1>0
    <3>2. Blank \in RowEntry
      BY DEF RowEntry, Blank
    <3> QED
      BY <3>1, <3>2 DEF ListRow
  <2> HIDE DEF row
  <2>3. /\ rs \in Seq(ListRow) /\ DOMAIN rs = 1 .. Len(rows) + 1
        /\ \A j \in DOMAIN rows : rs[j] = rows[j]
        /\ rs[Len(rows) + 1] = row
    BY <1>0, <2>2, AppendProperties
  <2> HIDE DEF rs
  <2>4. \A j \in DOMAIN rs : j \in DOMAIN rows \/ j = Len(rows) + 1
    BY <1>0, <2>3
  <2> DEFINE m == uids + 1
  <2>5. m \in Nat /\ uids <= m
    BY <1>0
  <2>6. \A j \in DOMAIN rs : /\ rs[j].uid <= m
                              /\ \/ \E k \in DOMAIN rows : rs[j] = rows[k]
                                 \/ rs[j].uid > uids
    <3> TAKE j \in DOMAIN rs
    <3>1. CASE j \in DOMAIN rows
      <4>1. rs[j] = rows[j] /\ rows[j].uid \in Nat /\ rows[j].uid <= uids
        BY <1>0, <2>3, <3>1
      <4> QED
        BY <1>0, <3>1, <4>1
    <3>2. CASE j = Len(rows) + 1
      BY <1>0, <2>2, <2>3, <3>2
    <3> QED
      BY <2>4, <3>1, <3>2
  <2>7. \A j, k \in DOMAIN rs : rs[j].uid = rs[k].uid => j = k
    BY <1>0, <2>2, <2>3, <2>4
  <2>9. uids' = m
    BY <2>1
  <2> HIDE DEF m
  <2>8. ListIsOne(rows', forms', m) /\ FrameFollows' /\ frame'.kind = frame.kind
    BY <2>1, <2>3, <2>5, <2>6, <2>7, ListChangesInv
  <2> QED
    BY <2>1, <2>8, <2>9 DEF SecretInv
<1>7. ASSUME NEW text \in RowValue, FileRead(text)
      PROVE  SecretInv'
  <2>1. reading # 0 /\ frame.kind = "generic" /\ reading' = 0 /\ uids' = uids
    BY <1>7 DEF FileRead, SecretInv
  <2>2. CASE \E i \in DOMAIN rows : rows[i].uid = reading
    <3>1. PICK i \in DOMAIN rows : rows[i].uid = reading /\ RowChanges(i, [forms[reading] EXCEPT !.value = text])
      BY <1>7, <2>2 DEF FileRead
    <3>2. forms[reading] \in RowEntry
      BY <1>0, <3>1 DEF UidsOf
    <3>3. [forms[reading] EXCEPT !.value = text] \in RowEntry
      BY <3>2 DEF RowEntry
    <3>4. ListShown
      BY <2>1 DEF ListShown
    <3> QED
      BY <2>1, <3>1, <3>3, <3>4, RowChangesInv DEF SecretInv
  <2>3. CASE ~ \E i \in DOMAIN rows : rows[i].uid = reading
    BY <1>7, <2>1, <2>3 DEF FileRead, SecretInv, FrameFollows, ListShown
  <2> QED
    BY <2>2, <2>3
<1>8. CASE ChangeFormType
  <2>1. frame.kind = "image" /\ frame.create /\ UNCHANGED <<frame, reading>>
    BY <1>8 DEF ChangeFormType
  <2>2. CASE image.mode = "credentials"
    <3>1. image' = [image EXCEPT !.mode = "config-file", !.upload = "untouched"] /\ UNCHANGED <<rows, forms, uids>>
      BY <1>8, <2>2 DEF ChangeFormType, list
    <3>2. /\ image' \in ImageForm /\ image'.mode = "config-file"
          /\ image'.key = image.key /\ image'.contents = image.contents
      BY <1>0, <3>1 DEF ImageForm
    <3> QED
      BY <2>1, <3>1, <3>2 DEF SecretInv, FrameFollows, ListShown
  <2>3. CASE image.mode # "credentials" /\ HasData
    <3>1. image' = [image EXCEPT !.mode = "credentials", !.json = TRUE] /\ ListMounts(image.contents)
      BY <1>8, <2>3 DEF ChangeFormType
    <3>2. /\ image' \in ImageForm /\ image'.mode = "credentials"
          /\ image'.key = image.key /\ image'.contents = image.contents
      BY <1>0, <3>1 DEF ImageForm
    <3>3. image.contents \in Contents
      BY <1>0 DEF ImageForm
    <3>4. ListIsOne(rows', forms', uids')
      BY <1>0, <3>1, <3>3, MountIsOne DEF ListMounts
    <3>5. (\A i \in DOMAIN rows' : rows'[i].entry.key # "") => AsObject(rows') = image.contents
      BY <1>0, <3>1, <3>3, RowsAreTheContents DEF ListMounts
    <3> QED
      BY <2>1, <3>2, <3>4, <3>5 DEF SecretInv, FrameFollows
  <2>4. CASE image.mode # "credentials" /\ ~HasData
    <3>1. image' = [image EXCEPT !.mode = "crashed"] /\ UNCHANGED <<rows, forms, uids>>
      BY <1>8, <2>4 DEF ChangeFormType, list
    <3>2. /\ image' \in ImageForm /\ image'.mode = "crashed"
          /\ image'.key = image.key /\ image'.contents = image.contents
      BY <1>0, <3>1 DEF ImageForm
    <3> QED
      BY <2>1, <3>1, <3>2 DEF SecretInv, FrameFollows, ListShown
  <2> QED
    BY <2>2, <2>3, <2>4
<1>9. ASSUME NEW text \in {"good", "bad"}, NEW key \in {Json, Cfg}, NEW contents \in Contents,
             Upload(text, key, contents)
      PROVE  SecretInv'
  <2>1. /\ image.mode = "config-file" /\ UNCHANGED <<rows, forms, uids, reading>>
        /\ image' = [image EXCEPT !.key = key, !.contents = contents, !.upload = text]
        /\ frame' = [frame EXCEPT !.key = key, !.type = key, !.contents = contents, !.disabled = text = "bad"]
    BY <1>9 DEF Upload, list
  <2>2. /\ image' \in ImageForm /\ image'.mode = "config-file"
        /\ image'.key = key /\ image'.contents = contents
    BY <1>0, <2>1 DEF ImageForm, SecretKey
  <2>3. /\ frame' \in KeyedFrame /\ frame'.kind = frame.kind /\ frame'.create = frame.create
        /\ frame'.type = key /\ frame'.contents = contents
    BY <1>0, <2>1 DEF KeyedFrame, SecretKey
  <2>4. frame.kind = "image"
    BY <1>0, <2>1 DEF SecretInv, FrameFollows, KeyedFrame
  <2> QED
    BY <2>1, <2>2, <2>3, <2>4 DEF SecretInv, FrameFollows, ListShown
<1>10. CASE Upload("bad", Cfg, NoContents)
  BY <1>9, <1>10, NoContentsIsTyped
<1>11. CASE \E key \in {Json, Cfg}, contents \in ContentsOf("image") : Upload("good", key, contents)
  <2>1. ContentsOf("image") \subseteq Contents
    BY KeyedContents
  <2> QED
    BY <1>9, <1>11, <2>1
<1> QED
  BY <1>1, <1>2, <1>3, <1>4, <1>5, <1>6, <1>7, <1>8, <1>10, <1>11 DEF SecretNext

LEMMA SecretInvShows == SecretInv => RowsAreTheForms /\ ListIsSent
<1> SUFFICES ASSUME SecretInv
             PROVE  RowsAreTheForms /\ ListIsSent
  OBVIOUS
<1>1. rows \in Seq(ListRow) /\ \A i \in DOMAIN rows : rows[i] \in ListRow /\ forms[rows[i].uid] = rows[i].entry
  BY DEF SecretInv, ListIsOne
<1>2. RowsAreTheForms
  BY <1>1 DEF RowsAreTheForms
<1>3. ASSUME CanSave, ListShown
      PROVE  frame.contents = AsObject([i \in DOMAIN rows |-> [rows[i] EXCEPT !.entry = forms[rows[i].uid]]])
  <2>1. frame.contents = AsObject(rows)
    BY <1>3 DEF CanSave, SecretInv, FrameFollows
  <2>2. \A i \in DOMAIN rows : [rows[i] EXCEPT !.entry = forms[rows[i].uid]] = rows[i]
    BY <1>1 DEF ListRow
  <2>3. [i \in DOMAIN rows |-> [rows[i] EXCEPT !.entry = forms[rows[i].uid]]] = [i \in DOMAIN rows |-> rows[i]]
    BY <2>2
  <2>4. [i \in DOMAIN rows |-> rows[i]] = rows
    BY <1>1
  <2> QED
    BY <2>1, <2>3, <2>4
<1>4. ASSUME CanSave, ~ListShown
      PROVE  frame.contents = image.contents /\ frame.type = image.key
  BY <1>4 DEF SecretInv, FrameFollows, KeyedFrame, ListShown
<1> QED
  BY <1>2, <1>3, <1>4 DEF ListIsSent
-----------------------------------------------------------------------------
\* The updates of the cluster: one invariant of the page, the server, what is on its way between
\* them, and the history of the clicks.

\* What is in flight is of the operator's pause or of a field of the config.
PatchesAreOfFields ==
    \A r \in updatePatches :
        \/ r.object = clusterAppVersionName /\ r.field = "paused" /\ r.value \in {"true", "false"}
        \/ r.object = "config" /\ r.field = "channel" /\ r.value \in UpdateChannel
        \/ /\ r.object = "config" /\ r.field \in {"triggerUpdate", "triggerUpdateCheck", "automaticUpdate"}
           /\ r.value \in {"true", "false"}

\* The page has what the server has, but for what is on its way.
SeenIsCurrent == lists.versions = "loaded" => \A n \in Operators \ news : seenVersions[n] = appVersions[n]

\* A page that stands has the config if its list is loaded.
ConfigIsThere ==
    lists.versions = "loaded" /\ lists.configs = "loaded" /\ ~crashed => seenConfig.channel # ""

\* While it is certain what the last click wanted, what is in flight is for it, and once applied
\* it is so.
ClicksAreFollowed ==
    wantedPause # "none" /\ ~unsure =>
        /\ \A r \in Pausing : r.value = (IF wantedPause = "Pause Updates" THEN "true" ELSE "false")
        /\ (\A r \in Pausing : r.applied) =>
               appVersions[clusterAppVersionName].pausedSpec = (wantedPause = "Pause Updates")

ChannelInv ==
    ChannelTypeOK /\ PatchesAreOfFields /\ SeenIsCurrent /\ ConfigIsThere /\ ClicksAreFollowed

\* The bounds are numbers.
LEMMA BoundsAreNat == MaxReports \in Nat /\ MaxActions \in Nat
BY ChannelAssumption

LEMMA ZeroIsWithin == 0 \in 0..MaxReports /\ 0 \in 0..MaxActions
BY BoundsAreNat

\* A page that has just been opened has nothing yet.
LEMMA ChannelOpensInv ==
    ASSUME NEW v \in ClusterVersion, NEW others \in SUBSET Secondary, NEW target \in Versions, NEW of \in {"", target},
           NEW fetch \in {"none", "loading"}, channelConfig \in SomeConfigs, ChannelOpens(v, target, others, of, fetch)
    PROVE  ChannelInv
<1>1. NoVersion \in AppVersions /\ NoConfig \in ChannelConfigs
  BY DEF AppVersions, Versions, NoVersion, ChannelConfigs, NoConfig
<1>2. ClusterAt(v, target, others) \in [Operators -> AppVersions]
  <2> DEFINE tasks == IF target = "" THEN {} ELSE [type : TaskType, state : {"NotStarted"}]
             current == [NoVersion EXCEPT !.currentVersion = v, !.desiredVersion = v, !.taskStatuses = tasks]
             moving == [current EXCEPT !.desiredVersion = target, !.targetVersion = target]
  <2>1. tasks \in SUBSET Tasks
    BY DEF Tasks, TaskStatuses
  <2> HIDE DEF tasks
  <2>2. current \in AppVersions /\ moving \in AppVersions
    BY <1>1, <2>1 DEF AppVersions, Versions, NoVersion
  <2>3. ClusterAt(v, target, others) =
            [n \in Operators |->
                IF n = clusterAppVersionName /\ target # "" THEN moving
                ELSE IF n = clusterAppVersionName \/ n \in others THEN current ELSE NoVersion]
    BY DEF ClusterAt, tasks
  <2> HIDE DEF current, moving
  <2> QED
    BY <1>1, <2>2, <2>3
<1>3. appVersions \in [Operators -> AppVersions] /\ release \in Versions
  BY <1>2 DEF ChannelOpens, Versions
<1>4. channelConfig \in ChannelConfigs
  BY <1>1 DEF ChannelConfigs, NoConfig, SomeConfigs
<1>5. ChannelTypeOK
  <2>1. /\ seenVersions = [n \in Operators |-> NoVersion] /\ seenConfig = NoConfig
        /\ lists = [l \in {"versions", "configs", "releases"} |-> fetch]
        /\ news = {} /\ crashed = FALSE /\ outdated = FALSE
        /\ updatePatches = {} /\ modal = NoModal
        /\ reports = 0 /\ actions = 0
        /\ wantedPause = "none" /\ unsure = FALSE /\ futile = FALSE
    BY DEF ChannelOpens
  <2>2. reports \in 0..MaxReports /\ actions \in 0..MaxActions
    BY <2>1, ZeroIsWithin, Zenon
  <2>3. lists \in [{"versions", "configs", "releases"} -> {"none", "loading", "loaded", "error"}]
    BY <2>1
  <2>4. seenVersions \in [Operators -> AppVersions] /\ seenConfig \in ChannelConfigs
    BY <1>1, <2>1
  <2> QED
    BY <1>3, <1>4, <2>1, <2>2, <2>3, <2>4 DEF ChannelTypeOK, Versions
<1> QED
  BY <1>5 DEF ChannelOpens, ChannelInv, PatchesAreOfFields, SeenIsCurrent, ConfigIsThere, ClicksAreFollowed

LEMMA ChannelInitInv == ChannelInit => ChannelInv
<1> SUFFICES ASSUME ChannelInit PROVE ChannelInv
  OBVIOUS
<1>1. PICK v \in Installed, others \in SUBSET Secondary :
          \E target \in Versions \ {v} : \E of \in {"", target} : ChannelOpens(v, target, others, of, "loading")
  BY DEF ChannelInit
<1>2. PICK target \in Versions \ {v} : \E of \in {"", target} : ChannelOpens(v, target, others, of, "loading")
  BY <1>1
<1>3. PICK of \in {"", target} : ChannelOpens(v, target, others, of, "loading")
  BY <1>2
<1>4. v \in ClusterVersion
  BY ChannelAssumption
<1> QED
  BY <1>3, <1>4, ChannelOpensInv DEF ChannelInit

\* A patch of the pause keeps the shape and sets the pause.
LEMMA PausedSpecIsSet ==
    ASSUME NEW f \in [Operators -> AppVersions], NEW b \in BOOLEAN
    PROVE  /\ [f EXCEPT ![clusterAppVersionName].pausedSpec = b] \in [Operators -> AppVersions]
           /\ [f EXCEPT ![clusterAppVersionName].pausedSpec = b][clusterAppVersionName].pausedSpec = b
<1>1. f[clusterAppVersionName] \in AppVersions
  BY DEF Operators
<1>2. /\ [f[clusterAppVersionName] EXCEPT !.pausedSpec = b] \in AppVersions
      /\ [f[clusterAppVersionName] EXCEPT !.pausedSpec = b].pausedSpec = b
  BY <1>1 DEF AppVersions
<1> QED
  BY <1>1, <1>2 DEF Operators

\* What the button offers, and what it asks for.
LEMMA OffersAreButtons ==
    Offers \in {"none", "Resume Updates", "Start Upgrade", "Pause Updates", "Check for Updates", "Retry Upgrade"}
BY DEF Offers, ChannelState

\* A list that comes is what the server has, and a list without a config throws.
LEMMA FetchesKeeps == ASSUME NEW fetched \in {"versions", "configs", "releases"}, ChannelInv, FetchesList(fetched) PROVE ChannelInv'
<1> USE DEF ChannelInv
<1>1. lists' \in [{"versions", "configs", "releases"} -> {"none", "loading", "loaded", "error"}]
  BY DEF ChannelTypeOK, FetchesList
<1>2. seenVersions' \in [Operators -> AppVersions] /\ seenConfig' \in ChannelConfigs
  BY DEF ChannelTypeOK, FetchesList
<1>3. crashed' \in BOOLEAN /\ outdated' \in BOOLEAN
  BY Zenon DEF ChannelTypeOK, FetchesList, PropsReceived, Throws
<1>4. ChannelTypeOK'
  BY <1>1, <1>2, <1>3 DEF ChannelTypeOK, FetchesList, serverVars, clickVars
<1>5. PatchesAreOfFields' /\ ClicksAreFollowed'
  BY DEF PatchesAreOfFields, ClicksAreFollowed, FetchesList, Pausing, serverVars, clickVars
<1>6. SeenIsCurrent'
  <2>1. CASE fetched = "versions"
    BY <2>1 DEF SeenIsCurrent, ChannelTypeOK, FetchesList, serverVars
  <2>2. CASE fetched # "versions"
    <3>1. news' \cap Operators = news \cap Operators
      BY <2>2, ChannelAssumption DEF FetchesList, Operators, clusterAppVersionName
    <3>2. lists'.versions = lists.versions /\ seenVersions' = seenVersions /\ appVersions' = appVersions
      BY <2>2 DEF FetchesList, ChannelTypeOK, serverVars
    <3> QED
      BY <3>1, <3>2 DEF SeenIsCurrent
  <2> QED
    BY <2>1, <2>2
<1>7. ConfigIsThere'
  <2> SUFFICES ASSUME lists'.versions = "loaded", lists'.configs = "loaded", ~crashed' PROVE seenConfig'.channel # ""
    BY DEF ConfigIsThere
  <2>1. ~Throws(seenVersions', seenConfig', lists')
    BY DEF FetchesList
  <2> QED
    BY <2>1 DEF Throws
<1> QED
  BY <1>4, <1>5, <1>6, <1>7

\* A list that does not come leaves what there is.
LEMMA FetchRefusedKeeps == ASSUME NEW fetched \in {"versions", "configs", "releases"}, ChannelInv, FetchIsRefused(fetched) PROVE ChannelInv'
<1> USE DEF ChannelInv
<1>1. ChannelTypeOK'
  BY DEF ChannelTypeOK, FetchIsRefused, PropsReceived, serverVars, clickVars
<1>2. PatchesAreOfFields' /\ ClicksAreFollowed'
  BY DEF PatchesAreOfFields, ClicksAreFollowed, FetchIsRefused, Pausing, serverVars, clickVars
<1>3. SeenIsCurrent' /\ ConfigIsThere'
  BY DEF SeenIsCurrent, ConfigIsThere, ChannelTypeOK, FetchIsRefused, serverVars
<1> QED
  BY <1>1, <1>2, <1>3

\* An event brings one object.
LEMMA ArrivesKeeps == ASSUME NEW name \in news, ChannelInv, ObjectArrives(name) PROVE ChannelInv'
<1> USE DEF ChannelInv
<1>2. seenVersions' \in [Operators -> AppVersions] /\ seenConfig' \in ChannelConfigs
  BY DEF ChannelTypeOK, ObjectArrives
<1>3. crashed' \in BOOLEAN /\ outdated' \in BOOLEAN
  BY Zenon DEF ChannelTypeOK, ObjectArrives, PropsReceived, Throws
<1>4. ChannelTypeOK'
  BY <1>2, <1>3 DEF ChannelTypeOK, ObjectArrives, serverVars, clickVars
<1>5. PatchesAreOfFields' /\ ClicksAreFollowed'
  BY DEF PatchesAreOfFields, ClicksAreFollowed, ObjectArrives, Pausing, serverVars, clickVars
<1>6. SeenIsCurrent'
  BY ChannelAssumption DEF SeenIsCurrent, ChannelTypeOK, ObjectArrives, serverVars, Operators, clusterAppVersionName
<1>7. ConfigIsThere'
  <2> SUFFICES ASSUME lists'.versions = "loaded", lists'.configs = "loaded", ~crashed' PROVE seenConfig'.channel # ""
    BY DEF ConfigIsThere
  <2>1. ~Throws(seenVersions', seenConfig', lists) /\ lists' = lists
    BY DEF ObjectArrives
  <2> QED
    BY <2>1 DEF Throws
<1> QED
  BY <1>4, <1>5, <1>6, <1>7

\* A click sends one patch, and is what is wanted from then on.
LEMMA ClickKeeps == ChannelInv /\ DoAction => ChannelInv'
<1> SUFFICES ASSUME ChannelInv, DoAction PROVE ChannelInv'
  OBVIOUS
<1> DEFINE patch == PatchOf(Offers)
<1> USE DEF ChannelInv
<1>1. \/ /\ Offers \in {"Resume Updates", "Pause Updates"} /\ patch.object = clusterAppVersionName
         /\ patch.field = "paused" /\ patch.value = (IF Offers = "Pause Updates" THEN "true" ELSE "false")
      \/ patch.object = "config" /\ patch.field \in {"triggerUpdate", "triggerUpdateCheck"} /\ patch.value = "true"
  BY OffersAreButtons DEF DoAction, PatchOf, PatchTo
<1>2. /\ outdated' = TRUE /\ futile' = FALSE
      /\ \/ patch.object = "config" /\ UNCHANGED <<updatePatches, actions>>
         \/ Sends("status", patch)
      /\ wantedPause' = (IF patch.field = "paused" THEN Offers ELSE wantedPause)
      /\ unsure' = (unsure \/ (patch.field = "paused" /\ Pausing # {}))
      /\ UNCHANGED <<serverVars, screenVars, news, modal, reports>>
  BY DEF DoAction
<1>3. patch.object = clusterAppVersionName => Sends("status", patch)
  BY <1>2 DEF clusterAppVersionName
<1> HIDE DEF patch
<1>4. ChannelTypeOK' /\ PatchesAreOfFields'
  <2>1. CASE UNCHANGED <<updatePatches, actions>>
    BY <1>1, <1>2, <2>1, Zenon DEF ChannelTypeOK, PatchesAreOfFields, serverVars, screenVars
  <2>2. CASE Sends("status", patch)
    <3> DEFINE new == [id |-> actions, by |-> "status", object |-> patch.object, field |-> patch.field,
                       value |-> patch.value, applied |-> FALSE]
    <3>1. updatePatches' = updatePatches \cup {new} /\ actions' \in 0..MaxActions /\ actions \in Nat
      <4>1. updatePatches' = updatePatches \cup {new} /\ reports + actions < MaxActions /\ actions' = actions + 1
        BY <2>2 DEF Sends
      <4>2. actions \in 0..MaxActions /\ reports \in 0..MaxReports
        BY DEF ChannelTypeOK
      <4> QED
        <5>1. actions' \in 0..MaxActions /\ actions \in Nat
          <6> HIDE DEF new
          <6> QED
            BY <4>1, <4>2, BoundsAreNat
        <5> QED
          BY <4>1, <5>1
    <3>2. /\ patch.object \in {clusterAppVersionName, "config"}
          /\ patch.field \in {"paused", "triggerUpdate", "triggerUpdateCheck"}
          /\ patch.value \in {"true", "false"}
      BY <1>1
    <3>3. new \in [id : Nat, by : {"status", "modal"}, object : {clusterAppVersionName, "config"},
                   field : {"paused", "channel", "triggerUpdate", "triggerUpdateCheck", "automaticUpdate"},
                   value : {"true", "false"} \cup UpdateChannel, applied : BOOLEAN]
      BY <3>1, <3>2
    <3>4. \/ new.object = clusterAppVersionName /\ new.field = "paused" /\ new.value \in {"true", "false"}
          \/ /\ new.object = "config" /\ new.field \in {"triggerUpdate", "triggerUpdateCheck", "automaticUpdate"}
             /\ new.value \in {"true", "false"}
      BY <1>1
    <3> HIDE DEF new
    <3>5. PatchesAreOfFields'
      BY <3>1, <3>4 DEF PatchesAreOfFields
    <3>6. outdated' \in BOOLEAN /\ futile' \in BOOLEAN /\ unsure' \in BOOLEAN
      BY <1>2, Zenon DEF ChannelTypeOK
    <3>7. wantedPause' \in {"none", "Pause Updates", "Resume Updates"}
      BY <1>1, <1>2 DEF ChannelTypeOK
    <3> QED
      BY <1>2, <3>1, <3>3, <3>5, <3>6, <3>7 DEF ChannelTypeOK, serverVars, screenVars
  <2> QED
    BY <1>2, <2>1, <2>2
<1>5. SeenIsCurrent' /\ ConfigIsThere'
  BY <1>2 DEF SeenIsCurrent, ConfigIsThere, serverVars, screenVars
<1>6. ClicksAreFollowed'
  <2>1. CASE patch.field = "paused"
    <3>1. patch.object = clusterAppVersionName /\ Sends("status", patch)
      BY <1>1, <1>3, <2>1
    <3>2. CASE Pausing = {}
      <4> DEFINE new == [id |-> actions, by |-> "status", object |-> patch.object, field |-> patch.field,
                         value |-> patch.value, applied |-> FALSE]
      <4>1. updatePatches' = updatePatches \cup {new} /\ new.field = "paused" /\ ~new.applied /\ new.value = patch.value
        BY <2>1, <3>1 DEF Sends
      <4> HIDE DEF new
      <4>2. Pausing' = {new}
        BY <3>2, <4>1 DEF Pausing
      <4>3. wantedPause' = Offers /\ new.value = (IF Offers = "Pause Updates" THEN "true" ELSE "false")
        BY <1>1, <1>2, <2>1, <4>1
      <4> QED
        BY <4>1, <4>2, <4>3 DEF ClicksAreFollowed
    <3>3. CASE Pausing # {}
      BY <1>2, <2>1, <3>3 DEF ClicksAreFollowed
    <3> QED
      BY <3>2, <3>3
  <2>2. CASE patch.field # "paused"
    <3>1. Pausing' = Pausing
      BY <1>2, <2>2 DEF Pausing, Sends
    <3> QED
      BY <1>2, <2>2, <3>1 DEF ClicksAreFollowed, serverVars
  <2> QED
    BY <2>1, <2>2
<1> QED
  BY <1>4, <1>5, <1>6

\* The server replaces a field, and says so when that changes it.
LEMMA AppliesKeeps == ASSUME NEW r \in updatePatches, ChannelInv, Applies(r) PROVE ChannelInv'
<1> USE DEF ChannelInv
<1>1. /\ r.by \in {"status", "modal"} /\ r.id \in Nat
      /\ \/ r.object = clusterAppVersionName /\ r.field = "paused" /\ r.value \in {"true", "false"}
         \/ r.object = "config" /\ r.field = "channel" /\ r.value \in UpdateChannel
         \/ /\ r.object = "config" /\ r.field \in {"triggerUpdate", "triggerUpdateCheck", "automaticUpdate"}
            /\ r.value \in {"true", "false"}
  BY DEF ChannelTypeOK, PatchesAreOfFields
<1>2. appVersions' \in [Operators -> AppVersions]
  <2>1. CASE r.object = clusterAppVersionName
    <3>1. appVersions' = [appVersions EXCEPT ![clusterAppVersionName].pausedSpec = (r.value = "true")]
      BY <2>1 DEF Applies, clusterAppVersionName
    <3> QED
      BY <3>1, PausedSpecIsSet DEF ChannelTypeOK
  <2>2. CASE r.object = "config"
    BY <2>2 DEF Applies, ChannelTypeOK
  <2> QED
    BY <1>1, <2>1, <2>2
<1>3. channelConfig' \in ChannelConfigs
  BY <1>1 DEF Applies, ChannelTypeOK, ChannelConfigs
<1>4. /\ updatePatches' = (updatePatches \ {r}) \cup {[r EXCEPT !.applied = TRUE]}
      /\ futile' \in BOOLEAN
      /\ news' \subseteq Operators \cup {"config"}
      /\ UNCHANGED <<release, screenVars, outdated, modal, reports, actions, wantedPause, unsure>>
  BY <1>1 DEF Applies, ChannelTypeOK, Operators
<1>5. ChannelTypeOK' /\ PatchesAreOfFields'
  <2> DEFINE done == [r EXCEPT !.applied = TRUE]
             AnyPatch == [id : Nat, by : {"status", "modal"}, object : {clusterAppVersionName, "config"},
                         field : {"paused", "channel", "triggerUpdate", "triggerUpdateCheck", "automaticUpdate"},
                         value : {"true", "false"} \cup UpdateChannel, applied : BOOLEAN]
  <2>1. updatePatches \subseteq AnyPatch
    BY DEF ChannelTypeOK
  <2>2. done \in AnyPatch /\ done.object = r.object /\ done.field = r.field /\ done.value = r.value
    BY <2>1
  <2> HIDE DEF done, AnyPatch
  <2>3. updatePatches' \subseteq AnyPatch
    BY <1>4, <2>1, <2>2 DEF done
  <2>4. PatchesAreOfFields'
    <3>1. updatePatches' = (updatePatches \ {r}) \cup {done}
      BY <1>4 DEF done
    <3> QED
      BY <1>1, <2>2, <3>1 DEF PatchesAreOfFields
  <2>5. ChannelTypeOK'
    BY <1>2, <1>3, <1>4, <2>3 DEF ChannelTypeOK, screenVars, AnyPatch
  <2> QED
    BY <2>4, <2>5
<1>6. SeenIsCurrent' /\ ConfigIsThere'
  <2>1. \A n \in Operators : appVersions'[n] # appVersions[n] => n \in news'
    BY <1>1 DEF Applies, ChannelTypeOK, Operators
  <2>2. news \subseteq news'
    BY DEF Applies
  <2> QED
    BY <1>4, <2>1, <2>2 DEF SeenIsCurrent, ConfigIsThere, screenVars
<1>7. ClicksAreFollowed'
  <2>1. CASE r.field = "paused"
    <3>1. appVersions'[clusterAppVersionName].pausedSpec = (r.value = "true")
      <4>1. appVersions' = [appVersions EXCEPT ![clusterAppVersionName].pausedSpec = (r.value = "true")]
        BY <1>1, <2>1 DEF Applies, clusterAppVersionName
      <4> QED
        BY <4>1, PausedSpecIsSet DEF ChannelTypeOK
    <3>2. Pausing' = (Pausing \ {r}) \cup {[r EXCEPT !.applied = TRUE]} /\ r \in Pausing
      <4> DEFINE done == [r EXCEPT !.applied = TRUE]
      <4>1. done.field = "paused"
        BY <2>1 DEF ChannelTypeOK
      <4>2. updatePatches' = (updatePatches \ {r}) \cup {done}
        BY <1>4
      <4> HIDE DEF done
      <4>3. Pausing' = (Pausing \ {r}) \cup {done} /\ r \in Pausing
        BY <2>1, <4>1, <4>2 DEF Pausing
      <4> QED
        BY <4>3 DEF done
    <3>3. [r EXCEPT !.applied = TRUE].value = r.value
      BY DEF ChannelTypeOK
    <3> QED
      BY <1>4, <3>1, <3>2, <3>3 DEF ClicksAreFollowed, ChannelTypeOK
  <2>2. CASE r.field # "paused"
    <3>1. appVersions' = appVersions
      BY <1>1, <2>2 DEF Applies
    <3>2. Pausing' = Pausing
      BY <1>4, <2>2 DEF Pausing, ChannelTypeOK
    <3> QED
      BY <1>4, <3>1, <3>2 DEF ClicksAreFollowed
  <2> QED
    BY <2>1, <2>2
<1> QED
  BY <1>5, <1>6, <1>7

\* An answer ends a patch that is applied; one that is lost leaves it unsure.
LEMMA DoneKeeps == ASSUME NEW r \in updatePatches, ChannelInv, PatchDone(r) \/ PatchIsLost(r) PROVE ChannelInv'
<1> USE DEF ChannelInv
<1>1. updatePatches' = updatePatches \ {r} /\ UNCHANGED <<serverVars, screenVars, news, reports, actions, wantedPause>>
  BY DEF PatchDone, PatchIsLost, clickVars
<1>2. (modal' = modal \/ modal' = NoModal) /\ outdated' \in BOOLEAN /\ unsure' \in BOOLEAN /\ futile' = futile
  BY Zenon DEF PatchDone, PatchIsLost, clickVars, ChannelTypeOK
<1>3. ChannelTypeOK'
  BY <1>1, <1>2 DEF ChannelTypeOK, serverVars, screenVars, ValuesOf
<1>4. PatchesAreOfFields' /\ SeenIsCurrent' /\ ConfigIsThere'
  BY <1>1 DEF PatchesAreOfFields, SeenIsCurrent, ConfigIsThere, serverVars, screenVars
<1>5. ClicksAreFollowed'
  <2> SUFFICES ASSUME wantedPause # "none", ~unsure' PROVE ClicksAreFollowed'
    BY <1>1 DEF ClicksAreFollowed
  <2>1. (r.applied \/ r.field # "paused") /\ ~unsure
    <3>1. CASE PatchDone(r)
      BY <3>1 DEF PatchDone, clickVars
    <3>2. CASE PatchIsLost(r)
      BY <3>2, Zenon DEF PatchIsLost
    <3> QED
      BY <3>1, <3>2
  <2>2. Pausing' = Pausing \ {r}
    BY <1>1 DEF Pausing
  <2>3. r \in Pausing => r.applied
    BY <2>1 DEF Pausing
  <2> QED
    BY <1>1, <2>1, <2>2, <2>3 DEF ClicksAreFollowed, serverVars
<1> QED
  BY <1>3, <1>4, <1>5

\* The dialogs patch the config alone, with what can be chosen.
LEMMA ModalKeeps ==
    ASSUME ChannelInv,
           SubmitModal \/ CancelModal
           \/ (\E field \in {"channel", "automaticUpdate"} : OpenModal(field))
           \/ (\E value \in UpdateChannel \cup {"true", "false"} : ChooseValue(value))
    PROVE  ChannelInv'
<1> USE DEF ChannelInv
<1>1. CASE SubmitModal
  <2> DEFINE new == [id |-> actions, by |-> "modal", object |-> "config", field |-> modal.field,
                     value |-> modal.value, applied |-> FALSE]
  <2>1. \/ modal.field = "channel" /\ modal.value \in UpdateChannel
        \/ modal.field = "automaticUpdate" /\ modal.value \in {"true", "false"}
    <3>1. PICK field \in {"channel", "automaticUpdate"} : modal \in [field : {field}, value : ValuesOf(field)]
      BY <1>1 DEF SubmitModal, ChannelTypeOK
    <3> QED
      <4>1. CASE field = "channel"
        <5>1. ValuesOf(field) = UpdateChannel
          BY <4>1 DEF ValuesOf
        <5> QED
          BY <3>1, <4>1, <5>1
      <4>2. CASE field = "automaticUpdate"
        BY <3>1, <4>2 DEF ValuesOf
      <4> QED
        BY <4>1, <4>2
  <2>2. updatePatches' = updatePatches \cup {new} /\ reports + actions < MaxActions /\ actions' = actions + 1
    BY <1>1 DEF SubmitModal, Sends, PatchTo
  <2>3. UNCHANGED <<serverVars, screenVars, news, outdated, modal, reports, clickVars>>
    BY <1>1 DEF SubmitModal
  <2>4. actions \in Nat /\ actions' \in 0..MaxActions
    <3>1. actions \in 0..MaxActions /\ reports \in 0..MaxReports
      BY DEF ChannelTypeOK
    <3> HIDE DEF new
    <3> QED
      BY <2>2, <3>1, BoundsAreNat
  <2>5. /\ new \in [id : Nat, by : {"status", "modal"}, object : {clusterAppVersionName, "config"},
                    field : {"paused", "channel", "triggerUpdate", "triggerUpdateCheck", "automaticUpdate"},
                    value : {"true", "false"} \cup UpdateChannel, applied : BOOLEAN]
        /\ new.field # "paused"
        /\ \/ new.object = "config" /\ new.field = "channel" /\ new.value \in UpdateChannel
           \/ /\ new.object = "config" /\ new.field \in {"triggerUpdate", "triggerUpdateCheck", "automaticUpdate"}
              /\ new.value \in {"true", "false"}
    BY <2>1, <2>4
  <2> HIDE DEF new
  <2>6. ChannelTypeOK'
    BY <2>2, <2>3, <2>4, <2>5 DEF ChannelTypeOK, serverVars, screenVars, clickVars
  <2>7. PatchesAreOfFields' /\ SeenIsCurrent' /\ ConfigIsThere'
    BY <2>2, <2>3, <2>5 DEF PatchesAreOfFields, SeenIsCurrent, ConfigIsThere, serverVars, screenVars
  <2>8. Pausing' = Pausing
    BY <2>2, <2>5 DEF Pausing
  <2> QED
    BY <2>3, <2>6, <2>7, <2>8 DEF ClicksAreFollowed, serverVars, clickVars
<1>2. ASSUME UNCHANGED <<serverVars, screenVars, news, outdated, updatePatches, reports, actions, clickVars>>,
             modal' = NoModal \/ \E field \in {"channel", "automaticUpdate"} :
                 modal' \in [field : {field}, value : ValuesOf(field)]
      PROVE  ChannelInv'
  BY <1>2 DEF ChannelTypeOK, PatchesAreOfFields, SeenIsCurrent, ConfigIsThere, ClicksAreFollowed, Pausing,
              serverVars, screenVars, clickVars, ValuesOf
<1>3. CASE CancelModal
  BY <1>2, <1>3 DEF CancelModal
<1>4. ASSUME NEW field \in {"channel", "automaticUpdate"}, OpenModal(field) PROVE ChannelInv'
  <2>1. lists.versions = "loaded" /\ lists.configs = "loaded" /\ ~crashed
    BY <1>4 DEF OpenModal, Screen
  <2>2. AsString(field, seenConfig) \in ValuesOf(field)
    BY <2>1 DEF AsString, ValuesOf, ConfigIsThere, ChannelTypeOK, ChannelConfigs
  <2> QED
    BY <1>2, <1>4, <2>2 DEF OpenModal
<1>5. ASSUME NEW value \in UpdateChannel \cup {"true", "false"}, ChooseValue(value) PROVE ChannelInv'
  <2>1. PICK field \in {"channel", "automaticUpdate"} : modal \in [field : {field}, value : ValuesOf(field)]
    BY <1>5 DEF ChooseValue, ChannelTypeOK
  <2>2. modal' \in [field : {field}, value : ValuesOf(field)]
    BY <1>5, <2>1 DEF ChooseValue
  <2> QED
    BY <1>2, <1>5, <2>2 DEF ChooseValue
<1> QED
  BY <1>1, <1>3, <1>4, <1>5

\* An operator, or somebody else, writes one AppVersion.
LEMMA ReportsKeeps ==
    ASSUME NEW n \in Operators, ChannelInv, VersionsChange(n) \/ FlagsChange(n) \/ TasksChange(n)
    PROVE  ChannelInv'
<1> USE DEF ChannelInv
<1>1. appVersions[n] \in AppVersions
  BY DEF ChannelTypeOK
<1>2. PICK c \in AppVersions : Reports(n, c)
  <2>1. CASE VersionsChange(n)
    BY <1>1, <2>1 DEF VersionsChange, AppVersions, Versions
  <2>2. CASE FlagsChange(n)
    BY <1>1, <2>2 DEF FlagsChange, AppVersions
  <2>3. CASE TasksChange(n)
    <3>1. CASE \E t \in [type : TaskType, state : {"NotStarted"}] :
                  Reports(n, [appVersions[n] EXCEPT !.taskStatuses = @ \cup {t}])
      <4>1. PICK t \in [type : TaskType, state : {"NotStarted"}] :
                Reports(n, [appVersions[n] EXCEPT !.taskStatuses = @ \cup {t}])
        BY <3>1
      <4>2. t \in Tasks
        BY DEF Tasks, TaskStatuses
      <4>3. [appVersions[n] EXCEPT !.taskStatuses = @ \cup {t}] \in AppVersions
        BY <1>1, <4>2 DEF AppVersions
      <4> QED
        BY <4>1, <4>3
    <3>2. CASE \E t \in appVersions[n].taskStatuses, s \in TaskStatuses :
                  Reports(n, [appVersions[n] EXCEPT !.taskStatuses = (@ \ {t}) \cup {[t EXCEPT !.state = s]}])
      <4>1. PICK t \in appVersions[n].taskStatuses, s \in TaskStatuses :
                Reports(n, [appVersions[n] EXCEPT !.taskStatuses = (@ \ {t}) \cup {[t EXCEPT !.state = s]}])
        BY <3>2
      <4>2. [t EXCEPT !.state = s] \in Tasks
        BY <1>1 DEF AppVersions, Tasks
      <4>3. [appVersions[n] EXCEPT !.taskStatuses = (@ \ {t}) \cup {[t EXCEPT !.state = s]}] \in AppVersions
        BY <1>1, <4>2 DEF AppVersions
      <4> QED
        BY <4>1, <4>3
    <3> QED
      BY <2>3, <3>1, <3>2 DEF TasksChange
  <2> QED
    BY <2>1, <2>2, <2>3
<1>3. /\ appVersions' = [appVersions EXCEPT ![n] = c] /\ news' = news \cup {n}
      /\ reports < MaxReports /\ reports' = reports + 1
      /\ UNCHANGED <<channelConfig, release, screenVars, outdated, updatePatches, modal, actions, wantedPause, futile>>
  BY <1>2 DEF Reports, ReportsBound
<1>4. unsure' = (unsure \/ c.pausedSpec # appVersions[n].pausedSpec) /\ unsure' \in BOOLEAN
  BY <1>2, Zenon DEF Reports, ChannelTypeOK
<1>5. reports' \in 0..MaxReports
  <2>1. reports \in 0..MaxReports
    BY DEF ChannelTypeOK
  <2> QED
    BY <1>3, <2>1, BoundsAreNat
<1>6. appVersions' \in [Operators -> AppVersions]
  BY <1>3 DEF ChannelTypeOK
<1>7. ChannelTypeOK'
  BY <1>3, <1>4, <1>5, <1>6 DEF ChannelTypeOK, screenVars, ValuesOf
<1>8. PatchesAreOfFields' /\ SeenIsCurrent' /\ ConfigIsThere'
  BY <1>3 DEF PatchesAreOfFields, SeenIsCurrent, ConfigIsThere, screenVars, ChannelTypeOK
<1>9. ClicksAreFollowed'
  <2> SUFFICES ASSUME ~unsure' PROVE ClicksAreFollowed'
    BY DEF ClicksAreFollowed
  <2>1. ~unsure /\ c.pausedSpec = appVersions[n].pausedSpec
    BY <1>4, Zenon
  <2>2. appVersions'[clusterAppVersionName].pausedSpec = appVersions[clusterAppVersionName].pausedSpec
    BY <1>3, <2>1 DEF ChannelTypeOK, Operators
  <2> QED
    BY <1>3, <2>1, <2>2 DEF ClicksAreFollowed, Pausing
<1> QED
  BY <1>7, <1>8, <1>9

\* The config loses what was triggered.
LEMMA ConfigChangesKeeps ==
    ASSUME NEW field \in {"triggerUpdate", "triggerUpdateCheck"}, ChannelInv, ConfigChanges(field, FALSE)
    PROVE  ChannelInv'
<1> USE DEF ChannelInv
<1>1. channelConfig' \in ChannelConfigs
  BY DEF ConfigChanges, ChannelConfigs, ChannelTypeOK
<1>2. reports' \in 0..MaxReports
  <2>1. reports \in 0..MaxReports /\ reports < MaxReports /\ reports' = reports + 1
    BY DEF ChannelTypeOK, ConfigChanges, ReportsBound
  <2> QED
    BY <2>1, BoundsAreNat
<1>3. ChannelTypeOK'
  BY <1>1, <1>2 DEF ChannelTypeOK, ConfigChanges, screenVars, clickVars, ValuesOf
<1> QED
  BY <1>3 DEF ConfigChanges, PatchesAreOfFields, SeenIsCurrent, ConfigIsThere, ClicksAreFollowed, Pausing,
              screenVars, clickVars

\* Only whether the page is outdated may change, which nothing else depends on.
LEMMA OnlyOutdated ==
    ASSUME ChannelInv, outdated' \in BOOLEAN,
           UNCHANGED <<appVersions, channelConfig, release, seenVersions, seenConfig, lists, crashed, news>>,
           UNCHANGED <<updatePatches, modal, reports, actions, wantedPause, unsure, futile>>
    PROVE  ChannelInv'
<1> USE DEF ChannelInv
<1>1. ChannelTypeOK'
  BY DEF ChannelTypeOK
<1>2. PatchesAreOfFields'
  BY DEF PatchesAreOfFields
<1>3. SeenIsCurrent' /\ ConfigIsThere'
  BY DEF SeenIsCurrent, ConfigIsThere
<1>4. ClicksAreFollowed'
  BY DEF ClicksAreFollowed, Pausing
<1> QED
  BY <1>1, <1>2, <1>3, <1>4

\* Every step of the page, the server and the operators keeps it.
LEMMA ChannelNextInv == ChannelInv /\ [ChannelNext]_channelVars => ChannelInv'
<1> SUFFICES ASSUME ChannelInv, [ChannelNext]_channelVars PROVE ChannelInv'
  OBVIOUS
<1>1. CASE OtherNews
  <2>1. /\ UNCHANGED <<appVersions, channelConfig, release, seenVersions, seenConfig, lists, crashed, news>>
        /\ UNCHANGED <<updatePatches, modal, reports, actions, wantedPause, unsure, futile>>
        /\ outdated' = FALSE
    BY <1>1 DEF OtherNews, PropsReceived, serverVars, screenVars, clickVars
  <2> QED
    BY <2>1, OnlyOutdated
<1>2. CASE DoAction
  BY <1>2, ClickKeeps
<1>3. CASE SubmitModal \/ CancelModal
           \/ (\E field \in {"channel", "automaticUpdate"} : OpenModal(field))
           \/ (\E value \in UpdateChannel \cup {"true", "false"} : ChooseValue(value))
  BY <1>3, ModalKeeps
<1>4. ASSUME NEW fetched \in DOMAIN lists, FetchesList(fetched) \/ FetchIsRefused(fetched) PROVE ChannelInv'
  <2>1. fetched \in {"versions", "configs", "releases"}
    BY DEF ChannelInv, ChannelTypeOK
  <2> QED
    BY <1>4, <2>1, FetchesKeeps, FetchRefusedKeeps
<1>5. ASSUME NEW name \in news, ObjectArrives(name) PROVE ChannelInv'
  BY <1>5, ArrivesKeeps
<1>6. ASSUME NEW r \in updatePatches, Applies(r) \/ PatchDone(r) \/ PatchIsLost(r) PROVE ChannelInv'
  BY <1>6, AppliesKeeps, DoneKeeps
<1>7. ASSUME NEW n \in Operators, VersionsChange(n) \/ FlagsChange(n) \/ TasksChange(n) PROVE ChannelInv'
  BY <1>7, ReportsKeeps
<1>8. ASSUME NEW field \in {"triggerUpdate", "triggerUpdateCheck"}, ConfigChanges(field, FALSE) PROVE ChannelInv'
  BY <1>8, ConfigChangesKeeps
<1>9. CASE UNCHANGED channelVars
  <2>1. /\ UNCHANGED <<appVersions, channelConfig, release, seenVersions, seenConfig, lists, crashed, news>>
        /\ UNCHANGED <<updatePatches, modal, reports, actions, wantedPause, unsure, futile>>
        /\ outdated' = outdated
    BY <1>9 DEF channelVars, serverVars, screenVars, clickVars
  <2>2. outdated' \in BOOLEAN
    BY <2>1 DEF ChannelInv, ChannelTypeOK
  <2> QED
    BY <2>1, <2>2, OnlyOutdated
<1> QED
  BY <1>1, <1>2, <1>3, <1>4, <1>5, <1>6, <1>7, <1>8, <1>9 DEF ChannelNext

\* With nothing on its way, what the server has is what the page has.
LEMMA OffersAreOf ==
    ASSUME NEW visible, ChannelInv,
           visible = seenVersions \/ (news = {} /\ visible = appVersions), Screen = "status"
    PROVE  visible = seenVersions
<1>1. lists.versions = "loaded"
  BY DEF Screen
<1>2. CASE news = {} /\ visible = appVersions
  <2>1. \A n \in Operators : seenVersions[n] = appVersions[n]
    BY <1>1, <1>2 DEF ChannelInv, SeenIsCurrent
  <2> QED
    <3>1. seenVersions \in [Operators -> AppVersions] /\ appVersions \in [Operators -> AppVersions]
      BY DEF ChannelInv, ChannelTypeOK
    <3>2. /\ seenVersions = [n \in Operators |-> seenVersions[n]]
          /\ appVersions = [n \in Operators |-> appVersions[n]]
      BY <3>1
    <3> QED
      BY <1>2, <2>1, <3>2, Zenon
<1> QED
  BY <1>2

\* What the button offers is so, on the page and on the server; the tasks left have their lines.
LEMMA ChannelInvShows == ChannelInv => OffersAreTrue /\ UnfinishedIsShown
<1>1. ASSUME ChannelInv PROVE OffersAreTrue
  <2> SUFFICES ASSUME NEW visible \in {seenVersions} \cup (IF news = {} THEN {appVersions} ELSE {}), Offers # "none"
               PROVE  LET tc == Primary(visible)
                          states == {DetermineOperatorState(visible[n]) : n \in Components(visible)}
                      IN  /\ Offers = "Pause Updates" => ~tc.pausedSpec /\ "Updating" \in states
                          /\ Offers = "Resume Updates" => tc.pausedSpec
                          /\ Offers = "Start Upgrade" => "Pending" \in states /\ "Updating" \notin states
                          /\ Offers = "Check for Updates" => ~tc.pausedSpec /\ states \cap {"Updating", "Pending"} = {}
    BY DEF OffersAreTrue
  <2>1. Screen = "status"
    BY DEF Offers
  <2>2. visible = seenVersions
    BY <1>1, <2>1, OffersAreOf
  <2> DEFINE states == {DetermineOperatorState(seenVersions[n]) : n \in Components(seenVersions)}
             tc == Primary(seenVersions)
  <2>3. ChannelState(seenVersions) =
            IF "Pending" \in states /\ "Updating" \notin states THEN "UpdateAvailable"
            ELSE IF tc.pausedSpec THEN (IF tc.pausedStatus THEN "Paused" ELSE "Pausing")
            ELSE IF tc.failureStatus THEN "Failed"
            ELSE IF "Updating" \in states THEN "Updating" ELSE "UpToDate"
    BY DEF ChannelState
  <2> HIDE DEF states, tc
  <2>4. /\ Offers = "Pause Updates" => ChannelState(seenVersions) = "Updating"
        /\ Offers = "Resume Updates" => ChannelState(seenVersions) \in {"Paused", "Pausing"}
        /\ Offers = "Start Upgrade" => ChannelState(seenVersions) = "UpdateAvailable"
        /\ Offers = "Check for Updates" => ChannelState(seenVersions) = "UpToDate"
    BY <2>3 DEF Offers
  <2>5. /\ Offers = "Pause Updates" => ~tc.pausedSpec /\ "Updating" \in states
        /\ Offers = "Resume Updates" => tc.pausedSpec
        /\ Offers = "Start Upgrade" => "Pending" \in states /\ "Updating" \notin states
        /\ Offers = "Check for Updates" => ~tc.pausedSpec /\ states \cap {"Updating", "Pending"} = {}
    BY <2>3, <2>4
  <2> QED
    BY <2>2, <2>5 DEF states, tc
<1>2. ASSUME ChannelInv PROVE UnfinishedIsShown
  <2> SUFFICES ASSUME ChannelState(seenVersions) # "UpToDate",
                      NEW t \in Primary(seenVersions).taskStatuses, t.state # "Completed"
               PROVE  t \in ShownTasks(seenVersions)
    BY DEF UnfinishedIsShown
  <2>1. t \in Tasks
    BY <1>2 DEF ChannelInv, ChannelTypeOK, AppVersions, Primary, NoVersion, Operators, Components
  <2>2. [type |-> t.type, state |-> t.state] = t /\ t.state \in TaskStatuses
    BY <2>1 DEF Tasks
  <2> DEFINE tasks == Primary(seenVersions).taskStatuses
  <2>3. t \in tasks
    OBVIOUS
  <2> HIDE DEF tasks
  <2>4. GroupState(t.type, tasks) # "Completed"
    BY <2>2, <2>3 DEF GroupState, TaskStatuses
  <2> QED
    BY <2>3, <2>4 DEF ShownTasks, tasks
<1> QED
  BY <1>1, <1>2

-----------------------------------------------------------------------------
(* The types of the forms *)

\* The count waited for is a count, and the version shown one there is.
LEMMA ScalingInitTyped == ScalingInit => ScalingTypeOK
<1> SUFFICES ASSUME ScalingInit PROVE ScalingTypeOK
  OBVIOUS
<1> DEFINE first == CHOOSE n \in Count : TRUE
<1>1. first \in Count
  BY ScalingAssumption
<1>2. <<first>> \in Seq(Count) /\ Len(<<first>>) = 1
  BY <1>1
<1>3. saves \in 0 .. MaxSaves /\ propsVersion \in 1 .. Len(counts)
  BY <1>2, ScalingAssumption DEF ScalingInit
<1> QED
  BY <1>1, <1>2, <1>3 DEF ScalingInit, ScalingTypeOK, Dialog

\* The versions of the object only grow.
LEMMA PatchedIsTyped ==
    ASSUME ScalingTypeOK, NEW n \in Count
    PROVE  /\ Append(counts, n) \in Seq(Count) /\ propsVersion \in 1 .. Len(Append(counts, n))
           /\ Patched(n) \in Seq(Count) /\ propsVersion \in 1 .. Len(Patched(n))
<1>1. counts \in Seq(Count) /\ propsVersion \in 1 .. Len(counts) /\ Len(counts) \in Nat
  BY DEF ScalingTypeOK
<1>2. Append(counts, n) \in Seq(Count) /\ Len(Append(counts, n)) = Len(counts) + 1
  BY <1>1
<1>3. propsVersion \in 1 .. Len(Append(counts, n))
  BY <1>1, <1>2
<1> QED
  BY <1>1, <1>2, <1>3 DEF Patched

LEMMA ScalingNextTyped == ScalingTypeOK /\ [ScalingNext]_scalingVars => ScalingTypeOK'
<1> SUFFICES ASSUME ScalingTypeOK, [ScalingNext]_scalingVars PROVE ScalingTypeOK'
  OBVIOUS
<1>1. CASE UNCHANGED scalingVars
  BY <1>1 DEF scalingVars, ScalingTypeOK
<1>2. CASE OpenCount \/ CloseCount \/ CountSaved
  <2>1. UNCHANGED <<counts, propsVersion, late, saves>> /\ desiredCount' = desiredCount
    BY <1>2 DEF OpenCount, CloseCount, CountSaved, ToldAt
  <2>2. dialog' \in Dialog
    BY <1>2 DEF OpenCount, CloseCount, CountSaved, ScalingTypeOK, Dialog
  <2> QED
    BY <2>1, <2>2 DEF ScalingTypeOK
<1>3. ASSUME NEW n \in Count, SubmitCount(n) PROVE ScalingTypeOK'
  <2>1. saves' \in 0 .. MaxSaves
    BY <1>3, ScalingAssumption DEF SubmitCount, ScalingTypeOK
  <2>2. dialog' \in Dialog
    BY <1>3 DEF SubmitCount, ScalingTypeOK, Dialog
  <2> QED
    BY <1>3, <2>1, <2>2 DEF SubmitCount, ToldAt, ScalingTypeOK
<1>4. CASE ServerPatches
  <2>1. dialog.count \in Count
    BY DEF ScalingTypeOK, Dialog
  <2>2. dialog' \in Dialog
    BY <1>4 DEF ServerPatches, ScalingTypeOK, Dialog
  <2>3. counts' \in {counts, Patched(dialog.count)} /\ propsVersion' = propsVersion
    BY <1>4 DEF ServerPatches
  <2>4. counts' \in Seq(Count) /\ propsVersion' \in 1 .. Len(counts')
    BY <2>1, <2>3, PatchedIsTyped DEF ScalingTypeOK
  <2> QED
    BY <1>4, <2>2, <2>4 DEF ServerPatches, ScalingTypeOK
<1>5. ASSUME NEW n \in late, LateApplies(n) PROVE ScalingTypeOK'
  <2>1. n \in Count
    BY DEF ScalingTypeOK
  <2> QED
    BY <1>5, <2>1, PatchedIsTyped DEF LateApplies, ScalingTypeOK
<1>6. ASSUME NEW n \in Count, OthersScale(n) PROVE ScalingTypeOK'
  BY <1>6, PatchedIsTyped DEF OthersScale, ScalingTypeOK
<1>7. CASE CountFails
  BY <1>7 DEF CountFails, Refused, ScalingTypeOK, Dialog
<1>8. CASE PropsArrive
  <2>1. PICK v \in propsVersion + 1 .. Len(counts) :
           propsVersion' = v /\ desiredCount' \in {desiredCount, NotWaiting}
    BY <1>8 DEF PropsArrive
  <2>2. propsVersion' \in 1 .. Len(counts)
    BY <2>1 DEF ScalingTypeOK
  <2> QED
    BY <1>8, <2>1, <2>2 DEF PropsArrive, ScalingTypeOK
<1> QED
  BY <1>1, <1>2, <1>3, <1>4, <1>5, <1>6, <1>7, <1>8 DEF ScalingNext

LEMMA OperatorsAreTyped == GateInv /\ InstanceInv => OperatorsTypeOK
BY DEF GateInv, InstanceInv, Gates, OperatorsTypeOK

\* What the page was told is of a version there is.
SubscriptionTyped ==
    /\ olmKind \in {"subscription", "plan"}
    /\ answered <= Len(versions) /\ (operatorPut.at = "stored" => operatorPut.of <= Len(versions))
    /\ preview \in [at : {"none", "shown", "crashed"}, needsApproval : BOOLEAN]

LEMMA SubscriptionInitTyped == SubscriptionInit => SubscriptionTyped
<1> SUFFICES ASSUME NEW kind \in {"subscription", "plan"}, NEW obj \in OlmObject, SubscriptionOpens(kind, obj)
             PROVE  SubscriptionTyped
  BY DEF SubscriptionInit
<1>1. /\ olmKind = kind /\ versions = <<obj>> /\ answered = 0 /\ preview = NoPreview
      /\ operatorPut = [at |-> "none", of |-> 1, obj |-> obj, by |-> "none"]
  BY DEF SubscriptionOpens
<1>2. answered <= Len(versions) /\ operatorPut.at = "none"
  BY <1>1
<1> QED
  BY <1>1, <1>2 DEF SubscriptionTyped, NoPreview

LEMMA SubscriptionNextTyped ==
    SubscriptionInv /\ SubscriptionTyped /\ [SubscriptionNext]_subscriptionVars => SubscriptionTyped'
<1> SUFFICES ASSUME SubscriptionInv, SubscriptionTyped, [SubscriptionNext]_subscriptionVars
             PROVE  SubscriptionTyped'
  OBVIOUS
<1>1. /\ versions \in Seq(OlmObject) /\ answered \in Nat /\ operatorPut \in PutRecord /\ operatorPut.of \in Nat
      /\ olmKind' = olmKind /\ olmKind \in {"subscription", "plan"}
  BY DEF SubscriptionInv, PutRecord, SubscriptionTyped, SubscriptionNext, subscriptionVars, OthersChangeObj, ObjArrives,
         OtherPropsArrive, OpenOperatorDialog, SelectValue, SubmitOperatorDialog, CancelOperatorDialog, ShowComponents,
         LeaveComponents, ApprovePlan, ServerPuts, PutAnswered
<1>2. Len(versions) \in Nat /\ \A o \in OlmObject : Len(Append(versions, o)) = Len(versions) + 1
  BY <1>1
<1>3. \/ versions' = versions
      \/ \E o \in OlmObject : versions' = Append(versions, o)
  <2>1. operatorPut.obj \in OlmObject
    BY <1>1 DEF PutRecord
  <2> QED
    BY <2>1 DEF SubscriptionNext, subscriptionVars, OthersChangeObj, ObjArrives,
         OtherPropsArrive, OpenOperatorDialog, SelectValue, SubmitOperatorDialog, CancelOperatorDialog, ShowComponents,
         LeaveComponents, ApprovePlan, ServerPuts, PutAnswered
<1>4. Len(versions) <= Len(versions') /\ Len(versions') \in Nat
  BY <1>2, <1>3
<1>5. \/ answered' = answered
      \/ operatorPut.at = "stored" /\ answered' = operatorPut.of
  <2>1. CASE PutAnswered
    BY <2>1 DEF PutAnswered
  <2>2. CASE ~PutAnswered
    BY <2>2 DEF SubscriptionNext, subscriptionVars, OthersChangeObj, ObjArrives,
         OtherPropsArrive, OpenOperatorDialog, SelectValue, SubmitOperatorDialog, CancelOperatorDialog, ShowComponents,
         LeaveComponents, ApprovePlan, ServerPuts
  <2> QED
    BY <2>1, <2>2
<1>6. answered' <= Len(versions')
  <2>1. answered <= Len(versions) /\ (operatorPut.at = "stored" => operatorPut.of <= Len(versions))
    BY DEF SubscriptionTyped
  <2> QED
    BY <1>1, <1>2, <1>4, <1>5, <2>1
<1>7. operatorPut'.at = "stored" =>
         \/ operatorPut'.of = Len(versions')
         \/ operatorPut.at = "stored" /\ operatorPut'.of = operatorPut.of
  <2>1. CASE LeaveComponents
    <3>1. operatorPut'.at = operatorPut.at /\ operatorPut'.of = operatorPut.of
      BY <1>1, <2>1 DEF LeaveComponents, PutRecord
    <3> QED
      BY <3>1
  <2>2. CASE ServerPuts
    <3>1. \/ operatorPut' = [operatorPut EXCEPT !.at = "stored", !.of = Len(versions')]
          \/ operatorPut' = [operatorPut EXCEPT !.at = "refusing"]
      BY <2>2 DEF ServerPuts
    <3> QED
      BY <1>1, <3>1 DEF PutRecord
  <2>3. CASE SubmitOperatorDialog \/ ApprovePlan \/ PutAnswered
    <3>1. CASE SubmitOperatorDialog
      BY <3>1 DEF SubmitOperatorDialog
    <3>2. CASE ApprovePlan
      BY <3>2 DEF ApprovePlan
    <3>3. CASE PutAnswered
      <4>1. operatorPut' = [operatorPut EXCEPT !.at = "none", !.by = "none"]
        BY <3>3 DEF PutAnswered
      <4> QED
        BY <1>1, <4>1 DEF PutRecord
    <3> QED
      BY <2>3, <3>1, <3>2, <3>3
  <2>4. CASE UNCHANGED operatorPut
    BY <2>4
  <2> QED
    BY <2>1, <2>2, <2>3, <2>4 DEF SubscriptionNext, subscriptionVars, OthersChangeObj, ObjArrives,
         OtherPropsArrive, OpenOperatorDialog, SelectValue, CancelOperatorDialog, ShowComponents
<1>8. operatorPut'.at = "stored" => operatorPut'.of <= Len(versions')
  <2>1. operatorPut.at = "stored" => operatorPut.of <= Len(versions)
    BY DEF SubscriptionTyped
  <2> QED
    BY <1>1, <1>2, <1>4, <1>7, <2>1
<1>9. preview' \in [at : {"none", "shown", "crashed"}, needsApproval : BOOLEAN]
  <2> DEFINE P == [at : {"none", "shown", "crashed"}, needsApproval : BOOLEAN]
  <2>0. preview \in P
    BY DEF SubscriptionTyped
  <2>1. CASE ShowComponents
    <3> DEFINE b == Obj.approval = "Manual" /\ ~Obj.approved
    <3>1. preview' = [at |-> "shown", needsApproval |-> b] /\ b \in BOOLEAN
      BY <2>1 DEF ShowComponents
    <3> HIDE DEF b
    <3> QED
      BY <3>1
  <2>2. CASE LeaveComponents
    BY <2>2 DEF LeaveComponents, NoPreview
  <2>3. CASE PutAnswered
    <3> DEFINE b == preview.needsApproval /\ operatorPut.by # "approve"
    <3>1. \/ preview' = [preview EXCEPT !.needsApproval = b]
          \/ preview' = [preview EXCEPT !.at = "crashed"]
          \/ preview' = preview
      BY <2>3 DEF PutAnswered
    <3>2. b \in BOOLEAN
      OBVIOUS
    <3> HIDE DEF b
    <3> QED
      BY <2>0, <3>1, <3>2
  <2>4. CASE UNCHANGED preview
    BY <2>0, <2>4
  <2> QED
    BY <2>1, <2>2, <2>3, <2>4 DEF SubscriptionNext, subscriptionVars, OthersChangeObj, ObjArrives, OtherPropsArrive,
       OpenOperatorDialog, SelectValue, SubmitOperatorDialog, CancelOperatorDialog, ApprovePlan, ServerPuts
<1> QED
  BY <1>1, <1>6, <1>8, <1>9 DEF SubscriptionTyped

LEMMA SubscriptionIsTyped == SubscriptionInv /\ SubscriptionTyped => SubscriptionTypeOK
<1> SUFFICES ASSUME SubscriptionInv, SubscriptionTyped PROVE SubscriptionTypeOK
  OBVIOUS
<1>1. versions \in Seq(OlmObject) /\ shownAt \in 1 .. Len(versions) /\ answered \in Nat /\ answered <= Len(versions)
      /\ operatorDialog.of \in 1 .. shownAt
  BY DEF SubscriptionInv, SubscriptionTyped
<1>2. answered \in 0 .. Len(versions) /\ operatorDialog.of \in 1 .. Len(versions)
  BY <1>1
<1> QED
  BY <1>1, <1>2 DEF SubscriptionInv, SubscriptionTyped, SubscriptionTypeOK, Latest, UpdatesRecord, OlmDialogRecord, PutRecord

\* A save is of a version that others wrote or the form was opened with, and makes one more; a key is
\* read for the subform that has a place for it.
SourceBounded ==
    /\ secret.ver <= MaxWrites + 1
    /\ saving.at = "sent" => saving.ver <= MaxWrites
KeyIsAwaited == keyRead \in BOOLEAN /\ (keyRead = TRUE => subform.type = "ssh")

LEMMA SourceInitTyped == SourceInit => SourceBounded /\ KeyIsAwaited
<1> SUFFICES ASSUME SourceInit PROVE SourceBounded /\ KeyIsAwaited
  OBVIOUS
<1>1. secret.ver \in {0, 1} /\ keyRead = FALSE /\ saving = NoSecretSave
  <2>1. ASSUME NEW create, NEW a, NEW s, SourceOpens(create, a, s), s.ver \in {0, 1}
        PROVE  secret.ver \in {0, 1} /\ keyRead = FALSE /\ saving = NoSecretSave
    BY <2>1 DEF SourceOpens
  <2>2. CASE \E a \in {"source", "webhook"} : SourceOpens(TRUE, a, NewSecretOf(a))
    <3>1. PICK a \in {"source", "webhook"} : SourceOpens(TRUE, a, NewSecretOf(a))
      BY <2>2
    <3>2. NewSecretOf(a).ver = 0
      BY DEF NewSecretOf
    <3> QED
      BY <2>1, <3>1, <3>2
  <2>3. CASE \E type \in {"basic", "ssh", "opaque"} : \E contents1 \in DataOf(type) :
               LET s == [type |-> type, data |-> contents1, ver |-> 1]
               IN  Abstraction(s) # "generic" /\ SourceOpens(FALSE, Abstraction(s), s)
    <3>1. PICK type, contents1 : SourceOpens(FALSE, Abstraction([type |-> type, data |-> contents1, ver |-> 1]),
                                        [type |-> type, data |-> contents1, ver |-> 1])
      BY <2>3
    <3>2. [type |-> type, data |-> contents1, ver |-> 1].ver = 1
      OBVIOUS
    <3> QED
      BY <2>1, <3>1, <3>2
  <2> QED
    BY <2>2, <2>3 DEF SourceInit
<1>2. saving.at = "none"
  BY <1>1 DEF NoSecretSave
<1>3. secret.ver <= MaxWrites + 1
  <2>1. MaxWrites \in Nat /\ secret.ver \in {0, 1}
    BY <1>1, SourceAssumption
  <2> QED
    BY ONLY <2>1
<1> QED
  BY <1>1, <1>2, <1>3 DEF SourceBounded, KeyIsAwaited

LEMMA SourceBoundedNext == SourceInv /\ SourceBounded /\ [SourceNext]_sourceVars => SourceBounded'
<1> SUFFICES ASSUME SourceInv, SourceBounded, [SourceNext]_sourceVars PROVE SourceBounded'
  OBVIOUS
<1>1. /\ secret \in SecretRecord /\ saving \in SavingRecord /\ frameState \in FrameRecord
      /\ frameState.ver <= secret.ver
  BY DEF SourceInv
<1>2. secret.ver \in Nat /\ saving.ver \in Nat /\ frameState.ver \in Nat /\ MaxWrites \in Nat
  BY <1>1, SourceAssumption DEF SecretRecord, SavingRecord, FrameRecord
<1>3. CASE OthersWriteSecret
  <2>1. saving' = saving /\ secret.ver < MaxWrites /\ secret'.ver = secret.ver + 1
    BY <1>1, <1>3 DEF OthersWriteSecret, SecretRecord
  <2> QED
    BY <1>2, <2>1 DEF SourceBounded
<1>4. CASE SaveSecret
  <2>1. secret' = secret /\ saving'.ver = frameState.ver /\ secret.ver <= MaxWrites
    BY <1>4 DEF SaveSecret, NewSecret
  <2> QED
    BY <1>1, <1>2, <2>1 DEF SourceBounded
<1>5. CASE StoresSecret
  <2>1. saving.at = "sent" /\ saving.ver <= MaxWrites /\ saving'.at # "sent"
    BY <1>1, <1>5 DEF StoresSecret, SourceBounded, SavingRecord
  <2>2. secret' = secret \/ (saving.ver = secret.ver /\ secret'.ver = secret.ver + 1)
    BY <1>5 DEF StoresSecret
  <2> QED
    BY <1>2, <2>1, <2>2 DEF SourceBounded
<1>6. CASE SaveAnswered
  <2>1. secret' = secret
    BY <1>6 DEF SaveAnswered
  <2>2. saving' = [NoSecretSave EXCEPT !.at = IF saving.at = "stored" THEN "left" ELSE "refused"]
    BY <1>6 DEF SaveAnswered
  <2>3. saving'.at \in {"left", "refused"}
    BY <2>2 DEF NoSecretSave
  <2> QED
    BY <2>1, <2>3 DEF SourceBounded
<1>7. CASE UNCHANGED <<secret, saving>>
  BY <1>7 DEF SourceBounded
<1> QED
  BY <1>3, <1>4, <1>5, <1>6, <1>7 DEF SourceNext, sourceVars, TypeField, ReadKey, KeyIsRead, DropTooLarge,
     ChangeAuthenticationType, SecretArrives

LEMMA KeyIsAwaitedNext == SourceInv /\ KeyIsAwaited /\ [SourceNext]_sourceVars => KeyIsAwaited'
<1> SUFFICES ASSUME SourceInv, KeyIsAwaited, [SourceNext]_sourceVars PROVE KeyIsAwaited'
  OBVIOUS
<1>1. subform \in SubformRecord
  BY DEF SourceInv
<1>2. CASE ReadKey
  BY <1>2 DEF ReadKey, KeyIsAwaited
<1>3. CASE keyRead' = FALSE
  BY <1>3 DEF KeyIsAwaited
<1>4. ASSUME keyRead' = keyRead, subform'.type = subform.type
      PROVE  KeyIsAwaited'
  BY <1>4 DEF KeyIsAwaited
<1>5. ASSUME NEW f, NEW text, TypeField(f, text) PROVE KeyIsAwaited'
  <2>1. keyRead' = keyRead /\ subform'.type = subform.type
    BY <1>1, <1>5 DEF TypeField, Changed, SubformRecord
  <2> QED
    BY <1>4, <2>1
<1>6. CASE DropTooLarge
  <2>1. keyRead' = keyRead /\ subform'.type = subform.type
    BY <1>1, <1>6 DEF DropTooLarge, SubformRecord
  <2> QED
    BY <1>4, <2>1
<1>7. CASE SaveAnswered
  <2>1. keyRead' = (keyRead /\ saving.at = "refusing") /\ subform' = subform
    BY <1>7 DEF SaveAnswered
  <2>2. keyRead' = keyRead \/ keyRead' = FALSE
    BY <2>1 DEF KeyIsAwaited
  <2> QED
    BY <1>3, <1>4, <2>1, <2>2
<1>8. CASE OthersWriteSecret \/ SaveSecret \/ StoresSecret \/ UNCHANGED sourceVars
  <2>1. keyRead' = keyRead /\ subform' = subform
    BY <1>8 DEF OthersWriteSecret, SaveSecret, StoresSecret, sourceVars
  <2> QED
    BY <1>4, <2>1
<1>9. CASE (\E text \in Word : KeyIsRead(text)) \/ ChangeAuthenticationType \/ SecretArrives
  <2>1. keyRead' = FALSE
    BY <1>9 DEF KeyIsRead, ChangeAuthenticationType, SecretArrives
  <2> QED
    BY <1>3, <2>1
<1> QED
  BY <1>2, <1>5, <1>6, <1>7, <1>8, <1>9 DEF SourceNext

LEMMA SourceIsTyped == SourceInv /\ SourceBounded /\ KeyIsAwaited => SourceTypeOK
<1> SUFFICES ASSUME SourceInv, SourceBounded, KeyIsAwaited PROVE SourceTypeOK
  OBVIOUS
<1>1. /\ secret \in SecretRecord /\ frameState \in FrameRecord /\ subform \in SubformRecord /\ saving \in SavingRecord
      /\ DOMAIN subform.fields = FieldsOf(subform.type)
  BY DEF SourceInv
<1>2. secret.ver \in 0 .. MaxWrites + 1
  <2>1. secret.ver \in Nat /\ secret.ver <= MaxWrites + 1 /\ MaxWrites \in Nat
    BY <1>1, SourceAssumption DEF SecretRecord, SourceBounded
  <2> QED
    BY <2>1
<1>3. keyRead \in BOOLEAN /\ (keyRead => subform.type = "ssh")
  BY DEF KeyIsAwaited
<1> QED
  BY <1>1, <1>2, <1>3 DEF SourceTypeOK, SecretRecord, FrameRecord, SubformRecord, SavingRecord, SecretType, Words

AllTyped(config) == \A s \in Settings : config[s].request \in Typeable

\* Requests are what can be typed: the numbers that the YAML has are limits.
MonitoringTyped ==
    /\ writes \in 0 .. MaxMonitorings
    /\ AllTyped(settings) /\ AllTyped(seenSettings) /\ AllTyped(opened) /\ fields.request \in Typeable
    /\ \A patch \in patches : AllTyped(patch.value)

LEMMA NothingIsTypeable == AllTyped(Nothing) /\ NoFields.request \in Typeable
BY DEF AllTyped, Nothing, NoFields, OnlyLimit, Typeable

LEMMA WritesAreBounded ==
    /\ 0 \in 0 .. MaxMonitorings
    /\ \A n \in 0 .. MaxMonitorings : n < MaxMonitorings => n + 1 \in 0 .. MaxMonitorings
<1>1. MaxMonitorings \in Nat
  BY MonitoringAssumption
<1> QED
  BY <1>1

LEMMA MonitoringOpensTyped ==
    ASSUME NEW was, AllTyped(was), MonitoringOpens(was)
    PROVE  MonitoringTyped
BY NothingIsTypeable, WritesAreBounded DEF MonitoringOpens, MonitoringTyped, AllTyped

LEMMA MonitoringInitTyped == MonitoringInit => MonitoringTyped
<1> SUFFICES ASSUME NEW s \in Part, NEW q, MonitoringOpens([Nothing EXCEPT ![s] = OnlyLimit(q)])
             PROVE  MonitoringTyped
  BY DEF MonitoringInit
<1> DEFINE was == [Nothing EXCEPT ![s] = OnlyLimit(q)]
<1>1. \A t \in Settings : was[t].request = Absent
  BY DEF Nothing, NoFields, OnlyLimit
<1> HIDE DEF was
<1>2. AllTyped(was)
  BY <1>1 DEF AllTyped, Typeable
<1> QED
  BY <1>2, MonitoringOpensTyped DEF was

LEMMA SubmittedIsTyped ==
    ASSUME MonitoringInv, MonitoringTyped, setting \in Settings
    PROVE  AllTyped(NewConfig)
<1> DEFINE new == [opened EXCEPT ![setting] = fields]
<1>1. \A s \in Settings : new[s].request \in Typeable
  BY DEF MonitoringInv, MonitoringTyped, AllTyped, Configs
<1>2. NewConfig = [s \in Settings |-> [request |-> SanitizeForProm(new[s].request),
                                       limit |-> SanitizeForProm(new[s].limit)]]
  BY DEF NewConfig
<1> HIDE DEF new
<1> QED
  BY <1>1, <1>2 DEF AllTyped, SanitizeForProm, Typeable

LEMMA MonitoringNextTyped ==
    MonitoringInv /\ MonitoringTyped /\ [MonitoringNext]_monitoringVars => MonitoringTyped'
<1> SUFFICES ASSUME MonitoringInv, MonitoringTyped, [MonitoringNext]_monitoringVars PROVE MonitoringTyped'
  OBVIOUS
<1> USE DEF MonitoringTyped
<1>1. CASE SettingsArrive
  BY <1>1 DEF SettingsArrive, AllTyped
<1>2. CASE CancelSetting
  BY <1>2, NothingIsTypeable DEF CancelSetting, AllTyped
<1>3. CASE SubmitSetting
  <2>1. setting \in Settings /\ writes < MaxMonitorings /\ writes' = writes + 1
        /\ patches' = patches \cup {[id |-> writes, of |-> setting, base |-> opened, value |-> NewConfig, saved |-> FALSE]}
        /\ UNCHANGED <<settings, seenSettings, opened, setting, fields>>
    BY <1>3 DEF SubmitSetting, MonitoringInv
  <2>2. writes' \in 0 .. MaxMonitorings
    BY <2>1, WritesAreBounded
  <2>3. \A patch \in patches' : AllTyped(patch.value)
    BY <2>1, SubmittedIsTyped
  <2> QED
    BY <2>1, <2>2, <2>3 DEF AllTyped
<1>4. ASSUME NEW s \in Settings, OpenSetting(s) PROVE MonitoringTyped'
  BY <1>4 DEF OpenSetting, AllTyped
<1>5. ASSUME NEW s \in Settings, NEW q, OthersWriteSettings(s, q) PROVE MonitoringTyped'
  <2>1. writes' \in 0 .. MaxMonitorings
    BY <1>5, WritesAreBounded DEF OthersWriteSettings
  <2>2. settings' = [settings EXCEPT ![s] = OnlyLimit(q)] /\ UNCHANGED <<seenSettings, opened, setting, fields, patches>>
    BY <1>5 DEF OthersWriteSettings
  <2>3. \A t \in Settings : settings'[t].request \in {settings[t].request, Absent}
    BY <2>2 DEF MonitoringInv, Configs, OnlyLimit
  <2>4. AllTyped(settings)'
    BY <2>3 DEF AllTyped, Typeable
  <2> QED
    BY <2>1, <2>2, <2>4 DEF AllTyped
<1>6. ASSUME NEW field \in {"request", "limit"}, NEW q \in Typeable, TypeSetting(field, q) PROVE MonitoringTyped'
  <2>1. fields' = [fields EXCEPT ![field] = q] /\ UNCHANGED <<settings, seenSettings, opened, patches, writes>>
    BY <1>6 DEF TypeSetting
  <2>2. fields'.request \in {fields.request, q}
    BY <2>1 DEF MonitoringInv, Pairs
  <2> QED
    BY <2>1, <2>2 DEF AllTyped
<1>7. ASSUME NEW patch \in patches, PatchSaved(patch) PROVE MonitoringTyped'
  <2>1. /\ patches' = (patches \ {patch}) \cup {[patch EXCEPT !.saved = TRUE]} /\ settings' = patch.value
        /\ UNCHANGED <<seenSettings, opened, setting, fields, writes>>
    BY <1>7 DEF PatchSaved
  <2>2. [patch EXCEPT !.saved = TRUE].value = patch.value
    BY DEF MonitoringInv, Patches
  <2>3. \A p \in patches' : AllTyped(p.value)
    BY <2>1, <2>2
  <2> QED
    BY <2>1, <2>3 DEF AllTyped
<1>8. ASSUME NEW patch \in patches, PatchAnswered(patch) PROVE MonitoringTyped'
  BY <1>8, NothingIsTypeable DEF PatchAnswered, AllTyped
<1>9. ASSUME NEW patch \in patches, PatchFails(patch) PROVE MonitoringTyped'
  BY <1>9 DEF PatchFails, AllTyped
<1>10. CASE UNCHANGED monitoringVars
  BY <1>10 DEF monitoringVars, AllTyped
<1> QED
  BY <1>1, <1>2, <1>3, <1>4, <1>5, <1>6, <1>7, <1>8, <1>9, <1>10 DEF MonitoringNext

LEMMA MonitoringIsTyped == MonitoringInv /\ MonitoringTyped => MonitoringTypeOK
BY DEF MonitoringInv, MonitoringTyped, MonitoringTypeOK, Configs, AllTyped

\* The list has a row, every row a uid that was given, and a file is read for one of those.
RowsAreGiven ==
    /\ rows # <<>> /\ \A i \in DOMAIN rows : rows[i].uid # 0
    /\ reading \in 0 .. uids

LEMMA NewRowsAreGiven ==
    ASSUME NEW c \in Contents, NEW from \in Nat
    PROVE  /\ NewRows(c, from) # <<>> /\ \A i \in DOMAIN NewRows(c, from) : NewRows(c, from)[i].uid # 0
           /\ NewRows(c, from) \in Seq(ListRow)
<1> DEFINE rs == NewRows(c, from)
<1>1. rs \in Seq(ListRow) /\ \A i \in DOMAIN rs : rs[i].uid = from + i
  BY RowsAreTheContents
<1>2. rs # <<>>
  <2> DEFINE listedKeys == SetToSeq(DOMAIN c)
  <2>1. CASE listedKeys = <<>>
    <3>1. rs = <<[uid |-> from + 1, entry |-> Blank]>>
      BY <2>1 DEF NewRows
    <3> QED
      BY <3>1
  <2>2. CASE listedKeys # <<>>
    <3>1. DOMAIN rs = DOMAIN listedKeys
      BY <2>2 DEF NewRows
    <3>2. listedKeys \in [1 .. Cardinality(DOMAIN c) -> DOMAIN c] /\ Cardinality(DOMAIN c) \in Nat
      BY ListsTheSet DEF Contents
    <3>3. 1 \in DOMAIN listedKeys
      <4>1. CASE Cardinality(DOMAIN c) = 0
        <5>1. DOMAIN c = {}
          BY <4>1, FS_EmptySet DEF Contents
        <5>2. listedKeys = <<>>
          BY <3>2, <4>1
        <5> QED
          BY <2>2, <5>2
      <4>2. CASE Cardinality(DOMAIN c) # 0
        BY <3>2, <4>2
      <4> QED
        BY <4>1, <4>2
    <3>4. DOMAIN <<>> = {}
      OBVIOUS
    <3> QED
      BY <3>1, <3>3, <3>4
  <2> QED
    BY <2>1, <2>2
<1> HIDE DEF rs
<1>3. \A i \in DOMAIN rs : i \in Nat /\ i >= 1
  BY <1>1
<1>4. \A i \in DOMAIN rs : rs[i].uid # 0
  <2> TAKE i \in DOMAIN rs
  <2>1. rs[i].uid = from + i /\ i \in Nat /\ i >= 1 /\ from \in Nat
    BY <1>1, <1>3
  <2> QED
    BY ONLY <2>1
<1> QED
  BY <1>1, <1>2, <1>4 DEF rs

LEMMA SecretInitGiven == SecretInit => RowsAreGiven
<1> SUFFICES ASSUME SecretInit PROVE RowsAreGiven
  OBVIOUS
<1>1. PICK c \in Contents : rows = NewRows(c, 0) /\ uids = Len(rows) /\ reading = 0
  <2>1. \E kind, create, key : \E c \in Contents : SecretOpens(kind, create, key, c)
    <3>1. \A kind : ContentsOf(kind) \subseteq Contents
      BY KeyedContents
    <3> QED
      BY <3>1, NoContentsIsTyped DEF SecretInit
  <2> QED
    BY <2>1 DEF SecretOpens
<1>2. 0 \in Nat
  OBVIOUS
<1>3. rows # <<>> /\ (\A i \in DOMAIN rows : rows[i].uid # 0) /\ rows \in Seq(ListRow)
  BY <1>1, <1>2, NewRowsAreGiven
<1>4. uids \in Nat
  BY <1>1, <1>3
<1>5. reading \in 0 .. uids
  BY <1>1, <1>4
<1> QED
  BY <1>3, <1>5 DEF RowsAreGiven

LEMMA SecretNextGiven ==
    ASSUME SecretInv, RowsAreGiven, [SecretNext]_secretVars
    PROVE  RowsAreGiven'
<1>1. /\ rows \in Seq(ListRow) /\ Len(rows) \in Nat /\ DOMAIN rows = 1 .. Len(rows)
      /\ uids \in Nat /\ image \in ImageForm
      /\ \A i \in DOMAIN rows : rows[i].uid \in Nat /\ rows[i].uid <= uids
  <2>1. rows \in Seq(ListRow) /\ uids \in Nat /\ image \in ImageForm /\ \A i \in DOMAIN rows : rows[i].uid <= uids
    BY DEF SecretInv, ListIsOne, FrameFollows
  <2>2. \A i \in DOMAIN rows : rows[i] \in ListRow
    BY <2>1
  <2> QED
    BY <2>1, <2>2 DEF ListRow
<1>2. ASSUME UNCHANGED <<rows, uids>>, reading' = reading \/ reading' = 0
      PROVE  RowsAreGiven'
  <2>1. 0 \in 0 .. uids
    BY <1>1
  <2> QED
    BY <1>2, <2>1 DEF RowsAreGiven
<1>3. ASSUME NEW c \in Contents, ListMounts(c), reading' = 0 \/ reading' = reading
      PROVE  RowsAreGiven'
  <2>1. rows' = NewRows(c, uids) /\ uids' = uids + Len(rows')
    BY <1>3 DEF ListMounts
  <2>2. rows' # <<>> /\ (\A i \in DOMAIN rows' : rows'[i].uid # 0) /\ rows' \in Seq(ListRow)
    BY <1>1, <2>1, NewRowsAreGiven
  <2>3. uids' \in Nat /\ uids <= uids'
    BY <1>1, <2>1, <2>2
  <2>4. reading \in 0 .. uids
    BY DEF RowsAreGiven
  <2>5. reading' \in 0 .. uids'
    BY ONLY <1>1, <1>3, <2>3, <2>4
  <2> QED
    BY <2>2, <2>5 DEF RowsAreGiven
<1>4. ASSUME NEW i \in DOMAIN rows, NEW entered, RowChanges(i, entered), uids' = uids,
             reading' = reading \/ reading' = 0
      PROVE  RowsAreGiven'
  <2>1. rows' = [rows EXCEPT ![i].entry = entered]
    BY <1>4 DEF RowChanges
  <2>2. \A j \in DOMAIN rows : rows[j] \in ListRow
    BY <1>1
  <2>3. DOMAIN rows' = DOMAIN rows /\ \A j \in DOMAIN rows : rows'[j].uid = rows[j].uid
    BY <2>1, <2>2 DEF ListRow
  <2>4. rows' # <<>>
    BY <1>4, <2>3
  <2>5. 0 \in 0 .. uids
    BY <1>1
  <2> QED
    BY <1>4, <2>3, <2>4, <2>5 DEF RowsAreGiven
<1>5. CASE UNCHANGED secretVars
  BY <1>2, <1>5 DEF secretVars, list
<1>6. CASE SecretUpdated
  <2>1. PICK c \in ContentsOf(frame.kind) : ListMounts(c)
    BY <1>6 DEF SecretUpdated
  <2>2. c \in Contents
    BY KeyedContents
  <2> QED
    BY <1>3, <1>6, <2>1, <2>2 DEF SecretUpdated
<1>7. ASSUME NEW i \in DOMAIN rows, RemoveRow(i)
      PROVE  RowsAreGiven'
  <2> DEFINE rs == RemoveAt(rows, i)
  <2>1. rows' = rs /\ UNCHANGED <<uids, reading>> /\ Len(rows) > 1
    BY <1>7 DEF RemoveRow, ListChanges
  <2>2. /\ rs \in Seq(ListRow) /\ DOMAIN rs = 1 .. Len(rows) - 1
        /\ \A j \in 1 .. Len(rows) - 1 : rs[j] = IF j < i THEN rows[j] ELSE rows[j + 1]
    <3>1. rows \in Seq(ListRow) /\ i \in 1 .. Len(rows)
      BY <1>1
    <3> QED
      BY <3>1, RemovedRows
  <2> HIDE DEF rs
  <2>3. \A j \in DOMAIN rs : \E k \in DOMAIN rows : rs[j] = rows[k]
    <3> TAKE j \in DOMAIN rs
    <3>1. j \in DOMAIN rows /\ j + 1 \in DOMAIN rows
      BY <1>1, <2>2
    <3> QED
      BY <2>2, <3>1
  <2>4. 1 \in DOMAIN rs
    BY <1>1, <2>1, <2>2
  <2>5. rs # <<>>
    <3>1. DOMAIN <<>> = {}
      OBVIOUS
    <3> QED
      BY <2>4, <3>1
  <2> QED
    BY <2>1, <2>3, <2>5 DEF RowsAreGiven
<1>8. ASSUME NEW i \in DOMAIN rows, ChooseFile(i)
      PROVE  RowsAreGiven'
  <2>1. UNCHANGED <<rows, uids>> /\ reading' = rows[i].uid
    BY <1>8 DEF ChooseFile, list
  <2>2. rows[i].uid \in 0 .. uids
    BY <1>1
  <2> QED
    BY <2>1, <2>2 DEF RowsAreGiven
<1>9. ASSUME NEW i \in DOMAIN rows, \/ \E text \in Text : RowTyped(i, "key", text)
                                   \/ \E text \in RowValue : RowTyped(i, "value", text)
      PROVE  RowsAreGiven'
  <2>1. UNCHANGED <<uids, reading>> /\ \E entered : RowChanges(i, entered)
    BY <1>9 DEF RowTyped
  <2> QED
    BY <1>4, <2>1
<1>10. CASE AddRow
  <2> DEFINE row == [uid |-> uids + 1, entry |-> Blank]
             rs == Append(rows, row)
  <2>1. rows' = rs /\ uids' = uids + 1 /\ reading' = reading
    BY <1>10 DEF AddRow, ListChanges
  <2>2. row \in ListRow /\ row.uid = uids + 1
    <3>1. uids + 1 \in Nat /\ Blank \in RowEntry
      BY <1>1 DEF RowEntry, Blank
    <3> QED
      BY <3>1 DEF ListRow
  <2> HIDE DEF row
  <2>3. /\ rs \in Seq(ListRow) /\ DOMAIN rs = 1 .. Len(rows) + 1
        /\ \A j \in DOMAIN rows : rs[j] = rows[j]
        /\ rs[Len(rows) + 1] = row
    BY <1>1, <2>2, AppendProperties
  <2> HIDE DEF rs
  <2>4. \A j \in DOMAIN rs : j \in DOMAIN rows \/ j = Len(rows) + 1
    BY <1>1, <2>3
  <2>5. row.uid # 0
    BY <1>1, <2>2
  <2>6. \A j \in DOMAIN rs : rs[j].uid # 0
    BY <2>3, <2>4, <2>5 DEF RowsAreGiven
  <2>7. rs # <<>>
    <3>1. DOMAIN <<>> = {} /\ Len(rows) + 1 \in DOMAIN rs
      BY <1>1, <2>3
    <3> QED
      BY <3>1
  <2>8. reading \in 0 .. uids
    BY DEF RowsAreGiven
  <2>9. reading' \in 0 .. uids'
    BY ONLY <1>1, <2>1, <2>8
  <2> QED
    BY <2>1, <2>6, <2>7, <2>9 DEF RowsAreGiven
<1>11. ASSUME NEW text \in RowValue, FileRead(text)
       PROVE  RowsAreGiven'
  <2>1. reading' = 0 /\ uids' = uids
    BY <1>11 DEF FileRead
  <2>2. UNCHANGED rows \/ \E i \in DOMAIN rows : \E entered : RowChanges(i, entered)
    BY <1>11 DEF FileRead
  <2> QED
    BY <1>2, <1>4, <2>1, <2>2
<1>12. CASE ChangeFormType
  <2>1. reading' = reading
    BY <1>12 DEF ChangeFormType
  <2>2. UNCHANGED <<rows, uids>> \/ ListMounts(image.contents)
    BY <1>12 DEF ChangeFormType, list
  <2>3. image.contents \in Contents
    BY <1>1 DEF ImageForm
  <2> QED
    BY <1>2, <1>3, <2>1, <2>2, <2>3
<1>13. ASSUME NEW text, NEW key, NEW contents, Upload(text, key, contents)
       PROVE  RowsAreGiven'
  BY <1>2, <1>13 DEF Upload, list
<1> QED
  BY <1>5, <1>6, <1>7, <1>8, <1>9, <1>10, <1>11, <1>12, <1>13 DEF SecretNext

LEMMA SecretIsTyped == SecretInv /\ RowsAreGiven => SecretTypeOK
<1> SUFFICES ASSUME SecretInv, RowsAreGiven
             PROVE  SecretTypeOK
  OBVIOUS
<1>1. /\ frame \in KeyedFrame /\ image \in ImageForm
      /\ rows \in Seq(ListRow) /\ uids \in Nat /\ forms \in [UidsOf(rows) -> RowEntry]
      /\ \A i \in DOMAIN rows : rows[i].uid <= uids
  BY DEF SecretInv, ListIsOne, FrameFollows
<1>2. \A i \in DOMAIN rows : rows[i].uid \in 1 .. uids
  <2> TAKE i \in DOMAIN rows
  <2>1. rows[i] \in ListRow
    BY <1>1
  <2>2. rows[i].uid \in Nat /\ rows[i].uid # 0 /\ rows[i].uid <= uids
    BY <1>1, <2>1 DEF ListRow, RowsAreGiven
  <2> QED
    BY ONLY <1>1, <2>2
<1>3. UidsOf(rows) \subseteq 1 .. uids
  BY <1>2 DEF UidsOf
<1>4. 1 \in DOMAIN rows
  BY <1>1 DEF RowsAreGiven
<1>5. uids \in Nat \ {0}
  <2>1. rows[1].uid \in 1 .. uids
    BY <1>2, <1>4
  <2> QED
    BY <1>1, <2>1
<1> QED
  BY <1>1, <1>3, <1>5 DEF SecretTypeOK, KeyedFrame, ImageForm, RowsAreGiven, SecretKey
=============================================================================
