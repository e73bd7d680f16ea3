------------------------ MODULE MonitoringSettings -------------------------
(***************************************************************************)
(* The settings of the cluster's monitoring (src/frontend/public/          *)
(* components/cluster-settings/cluster-monitoring.jsx): one config map,    *)
(* whose text the page parses; one dialog for every pair of a request and  *)
(* a limit and one for the retention, each of which writes the whole text  *)
(* anew.  A setting is absent, text, or a number that the YAML has.        *)
(***************************************************************************)
EXTENDS Integers

\* The units validate.CPU, validate.memory and validate.time accept; left out are those of
\* the CPU that Kubernetes does not have, and "n", finer than the thousandths counted here.
CpuUnits == {"", "m", "K", "M", "G"}
MemoryUnits == {"", "E", "P", "T", "G", "M", "k", "Pi", "Ti", "Gi", "Mi", "Ki"}
TimeUnits == {"s", "m", "h", "d", "M", "y"}

CONSTANTS
    Part,          \* pairs of requests and limits
    MemoryPart,    \* of them, those of memory; the others are of CPU
    Amount,        \* amounts that can be typed
    Unit,          \* units that can be typed
    MaxMonitorings \* bound: patches sent, and writes of others

ASSUME MonitoringAssumption ==
    /\ Part # {} /\ "retention" \notin Part /\ MemoryPart \subseteq Part
    /\ Amount \subseteq Nat \ {0} /\ Unit \subseteq CpuUnits \cup MemoryUnits \cup TimeUnits
    /\ MaxMonitorings \in Nat

VARIABLES
    settings,     \* the config map on the server
    seenSettings, \* what the page has of it
    opened,       \* and what it had when the dialog was opened
    setting,      \* the part whose dialog is open, or "none"
    fields,       \* its two fields; the retention is the limit of its own
    patches,      \* patches that are not answered
    writes        \* patches and writes so far

monitoringVars == <<settings, seenSettings, opened, setting, fields, patches, writes>>

Quantity(as, amount, unit) == [as |-> as, amount |-> amount, unit |-> unit]
Absent == Quantity("text", 0, "")
Typeable == {Absent} \cup {Quantity("text", a, u) : a \in Amount, u \in Unit}

Settings == Part \cup {"retention"}

OnlyLimit(limit) == [request |-> Absent, limit |-> limit]
NoFields == OnlyLimit(Absent)
Nothing == [s \in Settings |-> NoFields]

\* What the validator of a field finds no error in.
UnitsOf(s) ==
    IF s = "retention" THEN TimeUnits ELSE IF s \in MemoryPart THEN MemoryUnits ELSE CpuUnits
Accepts(s, q) == q = Absent \/ q.unit \in UnitsOf(s)

MonitoringOpens(was) ==
    /\ settings = was /\ seenSettings = was /\ opened = Nothing
    /\ setting = "none" /\ fields = NoFields
    /\ patches = {} /\ writes = 0

\* One limit, text or a number.
MonitoringInit ==
    \E s \in Part, a \in Amount, as \in {"text", "number"} :
        MonitoringOpens([Nothing EXCEPT ![s] = OnlyLimit(Quantity(as, a, ""))])

-----------------------------------------------------------------------------
\* The watch has the newer config map.
SettingsArrive ==
    /\ seenSettings' = settings
    /\ UNCHANGED <<settings, opened, setting, fields, patches, writes>>

\* Somebody else writes the config map, with what the forms would accept too.
OthersWriteSettings(s, limit) ==
    /\ Accepts(s, limit)
    /\ writes < MaxMonitorings /\ writes' = writes + 1
    /\ settings' = [settings EXCEPT ![s] = OnlyLimit(limit)]
    /\ UNCHANGED <<seenSettings, opened, setting, fields, patches>>

\* The onClick of MemCPUModalLink and of RetentionModalLink.  The first validation throws
\* at a field that the YAML has as a number, and no dialog appears.
OpenSetting(s) ==
    /\ setting = "none"
    /\ "number" \notin {seenSettings[s].request.as, seenSettings[s].limit.as}
    /\ setting' = s /\ opened' = seenSettings /\ fields' = seenSettings[s]
    /\ UNCHANGED <<settings, seenSettings, patches, writes>>

\* The dialog of the retention has one field.
TypeSetting(field, q) ==
    /\ setting # "none" /\ (setting = "retention" => field = "limit")
    /\ fields' = [fields EXCEPT ![field] = q]
    /\ UNCHANGED <<settings, seenSettings, opened, setting, patches, writes>>

CancelSetting ==
    /\ setting # "none"
    /\ setting' = "none" /\ opened' = Nothing /\ fields' = NoFields
    /\ UNCHANGED <<settings, seenSettings, patches, writes>>

\* What a unit stands for, in thousandths.
Scale(unit) ==
    CASE unit = "" -> 1000
      [] unit = "m" -> 1
      [] unit \in {"k", "K"} -> 1000 * 1000
      [] unit = "M" -> 1000 * 1000 * 1000
      [] unit = "G" -> 1000 * 1000 * 1000 * 1000
      [] unit = "T" -> 1000 * 1000 * 1000 * 1000 * 1000
      [] unit = "P" -> 1000 * 1000 * 1000 * 1000 * 1000 * 1000
      [] unit = "E" -> 1000 * 1000 * 1000 * 1000 * 1000 * 1000 * 1000
      [] unit = "Ki" -> 1000 * 1024
      [] unit = "Mi" -> 1000 * 1024 * 1024
      [] unit = "Gi" -> 1000 * 1024 * 1024 * 1024
      [] unit = "Ti" -> 1000 * 1024 * 1024 * 1024 * 1024
      [] unit = "Pi" -> 1000 * 1024 * 1024 * 1024 * 1024 * 1024

\* convertToBaseUnit: units.dehumanize does not know "k" among its SI units, and finds the
\* unit "" before all of the text.
ConvertToBaseUnit(q) == IF q.unit = "k" THEN 0 ELSE q.amount * Scale(q.unit)

\* Of the unit "E", the largest, dehumanize gives the text back, which is not greater than a
\* number nor less.
Exceeds(q, r) ==
    IF q.unit = r.unit THEN q.amount > r.amount
    ELSE "E" \notin {q.unit, r.unit} /\ ConvertToBaseUnit(q) > ConvertToBaseUnit(r)

ValidateForm(s, values) ==
    /\ Accepts(s, values.request) /\ Accepts(s, values.limit)
    /\ Absent \in {values.request, values.limit} \/ ~Exceeds(values.request, values.limit)

\* sanitizeForProm_ drops what is absent below the top, and every number.
SanitizeForProm(q) == IF q.as = "number" THEN Absent ELSE q

\* _submit: what the form has, the other settings as the dialog was opened with,
\* and no resourceVersion.  Nothing disables the button while a patch is out.
NewConfig ==
    LET new == [opened EXCEPT ![setting] = fields]
    IN  [s \in Settings |-> [request |-> SanitizeForProm(new[s].request), limit |-> SanitizeForProm(new[s].limit)]]

SubmitSetting ==
    /\ setting # "none" /\ ValidateForm(setting, fields)
    /\ writes < MaxMonitorings /\ writes' = writes + 1
    /\ patches' = patches \cup
         {[id |-> writes, of |-> setting, base |-> opened, value |-> NewConfig, saved |-> FALSE]}
    /\ UNCHANGED <<settings, seenSettings, opened, setting, fields>>

\* The server replaces the text.
PatchSaved(patch) ==
    /\ ~patch.saved
    /\ patches' = (patches \ {patch}) \cup {[patch EXCEPT !.saved = TRUE]}
    /\ settings' = patch.value
    /\ UNCHANGED <<seenSettings, opened, setting, fields, writes>>

\* The answer closes the dialog that is open, be it another one.
PatchAnswered(patch) ==
    /\ patch.saved
    /\ patches' = patches \ {patch}
    /\ setting' = "none" /\ opened' = Nothing /\ fields' = NoFields
    /\ UNCHANGED <<settings, seenSettings, writes>>

\* The patch is refused, or its answer is lost: the dialog stays, with an error.
PatchFails(patch) ==
    /\ patches' = patches \ {patch}
    /\ UNCHANGED <<settings, seenSettings, opened, setting, fields, writes>>

MonitoringNext ==
    \/ SettingsArrive \/ CancelSetting \/ SubmitSetting
    \/ \E s \in Settings :
         OpenSetting(s) \/ (\E a \in Amount, u \in Unit : OthersWriteSettings(s, Quantity("text", a, u)))
    \/ \E field \in {"request", "limit"}, q \in Typeable : TypeSetting(field, q)
    \/ \E patch \in patches : PatchSaved(patch) \/ PatchAnswered(patch) \/ PatchFails(patch)

MonitoringSpec == MonitoringInit /\ [][MonitoringNext]_monitoringVars

-----------------------------------------------------------------------------
MonitoringTypeOK ==
    /\ \A c \in {settings, seenSettings, opened} : DOMAIN c = Settings
    /\ setting \in Settings \cup {"none"} /\ writes \in 0 .. MaxMonitorings
    /\ \A s \in Settings : settings[s].request \in Typeable

InThousandths(q) == q.amount * Scale(q.unit)

Fits(pair) ==
    Absent \in {pair.request, pair.limit} \/ InThousandths(pair.request) <= InThousandths(pair.limit)

\* The units that units.dehumanize does not read, next to another one.
Misread(pair) == pair.request.unit # pair.limit.unit /\ {"k", "E"} \cap {pair.request.unit, pair.limit.unit} # {}

\* "The request may not exceed the limit" (cluster-monitoring.jsx:179): not on the
\* server either, whichever dialogs were saved from whichever versions, unless a unit is misread.
RequestsFit == \A p \in Part : Fits(settings[p]) \/ Misread(settings[p])

\* Fails: "The request may not exceed the limit" (cluster-monitoring.jsx:179), in whatever
\* of the units that the form accepts.
RequestNeverExceeds == \A p \in Part : Fits(settings[p])

\* What the console writes is in a unit of its own setting (units.js:191-225): a retention has a
\* unit of time, and no amount of memory has a unit of the CPU.
UnitsAreTheirs == \A s \in Settings : \A q \in {settings[s].request, settings[s].limit} : Accepts(s, q)

\* A save from the version that is still the server's changes no other setting
\* that is text (cluster-monitoring.jsx:74, 80); of an older version it undoes
\* what was written since, and the numbers it loses in any case.
OtherSettingsAreKept ==
    [][\A patch \in patches \ patches' :
          settings = patch.base /\ settings' = patch.value =>
            \A s \in Settings \ {patch.of} :
               settings[s].limit.as = "text" => settings'[s] = settings[s]]_monitoringVars
=============================================================================
