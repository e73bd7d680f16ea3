----------------------------- MODULE Chargeback -----------------------------
(***************************************************************************)
(* The usage table of a chargeback report                                  *)
(* (src/frontend/public/components/chargeback.tsx, ReportData): fetched    *)
(* when the page opens and again when the watched report finishes, grouped *)
(* and sorted by two arguments of the address.                             *)
(***************************************************************************)
EXTENDS Sequences, SequencesExt, FiniteSets, Selections

CONSTANTS
    ReportField,  \* the fields rows may have, but for start and end; numbers or Reducers
    Underscored   \* of them, those that their heads show otherwise than they are written

ASSUME ChargebackAssumption == IsFiniteSet(ReportField) /\ ReportField # {} /\ "" \notin ReportField /\ Underscored \subseteq ReportField

Reducers == {"namespace", "node", "pod"}  \* REDUCER_COLS

\* All fields are optional (line 261), in the order of the JSON.
Columns == {c \in SeqOf(ReportField, Cardinality(ReportField)) : c # <<>> /\ IsInjective(c)}

VARIABLES
    columns,     \* of this report
    report,      \* the server's status.phase
    seenPhase,   \* the phase the watch brought: props.obj
    reduceArg, sortArg, orderArg, \* the arguments of the address, "" when absent
    reduceBy, sortBy, orderBy, keys, \* the state makeTable sets
    data,        \* what the last answer held: "none", "empty" or "usage"
    fetching, reportError,
    answer,      \* the answer on its way, "asked" before the server reads
    missed       \* history: the report finished for the page during a fetch

addressVars == <<reduceArg, sortArg, orderArg>>
tableVars == <<reduceBy, sortBy, orderBy, keys>>
chargebackVars == <<columns, report, seenPhase, addressVars, tableVars, data, fetching, reportError, answer, missed>>

ReportPhases == {"Started", "Finished", "Error"}

\* filterKeys: the heads of the table.
FilterKeys(d, by) ==
    IF d = "usage" THEN Among(columns, (ReportField \ Reducers) \cup {by}) ELSE <<>>

By(arg) == IF arg = "" THEN "namespace" ELSE arg

\* The constructor; a is "asked" once componentDidMount has fetched.
ReportOpens(c, p, by, sort, order, a) ==
    /\ columns = c /\ report = p /\ seenPhase = p
    /\ reduceArg = by /\ sortArg = sort /\ orderArg = order
    /\ reduceBy = "" /\ sortBy = "" /\ orderBy = "" /\ keys = <<>>
    /\ data = "none" /\ fetching = (a = "asked") /\ reportError = FALSE /\ answer = a /\ missed = FALSE

\* The address is new, or has the arguments that the page of the report has left in it.
ChargebackInit ==
    \E c \in Columns, p \in ReportPhases :
    \E by \in {""} \cup (Reducers \cap ToSet(c)), order \in {"", "asc", "desc"} :
    \E sort \in {""} \cup {k \in ToSet(c) : k = By(by) \/ k \notin Reducers} :
        (sort = "" => order = "") /\ ReportOpens(c, p, by, sort, order, "asked")

-----------------------------------------------------------------------------
\* The second head, or the first.
FirstHead(heads) == IF heads = <<>> THEN "" ELSE heads[1]
DefaultSort(heads) == IF Len(heads) > 1 THEN heads[2] ELSE FirstHead(heads)

MakeTable(d, by, sort, order) ==
    /\ reduceBy' = By(by)
    /\ keys' = FilterKeys(d, By(by))
    /\ sortBy' = IF sort = "" THEN DefaultSort(keys') ELSE sort
    /\ orderBy' = IF order # "" THEN order ELSE IF sortBy' = FirstHead(keys') THEN "asc" ELSE "desc"

\* componentWillMount of the heads that are new: the one of the argument is sorted, and in
\* ascending order unless the address has an order.
HeadsMount(heads, sort) ==
    IF sort \in heads \ Underscored /\ orderArg = "" THEN "asc" ELSE orderArg

\* A row has the reducer first, then the other fields of the data (line 286).
Cells == <<reduceBy>> \o Among(columns, ReportField \ Reducers)

\* render.
ReportScreen ==
    IF fetching THEN "loading"
    ELSE IF reportError THEN "error"
    ELSE IF seenPhase = "Finished" THEN (IF data = "none" THEN "no data" ELSE "table")
    ELSE IF seenPhase = "Error" THEN "error" ELSE "not finished"

-----------------------------------------------------------------------------
\* The buttons "By Namespace", "By Node" and "By Pod": a sort field that goes
\* away is replaced, the table made twice.
GroupsBy(col) ==
    /\ data = "usage" /\ col \in Reducers \cap ToSet(columns)
    /\ sortArg' = IF sortBy \in Reducers THEN col ELSE sortArg
    /\ reduceArg' = col
    /\ orderArg' = HeadsMount(IF ReportScreen = "table" THEN ToSet(FilterKeys(data, col)) \ ToSet(keys) ELSE {}, sortArg')
    /\ MakeTable(data, col, sortArg', orderArg')
    /\ UNCHANGED <<columns, report, seenPhase, data, fetching, reportError, answer, missed>>

\* applySort of a head.
SortsBy(k) ==
    /\ ReportScreen = "table" /\ k \in ToSet(keys)
    /\ sortArg' = k
    /\ orderArg' = IF k = sortBy /\ orderBy = "asc" THEN "desc" ELSE "asc"
    /\ MakeTable(data, reduceArg, k, orderArg')
    /\ UNCHANGED <<columns, report, seenPhase, reduceArg, data, fetching, reportError, answer, missed>>

ReportEnds ==
    /\ report = "Started" /\ report' \in {"Finished", "Error"}
    /\ UNCHANGED <<columns, seenPhase, addressVars, tableVars, data, fetching, reportError, answer, missed>>

\* componentWillReceiveProps: nothing is fetched while a fetch is in flight.
PhaseArrives ==
    /\ seenPhase # report /\ seenPhase' = report
    /\ IF report # "Finished" THEN UNCHANGED <<fetching, reportError, answer, missed>>
       ELSE IF fetching THEN missed' = TRUE /\ UNCHANGED <<fetching, reportError, answer>>
       ELSE fetching' = TRUE /\ reportError' = FALSE /\ answer' = "asked" /\ UNCHANGED missed
    /\ UNCHANGED <<columns, report, addressVars, tableVars, data>>

\* A report that has not finished has no rows, or is refused.
ReportReads ==
    /\ answer = "asked"
    /\ answer' \in IF report = "Finished" THEN {"usage", "fails"} ELSE {"empty", "fails"}
    /\ UNCHANGED <<columns, report, seenPhase, addressVars, tableVars, data, fetching, reportError, missed>>

\* A table that is shown again has all its heads anew.
ReportAnswered ==
    /\ answer \in {"empty", "usage", "fails"} /\ answer' = "none"
    /\ fetching' = FALSE
    /\ IF answer = "fails"
       THEN reportError' = TRUE /\ UNCHANGED <<data, orderArg, tableVars>>
       ELSE /\ data' = answer
            /\ orderArg' = HeadsMount(IF seenPhase = "Finished" THEN ToSet(FilterKeys(answer, By(reduceArg))) ELSE {}, sortArg)
            /\ MakeTable(answer, reduceArg, sortArg, orderArg')
            /\ UNCHANGED reportError
    /\ UNCHANGED <<columns, report, seenPhase, reduceArg, sortArg, missed>>

ChargebackNext ==
    \/ ReportEnds \/ PhaseArrives \/ ReportReads \/ ReportAnswered
    \/ \E k \in ReportField : GroupsBy(k) \/ SortsBy(k)

\* The request is answered, or given up, and the watch brings the report.
ChargebackFairness ==
    WF_chargebackVars(ReportReads \/ ReportAnswered) /\ WF_chargebackVars(PhaseArrives)

ChargebackSpec == ChargebackInit /\ [][ChargebackNext]_chargebackVars /\ ChargebackFairness

-----------------------------------------------------------------------------
ChargebackTypeOK ==
    /\ columns \in Columns /\ report \in ReportPhases /\ seenPhase \in ReportPhases
    /\ reduceArg \in ReportField \cup {""} /\ sortArg \in ReportField \cup {""}
    /\ orderArg \in {"", "asc", "desc"} /\ orderBy \in {"", "asc", "desc"}
    /\ reduceBy \in Reducers \cup {""} /\ sortBy \in ReportField \cup {""} /\ ToSet(keys) \subseteq ReportField
    /\ data \in {"none", "empty", "usage"} /\ fetching \in BOOLEAN /\ reportError \in BOOLEAN
    /\ answer \in {"none", "asked", "empty", "usage", "fails"} /\ missed \in BOOLEAN

\* A table is sorted by a column that it has, whatever heads and buttons were
\* clicked before and between two fetches (chargeback.tsx:218-225, 290).
SortIsShown == ReportScreen = "table" /\ keys # <<>> => sortBy \in ToSet(keys)

\* A finished report is shown with its usage, or an error is, unless it
\* finished while the fetch of before was in flight (chargeback.tsx:184).
ReportIsShown ==
    <>(seenPhase = "Finished") /\ []~missed => <>[](ReportScreen = "error" \/ (ReportScreen = "table" /\ data = "usage"))

\* Violated: the finish of a report during a fetch is not noticed.
FinishIsNoticed == <>(seenPhase = "Finished") => <>[](ReportScreen = "error" \/ (ReportScreen = "table" /\ data = "usage"))

\* Violated: the heads are in the order of the data, a row has the reducer
\* first, and "namespace" when there is none (chargeback.tsx:196, 286).
CellsFitHeads == ReportScreen = "table" /\ data = "usage" => Cells = keys
=============================================================================
