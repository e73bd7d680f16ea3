----------------------------- MODULE SecretForm -----------------------------
(***************************************************************************)
(* The forms that create and edit a key/value secret and an image secret   *)
(* (src/frontend/public/components/secrets/create-secret.tsx).  A row form *)
(* holds what is typed, the list of rows a copy of it, the image form the  *)
(* object made from the list, and the frame withSecretForm what a save     *)
(* sends.  A user name and its password are one value.                     *)
(***************************************************************************)
EXTENDS Integers, Sequences, SequencesExt

CONSTANTS
    Text,     \* what is typed into the first field of a row, its key or registry
    RowValue, \* and into the others
    MaxRows,  \* bound: rows of the list
    MaxUids   \* bound: rows the list ever had

ASSUME SecretAssumption == "" \notin Text \cup RowValue /\ MaxRows \in Nat \ {0} /\ MaxUids \in Nat

VARIABLES
    frame,   \* withSecretForm: kind of the form, isCreate, what a save sends
    rows,    \* the list: uid and entry of each row
    forms,   \* the state of each mounted row form
    uids,    \* uids given so far
    reading, \* the row whose file is being read, or 0
    image    \* ImageSecretForm, and the text of UploadConfigSubform

list == <<rows, forms, uids>>
secretVars == <<frame, list, reading, image>>

Json == ".dockerconfigjson"
Cfg == ".dockercfg"
Blank == [key |-> "", value |-> "", auth |-> ""]

\* A secret's contents: for each key, or registry, its value and its auth.
NoContents == [k \in {} |-> Blank]
ContentsOf(kind) ==
    UNION {{[k \in K |-> [value |-> f[k], auth |-> IF kind = "image" THEN f[k] ELSE ""]] :
               f \in [K -> RowValue]} : K \in {S \in SUBSET Text : IsFiniteSet(S)}}

\* imageSecretObjectToArray, genericSecretObjectToArray.
NewRows(contents, from) ==
    LET keys == SetToSeq(DOMAIN contents)
    IN  IF keys = <<>> THEN <<[uid |-> from + 1, entry |-> Blank]>>
        ELSE [i \in DOMAIN keys |->
                [uid |-> from + i,
                 entry |-> [key |-> keys[i], value |-> contents[keys[i]].value,
                            auth |-> contents[keys[i]].auth]]]

\* imageSecretArrayToObject, genericSecretArrayToObject: of two rows with the
\* same key the last one counts.
AsObject(rs) ==
    LET last(k) == CHOOSE i \in DOMAIN rs :
                     rs[i].entry.key = k /\ \A j \in i + 1 .. Len(rs) : rs[j].entry.key # k
    IN  [k \in {rs[i].entry.key : i \in DOMAIN rs} |->
           [value |-> rs[last(k)].entry.value, auth |-> rs[last(k)].entry.auth]]

-----------------------------------------------------------------------------
(* What is mounted: the list's rows are keyed by uid. *)

Row(rs, u) == rs[CHOOSE i \in DOMAIN rs : rs[i].uid = u]
UidsOf(rs) == {rs[i].uid : i \in DOMAIN rs}

\* A row form that is there keeps its state, a new one takes its entry.
Rendered(rs) ==
    [u \in UidsOf(rs) |-> IF u \in DOMAIN forms THEN forms[u] ELSE Row(rs, u).entry]

ListMounts(contents) ==
    /\ rows' = NewRows(contents, uids)
    /\ uids' = uids + Len(rows')
    /\ forms' = [u \in UidsOf(rows') |-> Row(rows', u).entry]

\* withSecretForm: type is the default one, whatever the secret's is.
NewFrame(kind, create, key, contents) ==
    [kind |-> kind, create |-> create, type |-> IF kind = "image" THEN Json ELSE "opaque",
     key |-> key, contents |-> contents, disabled |-> FALSE]

\* ImageSecretForm: dataKey is chosen once; key and contents are stringData;
\* json is isDockerconfigjson of the list.
NewImage(key, contents) ==
    [mode |-> "credentials", dataKey |-> key, key |-> key, contents |-> contents,
     json |-> key = Json \/ contents = NoContents, upload |-> "untouched"]

SecretOpens(kind, create, key, contents) ==
    /\ frame = NewFrame(kind, create, IF create \/ kind = "generic" THEN "" ELSE key, contents)
    /\ image = NewImage(key, contents)
    /\ rows = NewRows(contents, 0) /\ uids = Len(rows) /\ reading = 0
    /\ forms = [u \in UidsOf(rows) |-> Row(rows, u).entry]

SecretInit ==
    \E kind \in {"generic", "image"} :
        \/ SecretOpens(kind, TRUE, Json, NoContents)
        \/ \E key \in {Json, Cfg}, contents \in ContentsOf(kind) : SecretOpens(kind, FALSE, key, contents)

\* The secret changed: SecretLoadingWrapper makes another class of form, so
\* that React mounts it anew and what was typed is gone.
SecretUpdated ==
    /\ ~frame.create /\ uids < MaxUids
    /\ \E contents \in ContentsOf(frame.kind) :
         /\ uids + Cardinality(DOMAIN contents) <= MaxUids
         /\ frame' = NewFrame(frame.kind, FALSE, IF frame.kind = "image" THEN image.dataKey ELSE "", contents)
         /\ image' = NewImage(image.dataKey, contents)
         /\ ListMounts(contents)
    /\ reading' = 0

-----------------------------------------------------------------------------
(* The list *)

ListShown == frame.kind = "generic" \/ image.mode = "credentials"

\* Fault: the object is made from the list before the change.
Propagate_Before(rs) ==
    /\ frame' = [frame EXCEPT !.contents = AsObject(rows)]
    /\ UNCHANGED image

\* onDataChanged of the list's owners: a changed image secret is of the type
\* its key names, a changed key/value secret is opaque.
Propagate(rs) ==
    LET key == IF frame.kind = "generic" THEN "" ELSE IF image.json THEN Json ELSE Cfg
    IN  /\ frame' = [frame EXCEPT !.contents = AsObject(rs), !.key = key,
                                  !.type = IF frame.kind = "generic" THEN "opaque" ELSE key]
        /\ image' = IF frame.kind = "generic" THEN image
                    ELSE [image EXCEPT !.key = key, !.contents = AsObject(rs)]

ListChanges(rs) == rows' = rs /\ forms' = Rendered(rs) /\ Propagate(rs)

\* updateAuth: made from the state before the change.
UpdateAuth(form, field) ==
    IF frame.kind = "image" /\ field = "value" THEN form.value ELSE form.auth

\* A change of a row form, with its callbacks: id is the row's place.
RowChanges(id, form) ==
    /\ rows' = [rows EXCEPT ![id].entry = form]
    /\ forms' = [forms EXCEPT ![rows[id].uid] = form]
    /\ Propagate(rows')

RowTyped(i, field, text) ==
    /\ ListShown
    /\ LET form == forms[rows[i].uid]
       IN  RowChanges(i, [form EXCEPT ![field] = text, !.auth = UpdateAuth(form, field)])
    /\ UNCHANGED <<uids, reading>>

AddRow ==
    /\ ListShown /\ Len(rows) < MaxRows /\ uids < MaxUids
    /\ ListChanges(Append(rows, [uid |-> uids + 1, entry |-> Blank]))
    /\ uids' = uids + 1
    /\ UNCHANGED reading

RemoveRow(i) ==
    /\ ListShown /\ Len(rows) > 1
    /\ ListChanges(RemoveAt(rows, i))
    /\ UNCHANGED <<uids, reading>>

\* A file is chosen or dropped: a reader is started for this row.
ChooseFile(i) ==
    /\ frame.kind = "generic" /\ reading = 0
    /\ reading' = rows[i].uid
    /\ UNCHANGED <<frame, list, image>>

\* onload: a row form that is gone ignores it.
FileRead(text) ==
    /\ reading # 0
    /\ reading' = 0
    /\ IF \E i \in DOMAIN rows : rows[i].uid = reading
       THEN \E i \in DOMAIN rows :
              rows[i].uid = reading /\ RowChanges(i, [forms[reading] EXCEPT !.value = text])
       ELSE UNCHANGED <<frame, rows, forms, image>>
    /\ UNCHANGED uids

-----------------------------------------------------------------------------
(* The uploaded configuration of an image secret *)

\* What the image form hands to the subform, unless it is undefined.
HasData == image.key = image.dataKey

\* changeFormType: the list cannot be mounted without data.
ChangeFormType ==
    /\ frame.kind = "image" /\ frame.create /\ image.mode # "crashed"
    /\ IF image.mode = "credentials"
       THEN /\ image' = [image EXCEPT !.mode = "config-file", !.upload = "untouched"]
            /\ UNCHANGED list
       ELSE IF HasData
       THEN /\ uids + Cardinality(DOMAIN image.contents) < MaxUids
            /\ image' = [image EXCEPT !.mode = "credentials", !.json = TRUE]
            /\ ListMounts(image.contents)
       ELSE image' = [image EXCEPT !.mode = "crashed"] /\ UNCHANGED list
    /\ UNCHANGED <<frame, reading>>

\* The text is replaced; JSON without auths, and an error, is the old format.
Upload(text, key, contents) ==
    /\ image.mode = "config-file"
    /\ image' = [image EXCEPT !.key = key, !.contents = contents, !.upload = text]
    /\ frame' = [frame EXCEPT !.key = key, !.type = key, !.contents = contents, !.disabled = text = "bad"]
    /\ UNCHANGED <<list, reading>>

SecretNext ==
    \/ SecretUpdated
    \/ (\E i \in DOMAIN rows : \/ RemoveRow(i) \/ ChooseFile(i)
                               \/ (\E text \in Text : RowTyped(i, "key", text))
                               \/ (\E text \in RowValue : RowTyped(i, "value", text)))
    \/ AddRow \/ (\E text \in RowValue : FileRead(text))
    \/ ChangeFormType
    \/ Upload("bad", Cfg, NoContents)
    \/ \E key \in {Json, Cfg}, contents \in ContentsOf("image") : Upload("good", key, contents)

SecretSpec == SecretInit /\ [][SecretNext]_secretVars

-----------------------------------------------------------------------------
SecretTypeOK ==
    /\ frame.kind \in {"generic", "image"} /\ frame.key \in {"", Json, Cfg}
    /\ frame.type \in {"opaque", Json, Cfg}
    /\ rows # <<>> /\ uids \in Nat \ {0} /\ reading \in 0 .. uids
    /\ DOMAIN forms = UidsOf(rows) /\ UidsOf(rows) \subseteq 1 .. uids
    /\ image.mode \in {"credentials", "config-file", "crashed"}
    /\ image.upload \in {"untouched", "good", "bad"}

\* Every row on the screen is the entry of the list at its place, whatever
\* rows were added, removed or filled from a file that took its time
\* (create-secret.tsx:446-458, 758-771).
RowsAreTheForms == ListShown => \A i \in DOMAIN rows : forms[rows[i].uid] = rows[i].entry

\* A form whose required fields are filled can be saved.
CanSave ==
    /\ ~frame.disabled
    /\ IF ListShown THEN \A i \in DOMAIN rows : rows[i].entry.key # "" /\ rows[i].entry.value # ""
       ELSE image.mode = "config-file" /\ (image.upload = "good" \/ image.contents # NoContents)

\* A save sends what is on the screen, for every registry or key in one piece,
\* through both ways to enter an image secret (create-secret.tsx:142-155).
ListIsSent ==
    CanSave =>
        IF ListShown THEN frame.contents = AsObject([i \in DOMAIN rows |-> [rows[i] EXCEPT !.entry = forms[rows[i].uid]]])
        ELSE frame.contents = image.contents /\ frame.type = image.key

\* The auth of a registry is made from its user name and password
\* (create-secret.tsx:309-314).
AuthIsCurrent == \A i \in DOMAIN rows : rows[i].entry.auth \in {"", rows[i].entry.value}

\* A configuration file in the old format, which may be uploaded, is no end of
\* the page (create-secret.tsx:264-276).
FormSurvives == image.mode # "crashed"
=============================================================================
