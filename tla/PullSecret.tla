----------------------------- MODULE PullSecret -----------------------------
(***************************************************************************)
(* The default pull secret of a namespace: the link of its page            *)
(* (src/frontend/public/components/namespace.jsx), read once, and the      *)
(* dialog behind it (modals/configure-ns-pull-secret-modal.jsx), which     *)
(* takes the secret apart into fields, or reads a file, and writes one     *)
(* secret back.  A secret is how many registries it names and what of the  *)
(* first one fits the form's fields.                                       *)
(***************************************************************************)
EXTENDS Integers, FiniteSets

CONSTANTS
    Credentials,  \* what can be typed: registry, user and password in one
    SecretName,   \* the names of secrets, numbers: the first one is shown
    MaxPullEdits, \* bound: changes by others
    MaxPullReads  \* bound: files read for one dialog

ASSUME PullAssumption ==
    /\ "" \notin Credentials /\ SecretName \subseteq Nat \ {0}
    /\ MaxPullEdits \in Nat /\ MaxPullReads \in Nat

VARIABLES
    pulls,      \* the secrets on the server, by name
    panel,      \* PullSecret: isLoading, and the secret it has read
    pullDialog, \* the dialog: its state and the state of its inputs
    pullReads,  \* the files being read for it
    pullSave,   \* the request in flight
    pullEdits   \* changes by others so far

pullVars == <<pulls, panel, pullDialog, pullReads, pullSave, pullEdits>>

\* What a secret holds; "null" is the text that no file gives.
Content == [auths : {"one"}, first : Credentials] \cup [auths : {"many"}, first : Credentials]
           \cup [auths : {"none", "null"}, first : {""}]
NoContent == [auths |-> "absent", first |-> ""]
TheNull == [auths |-> "null", first |-> ""]
Broken == [auths |-> "broken", first |-> ""]  \* a file that is named as JSON and is none
FileTexts == {c \in Content : c.auths = "one"} \cup {Broken}
NoPull == [name |-> 0, content |-> NoContent]

\* parseExisitingPullSecret: of several registries the first is shown, and all
\* that cannot be shown is reported as invalid.
Parsed(pull) ==
    [first |-> pull.content.first,
     warns |-> pull.name # 0 /\ pull.content.auths # "one"]

\* generateSecretData.
GenerateSecretData(first) == [auths |-> "one", first |-> first]

Closed == [open |-> FALSE, secret |-> NoPull, method |-> "form", first |-> "", fileData |-> NoContent,
           invalidJson |-> FALSE, busy |-> FALSE]

DialogOf(pull) == [Closed EXCEPT !.open = TRUE, !.secret = pull, !.first = Parsed(pull).first]

NoPullSave ==
    [at |-> "none", op |-> "create", name |-> 0, content |-> NoContent, warned |-> FALSE]

PullOpens(there) == 
    /\ pulls = there /\ panel = [isLoading |-> TRUE, data |-> NoPull]
    /\ pullDialog = Closed /\ pullReads = {} /\ pullSave = NoPullSave /\ pullEdits = 0

\* One secret at most is there.
PullInit == \E there \in UNION {[N -> Content] : N \in {M \in SUBSET SecretName : Cardinality(M) <= 1}} : PullOpens(there)

-----------------------------------------------------------------------------
(* The page *)

\* items[0] of the list.
FirstPull ==
    IF DOMAIN pulls = {} THEN NoPull
    ELSE LET n == CHOOSE m \in DOMAIN pulls : \A k \in DOMAIN pulls : m <= k
         IN  [name |-> n, content |-> pulls[n]]

\* load: an error is taken for no secret.
PanelLoads ==
    /\ panel.isLoading
    /\ \E data \in {FirstPull, NoPull} : panel' = [isLoading |-> FALSE, data |-> data]
    /\ UNCHANGED <<pulls, pullDialog, pullReads, pullSave, pullEdits>>

\* The page is left and comes back: the only way to read the secret again.
PageReturns ==
    /\ ~pullDialog.open /\ ~panel.isLoading
    /\ panel' = [isLoading |-> TRUE, data |-> NoPull]
    /\ UNCHANGED <<pulls, pullDialog, pullReads, pullSave, pullEdits>>

ClickLink ==
    /\ ~panel.isLoading /\ ~pullDialog.open /\ pullSave = NoPullSave
    /\ pullDialog' = DialogOf(panel.data)
    /\ UNCHANGED <<pulls, panel, pullReads, pullSave, pullEdits>>

-----------------------------------------------------------------------------
(* The dialog *)

TypeCredentials(first) ==
    /\ pullDialog.open /\ pullDialog.method = "form"
    /\ pullDialog' = [pullDialog EXCEPT !.first = first]
    /\ UNCHANGED <<pulls, panel, pullReads, pullSave, pullEdits>>

\* _onMethodChange: fields that are rendered again begin with their default.
MethodChange ==
    /\ pullDialog.open
    /\ pullDialog' = IF pullDialog.method = "form" THEN [pullDialog EXCEPT !.method = "upload", !.first = ""]
                     ELSE [pullDialog EXCEPT !.method = "form", !.first = Parsed(pullDialog.secret).first]
    /\ UNCHANGED <<pulls, panel, pullReads, pullSave, pullEdits>>

\* _onFileChange: fileData is none until the text is read.
ChoosePullFile(text) ==
    /\ pullDialog.open /\ pullDialog.method = "upload" /\ Cardinality(pullReads) < MaxPullReads
    /\ pullDialog' = [pullDialog EXCEPT !.fileData = NoContent, !.invalidJson = FALSE]
    /\ pullReads' = pullReads \cup {text}
    /\ UNCHANGED <<pulls, panel, pullSave, pullEdits>>

ChooseOtherType ==
    /\ pullDialog.open /\ pullDialog.method = "upload"
    /\ pullDialog' = [pullDialog EXCEPT !.fileData = NoContent, !.invalidJson = TRUE]
    /\ UNCHANGED <<pulls, panel, pullReads, pullSave, pullEdits>>

FileParsed(text) ==
    IF text = Broken THEN [pullDialog EXCEPT !.invalidJson = TRUE] ELSE [pullDialog EXCEPT !.fileData = text]

\* onload: files are read in any order.
PullFileRead(text) ==
    /\ pullDialog' = (IF pullDialog.open THEN FileParsed(text) ELSE pullDialog)
    /\ pullReads' = pullReads \ {text}
    /\ UNCHANGED <<pulls, panel, pullSave, pullEdits>>

\* What is sent: of no file, the text "null".
SecretData ==
    IF pullDialog.method = "form" THEN GenerateSecretData(pullDialog.first)
    ELSE IF pullDialog.fileData = NoContent THEN TheNull ELSE pullDialog.fileData

\* _submit: the secret the dialog was opened with is patched, or one created.
PullSubmit(name) ==
    /\ pullDialog.open /\ ~pullDialog.busy /\ pullSave = NoPullSave
    /\ pullDialog.method = "form" => pullDialog.first # ""
    /\ pullDialog.secret.name \in {0, name}
    /\ pullDialog' = [pullDialog EXCEPT !.busy = TRUE]
    /\ pullSave' = [at |-> "sent", op |-> IF pullDialog.secret.name = 0 THEN "create" ELSE "patch",
                    name |-> name, content |-> SecretData, warned |-> Parsed(pullDialog.secret).warns]
    /\ UNCHANGED <<pulls, panel, pullReads, pullEdits>>

\* The cancel button and Escape; the request goes on.
ClosePull ==
    /\ pullDialog.open
    /\ pullDialog' = Closed /\ pullReads' = {}
    /\ UNCHANGED <<pulls, panel, pullSave, pullEdits>>

-----------------------------------------------------------------------------
(* The server *)

With(name, content) == [n \in DOMAIN pulls \cup {name} |-> IF n = name THEN content ELSE pulls[n]]

ServerSaves ==
    /\ pullSave.at = "sent"
    /\ \/ /\ (pullSave.op = "patch") = (pullSave.name \in DOMAIN pulls)
          /\ pulls' = With(pullSave.name, pullSave.content) /\ pullSave' = [pullSave EXCEPT !.at = "done"]
       \/ pullSave' = [pullSave EXCEPT !.at = "failed"] /\ UNCHANGED pulls
    /\ UNCHANGED <<panel, pullDialog, pullReads, pullEdits>>

\* handlePromise, then close: the page is not told.
PullAnswered ==
    /\ pullSave.at \in {"done", "failed"}
    /\ pullSave' = NoPullSave
    /\ IF ~pullDialog.open \/ pullSave.at = "failed"
       THEN pullDialog' = [pullDialog EXCEPT !.busy = FALSE] /\ UNCHANGED pullReads
       ELSE pullDialog' = Closed /\ pullReads' = {}
    /\ UNCHANGED <<pulls, panel, pullEdits>>

OthersPull ==
    /\ pullEdits < MaxPullEdits
    /\ pullEdits' = pullEdits + 1
    /\ \/ \E n \in SecretName, c \in Content \ {TheNull} : pulls' = With(n, c)
       \/ \E n \in DOMAIN pulls : pulls' = [m \in DOMAIN pulls \ {n} |-> pulls[m]]
    /\ UNCHANGED <<panel, pullDialog, pullReads, pullSave>>

PullNext ==
    \/ PanelLoads \/ PageReturns \/ ClickLink
    \/ (\E first \in Credentials \cup {""} : TypeCredentials(first))
    \/ MethodChange \/ (\E text \in FileTexts : ChoosePullFile(text)) \/ ChooseOtherType
    \/ (\E text \in pullReads : PullFileRead(text))
    \/ (\E name \in SecretName : PullSubmit(name))
    \/ ClosePull \/ ServerSaves \/ PullAnswered \/ OthersPull

PullSpec == PullInit /\ [][PullNext]_pullVars

-----------------------------------------------------------------------------
PullTypeOK ==
    /\ DOMAIN pulls \subseteq SecretName /\ \A n \in DOMAIN pulls : pulls[n] \in Content
    /\ panel.isLoading \in BOOLEAN /\ pullDialog.method \in {"form", "upload"}
    /\ pullDialog.first \in Credentials \cup {""}
    /\ pullReads \subseteq FileTexts /\ pullEdits \in 0 .. MaxPullEdits

\* Whatever files are chosen, and however long their reading takes, what is
\* written is one the dialog has shown and parsed, or the text of no file
\* (configure-ns-pull-secret-modal.jsx:107-118).
UploadsParse == pullSave.at # "none" => pullSave.content \in Content

\* A dialog that writes over registries it does not show has said so ("Saving this will
\* overwrite it", line 177).  Violated: what it says is of the secret as the page read it,
\* which somebody may have given a second registry since.
LossIsAnnounced ==
    pullSave.at = "sent" /\ pullSave.op = "patch" /\ pullSave.name \in DOMAIN pulls
        /\ pulls[pullSave.name].auths # "one"
      => pullSave.warned
=============================================================================
