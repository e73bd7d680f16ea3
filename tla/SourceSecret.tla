---------------------------- MODULE SourceSecret ----------------------------
(***************************************************************************)
(* The forms of source and webhook secrets                                 *)
(* (src/frontend/public/components/secrets/create-secret.tsx).  What is    *)
(* typed into a subform is copied to SourceSecretForm and from there to    *)
(* the frame withSecretForm, whose copy a save sends.  A key may be read   *)
(* from a file, and the secret may change on the server meanwhile.         *)
(***************************************************************************)
EXTENDS Integers

CONSTANTS
    Word,      \* what is typed into a field
    MaxWrites  \* bound: versions of the secret on the server

ASSUME SourceAssumption == Word # {} /\ "" \notin Word /\ MaxWrites \in Nat

VARIABLES
    secret,     \* the secret on the server; version 0 before it is created
    frameState, \* withSecretForm: isCreate, the abstraction, what a save sends
    subform,    \* SourceSecretForm or WebHookSecretForm: type, copy, fields
    keyRead,    \* a file is being read for the key
    saving      \* the save in flight, or how it ended

sourceVars == <<secret, frameState, subform, keyRead, saving>>

FieldsOf(type) ==
    CASE type = "basic" -> {"username", "password"}
      [] type = "ssh" -> {"ssh-privatekey"}
      [] OTHER -> {"WebHookSecretKey"}

\* What a save is refused without: the user name is optional.
Required == {"password", "ssh-privatekey", "WebHookSecretKey"}

\* The data of a secret of this type, which may hold a key no form shows.
DataOf(type) ==
    UNION {[K -> Word] : K \in {L \in SUBSET (FieldsOf(type) \cup {"ca.crt"}) : L \cap Required # {}}}

Field(data, f) == IF f \in DOMAIN data THEN data[f] ELSE ""

\* BasicAuthSubform, SSHAuthSubform: the fields as they are when mounted.
MountedFields(type, data) == [f \in FieldsOf(type) |-> Field(data, f)]

\* toTypeAbstraction: a webhook secret has that key and no other.
Abstraction(s) ==
    IF s.type \in {"basic", "ssh"} THEN "source"
    ELSE IF DOMAIN s.data = {"WebHookSecretKey"} THEN "webhook" ELSE "generic"

\* toDefaultSecretType.
DefaultType(abstraction) == IF abstraction = "source" THEN "basic" ELSE "opaque"

\* The constructor: type is the default one, whatever the secret's is.
FrameOf(create, abstraction, s) ==
    [create |-> create, abstraction |-> abstraction, ver |-> s.ver,
     type |-> DefaultType(abstraction), obj |-> s.data, data |-> s.data, touched |-> FALSE]

\* text is what the file input shows, a copy of its own.
SubformOf(s) ==
    [type |-> s.type, data |-> s.data, fields |-> MountedFields(s.type, s.data),
     text |-> Field(s.data, "ssh-privatekey")]

NoData == [f \in {} |-> ""]
NoSecretSave == [at |-> "none", type |-> "", data |-> NoData, ver |-> 0, base |-> NoData]

NewSecretOf(abstraction) == [type |-> DefaultType(abstraction), data |-> NoData, ver |-> 0]

SourceOpens(create, abstraction, s) ==
    /\ secret = s
    /\ frameState = FrameOf(create, abstraction, s) /\ subform = SubformOf(s)
    /\ keyRead = FALSE /\ saving = NoSecretSave

SourceInit ==
    \/ \E a \in {"source", "webhook"} : SourceOpens(TRUE, a, NewSecretOf(a))
    \/ \E type \in {"basic", "ssh", "opaque"} : \E data \in DataOf(type) :
         LET s == [type |-> type, data |-> data, ver |-> 1]
         IN  Abstraction(s) # "generic" /\ SourceOpens(FALSE, Abstraction(s), s)

OnPage == saving.at # "left"

-----------------------------------------------------------------------------
(* The fields *)

\* onChange of a subform, onDataChanged of SourceSecretForm and of the frame:
\* a webhook's form names no type.
Changed(fields) ==
    /\ subform' = [subform EXCEPT !.fields = fields, !.data = fields, !.text = Field(fields, "ssh-privatekey")]
    /\ frameState' = [frameState EXCEPT !.data = fields, !.touched = TRUE,
                        !.type = IF frameState.abstraction = "webhook" THEN "unset" ELSE subform.type]

\* Typed, or generated for a webhook.
TypeField(f, text) ==
    /\ OnPage
    /\ Changed([subform.fields EXCEPT ![f] = text])
    /\ UNCHANGED <<secret, keyRead, saving>>

ReadKey ==
    /\ OnPage /\ subform.type = "ssh" /\ ~keyRead
    /\ keyRead' = TRUE
    /\ UNCHANGED <<secret, frameState, subform, saving>>

KeyIsRead(text) ==
    /\ keyRead
    /\ keyRead' = FALSE
    /\ Changed([subform.fields EXCEPT !["ssh-privatekey"] = text])
    /\ UNCHANGED <<secret, saving>>

\* handleFileDrop: the file input is emptied, its parent does not hear of it.
DropTooLarge ==
    /\ OnPage /\ subform.type = "ssh"
    /\ subform' = [subform EXCEPT !.text = ""]
    /\ UNCHANGED <<secret, frameState, keyRead, saving>>

\* changeAuthenticationType: the other subform is mounted with the same data,
\* and what is read for the one that is gone is ignored.
ChangeAuthenticationType ==
    /\ OnPage /\ frameState.create /\ frameState.abstraction = "source"
    /\ LET type == IF subform.type = "basic" THEN "ssh" ELSE "basic"
       IN  /\ subform' = [type |-> type, data |-> subform.data, fields |-> MountedFields(type, subform.data),
                          text |-> Field(subform.data, "ssh-privatekey")]
           /\ frameState' = [frameState EXCEPT !.type = type, !.data = subform.data, !.touched = TRUE]
    /\ keyRead' = FALSE
    /\ UNCHANGED <<secret, saving>>

-----------------------------------------------------------------------------
(* The secret on the server *)

OthersWriteSecret ==
    /\ ~frameState.create /\ secret.ver < MaxWrites
    /\ \E data \in DataOf(secret.type) :
         secret' = [secret EXCEPT !.data = data, !.ver = @ + 1]
    /\ Abstraction(secret') # "generic"
    /\ UNCHANGED <<frameState, subform, keyRead, saving>>

\* SecretLoadingWrapper: a new class of form, which is mounted anew.
SecretArrives ==
    /\ OnPage /\ ~frameState.create /\ frameState.ver # secret.ver
    /\ Abstraction(secret) # "generic"
    /\ frameState' = FrameOf(FALSE, Abstraction(secret), secret)
    /\ subform' = SubformOf(secret)
    /\ keyRead' = FALSE
    /\ UNCHANGED <<secret, saving>>

ShownField(f) == IF f = "ssh-privatekey" THEN subform.text ELSE subform.fields[f]

Savable == \A f \in FieldsOf(subform.type) \cap Required : ShownField(f) # ""

\* The metadata are those of the secret the form was mounted with; base is
\* what was in it.
NewSecret ==
    [at |-> "sent", type |-> frameState.type, data |-> frameState.data, ver |-> frameState.ver,
     base |-> frameState.obj]

\* save: one at a time here.
SaveSecret ==
    /\ OnPage /\ Savable /\ saving.at \in {"none", "refused"} /\ secret.ver <= MaxWrites
    /\ saving' = NewSecret
    /\ UNCHANGED <<secret, frameState, subform, keyRead>>

\* The type of a secret that names none, and never changes.
TypeSent == IF saving.type \in {"unset", "opaque"} THEN "opaque" ELSE saving.type

StoresSecret ==
    /\ saving.at = "sent"
    /\ \/ /\ saving.ver = secret.ver /\ (secret.ver > 0 => TypeSent = secret.type)
          /\ secret' = [type |-> TypeSent, data |-> saving.data, ver |-> secret.ver + 1]
          /\ saving' = [saving EXCEPT !.at = "stored"]
       \/ saving' = [saving EXCEPT !.at = "refusing"] /\ UNCHANGED secret
    /\ UNCHANGED <<frameState, subform, keyRead>>

\* history.push leaves the page; an error leaves it as it is.
SaveAnswered ==
    /\ saving.at \in {"stored", "refusing"}
    /\ saving' = [NoSecretSave EXCEPT !.at = IF saving.at = "stored" THEN "left" ELSE "refused"]
    /\ keyRead' = (keyRead /\ saving.at = "refusing")
    /\ UNCHANGED <<secret, frameState, subform>>

SourceNext ==
    \/ (\E f \in DOMAIN subform.fields, text \in Word \cup {""} : TypeField(f, text))
    \/ ReadKey \/ (\E text \in Word : KeyIsRead(text)) \/ DropTooLarge \/ ChangeAuthenticationType
    \/ OthersWriteSecret \/ SecretArrives \/ SaveSecret \/ StoresSecret \/ SaveAnswered

SourceSpec == SourceInit /\ [][SourceNext]_sourceVars

-----------------------------------------------------------------------------
SourceTypeOK ==
    /\ secret.type \in {"basic", "ssh", "opaque"} /\ secret.ver \in 0 .. MaxWrites + 1
    /\ frameState.abstraction \in {"source", "webhook"} /\ frameState.type \in {"basic", "ssh", "opaque", "unset"}
    /\ DOMAIN subform.fields = FieldsOf(subform.type) /\ subform.text \in Word \cup {""}
    /\ keyRead \in BOOLEAN /\ (keyRead => subform.type = "ssh")
    /\ saving.at \in {"none", "sent", "stored", "refusing", "refused", "left"}

\* What a save sends is on the screen, whatever was typed, read from a file,
\* dropped or switched before; the type is the form's as soon as one touches it
\* (create-secret.tsx:120-125, 587-596).
SourceIsWhatIsShown ==
    OnPage /\ Savable =>
        /\ \A f \in FieldsOf(subform.type) : Field(frameState.data, f) = ShownField(f)
        /\ frameState.touched => frameState.type \in {subform.type, "unset"}

\* A save replaces no contents of the secret but those the form was made from
\* (create-secret.tsx:97, 142-148).
NoSecretIsLost ==
    [][saving.at = "sent" /\ saving'.at = "stored" /\ secret.ver > 0 => saving.base = secret.data]_sourceVars
=============================================================================
