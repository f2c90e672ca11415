----------------------------- MODULE ConfigStore -----------------------------
(***************************************************************************)
(* The configuration (lib/config), the web task's requests that change it, *)
(* the factory-reset button and the custom device files.                   *)
(*                                                                         *)
(* Config keeps one document in RAM and one file.  A writer sets field     *)
(* after field in the live document, and save() validates it and writes it *)
(* out.  configMutex is created and never taken, so the web task and the   *)
(* button task interleave between any two of these steps; power may fail   *)
(* at any of them.                                                         *)
(***************************************************************************)
EXTENDS Integers, Sequences

CONSTANTS
    Stems,       \* names of device files, without their suffixes
    MaxForms     \* bound: forms submitted

ASSUME MaxFormsAssumption == MaxForms \in Nat
ASSUME StemsAssumption == "builtin" \notin Stems

(* A file name is a stem and the number of ".json" suffixes after it.      *)
Name(s, n) == [stem |-> s, suffixes |-> n]
Names == [stem : Stems, suffixes : 0..2]
(* isSafeDeviceFilename: a device file has at least one suffix.            *)
UploadNames == {f \in Names : f.suffixes >= 1}

(* A model is "json:" and a name, or built in.                             *)
Builtin == Name("builtin", 0)
Models == {Builtin} \cup Names
(* One field stands for all that validate() compares with fixed values.    *)
Serials == {"default", "other", "bad"}
Levels == {"info", "debug"}
Config == [serial : Serials, model : Models, level : Levels]
Defaults == [serial |-> "default", model |-> Builtin, level |-> "info"]

Tasks == {"web", "button"}

VARIABLES
    power,       \* "off", "booting" or "up"
    file,        \* is /config.json "absent", "empty" or "full"
    content,     \* what a full one holds
    devices,     \* names of the files in /devices
    config,      \* the live document
    pc, job,     \* per task: its next step, and what it is doing
    todo,        \* per task: fields still to set
    target,      \* per task: the values to set them to
    reply,       \* what the last form or reset was told
    forms,       \* forms submitted (MaxForms)
    asked,       \* history: what was asked for since the last factory reset
    uploaded,    \* history: names ever uploaded
    contended    \* history: two writers were at work at once

storage == <<file, content, devices>>
work == <<pc, job, todo, target>>
history == <<asked, uploaded, contended>>
vars == <<power, storage, config, work, reply, forms, history>>

FormOrder == <<"serial", "model", "level">>
(* Mutants of DefaultsOrder: a field forgotten; a key misspelt.            *)
DefaultsWithoutModel == <<"level", "serial">>
DefaultsMisspelt == <<"level", "serial", "device">>
DefaultsOrder == <<"level", "serial", "model">>
Wanted(c) == <<c.serial, c.model>>

Idle == /\ pc' = [t \in Tasks |-> "idle"] /\ job' = [t \in Tasks |-> "none"]
        /\ todo' = [t \in Tasks |-> <<>>] /\ target' = [t \in Tasks |-> Defaults]

Init ==
    /\ power = "off" /\ file = "absent" /\ content = Defaults /\ devices = {} /\ config = Defaults
    /\ pc = [t \in Tasks |-> "idle"] /\ job = [t \in Tasks |-> "none"]
    /\ todo = [t \in Tasks |-> <<>>] /\ target = [t \in Tasks |-> Defaults]
    /\ reply = "none" /\ forms = 0
    /\ asked = {Wanted(Defaults)} /\ uploaded = {} /\ contended = FALSE

-----------------------------------------------------------------------------
(* isValidDeviceModel looks for the name with one more suffix.             *)
isValidDeviceModel(m, present) ==
    m = Builtin \/ Name(m.stem, m.suffixes + 1) \in present

validate(c, present) ==
    isValidDeviceModel(c.model, present) /\ c.serial # "bad"

(* load(): a missing file is created from the defaults, an unreadable one  *)
(* is left as it is; what validate() says of a readable one is ignored.    *)
Load ==
    /\ power = "off"
    /\ config' = IF file = "full" THEN content ELSE Defaults
    /\ IF file = "absent"
       THEN /\ power' = "booting"
            /\ pc' = [pc EXCEPT !["web"] = "validate"]
            /\ job' = [job EXCEPT !["web"] = "boot"]
       ELSE power' = "up" /\ UNCHANGED <<pc, job>>
    /\ UNCHANGED <<storage, todo, target, reply, forms, history>>

Writing(t) == pc[t] \notin {"idle", "restart"}
Begin(t, j, order, values) ==
    /\ power = "up" /\ pc[t] = "idle"
    /\ pc' = [pc EXCEPT ![t] = "set"] /\ job' = [job EXCEPT ![t] = j]
    /\ todo' = [todo EXCEPT ![t] = order]
    /\ target' = [target EXCEPT ![t] = values]
    /\ contended' = (contended \/ \E u \in Tasks \ {t} : Writing(u))

(* handleSave: the page offers the built-in models and the files present;  *)
(* the other fields are whatever the form holds.                           *)
SubmitForm ==
    /\ forms < MaxForms /\ forms' = forms + 1
    /\ \E c \in Config :
          /\ c.model \in {Builtin} \cup devices
          /\ Begin("web", "form", FormOrder, c)
          /\ asked' = asked \cup {Wanted(c)}
    /\ reply' = "none"
    /\ UNCHANGED <<power, storage, config, uploaded>>

(* factoryReset(), from the page or from the button held for 10 s.         *)
FactoryReset(t) ==
    /\ Begin(t, "reset", DefaultsOrder, Defaults)
    /\ file' = "absent"
    /\ asked' = {Wanted(Defaults)}
    /\ reply' = "none"
    /\ UNCHANGED <<power, content, devices, config, forms, uploaded>>

(* handleLogConfig sets the level, saves, and reports success regardless.  *)
SetLogLevel ==
    /\ \E l \in Levels :
          Begin("web", "level", <<"level">>, [Defaults EXCEPT !.level = l])
    /\ UNCHANGED <<power, storage, config, reply, forms, asked, uploaded>>

SetField(t) ==
    /\ pc[t] = "set" /\ todo[t] # <<>>
    /\ config' = [config EXCEPT ![Head(todo[t])] = target[t][Head(todo[t])]]
    /\ todo' = [todo EXCEPT ![t] = Tail(@)]
    /\ UNCHANGED <<power, storage, pc, job, target, reply, forms, history>>

FieldsSet(t) ==
    /\ pc[t] = "set" /\ todo[t] = <<>>
    /\ pc' = [pc EXCEPT ![t] = "validate"]
    /\ UNCHANGED <<power, storage, config, job, todo, target, reply, forms,
                   history>>

(* save(): the rejected values stay in the live document.  Mutant of Save: *)
(* it does not ask validate().                                             *)
SaveUnchecked(t) ==
    /\ pc[t] = "validate"
    /\ pc' = [pc EXCEPT ![t] = "open"]
    /\ UNCHANGED <<power, storage, config, job, todo, target, reply, forms,
                   history>>

Save(t) ==
    /\ pc[t] = "validate" /\ validate(config, devices)
    /\ pc' = [pc EXCEPT ![t] = "open"]
    /\ UNCHANGED <<power, storage, config, job, todo, target, reply, forms,
                   history>>

SaveRefused(t) ==
    /\ pc[t] = "validate" /\ ~validate(config, devices)
    /\ pc' = [pc EXCEPT ![t] = "idle"]
    /\ reply' = IF job[t] \in {"form", "reset"} THEN "failed" ELSE reply
    /\ power' = "up"
    /\ UNCHANGED <<storage, config, job, todo, target, forms, history>>

(* open("w") creates a missing file; what an existing one held stays in    *)
(* the file system until it is closed.                                     *)
OpenFile(t) ==
    /\ pc[t] = "open" /\ pc' = [pc EXCEPT ![t] = "write"]
    /\ file' = IF file = "absent" THEN "empty" ELSE file
    /\ UNCHANGED <<power, content, devices, config, job, todo, target, reply,
                   forms, history>>

WriteFile(t) ==
    /\ pc[t] = "write" /\ file' = "full" /\ content' = config
    /\ IF job[t] \in {"form", "reset"}
       THEN pc' = [pc EXCEPT ![t] = "restart"] /\ reply' = "saved"
       ELSE pc' = [pc EXCEPT ![t] = "idle"] /\ UNCHANGED reply
    /\ power' = "up"
    /\ UNCHANGED <<devices, config, job, todo, target, forms, history>>

WriterStep(t) == SetField(t) \/ FieldsSet(t) \/ Save(t) \/ SaveRefused(t)
                 \/ OpenFile(t) \/ WriteFile(t)

(* ESP.restart() after a successful save, or when power fails.             *)
Restart ==
    /\ power # "off" /\ power' = "off"
    /\ Idle /\ config' = Defaults /\ reply' = "none"
    /\ UNCHANGED <<storage, forms, history>>

(* The device manager of the diagnostics page, on the web task.            *)
UploadDevice ==
    /\ power = "up" /\ pc["web"] = "idle"
    /\ \E f \in UploadNames :
          devices' = devices \cup {f} /\ uploaded' = uploaded \cup {f}
    /\ UNCHANGED <<power, file, content, config, work, reply, forms, asked, contended>>

DeleteDevice ==
    /\ power = "up" /\ pc["web"] = "idle"
    /\ \E f \in devices : devices' = devices \ {f}
    /\ UNCHANGED <<power, file, content, config, work, reply, forms, history>>

Next ==
    \/ Load \/ Restart \/ SubmitForm \/ SetLogLevel
    \/ UploadDevice \/ DeleteDevice
    \/ \E t \in Tasks : FactoryReset(t) \/ WriterStep(t)

Spec == Init /\ [][Next]_vars

-----------------------------------------------------------------------------
Fields == {"serial", "model", "level"}
TypeOK ==
    /\ power \in {"off", "booting", "up"}
    /\ file \in {"absent", "empty", "full"} /\ content \in Config
    /\ devices \subseteq Names /\ uploaded \subseteq Names
    /\ config \in Config
    /\ pc \in [Tasks -> {"idle", "set", "validate", "open", "write", "restart"}]
    /\ job \in [Tasks -> {"none", "boot", "form", "reset", "level"}]
    /\ todo \in [Tasks -> Seq(Fields)] /\ target \in [Tasks -> Config]
    /\ reply \in {"none", "saved", "failed"}
    /\ forms \in 0..MaxForms
    /\ asked \subseteq Serials \X Models
    /\ contended \in BOOLEAN

(* A file holds one request whole, whatever step power fails at: never the *)
(* serial settings of one and the model of another, and nothing from       *)
(* before a factory reset.  Two writers at once may mix theirs: the mutex  *)
(* that "protects against concurrent read/write" (main.cpp:39) is unused.  *)
FileIsWhole ==
    file = "full" /\ ~contended => Wanted(content) \in asked

(* What is in the file passed validate(): it boots into valid settings,    *)
(* though its device file may have been deleted since.                     *)
SavedIsValid ==
    file = "full" /\ ~contended => validate(content, uploaded)

(* "Upload it via the Diagnostics page", "Select your device from the      *)
(* Config page dropdown", "Save and reboot" (README.md:255-257): a device  *)
(* the page offered can be saved.                                          *)
OfferedCanBeSaved ==
    reply = "failed" /\ job["web"] = "form" /\ ~contended
        => target["web"].serial = "bad"
=============================================================================
