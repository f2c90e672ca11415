-------------------------- MODULE ConfigStore_proofs --------------------------
(***************************************************************************)
(* Proofs about ConfigStore, for any device files and any number of forms. *)
(***************************************************************************)
EXTENDS ConfigStore, TLAPS

(* A writer past validate() has a valid document until it has written it,  *)
(* because without contention nobody else is setting fields meanwhile.     *)
Checked == \A t \in Tasks : pc[t] \in {"open", "write"} => validate(config, uploaded)
Alone == \A t, u \in Tasks : Writing(t) /\ Writing(u) => t = u
NobodyYet ==
    /\ power # "up" => pc["button"] = "idle"
    /\ power = "off" => pc["web"] = "idle"

ConfigInv ==
    /\ TypeOK
    /\ devices \subseteq uploaded
    /\ NobodyYet
    /\ ~contended => Checked /\ Alone
    /\ SavedIsValid

(* A document that is valid stays so when files are added.                 *)
LEMMA ValidMonotone ==
    ASSUME NEW c, NEW S, NEW T, S \subseteq T, validate(c, S)
    PROVE  validate(c, T)
  BY DEF validate, isValidDeviceModel

LEMMA DefaultsValid == Defaults \in Config /\ \A S : validate(Defaults, S)
  BY DEF Defaults, Config, Serials, Models, Levels, Builtin, validate,
         isValidDeviceModel

LEMMA ConfigInvInit == Init => ConfigInv
<1> SUFFICES ASSUME Init PROVE ConfigInv
  OBVIOUS
<1>1. <<>> \in Seq(Fields) /\ 0 \in 0..MaxForms
  BY MaxFormsAssumption
<1>2. asked \subseteq Serials \X Models
  BY DEF Init, Wanted, Defaults, Serials, Models
<1>3. TypeOK
  BY <1>1, <1>2, DefaultsValid DEF Init, TypeOK
<1>4. NobodyYet /\ Checked /\ Alone /\ SavedIsValid
  BY DEF Init, NobodyYet, Checked, Alone, SavedIsValid, Writing, Tasks
<1> QED
  BY <1>3, <1>4 DEF ConfigInv, Init

(* A writer that starts alone is alone.                                    *)
LEMMA BeginKeeps ==
    ASSUME ConfigInv, NEW t \in Tasks, NEW j \in {"form", "reset", "level"},
           NEW order \in Seq(Fields), NEW values \in Config,
           Begin(t, j, order, values), power' = power, uploaded' = uploaded,
           config' = config
    PROVE  /\ pc' \in [Tasks -> {"idle", "set", "validate", "open", "write",
                                 "restart"}]
           /\ job' \in [Tasks -> {"none", "boot", "form", "reset", "level"}]
           /\ todo' \in [Tasks -> Seq(Fields)] /\ target' \in [Tasks -> Config]
           /\ contended' \in BOOLEAN
           /\ NobodyYet'
           /\ ~contended' => Checked' /\ Alone'
<1> USE DEF ConfigInv, TypeOK
<1>1. pc' \in [Tasks -> {"idle", "set", "validate", "open", "write", "restart"}]
  BY DEF Begin
<1>2. job' \in [Tasks -> {"none", "boot", "form", "reset", "level"}]
  BY DEF Begin
<1>3. todo' \in [Tasks -> Seq(Fields)]
  BY DEF Begin
<1>4. target' \in [Tasks -> Config]
  BY DEF Begin
<1>5. contended' \in BOOLEAN
  BY DEF Begin
<1>6. NobodyYet'
  BY DEF Begin, NobodyYet
<1>7. ASSUME ~contended' PROVE Checked' /\ Alone'
  <2>1. ~contended /\ \A u \in Tasks \ {t} : ~Writing(u)
    BY <1>7 DEF Begin
  <2>2. \A u \in Tasks \ {t} : pc'[u] = pc[u]
    BY DEF Begin
  <2>3. pc'[t] = "set"
    BY DEF Begin
  <2>4. Checked'
    BY <2>1, <2>2, <2>3 DEF Checked
  <2>5. Alone'
    BY <2>1, <2>2, <2>3 DEF Alone, Writing
  <2> QED
    BY <2>4, <2>5
<1> QED
  BY <1>1, <1>2, <1>3, <1>4, <1>5, <1>6, <1>7

LEMMA RequestsKeep ==
    ASSUME ConfigInv,
           SubmitForm \/ SetLogLevel \/ \E t \in Tasks : FactoryReset(t)
    PROVE  ConfigInv'
<1> USE DEF ConfigInv
<1>1. FormOrder \in Seq(Fields) /\ DefaultsOrder \in Seq(Fields)
      /\ <<"level">> \in Seq(Fields) /\ "web" \in Tasks
  BY DEF FormOrder, DefaultsOrder, Fields, Tasks
<1>2. CASE SubmitForm
  <2>1. PICK c \in Config : /\ Begin("web", "form", FormOrder, c)
                            /\ asked' = asked \cup {Wanted(c)}
    BY <1>2 DEF SubmitForm
  <2>2. asked' \subseteq Serials \X Models
    BY <2>1 DEF TypeOK, Wanted, Config
  <2>3. forms' \in 0..MaxForms
    BY <1>2, MaxFormsAssumption DEF TypeOK, SubmitForm
  <2>4. UNCHANGED <<power, file, content, devices, config, uploaded>>
        /\ reply' = "none"
    BY <1>2 DEF SubmitForm, storage
  <2>5. TypeOK'
    BY <1>1, <2>1, <2>2, <2>3, <2>4, BeginKeeps DEF TypeOK
  <2>6. NobodyYet' /\ (~contended' => Checked' /\ Alone')
    BY <1>1, <2>1, <2>4, BeginKeeps
  <2>7. SavedIsValid'
    BY <2>1, <2>4 DEF SavedIsValid, Begin
  <2> QED
    BY <2>4, <2>5, <2>6, <2>7
<1>3. CASE SetLogLevel
  <2>1. PICK l \in Levels :
            Begin("web", "level", <<"level">>, [Defaults EXCEPT !.level = l])
    BY <1>3 DEF SetLogLevel
  <2>2. [Defaults EXCEPT !.level = l] \in Config
    BY DefaultsValid DEF Config
  <2>3. UNCHANGED <<power, file, content, devices, config, reply, forms, asked,
                    uploaded>>
    BY <1>3 DEF SetLogLevel, storage
  <2>4. TypeOK'
    BY <1>1, <2>1, <2>2, <2>3, BeginKeeps DEF TypeOK
  <2>5. NobodyYet' /\ (~contended' => Checked' /\ Alone')
    BY <1>1, <2>1, <2>2, <2>3, BeginKeeps
  <2>6. SavedIsValid'
    BY <2>1, <2>3 DEF SavedIsValid, Begin
  <2> QED
    BY <2>3, <2>4, <2>5, <2>6
<1>4. ASSUME NEW t \in Tasks, FactoryReset(t) PROVE ConfigInv'
  <2>1. Begin(t, "reset", DefaultsOrder, Defaults) /\ file' = "absent"
        /\ asked' = {Wanted(Defaults)} /\ reply' = "none"
        /\ UNCHANGED <<power, content, devices, config, forms, uploaded>>
    BY <1>4 DEF FactoryReset
  <2>2. asked' \subseteq Serials \X Models
    BY <2>1 DEF Wanted, Defaults, Serials, Models
  <2>3. TypeOK'
    BY <1>1, <2>1, <2>2, BeginKeeps, DefaultsValid DEF TypeOK
  <2>4. NobodyYet' /\ (~contended' => Checked' /\ Alone')
    BY <1>1, <2>1, BeginKeeps, DefaultsValid
  <2>5. SavedIsValid'
    BY <2>1 DEF SavedIsValid
  <2> QED
    BY <2>1, <2>3, <2>4, <2>5
<1> QED
  BY <1>2, <1>3, <1>4

LEMMA WriterKeeps ==
    ASSUME ConfigInv, NEW t \in Tasks, WriterStep(t) PROVE ConfigInv'
<1> USE DEF ConfigInv
<1>0. Writing(t)
  BY DEF WriterStep, SetField, FieldsSet, Save, SaveRefused, OpenFile,
         WriteFile, Writing
<1>1. CASE SetField(t)
  <2>1. Head(todo[t]) \in Fields /\ Tail(todo[t]) \in Seq(Fields)
    BY <1>1 DEF SetField, TypeOK
  <2>2. config' \in Config
    BY <1>1, <2>1 DEF SetField, TypeOK, Config, Fields
  <2>3. todo' \in [Tasks -> Seq(Fields)]
    BY <1>1, <2>1 DEF SetField, TypeOK
  <2>4. UNCHANGED <<power, file, content, devices, pc, job, target, reply, forms,
                    asked, uploaded, contended>>
    BY <1>1 DEF SetField, storage, history
  <2>5. TypeOK'
    BY <2>2, <2>3, <2>4 DEF TypeOK
  <2>6. ~contended => \A u \in Tasks : pc[u] \notin {"open", "write"}
    BY <1>0, <1>1 DEF Alone, Writing, SetField
  <2>7. ~contended => Checked' /\ Alone'
    BY <2>4, <2>6 DEF Checked, Alone, Writing
  <2> QED
    BY <2>4, <2>5, <2>7 DEF NobodyYet, SavedIsValid
<1>2. CASE FieldsSet(t) \/ Save(t)
  <2>1. UNCHANGED <<power, file, content, devices, config, job, todo, target,
                    reply, forms, asked, uploaded, contended>>
    BY <1>2 DEF FieldsSet, Save, storage, history
  <2>2. pc' \in [Tasks -> {"idle", "set", "validate", "open", "write", "restart"}]
    BY <1>2 DEF FieldsSet, Save, TypeOK
  <2>3. TypeOK'
    BY <2>1, <2>2 DEF TypeOK
  <2>4. \A u \in Tasks : u # t => pc'[u] = pc[u]
    BY <1>2 DEF FieldsSet, Save, TypeOK
  <2>5. pc'[t] = "open" => validate(config, uploaded)
    BY <1>2, ValidMonotone DEF FieldsSet, Save, TypeOK
  <2>6. pc'[t] \in {"validate", "open"} /\ pc[t] # "idle"
    BY <1>2 DEF FieldsSet, Save, TypeOK
  <2>7. ~contended => Checked'
    BY <2>1, <2>4, <2>5, <2>6 DEF Checked
  <2>8. ~contended => Alone'
    BY <1>0, <2>1, <2>4 DEF Alone, Writing
  <2>9. NobodyYet'
    BY <2>1, <2>4, <2>6 DEF NobodyYet, Tasks
  <2> QED
    BY <2>1, <2>3, <2>7, <2>8, <2>9 DEF SavedIsValid
<1>3. CASE SaveRefused(t)
  <2>1. UNCHANGED <<file, content, devices, config, job, todo, target, forms,
                    asked, uploaded, contended>> /\ power' = "up"
    BY <1>3 DEF SaveRefused, storage, history
  <2>2. pc' = [pc EXCEPT ![t] = "idle"] /\ reply' \in {"none", "saved", "failed"}
    BY <1>3 DEF SaveRefused, TypeOK
  <2>3. TypeOK'
    BY <2>1, <2>2 DEF TypeOK
  <2>4. ~contended => Checked' /\ Alone'
    BY <2>1, <2>2 DEF Checked, Alone, Writing, TypeOK
  <2> QED
    BY <2>1, <2>3, <2>4 DEF NobodyYet, SavedIsValid
<1>4. CASE OpenFile(t)
  <2>1. UNCHANGED <<power, content, devices, config, job, todo, target, reply,
                    forms, asked, uploaded, contended>>
    BY <1>4 DEF OpenFile, history
  <2>2. pc' = [pc EXCEPT ![t] = "write"] /\ pc[t] = "open"
    BY <1>4 DEF OpenFile
  <2>3. file' \in {"absent", "empty", "full"} /\ (file' = "full" => file = "full")
    BY <1>4 DEF OpenFile, TypeOK
  <2>4. TypeOK'
    BY <2>1, <2>2, <2>3 DEF TypeOK
  <2>5. ~contended => Checked' /\ Alone'
    BY <2>1, <2>2 DEF Checked, Alone, Writing, TypeOK
  <2>6. NobodyYet'
    BY <2>1, <2>2 DEF NobodyYet, TypeOK
  <2> QED
    BY <2>1, <2>3, <2>4, <2>5, <2>6 DEF SavedIsValid
<1>5. CASE WriteFile(t)
  <2>1. UNCHANGED <<devices, config, job, todo, target, forms, asked, uploaded,
                    contended>> /\ power' = "up"
    BY <1>5 DEF WriteFile, history
  <2>2. file' = "full" /\ content' = config /\ pc[t] = "write"
    BY <1>5 DEF WriteFile
  <2>3. \E p \in {"idle", "restart"} : pc' = [pc EXCEPT ![t] = p]
    BY <1>5 DEF WriteFile
  <2>4. reply' \in {"none", "saved", "failed"}
    BY <1>5 DEF WriteFile, TypeOK
  <2>5. TypeOK'
    BY <2>1, <2>2, <2>3, <2>4 DEF TypeOK
  <2>6. ~contended => Checked' /\ Alone'
    BY <2>1, <2>3 DEF Checked, Alone, Writing, TypeOK
  <2>7. SavedIsValid'
    BY <2>1, <2>2 DEF Checked, SavedIsValid
  <2> QED
    BY <2>1, <2>5, <2>6, <2>7 DEF NobodyYet
<1> QED
  BY <1>1, <1>2, <1>3, <1>4, <1>5 DEF WriterStep

LEMMA WorldKeeps ==
    ASSUME ConfigInv, Load \/ Restart \/ UploadDevice \/ DeleteDevice
    PROVE  ConfigInv'
<1> USE DEF ConfigInv
<1>1. CASE Load
  <2>1. UNCHANGED <<file, content, devices, todo, target, reply, forms, asked,
                    uploaded, contended>>
    BY <1>1 DEF Load, storage, history
  <2>2. config' \in Config /\ power' \in {"booting", "up"}
    BY <1>1, DefaultsValid DEF Load, TypeOK
  <2>3. pc' \in [Tasks -> {"idle", "set", "validate", "open", "write", "restart"}]
        /\ job' \in [Tasks -> {"none", "boot", "form", "reset", "level"}]
    BY <1>1 DEF Load, TypeOK
  <2>4. pc'["button"] = "idle" /\ pc'["web"] \in {"idle", "validate"}
    BY <1>1 DEF Load, TypeOK, NobodyYet, Tasks
  <2>5. TypeOK'
    BY <2>1, <2>2, <2>3 DEF TypeOK
  <2>6. Checked' /\ Alone' /\ NobodyYet'
    BY <2>2, <2>4 DEF Checked, Alone, NobodyYet, Writing, Tasks
  <2> QED
    BY <2>1, <2>5, <2>6 DEF SavedIsValid
<1>2. CASE Restart
  <2>1. UNCHANGED <<file, content, devices, forms, asked, uploaded, contended>>
        /\ power' = "off" /\ config' = Defaults /\ reply' = "none"
    BY <1>2 DEF Restart, storage, history
  <2>2. Idle /\ <<>> \in Seq(Fields)
    BY <1>2 DEF Restart
  <2>3. TypeOK'
    BY <2>1, <2>2, DefaultsValid DEF TypeOK, Idle
  <2>4. Checked' /\ Alone' /\ NobodyYet'
    BY <2>2 DEF Checked, Alone, NobodyYet, Writing, Idle, Tasks
  <2> QED
    BY <2>1, <2>3, <2>4 DEF SavedIsValid
<1>3. CASE UploadDevice
  <2>1. PICK f \in UploadNames :
            devices' = devices \cup {f} /\ uploaded' = uploaded \cup {f}
    BY <1>3 DEF UploadDevice
  <2>2. UNCHANGED <<power, file, content, config, pc, job, todo, target, reply,
                    forms, asked, contended>>
    BY <1>3 DEF UploadDevice, work
  <2>3. TypeOK'
    BY <2>1, <2>2 DEF TypeOK, UploadNames
  <2>4. uploaded \subseteq uploaded' /\ devices' \subseteq uploaded'
    BY <2>1
  <2>5. SavedIsValid'
    BY <2>2, <2>4, ValidMonotone DEF SavedIsValid
  <2>6. ~contended => Checked' /\ Alone'
    BY <2>2, <2>4, ValidMonotone DEF Checked, Alone, Writing
  <2> QED
    BY <2>2, <2>3, <2>4, <2>5, <2>6 DEF NobodyYet
<1>4. CASE DeleteDevice
  <2>1. devices' \subseteq devices
    BY <1>4 DEF DeleteDevice
  <2>2. UNCHANGED <<power, file, content, config, pc, job, todo, target, reply,
                    forms, asked, uploaded, contended>>
    BY <1>4 DEF DeleteDevice, work, history
  <2> QED
    BY <2>1, <2>2 DEF TypeOK, NobodyYet, Checked, Alone, Writing, SavedIsValid
<1> QED
  BY <1>1, <1>2, <1>3, <1>4

LEMMA ConfigInvStep == ConfigInv /\ [Next]_vars => ConfigInv'
<1> SUFFICES ASSUME ConfigInv, [Next]_vars PROVE ConfigInv'
  OBVIOUS
<1>1. CASE Next
  BY <1>1, RequestsKeep, WriterKeeps, WorldKeeps DEF Next
<1>2. CASE UNCHANGED vars
  BY <1>2
  DEF vars, storage, work, history, ConfigInv, TypeOK, NobodyYet, Checked, Alone,
      Writing, SavedIsValid
<1> QED
  BY <1>1, <1>2

(* Every state that the writers, the loads and the device manager reach is *)
(* well formed: the live document and the file are configurations, however *)
(* few of the fields of a request are set.                                 *)
THEOREM ConfigTypes == Spec => []TypeOK
<1>1. ConfigInv => TypeOK
  BY DEF ConfigInv
<1> QED
  BY ConfigInvInit, ConfigInvStep, <1>1, PTL DEF Spec

(* Whatever step power fails at, whatever forms are refused and stay in    *)
(* the live document, and whichever device files come and go: what the     *)
(* file holds passed validate(), unless two writers were at work at once.  *)
THEOREM ConfigSavedIsValid == Spec => []SavedIsValid
<1>1. ConfigInv => SavedIsValid
  BY DEF ConfigInv
<1> QED
  BY ConfigInvInit, ConfigInvStep, <1>1, PTL DEF Spec

-----------------------------------------------------------------------------
(* What the live document asks for is one request whole, except while a    *)
(* writer sets its fields; then it will be when the rest of them are set.  *)
(* An unreadable or missing file makes it the defaults, which are always   *)
(* asked for: a factory reset forgets every other request.                 *)
Left(s) == {s[i] : i \in 1..Len(s)}
Final(t, f) == IF f \in Left(todo[t]) THEN target[t][f] ELSE config[f]
Setting(t) == pc[t] = "set"
Whole ==
    /\ (\A t \in Tasks : ~Setting(t)) => Wanted(config) \in asked
    /\ \A t \in Tasks : Setting(t) => <<Final(t, "serial"), Final(t, "model")>> \in asked

WholeInv ==
    /\ ConfigInv
    /\ Wanted(Defaults) \in asked
    /\ ~contended => Whole
    /\ FileIsWhole

(* Setting the next field brings the others no nearer and no further.      *)
LEMMA LeftAfterOne ==
    ASSUME NEW s \in Seq(Fields), s # <<>>
    PROVE  /\ Head(s) \in Left(s)
           /\ \A f : f \in Left(s) <=> f = Head(s) \/ f \in Left(Tail(s))
<1>1. Len(s) \in Nat \ {0} /\ Head(s) = s[1] /\ Tail(s) \in Seq(Fields)
      /\ Len(Tail(s)) = Len(s) - 1 /\ \A i \in 1..Len(s) - 1 : Tail(s)[i] = s[i + 1]
  OBVIOUS
<1>2. Head(s) \in Left(s)
  BY <1>1 DEF Left
<1>3. ASSUME NEW f, f \in Left(s) PROVE f = Head(s) \/ f \in Left(Tail(s))
  <2>1. PICK i \in 1..Len(s) : f = s[i]
    BY <1>3 DEF Left
  <2>2. CASE i = 1
    BY <1>1, <2>1, <2>2
  <2>3. CASE i # 1
    <3>1. i - 1 \in 1..Len(s) - 1 /\ (i - 1) + 1 = i
      BY <1>1, <2>1, <2>3
    <3>2. Tail(s)[i - 1] = f /\ i - 1 \in 1..Len(Tail(s))
      BY <1>1, <2>1, <3>1
    <3> QED
      BY <3>2 DEF Left
  <2> QED
    BY <2>2, <2>3
<1>4. ASSUME NEW f, f \in Left(Tail(s)) PROVE f \in Left(s)
  <2>1. PICK i \in 1..Len(Tail(s)) : f = Tail(s)[i]
    BY <1>4 DEF Left
  <2>2. i + 1 \in 1..Len(s) /\ s[i + 1] = f
    BY <1>1, <2>1
  <2> QED
    BY <2>2 DEF Left
<1> QED
  BY <1>2, <1>3, <1>4

LEMMA WholeInit == Init => WholeInv
<1> SUFFICES ASSUME Init PROVE WholeInv
  OBVIOUS
<1>1. Wanted(config) \in asked /\ Wanted(Defaults) \in asked
  BY DEF Init
<1>2. Whole /\ FileIsWhole
  BY <1>1 DEF Init, Whole, Setting, FileIsWhole
<1> QED
  BY <1>1, <1>2, ConfigInvInit DEF WholeInv

(* A writer that begins alone will leave what its order and its values say.*)
LEMMA BeginWhole ==
    ASSUME ConfigInv, NEW t \in Tasks, NEW j, NEW order, NEW values,
           Begin(t, j, order, values), config' = config,
           << (IF "serial" \in Left(order) THEN values.serial ELSE config.serial),
              (IF "model" \in Left(order) THEN values.model ELSE config.model) >> \in asked'
    PROVE  ~contended' => Whole'
<1> SUFFICES ASSUME ~contended' PROVE Whole'
  OBVIOUS
<1>1. /\ pc'[t] = "set" /\ todo'[t] = order /\ target'[t] = values
      /\ \A u \in Tasks \ {t} : pc'[u] = pc[u]
  BY DEF Begin, ConfigInv, TypeOK
<1>2. \A u \in Tasks \ {t} : ~Writing(u)
  BY DEF Begin
<1>3. \A u \in Tasks \ {t} : ~Setting(u)'
  BY <1>1, <1>2 DEF Setting, Writing
<1>4. <<Final(t, "serial"), Final(t, "model")>>' \in asked'
  BY <1>1 DEF Final
<1> QED
  BY <1>1, <1>3, <1>4 DEF Whole, Setting

LEMMA Orders ==
    /\ {"serial", "model"} \subseteq Left(FormOrder)
    /\ {"serial", "model"} \subseteq Left(DefaultsOrder)
    /\ "serial" \notin Left(<<"level">>) /\ "model" \notin Left(<<"level">>)
<1>1. 1 \in 1..Len(FormOrder) /\ FormOrder[1] = "serial"
      /\ 2 \in 1..Len(FormOrder) /\ FormOrder[2] = "model"
  BY DEF FormOrder
<1>2. 2 \in 1..Len(DefaultsOrder) /\ DefaultsOrder[2] = "serial"
      /\ 3 \in 1..Len(DefaultsOrder) /\ DefaultsOrder[3] = "model"
  BY DEF DefaultsOrder
<1>3. ASSUME NEW i \in 1..Len(<<"level">>) PROVE <<"level">>[i] = "level"
  OBVIOUS
<1>4. {"serial", "model"} \subseteq Left(FormOrder)
  BY <1>1 DEF Left
<1>5. {"serial", "model"} \subseteq Left(DefaultsOrder)
  BY <1>2 DEF Left
<1>6. "serial" \notin Left(<<"level">>) /\ "model" \notin Left(<<"level">>)
  BY <1>3 DEF Left
<1> QED
  BY <1>4, <1>5, <1>6

LEMMA RequestsWhole ==
    ASSUME WholeInv, SubmitForm \/ SetLogLevel \/ \E t \in Tasks : FactoryReset(t)
    PROVE  WholeInv'
<1> USE DEF WholeInv
<1>1. ConfigInv'
  BY RequestsKeep
<1>2. CASE SubmitForm
  <2>1. PICK c \in Config : /\ Begin("web", "form", FormOrder, c)
                            /\ asked' = asked \cup {Wanted(c)}
    BY <1>2 DEF SubmitForm
  <2>2. file' = file /\ content' = content /\ config' = config /\ "web" \in Tasks
        /\ (contended => contended')
    BY <1>2, <2>1 DEF SubmitForm, storage, Tasks, Begin
  <2>3. ~contended' => Whole'
    BY <2>1, <2>2, BeginWhole, Orders DEF Wanted
  <2> QED
    BY <1>1, <2>1, <2>2, <2>3 DEF FileIsWhole
<1>3. CASE SetLogLevel
  <2>1. PICK l \in Levels :
            Begin("web", "level", <<"level">>, [Defaults EXCEPT !.level = l])
    BY <1>3 DEF SetLogLevel
  <2>2. file' = file /\ content' = content /\ config' = config /\ "web" \in Tasks
        /\ asked' = asked
    BY <1>3 DEF SetLogLevel, storage, Tasks
  <2>3. (contended => contended') /\ pc["web"] = "idle"
        /\ (~contended' => \A u \in Tasks \ {"web"} : ~Writing(u))
    BY <2>1 DEF Begin
  <2>4. ~contended' => Wanted(config) \in asked
    BY <2>3 DEF Whole, Setting, Writing
  <2>5. ~contended' => Whole'
    BY <2>1, <2>2, <2>4, BeginWhole, Orders DEF Wanted
  <2> QED
    BY <1>1, <2>2, <2>3, <2>5 DEF FileIsWhole
<1>4. ASSUME NEW t \in Tasks, FactoryReset(t) PROVE WholeInv'
  <2>1. Begin(t, "reset", DefaultsOrder, Defaults) /\ file' = "absent"
        /\ asked' = {Wanted(Defaults)} /\ config' = config
    BY <1>4 DEF FactoryReset
  <2>2. ~contended' => Whole'
    BY <2>1, BeginWhole, Orders DEF Wanted
  <2> QED
    BY <1>1, <2>1, <2>2 DEF FileIsWhole
<1> QED
  BY <1>2, <1>3, <1>4

(* A step of a writer that is alone.                                       *)
LEMMA WriterWhole ==
    ASSUME WholeInv, NEW t \in Tasks, WriterStep(t) PROVE WholeInv'
<1> USE DEF WholeInv
<1>1. ConfigInv' /\ Wanted(Defaults) \in asked' /\ contended' = contended /\ asked' = asked
  BY WriterKeeps
  DEF WriterStep, SetField, FieldsSet, Save, SaveRefused, OpenFile, WriteFile, history
<1>2. Writing(t)
  BY DEF WriterStep, SetField, FieldsSet, Save, SaveRefused, OpenFile,
         WriteFile, Writing
<1>3. CASE contended
  BY <1>1, <1>3 DEF FileIsWhole
<1>4. CASE ~contended
  <2>1. \A u \in Tasks \ {t} : ~Writing(u) /\ ~Setting(u)
    BY <1>2, <1>4 DEF ConfigInv, Alone, Writing, Setting
  <2>2. pc[t] # "set" => Wanted(config) \in asked
    BY <1>4, <2>1 DEF Whole, Setting
  <2>3. \A u \in Tasks \ {t} : pc'[u] = pc[u]
    BY DEF WriterStep, SetField, FieldsSet, Save, SaveRefused, OpenFile, WriteFile,
           ConfigInv, TypeOK
  <2>4. \A u \in Tasks \ {t} : ~Setting(u)'
    BY <2>1, <2>3 DEF Setting
  <2>5. CASE SetField(t)
    <3> DEFINE h == Head(todo[t])
    <3>1. /\ todo[t] \in Seq(Fields) /\ todo[t] # <<>> /\ pc[t] = "set" /\ pc' = pc
          /\ config' = [config EXCEPT ![h] = target[t][h]] /\ target' = target
          /\ todo'[t] = Tail(todo[t]) /\ file' = file /\ content' = content
      BY <2>5 DEF SetField, storage, ConfigInv, TypeOK
    <3>2. config \in [Fields -> UNION {Serials, Models, Levels}]
      BY DEF ConfigInv, TypeOK, Config, Fields
    <3>3. h \in Left(todo[t])
          /\ \A f : f \in Left(todo[t]) <=> f = h \/ f \in Left(Tail(todo[t]))
      BY <3>1, LeftAfterOne
    <3>4. \A f \in Fields : Final(t, f)' = Final(t, f)
      <4> HIDE DEF h
      <4>1. ASSUME NEW f \in Fields
            PROVE  (IF f \in Left(Tail(todo[t])) THEN target[t][f]
                    ELSE [config EXCEPT ![h] = target[t][h]][f])
                   = (IF f \in Left(todo[t]) THEN target[t][f] ELSE config[f])
        <5>1. [config EXCEPT ![h] = target[t][h]][f]
              = IF f = h THEN target[t][h] ELSE config[f]
          BY <3>2
        <5> QED
          BY <3>3, <5>1
      <4> QED
        BY <3>1, <4>1 DEF Final
    <3>5. "serial" \in Fields /\ "model" \in Fields
      BY DEF Fields
    <3>6. <<Final(t, "serial"), Final(t, "model")>> \in asked
      BY <1>4, <3>1 DEF Whole, Setting
    <3>7. <<Final(t, "serial"), Final(t, "model")>>' \in asked'
      BY <1>1, <3>4, <3>5, <3>6
    <3>8. Whole'
      BY <2>4, <3>1, <3>7 DEF Whole, Setting
    <3> QED
      BY <1>1, <3>1, <3>8 DEF FileIsWhole
  <2>6. CASE FieldsSet(t)
    <3>1. /\ todo[t] = <<>> /\ pc[t] = "set" /\ pc'[t] = "validate"
          /\ config' = config /\ file' = file /\ content' = content
      BY <2>6 DEF FieldsSet, storage, ConfigInv, TypeOK
    <3>2. Left(todo[t]) = {}
      BY <3>1 DEF Left
    <3>3. Wanted(config) \in asked
      BY <1>4, <3>1, <3>2 DEF Whole, Setting, Final, Wanted
    <3>4. Whole'
      BY <1>1, <2>4, <3>1, <3>3 DEF Whole, Setting
    <3> QED
      BY <1>1, <3>1, <3>4 DEF FileIsWhole
  <2>7. CASE Save(t) \/ SaveRefused(t) \/ OpenFile(t)
    <3>1. /\ pc[t] # "set" /\ pc'[t] # "set" /\ config' = config /\ content' = content
          /\ (file' = "full" => file = "full")
      BY <2>7 DEF Save, SaveRefused, OpenFile, storage, ConfigInv, TypeOK
    <3>2. Whole'
      BY <1>1, <2>2, <2>4, <3>1 DEF Whole, Setting
    <3> QED
      BY <1>1, <3>1, <3>2 DEF FileIsWhole
  <2>8. CASE WriteFile(t)
    <3>1. pc[t] # "set" /\ pc'[t] # "set" /\ config' = config /\ content' = config
      BY <2>8 DEF WriteFile, ConfigInv, TypeOK
    <3>2. Whole'
      BY <1>1, <2>2, <2>4, <3>1 DEF Whole, Setting
    <3> QED
      BY <1>1, <2>2, <3>1, <3>2 DEF FileIsWhole
  <2> QED
    BY <2>5, <2>6, <2>7, <2>8 DEF WriterStep
<1> QED
  BY <1>3, <1>4

(* The document that is loaded is the file's, or the defaults.             *)
LEMMA WorldWhole ==
    ASSUME WholeInv, Load \/ Restart \/ UploadDevice \/ DeleteDevice
    PROVE  WholeInv'
<1> USE DEF WholeInv
<1>1. ConfigInv' /\ asked' = asked /\ contended' = contended /\ file' = file
      /\ content' = content
  BY WorldKeeps DEF Load, Restart, UploadDevice, DeleteDevice, storage, history
<1>2. FileIsWhole' /\ Wanted(Defaults) \in asked'
  BY <1>1 DEF FileIsWhole
<1>3. CASE Load
  <2>1. ~contended => Wanted(config') \in asked
    BY <1>3 DEF Load, FileIsWhole
  <2>2. \A t \in Tasks : ~Setting(t)'
    BY <1>3 DEF Load, Setting, ConfigInv, NobodyYet, TypeOK, Tasks
  <2> QED
    BY <1>1, <1>2, <2>1, <2>2 DEF Whole, Wanted
<1>4. CASE Restart
  <2>1. config' = Defaults /\ \A t \in Tasks : pc'[t] = "idle"
    BY <1>4 DEF Restart, Idle
  <2> QED
    BY <1>1, <1>2, <2>1 DEF Whole, Setting, Wanted
<1>5. CASE UploadDevice \/ DeleteDevice
  <2>1. config' = config /\ pc' = pc /\ todo' = todo /\ target' = target
    BY <1>5 DEF UploadDevice, DeleteDevice, work
  <2> QED
    BY <1>1, <1>2, <2>1 DEF Whole, Setting, Final, Wanted
<1> QED
  BY <1>3, <1>4, <1>5

LEMMA WholeStep == WholeInv /\ [Next]_vars => WholeInv'
<1> SUFFICES ASSUME WholeInv, [Next]_vars PROVE WholeInv'
  OBVIOUS
<1>1. CASE Next
  BY <1>1, RequestsWhole, WriterWhole, WorldWhole DEF Next
<1>2. CASE UNCHANGED vars
  <2>1. ConfigInv'
    BY <1>2, ConfigInvStep DEF WholeInv
  <2> QED
    BY <1>2, <2>1
    DEF vars, storage, work, history, WholeInv, Whole, Setting, Final, FileIsWhole, Wanted
<1> QED
  BY <1>1, <1>2

(* Whatever step power fails at and whatever forms are refused, the file   *)
(* holds one request whole, and none from before a factory reset, unless   *)
(* two writers were at work at once.                                       *)
THEOREM ConfigFileIsWhole == Spec => []FileIsWhole
<1>1. WholeInv => FileIsWhole
  BY DEF WholeInv
<1> QED
  BY WholeInit, WholeStep, <1>1, PTL DEF Spec
=============================================================================
