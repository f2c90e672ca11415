----------------------------- MODULE BuiltinDevice -----------------------------
(***************************************************************************)
(* The devices written in C++: the Solplanet inverter (lib/inverters), the *)
(* DDS238 meter and its simulator (lib/meters).  A poll reads blocks of    *)
(* registers in an order that depends on which reads the bus answered and, *)
(* for the inverter, on what it found out about itself with earlier reads: *)
(* its phases, asked until it is known, and its PV inputs, asked once.     *)
(*                                                                         *)
(* A register is the datum it holds, so a decoded value is the list of     *)
(* registers it was made from, and of what these hold only as much is told *)
(* apart as decides whether the value is published.  Scales, units and     *)
(* wording are left out.                                                   *)
(***************************************************************************)
EXTENDS Integers, FiniteSets

CONSTANTS
    InputCounts,   \* what an inverter may say about its PV inputs
    StringCounts,  \* and about its strings
    MAX_INPUTS,    \* PV inputs the block of 20 registers has room for (10)
    MAX_STRINGS,   \* strings the block of 20 registers has room for (20)
    Watched,       \* bound: registers that may hold other than a usual value,
    MaxUnusual     \* bound: and how many of them do at once

ASSUME BuiltinAssumption ==
    /\ InputCounts \subseteq Nat /\ StringCounts \subseteq Nat
    /\ MAX_INPUTS \in 2..255 /\ MAX_STRINGS \in Nat /\ Watched \subseteq Nat
    /\ MaxUnusual \in Nat

VARIABLES
    unit,            \* the class that was created
    device,          \* what is out there: phases, inputs, strings, storage
                     \* (configured and present)
    held,            \* by the registers a value is read from (the first of two),
                     \* when they were last read
    isThreePhase, phaseDetected,
    mpptCount, stringCount, configDetected,
    guessed,         \* history: a detection read failed, a default stands in
    block,           \* the next read, or "begin", "idle", "end", "stored"
    success,         \* of readBasic() or readStorage() so far
    answered         \* the blocks read in this call

known == <<isThreePhase, phaseDetected, mpptCount, stringCount, configDetected, guessed>>
builtinVars == <<unit, device, held, known, block, success, answered>>

Units == {"solplanet", "hiking", "simulator"}
Devices == [three : BOOLEAN, inputs : InputCounts, strings : StringCounts,
            storage : BOOLEAN]

(* "none": the value that stands for none in its type.  "odd": one too low *)
(* to be published where there is a floor, or one there is no text for.    *)
Values == {"none", "odd", "usual"}
AllUsual == [r \in Watched |-> "usual"]
Holds(r) == IF r \in Watched THEN held[r] ELSE "usual"

-----------------------------------------------------------------------------
(* Blocks: what is read, may it fail, and what is read next either way.    *)
Read(base, count, required, good, bad) ==
    [base |-> base, count |-> count, required |-> required, good |-> good, bad |-> bad]

Solplanet ==
    [address    |-> Read(31002,  1, FALSE, "gridCode", "gridCode"),
     gridCode   |-> Read(31027,  1, FALSE, "basic", "basic"),
     basic      |-> Read(31301, 20, TRUE,  "pv", "pv"),
     pv         |-> Read(31319, 20, TRUE,  "strings", "grid"),
     strings    |-> Read(31339, 20, FALSE, "pvEnergy", "pvEnergy"),
     pvEnergy   |-> Read(31601,  6, FALSE, "grid", "grid"),
     grid       |-> Read(31359, 21, TRUE,  "connection", "acEnergy"),
     connection |-> Read(31391,  1, FALSE, "acEnergy", "acEnergy"),
     acEnergy   |-> Read(31630,  4, FALSE, "eps", "eps"),
     eps        |-> Read(31634,  3, FALSE, "epsPower", "epsPower"),
     epsPower   |-> Read(31637,  8, FALSE, "epsPhases", "epsPhases"),
     epsPhases  |-> Read(31645, 18, FALSE, "gridPower", "gridPower"),
     gridPower  |-> Read(31663, 16, FALSE, "end", "end"),
     battery    |-> Read(31607, 23, TRUE,  "bms", "stored"),
     bms        |-> Read(31679,  3, FALSE, "generator", "generator"),
     generator  |-> Read(31685,  3, FALSE, "stored", "stored")]

Hiking ==
    [instant |-> Read(12, 6, TRUE, "total", "total"),
     total   |-> Read( 0, 2, TRUE, "export", "end"),
     export  |-> Read( 8, 2, TRUE, "import", "end"),
     import  |-> Read(10, 2, TRUE, "end", "end")]

Simulator ==
    [all     |-> Read( 0, 18, FALSE, "end", "energy"),
     energy  |-> Read( 0, 12, FALSE, "instant", "total"),
     total   |-> Read( 0,  2, FALSE, "instant", "instant"),
     instant |-> Read(12,  6, TRUE, "end", "end")]

plan == CASE unit = "solplanet" -> Solplanet
          [] unit = "hiking"    -> Hiking
          [] unit = "simulator" -> Simulator

FirstBlock == CASE unit = "solplanet" -> "address"
                [] unit = "hiking"    -> "instant"
                [] unit = "simulator" -> "all"

-----------------------------------------------------------------------------
(* What is decoded: position in the response, register its label gives, or *)
(* at a meter, whose points have none, its name stands for.  A text and a  *)
(* product are points beside the values they are made from.                *)
Point(at, label, words, as) == [at |-> at, label |-> label, words |-> words, as |-> as]
Points(words, S) == {Point(p[1], p[2], words, "value") : p \in S}
Texts(S) == {Point(p[1], p[2], 1, "text") : p \in S}

readDeviceInfo ==
    [address  |-> Points(1, {<<0, 31002>>}),
     gridCode |-> Points(1, {<<0, 31027>>}) \cup Texts({<<0, 31027>>})]

readBasicMeasurements ==
    [basic |-> Points(1, {<<0, 31301>>, <<1, 31302>>, <<8, 31309>>, <<9, 31310>>,
                          <<10, 31311>>, <<11, 31312>>, <<14, 31315>>, <<16, 31317>>})
               \cup Points(2, {<<2, 31303>>, <<4, 31305>>, <<6, 31307>>})
               \cup Texts({<<8, 31309>>})]

readGridAndPhaseMeasurements ==
    [grid       |-> Points(1, {<<9, 31368>>, <<16, 31375>>, <<18, 31377>>, <<19, 31378>>,
                               <<20, 31379>>})
                    \cup Points(2, {<<10, 31369>>, <<12, 31371>>, <<14, 31373>>})
                    \cup Texts({<<19, 31378>>, <<20, 31379>>}),
     connection |-> Points(1, {<<0, 31391>>})]

readGridEnergyAndLoad ==
    [acEnergy  |-> Points(2, {<<0, 31630>>, <<2, 31632>>}),
     eps       |-> Points(1, {<<0, 31634>>, <<1, 31635>>, <<2, 31636>>}),
     epsPower  |-> Points(2, {<<0, 31637>>, <<2, 31639>>, <<4, 31641>>, <<6, 31643>>}),
     epsPhases |-> Points(1, {<<0, 31645>>, <<1, 31646>>, <<2, 31647>>, <<3, 31648>>,
                              <<4, 31649>>, <<5, 31650>>})
                   \cup Points(2, {<<6, 31651>>, <<8, 31653>>, <<10, 31655>>, <<12, 31657>>,
                                   <<14, 31659>>, <<16, 31661>>}),
     gridPower |-> Points(2, {<<12, 31675>>, <<14, 31677>>})]

readStorage ==
    [battery   |-> Points(1, {<<0, 31607>>, <<1, 31608>>, <<10, 31617>>, <<11, 31618>>,
                              <<14, 31621>>, <<15, 31622>>, <<16, 31623>>, <<17, 31624>>,
                              <<18, 31625>>})
                   \cup Points(2, {<<12, 31619>>, <<19, 31626>>, <<21, 31628>>})
                   \cup Texts({<<1, 31608>>}),
     bms       |-> Points(1, {<<0, 31679>>, <<1, 31680>>, <<2, 31681>>}),
     generator |-> Points(1, {<<2, 31687>>}) \cup Points(2, {<<0, 31685>>})]

(* The points a three-phase inverter has besides.                          *)
PhasePoints(b) ==
    CASE b = "grid"       -> Points(1, {<<0, 31359>>, <<1, 31360>>, <<2, 31361>>, <<3, 31362>>,
                                        <<4, 31363>>, <<5, 31364>>, <<6, 31365>>, <<7, 31366>>,
                                        <<8, 31367>>})
      [] b = "gridPower"  -> Points(2, {<<0, 31663>>, <<2, 31665>>, <<4, 31667>>, <<6, 31669>>,
                                        <<8, 31671>>, <<10, 31673>>})
      [] OTHER            -> {}

(* PV inputs and strings by the counts that were detected.  An input counts*)
(* as connected from a voltage over 10 V, and is published with its power; *)
(* one that the inverter does not have shows no voltage.  Mutant of        *)
(* UsedInputs: the last input is left out.                                 *)
Voltage(i) == 31317 + 2 * i
Current(i) == 31318 + 2 * i
Connected(i) ==
    i <= device.inputs /\ Holds(Voltage(i)) = "usual" /\ Holds(Current(i)) # "none"
Input(i) == Points(1, {<<2 * i - 2, Voltage(i)>>, <<2 * i - 1, Current(i)>>})
            \cup {Point(2 * i - 2, Voltage(i), 2, "product")}

AllButLast == 1 .. (mpptCount - 1)
UsedInputs == {i \in 1..MAX_INPUTS : i <= mpptCount}
InputPoints == UNION {Input(i) : i \in {i \in UsedInputs : Connected(i)}}
StringPoints == Points(1, {<<i - 1, 31338 + i>> : i \in {i \in 1..MAX_STRINGS : i <= stringCount}})
readPVInputs ==
    [pv       |-> InputPoints,
     strings  |-> StringPoints,
     pvEnergy |-> Points(2, {<<0, 31601>>, <<2, 31603>>, <<4, 31605>>})]

SolplanetPoints(b) ==
    CASE b \in DOMAIN readDeviceInfo               -> readDeviceInfo[b]
      [] b \in DOMAIN readBasicMeasurements        -> readBasicMeasurements[b]
      [] b \in DOMAIN readGridAndPhaseMeasurements -> readGridAndPhaseMeasurements[b]
      [] b \in DOMAIN readGridEnergyAndLoad        -> readGridEnergyAndLoad[b]
      [] b \in DOMAIN readStorage                  -> readStorage[b]
      [] b \in DOMAIN readPVInputs                 -> readPVInputs[b]

(* The meters.  Mutant of InstantStart: one word early in the whole block. *)
InstantEarly == 11
InstantStart == 12
Instantaneous(from) == Points(1, {<<from + i, 12 + i>> : i \in 0..5})
Energies(from) == Points(2, {<<from, 0>>, <<from + 8, 8>>, <<from + 10, 10>>})

MeterPoints(b) ==
    CASE b = "all"     -> Energies(0) \cup Instantaneous(InstantStart)
      [] b = "energy"  -> Energies(0)
      [] b = "total"   -> Points(2, {<<0, 0>>})
      [] b = "export"  -> Points(2, {<<0, 8>>})
      [] b = "import"  -> Points(2, {<<0, 10>>})
      [] b = "instant" -> Instantaneous(0)

(* Each value is dropped by itself if it is none, if it does not exceed its*)
(* floor (line and backup voltages, backup frequency, strings), or if it is*)
(* the text of a code that has none.                                       *)
Floored == (31365..31367) \cup {31634, 31636, 31645, 31647, 31649} \cup (31339..31358)
Coded == {31027, 31378, 31379}
Kept(p) == \/ Holds(p.label) = "usual"
           \/ Holds(p.label) = "odd" /\ p.label \notin Floored
              /\ ~(p.as = "text" /\ p.label \in Coded)

AllPoints(b) ==
    IF unit # "solplanet" THEN MeterPoints(b)
    ELSE SolplanetPoints(b) \cup IF isThreePhase THEN PhasePoints(b) ELSE {}
Decoded(b) == {p \in AllPoints(b) : Kept(p)}

-----------------------------------------------------------------------------
BuiltinInit ==
    /\ unit \in Units
    /\ device \in Devices /\ held = AllUsual
    /\ isThreePhase = FALSE /\ phaseDetected = FALSE
    /\ mpptCount = 0 /\ stringCount = 0 /\ configDetected = FALSE /\ guessed = FALSE
    /\ block = "begin" /\ success = TRUE /\ answered = {}

(* detectPhaseConfiguration(): one read, not repeated once it has told.    *)
(* An inverter that is starting up may answer with another type.           *)
(* Mutant of Tells: any answer counts.                                     *)
Types == {"1", "3", "other"}
AnyAnswer(type) == type \in Types
Tells(type) == type \in {"1", "3"}

DetectPhase(detected, undetected) ==
    \/ /\ phaseDetected /\ block' = detected
       /\ UNCHANGED <<isThreePhase, phaseDetected>>
    \/ /\ ~phaseDetected
       /\ \E type \in {IF device.three THEN "3" ELSE "1", "other"} :
             /\ Tells(type)
             /\ isThreePhase' = (type = "3") /\ phaseDetected' = TRUE
       /\ block' = detected
    \/ /\ ~phaseDetected /\ block' = undetected
       /\ UNCHANGED <<isThreePhase, phaseDetected>>

configVars == <<mpptCount, stringCount, configDetected, guessed>>

(* begin(): a meter asks nothing, the inverter its phases, and neither     *)
(* fails.                                                                  *)
Begin ==
    /\ block = "begin"
    /\ IF unit = "solplanet"
       THEN DetectPhase("idle", "idle")
       ELSE block' = "idle" /\ UNCHANGED <<isThreePhase, phaseDetected>>
    /\ UNCHANGED <<unit, device, held, configVars, success, answered>>

(* readBasic(): without its phases the inverter reads nothing.             *)
StartBasic ==
    /\ block = "idle"
    /\ answered' = {}
    /\ \/ unit # "solplanet" /\ block' = FirstBlock /\ success' = TRUE /\ UNCHANGED known
       \/ /\ unit = "solplanet"
          /\ DetectPhase("inputs", "end")
          /\ success' = (block' = "inputs")
          /\ UNCHANGED configVars
    /\ UNCHANGED <<unit, device, held>>

(* detectDeviceConfiguration(): two reads, each with a default; whatever   *)
(* came of them, they are not repeated.  The counts are kept in a byte.    *)
Byte(n) == n % 256
MpptOf(n) == IF Byte(n) = 0 \/ Byte(n) > MAX_INPUTS THEN 2 ELSE Byte(n)
\* Mutant of StringsOf: no cap.
UncappedStrings(n) == Byte(n)
StringsOf(n) == IF Byte(n) > MAX_STRINGS THEN MAX_STRINGS ELSE Byte(n)

DetectInputs ==
    /\ block = "inputs"
    /\ IF configDetected
       THEN block' = FirstBlock /\ UNCHANGED <<mpptCount, guessed>>
       ELSE /\ block' = "stringNumber"
            /\ \/ mpptCount' = MpptOf(device.inputs) /\ UNCHANGED guessed
               \/ mpptCount' = 2 /\ guessed' = TRUE
    /\ UNCHANGED <<unit, device, held, isThreePhase, phaseDetected, stringCount, configDetected,
                   success, answered>>

DetectStrings ==
    /\ block = "stringNumber"
    /\ \/ stringCount' = StringsOf(device.strings) /\ UNCHANGED guessed
       \/ stringCount' = 0 /\ guessed' = TRUE
    /\ configDetected' = TRUE /\ block' = FirstBlock
    /\ UNCHANGED <<unit, device, held, isThreePhase, phaseDetected, mpptCount, success, answered>>

(* One block.  Some are only read by an inverter that has them.            *)
Applies(b) == /\ b = "strings" => stringCount > 0
              /\ b = "epsPhases" => isThreePhase

Reading == block \in DOMAIN plan

SkipBlock ==
    /\ Reading /\ ~Applies(block)
    /\ block' = plan[block].bad
    /\ UNCHANGED <<unit, device, held, known, success, answered>>

Registers(b) == plan[b].base .. (plan[b].base + plan[b].count - 1)
Unusual(h) == {r \in Watched : h[r] # "usual"}
Responses(b) ==
    LET read == Watched \cap Registers(b)
        after(h) == [r \in Watched |-> IF r \in read THEN h[r] ELSE held[r]]
    IN  {g \in {after(h) : h \in [read -> Values]} : Cardinality(Unusual(g)) <= MaxUnusual}
ReadBlock ==
    /\ Reading /\ Applies(block)
    /\ answered' = answered \cup {block}
    /\ block' = plan[block].good
    /\ held' \in Responses(block)
    /\ UNCHANGED <<unit, device, known, success>>

(* Mutant of Fatal: only the first block of an inverter's readings counts. *)
FirstFatal(b) == plan[b].required /\ b \in {"basic", "battery"}
Fatal(b) == plan[b].required

FailBlock ==
    /\ Reading /\ Applies(block)
    /\ success' = (success /\ ~Fatal(block))
    /\ block' = plan[block].bad
    /\ UNCHANGED <<unit, device, held, known, answered>>

(* What was decoded; a call without a point has failed.                    *)
Out == UNION {Decoded(b) : b \in answered}
Published == success /\ Out # {}

(* Poller::readAndPublishTelemetry: publish, or drop it all; then storage. *)
StartStorage ==
    /\ block = "end" /\ Published /\ device.storage /\ unit = "solplanet"
    /\ block' = "battery" /\ success' = TRUE /\ answered' = {}
    /\ UNCHANGED <<unit, device, held, known>>

EndPoll ==
    /\ \/ block = "end" /\ ~(Published /\ device.storage /\ unit = "solplanet")
       \/ block = "stored"
    /\ block' = "idle" /\ success' = TRUE /\ answered' = {} /\ held' = AllUsual
    /\ UNCHANGED <<unit, device, known>>

BuiltinNext == Begin \/ StartBasic \/ DetectInputs \/ DetectStrings \/ SkipBlock
               \/ ReadBlock \/ FailBlock \/ StartStorage \/ EndPoll

BuiltinSpec == BuiltinInit /\ [][BuiltinNext]_builtinVars

-----------------------------------------------------------------------------
BuiltinTypeOK ==
    /\ unit \in Units
    /\ device \in Devices /\ held \in [Watched -> Values]
    /\ isThreePhase \in BOOLEAN /\ phaseDetected \in BOOLEAN
    /\ mpptCount \in 0..MAX_INPUTS /\ stringCount \in 0..MAX_STRINGS
    /\ configDetected \in BOOLEAN /\ guessed \in BOOLEAN /\ success \in BOOLEAN
    /\ block \in DOMAIN plan \cup {"begin", "idle", "inputs", "stringNumber", "end", "stored"}
    /\ answered \subseteq DOMAIN plan

(* The registers a point is decoded from.                                  *)
From(b, p) == {plan[b].base + p.at + i : i \in 0..(p.words - 1)}
Pushed == UNION {{<<b, p>> : p \in Decoded(b)} : b \in answered}

(* A point is made from the registers that begin at its label, all of them *)
(* within the response they are taken from; whichever blocks were answered *)
(* and whichever values are missing, no register goes out as two values in *)
(* a poll, and no text or product without the values it is made from.      *)
LabelsAreTrue ==
    block \in {"end", "stored"} =>
        LET pushed == Pushed
            values == {e \in pushed : e[2].as = "value"}
            sources == UNION {From(e[1], e[2]) : e \in values}
        IN  /\ \A e \in pushed :
                  /\ From(e[1], e[2]) = e[2].label .. (e[2].label + e[2].words - 1)
                  /\ e[2].at + e[2].words <= plan[e[1]].count
            /\ Cardinality(sources) =
                  Cardinality(values) + Cardinality({e \in values : e[2].words = 2})
            /\ \A e \in pushed \ values : From(e[1], e[2]) \subseteq sources

(* What an inverter publishes has as many phases as it has, though it may  *)
(* answer anything, or nothing, while it starts up: each value it gives of *)
(* a phase if there are three, and none if there is one.                   *)
PhasesAreReal ==
    block = "end" /\ Published /\ unit = "solplanet" =>
        LET out == Out IN
        \A b \in answered : \A p \in PhasePoints(b) : p \in out <=> device.three /\ Kept(p)

(* Telemetry goes out whole or not at all: of an inverter its measurements,*)
(* its inputs and the grid, of a meter each quantity of the moment that it *)
(* gives, of the real one also each of its three counters ("Read           *)
(* instantaneous measurement registers (required)").                       *)
Given(S) == {r \in S : Holds(r) # "none"}
NothingPartial ==
    block = "end" /\ Published =>
        CASE unit = "solplanet" -> {"basic", "pv", "grid"} \subseteq answered
          [] unit = "hiking"    -> {p.label : p \in Out} = Given({0, 8, 10} \cup 12..17)
          [] unit = "simulator" -> Given(12..17) \subseteq {p.label : p \in Out}

(* Every input of the inverter with a voltage to publish is published, as  *)
(* long as the reads that count them were answered; a default is never     *)
(* corrected.                                                              *)
AllInputsPublished ==
    /\ block = "end" /\ Published /\ unit = "solplanet" /\ ~guessed
    /\ device.inputs <= MAX_INPUTS
    => UNION {Input(i) : i \in {i \in 1..device.inputs : Connected(i)}} \subseteq Out
=============================================================================
