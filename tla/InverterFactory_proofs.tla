------------------------- MODULE InverterFactory_proofs -------------------------
(***************************************************************************)
(* What a built-in device publishes is whole, has all of its inputs and    *)
(* the phases it has: for all counts an inverter may report and any order  *)
(* in which reads fail.  And the factory makes nothing else: what is       *)
(* proved of a device holds of the one that is created.                    *)
(***************************************************************************)
EXTENDS InverterFactory, GenericDevice_proofs

(* The blocks of the inverter by where they stand in its plan.             *)
Waits == {"begin", "idle", "inputs", "stringNumber", "end", "stored"}
Basics == {"address", "gridCode", "basic"}
AfterGrid == {"connection", "acEnergy", "eps", "epsPower", "epsPhases", "gridPower"}
AfterPv == {"strings", "pvEnergy", "grid"} \cup AfterGrid
Storages == {"battery", "bms", "generator"}

LEMMA SolplanetBlocks ==
    DOMAIN Solplanet = Basics \cup {"pv"} \cup AfterPv \cup Storages
BY DEF Solplanet, Basics, AfterPv, AfterGrid, Storages

LEMMA HikingBlocks == DOMAIN Hiking = {"instant", "total", "export", "import"}
BY DEF Hiking

LEMMA SimulatorBlocks == DOMAIN Simulator = {"all", "energy", "total", "instant"}
BY DEF Simulator

(* Where the plans lead.                                                   *)
LEMMA SolplanetNext ==
    /\ \A b \in Basics : {Solplanet[b].good, Solplanet[b].bad} \subseteq Basics \cup {"pv"}
    /\ Solplanet["pv"].good = "strings" /\ Solplanet["pv"].bad = "grid"
    /\ \A b \in AfterPv :
          {Solplanet[b].good, Solplanet[b].bad} \subseteq AfterPv \cup {"end"}
    /\ \A b \in AfterGrid :
          {Solplanet[b].good, Solplanet[b].bad} \subseteq AfterGrid \cup {"end"}
    /\ \A b \in Storages :
          {Solplanet[b].good, Solplanet[b].bad} \subseteq Storages \cup {"stored"}
<1>1. \A b \in Basics : {Solplanet[b].good, Solplanet[b].bad} \subseteq Basics \cup {"pv"}
  BY DEF Solplanet, Read, Basics
<1>2. Solplanet["pv"].good = "strings" /\ Solplanet["pv"].bad = "grid"
  BY DEF Solplanet, Read
<1>3. \A b \in AfterGrid :
          {Solplanet[b].good, Solplanet[b].bad} \subseteq AfterGrid \cup {"end"}
  BY DEF Solplanet, Read, AfterGrid
<1>4. \A b \in {"strings", "pvEnergy", "grid"} :
          {Solplanet[b].good, Solplanet[b].bad} \subseteq AfterPv
  BY DEF Solplanet, Read, AfterPv, AfterGrid
<1>5. \A b \in Storages :
          {Solplanet[b].good, Solplanet[b].bad} \subseteq Storages \cup {"stored"}
  BY DEF Solplanet, Read, Storages
<1>. QED BY <1>1, <1>2, <1>3, <1>4, <1>5 DEF AfterPv

LEMMA SolplanetOrder ==
    /\ \A b \in {"address", "gridCode"} : {Solplanet[b].good, Solplanet[b].bad} \subseteq Basics
    /\ Solplanet["basic"].required /\ Solplanet["pv"].required /\ Solplanet["grid"].required
    /\ \A b \in {"strings", "pvEnergy"} :
          {Solplanet[b].good, Solplanet[b].bad} \subseteq {"pvEnergy", "grid"}
BY DEF Solplanet, Read, Basics

LEMMA HikingNext ==
    /\ \A b \in DOMAIN Hiking : Hiking[b].required
    /\ Hiking["instant"].good = "total" /\ Hiking["instant"].bad = "total"
    /\ Hiking["total"].good = "export" /\ Hiking["total"].bad = "end"
    /\ Hiking["export"].good = "import" /\ Hiking["export"].bad = "end"
    /\ Hiking["import"].good = "end" /\ Hiking["import"].bad = "end"
<1>1. \A b \in DOMAIN Hiking : Hiking[b].required
  BY HikingBlocks DEF Hiking, Read
<1>. QED BY <1>1 DEF Hiking, Read

LEMMA SimulatorNext ==
    /\ Simulator["all"].good = "end" /\ Simulator["all"].bad = "energy"
    /\ \A b \in {"energy", "total"} :
          {Simulator[b].good, Simulator[b].bad} \subseteq {"total", "instant"}
    /\ Simulator["instant"].required
    /\ Simulator["instant"].good = "end" /\ Simulator["instant"].bad = "end"
BY DEF Simulator, Read

-----------------------------------------------------------------------------
(* The inductive invariant.  A reading that still counts as a success has  *)
(* all the required blocks behind it.                                      *)
Behind ==
    success =>
        /\ unit = "solplanet" =>
              /\ block \in {"pv", "end"} \cup AfterPv => "basic" \in answered
              /\ block \in {"end"} \cup AfterPv => "pv" \in answered
              /\ block \in {"end"} \cup AfterGrid => "grid" \in answered
        /\ unit = "hiking" =>
              /\ block # "instant" /\ block \in DOMAIN Hiking \cup {"end"} => "instant" \in answered
              /\ block \in {"export", "import", "end"} => "total" \in answered
              /\ block \in {"import", "end"} => "export" \in answered
              /\ block = "end" => "import" \in answered
        /\ unit = "simulator" /\ block = "end" => {"all", "instant"} \cap answered # {}

(* Whoever reads has asked for the counts, and either they were answered   *)
(* or a default stands in.                                                 *)
Asked ==
    unit = "solplanet" =>
        /\ block \in DOMAIN Solplanet \cup {"stored"} => configDetected
        /\ block = "end" /\ success => configDetected
        /\ (configDetected \/ block = "stringNumber") /\ ~guessed
              => mpptCount = MpptOf(device.inputs)

BuiltinInv == BuiltinTypeOK /\ Behind /\ Asked

LEMMA Counts == \A n \in Nat : MpptOf(n) \in 0..MAX_INPUTS /\ StringsOf(n) \in 0..MAX_STRINGS
BY BuiltinAssumption DEF MpptOf, StringsOf, Byte

LEMMA UsualHeld == AllUsual \in [Watched -> Values]
BY DEF AllUsual, Values

LEMMA InitInv == BuiltinInit => BuiltinInv
<1>. SUFFICES ASSUME BuiltinInit PROVE BuiltinInv
  OBVIOUS
<1>1. BuiltinTypeOK
  <2>1. 0 \in 0..MAX_INPUTS /\ 0 \in 0..MAX_STRINGS
    BY BuiltinAssumption
  <2>2. held \in [Watched -> Values]
    BY UsualHeld DEF BuiltinInit
  <2>. QED BY <2>1, <2>2 DEF BuiltinInit, BuiltinTypeOK
<1>2. Behind
  BY HikingBlocks DEF BuiltinInit, Behind, AfterPv, AfterGrid
<1>3. Asked
  <2>1. block \notin DOMAIN Solplanet \cup {"stored"} /\ block \notin {"end", "stringNumber"}
    BY SolplanetBlocks DEF BuiltinInit, Basics, AfterPv, AfterGrid, Storages
  <2>. QED BY <2>1 DEF BuiltinInit, Asked
<1>. QED BY <1>1, <1>2, <1>3 DEF BuiltinInv

(* What a step over one block comes to, for each unit.                     *)
LEMMA PlanStep ==
    ASSUME BuiltinTypeOK, Reading,
           NEW b \in {plan[block].good, plan[block].bad}
    PROVE  b \in DOMAIN plan \cup {"end", "stored"}
<1>. unit \in Units
  BY DEF BuiltinTypeOK
<1>1. CASE unit = "solplanet"
  <2>1. plan = Solplanet
    BY <1>1 DEF plan
  <2>2. block \in Basics \cup {"pv"} \cup AfterPv \cup Storages
    BY <2>1, SolplanetBlocks DEF Reading
  <2>3. b \in Basics \cup {"pv"} \cup AfterPv \cup Storages \cup {"end", "stored"}
    BY <2>1, <2>2, SolplanetNext DEF AfterPv
  <2>. QED BY <2>1, <2>3, SolplanetBlocks
<1>2. CASE unit = "hiking"
  BY <1>2, HikingBlocks, HikingNext DEF plan, Reading
<1>3. CASE unit = "simulator"
  BY <1>3, SimulatorBlocks, SimulatorNext DEF plan, Reading
<1>. QED BY <1>1, <1>2, <1>3 DEF Units

(* What the registers hold: a value of each, whatever a response changed.  *)
LEMMA HeldStep ==
    ASSUME BuiltinTypeOK, [BuiltinNext]_builtinVars
    PROVE  held' \in [Watched -> Values]
<1>1. CASE ReadBlock
  <2>1. PICK h \in [Watched \cap Registers(block) -> Values] :
           held' = [r \in Watched |-> IF r \in Watched \cap Registers(block) THEN h[r]
                                                                           ELSE held[r]]
    BY <1>1 DEF ReadBlock, Responses
  <2>2. held \in [Watched -> Values]
    BY DEF BuiltinTypeOK
  <2>. QED BY <2>1, <2>2
<1>2. CASE EndPoll
  BY <1>2, UsualHeld DEF EndPoll
<1>3. CASE held' = held
  BY <1>3 DEF BuiltinTypeOK
<1>. QED BY <1>1, <1>2, <1>3
         DEF BuiltinNext, builtinVars, Begin, StartBasic, DetectInputs, DetectStrings, SkipBlock,
             FailBlock, StartStorage

LEMMA TypeStep ==
    ASSUME BuiltinInv, [BuiltinNext]_builtinVars
    PROVE  BuiltinTypeOK'
<1>. USE DEF BuiltinInv
<1>1. unit' = unit /\ device' = device /\ plan' = plan
  BY DEF BuiltinNext, builtinVars, Begin, StartBasic, DetectInputs, DetectStrings, SkipBlock,
         ReadBlock, FailBlock, StartStorage, EndPoll, plan
<1>. unit' \in Units /\ device' \in Devices /\ held' \in [Watched -> Values]
  BY <1>1, HeldStep DEF BuiltinTypeOK
<1>2. FirstBlock \in DOMAIN plan
  BY SolplanetBlocks, HikingBlocks, SimulatorBlocks
     DEF FirstBlock, plan, BuiltinTypeOK, Units, Basics
<1>3. CASE Begin
  BY <1>1, <1>3 DEF Begin, BuiltinTypeOK, DetectPhase, configVars
<1>4. CASE StartBasic
  BY <1>1, <1>2, <1>4 DEF StartBasic, BuiltinTypeOK, DetectPhase, configVars, known
<1>5. CASE DetectInputs
  <2>0. device.inputs \in Nat
    BY BuiltinAssumption DEF BuiltinTypeOK, Devices
  <2>1. MpptOf(device.inputs) \in 0..MAX_INPUTS /\ 2 \in 0..MAX_INPUTS
    BY <2>0, Counts, BuiltinAssumption
  <2>. QED BY <1>1, <1>2, <1>5, <2>1 DEF DetectInputs, BuiltinTypeOK
<1>6. CASE DetectStrings
  <2>0. device.strings \in Nat
    BY BuiltinAssumption DEF BuiltinTypeOK, Devices
  <2>1. StringsOf(device.strings) \in 0..MAX_STRINGS /\ 0 \in 0..MAX_STRINGS
    BY <2>0, Counts, BuiltinAssumption
  <2>. QED BY <1>1, <1>2, <1>6, <2>1 DEF DetectStrings, BuiltinTypeOK
<1>7. CASE SkipBlock
  BY <1>1, <1>7, PlanStep DEF SkipBlock, BuiltinTypeOK, known
<1>8. CASE ReadBlock
  BY <1>1, <1>8, PlanStep DEF ReadBlock, Reading, BuiltinTypeOK, known
<1>9. CASE FailBlock
  BY <1>1, <1>9, PlanStep DEF FailBlock, BuiltinTypeOK, known
<1>10. CASE StartStorage
  <2>1. "battery" \in DOMAIN plan
    BY <1>10, SolplanetBlocks DEF StartStorage, plan, Storages
  <2>. QED BY <1>1, <1>10, <2>1 DEF StartStorage, BuiltinTypeOK, known
<1>11. CASE EndPoll
  BY <1>1, <1>11 DEF EndPoll, BuiltinTypeOK, known
<1>12. CASE UNCHANGED builtinVars
  BY <1>1, <1>12 DEF builtinVars, BuiltinTypeOK, known
<1>. QED BY <1>3, <1>4, <1>5, <1>6, <1>7, <1>8, <1>9, <1>10, <1>11, <1>12 DEF BuiltinNext

LEMMA AskedStep ==
    ASSUME BuiltinInv, [BuiltinNext]_builtinVars
    PROVE  Asked'
<1>. USE DEF BuiltinInv
<1>. SUFFICES ASSUME unit = "solplanet", unit' = unit, device' = device PROVE Asked'
  BY DEF BuiltinNext, builtinVars, Begin, StartBasic, DetectInputs, DetectStrings, SkipBlock,
         ReadBlock, FailBlock, StartStorage, EndPoll, Asked
<1>1. plan = Solplanet /\ FirstBlock \in DOMAIN Solplanet /\ FirstBlock # "stringNumber"
  BY SolplanetBlocks DEF plan, FirstBlock, Basics
<1>2. {"idle", "inputs", "stringNumber", "begin", "end", "stored"} \cap DOMAIN Solplanet = {}
  BY SolplanetBlocks DEF Basics, AfterPv, AfterGrid, Storages
<1>3. CASE Begin
  BY <1>2, <1>3 DEF Begin, DetectPhase, configVars, Asked
<1>4. CASE StartBasic
  BY <1>2, <1>4 DEF StartBasic, DetectPhase, configVars, Asked
<1>5. CASE DetectInputs
  BY <1>1, <1>2, <1>5 DEF DetectInputs, Asked
<1>6. CASE DetectStrings
  BY <1>1, <1>2, <1>6 DEF DetectStrings, Asked
<1>7. CASE SkipBlock \/ ReadBlock \/ FailBlock
  <2>1. block' \in DOMAIN Solplanet \cup {"end", "stored"}
    BY <1>1, <1>7, PlanStep DEF SkipBlock, ReadBlock, FailBlock
  <2>2. configDetected
    BY <1>1, <1>7 DEF SkipBlock, ReadBlock, FailBlock, Reading, Asked
  <2>. QED BY <1>2, <1>7, <2>1, <2>2 DEF SkipBlock, ReadBlock, FailBlock, known, Asked
<1>8. CASE StartStorage
  <2>1. configDetected
    BY <1>8 DEF StartStorage, Published, Asked
  <2>. QED BY <1>8, <2>1 DEF StartStorage, known, Asked
<1>9. CASE EndPoll
  BY <1>2, <1>9 DEF EndPoll, known, Asked
<1>10. CASE UNCHANGED builtinVars
  BY <1>10 DEF builtinVars, known, Asked
<1>. QED BY <1>3, <1>4, <1>5, <1>6, <1>7, <1>8, <1>9, <1>10 DEF BuiltinNext

LEMMA BehindStep ==
    ASSUME BuiltinInv, [BuiltinNext]_builtinVars
    PROVE  Behind'
<1>. USE DEF BuiltinInv
<1>0. unit' = unit /\ unit \in Units
  BY DEF BuiltinNext, builtinVars, Begin, StartBasic, DetectInputs, DetectStrings, SkipBlock,
         ReadBlock, FailBlock, StartStorage, EndPoll, BuiltinTypeOK
<1>1. CASE Begin \/ EndPoll
  <2>1. block' = "idle"
    BY <1>1 DEF Begin, EndPoll, DetectPhase
  <2>. QED BY <2>1, HikingBlocks DEF Behind, AfterPv, AfterGrid
<1>2. CASE StartBasic
  <2>1. CASE unit = "solplanet"
    BY <1>0, <1>2, <2>1 DEF StartBasic, DetectPhase, Behind, AfterPv, AfterGrid
  <2>2. CASE unit # "solplanet"
    BY <1>0, <1>2, <2>2 DEF StartBasic, FirstBlock, Behind, Units
  <2>. QED BY <2>1, <2>2
<1>3. CASE StartStorage
  BY <1>0, <1>3 DEF StartStorage, Behind, AfterPv, AfterGrid
<1>4. CASE UNCHANGED builtinVars
  BY <1>4 DEF builtinVars, Behind
<1>5. CASE DetectInputs \/ DetectStrings
  <2>1. unit = "solplanet" /\ unit' = unit
        => block' \notin {"pv", "end"} \cup AfterPv \cup AfterGrid
    BY <1>5 DEF DetectInputs, DetectStrings, FirstBlock, AfterPv, AfterGrid
  <2>2. unit = "hiking" => block' \in {"instant", "stringNumber"}
    BY <1>5 DEF DetectInputs, DetectStrings, FirstBlock
  <2>3. unit = "simulator" => block' \in {"all", "stringNumber"}
    BY <1>5 DEF DetectInputs, DetectStrings, FirstBlock
  <2>. QED BY <1>0, <2>1, <2>2, <2>3, HikingBlocks DEF Behind, Units
<1>6. CASE SkipBlock \/ ReadBlock \/ FailBlock
  <2>1. success' => success
    BY <1>6 DEF SkipBlock, ReadBlock, FailBlock
  <2>2. answered \subseteq answered'
    BY <1>6 DEF SkipBlock, ReadBlock, FailBlock
  <2>3. Reading /\ block' \in {plan[block].good, plan[block].bad}
    BY <1>6 DEF SkipBlock, ReadBlock, FailBlock
  <2>. SUFFICES ASSUME success', success PROVE Behind'
    BY <2>1 DEF Behind
  <2>4. plan[block].required /\ Applies(block)
        => block \in answered' /\ block' = plan[block].good
    BY <1>6 DEF SkipBlock, ReadBlock, FailBlock, Fatal
  <2>5. CASE unit = "solplanet"
    <3>1. plan = Solplanet /\ block \in Basics \cup {"pv"} \cup AfterPv \cup Storages
      BY <2>3, <2>5, SolplanetBlocks DEF plan, Reading
    <3>2. CASE block \in {"address", "gridCode"}
      <4>1. block' \in Basics
        BY <2>3, <3>1, <3>2, SolplanetOrder
      <4>. QED BY <1>0, <2>5, <4>1 DEF Behind, Basics, AfterPv, AfterGrid
    <3>3. CASE block = "basic"
      <4>1. "basic" \in answered' /\ block' \in Basics \cup {"pv"}
        BY <2>3, <2>4, <3>1, <3>3, SolplanetOrder, SolplanetNext DEF Applies, Basics
      <4>. QED BY <1>0, <2>5, <4>1 DEF Behind, Basics, AfterPv, AfterGrid
    <3>4. CASE block = "pv"
      <4>1. {"basic", "pv"} \subseteq answered' /\ block' = "strings"
        BY <2>2, <2>4, <2>5, <3>1, <3>4, SolplanetOrder, SolplanetNext DEF Applies, Behind
      <4>. QED BY <1>0, <2>5, <4>1 DEF Behind, AfterPv, AfterGrid
    <3>5. CASE block \in {"strings", "pvEnergy"}
      <4>1. block' \in {"pvEnergy", "grid"}
        BY <2>3, <3>1, <3>5, SolplanetOrder
      <4>2. {"basic", "pv"} \subseteq answered'
        BY <2>2, <2>5, <3>5 DEF Behind, AfterPv
      <4>. QED BY <1>0, <2>5, <4>1, <4>2 DEF Behind, AfterPv, AfterGrid
    <3>6. CASE block \in {"grid"} \cup AfterGrid
      <4>1. {"basic", "pv", "grid"} \subseteq answered'
        BY <2>2, <2>4, <2>5, <3>1, <3>6, SolplanetOrder DEF Applies, Behind, AfterPv, AfterGrid
      <4>. QED BY <1>0, <2>5, <4>1 DEF Behind
    <3>7. CASE block \in Storages
      <4>1. block' \in Storages \cup {"stored"}
        BY <2>3, <3>1, <3>7, SolplanetNext
      <4>. QED BY <1>0, <2>5, <4>1 DEF Behind, Storages, AfterPv, AfterGrid
    <3>. QED BY <3>1, <3>2, <3>3, <3>4, <3>5, <3>6, <3>7 DEF Basics, AfterPv
  <2>6. CASE unit = "hiking"
    <3>1. plan = Hiking /\ block \in {"instant", "total", "export", "import"}
      BY <2>3, <2>6, HikingBlocks DEF plan, Reading
    <3>2. block \in answered' /\ block' = Hiking[block].good
      BY <2>4, <3>1, HikingNext, HikingBlocks DEF Applies
    <3>3. CASE block = "instant"
      BY <1>0, <2>2, <2>6, <3>2, <3>3, HikingNext DEF Behind
    <3>4. CASE block = "total"
      <4>1. {"instant", "total"} \subseteq answered' /\ block' = "export"
        BY <2>2, <2>6, <3>2, <3>4, HikingNext, HikingBlocks DEF Behind
      <4>. QED BY <1>0, <2>6, <4>1 DEF Behind
    <3>5. CASE block = "export"
      <4>1. {"instant", "total", "export"} \subseteq answered' /\ block' = "import"
        BY <2>2, <2>6, <3>2, <3>5, HikingNext, HikingBlocks DEF Behind
      <4>. QED BY <1>0, <2>6, <4>1 DEF Behind
    <3>6. CASE block = "import"
      <4>1. {"instant", "total", "export", "import"} \subseteq answered' /\ block' = "end"
        BY <2>2, <2>6, <3>2, <3>6, HikingNext, HikingBlocks DEF Behind
      <4>. QED BY <1>0, <2>6, <4>1 DEF Behind
    <3>. QED BY <3>1, <3>3, <3>4, <3>5, <3>6
  <2>7. CASE unit = "simulator"
    <3>1. plan = Simulator /\ block \in {"all", "energy", "total", "instant"}
      BY <2>3, <2>7, SimulatorBlocks DEF plan, Reading
    <3>2. CASE block = "all"
      <4>1. block' = "end" => "all" \in answered'
        BY <1>6, <3>1, <3>2, SimulatorNext DEF SkipBlock, ReadBlock, FailBlock, Applies
      <4>. QED BY <1>0, <2>7, <4>1 DEF Behind
    <3>3. CASE block \in {"energy", "total"}
      <4>1. block' # "end"
        BY <2>3, <3>1, <3>3, SimulatorNext
      <4>. QED BY <1>0, <2>7, <4>1 DEF Behind
    <3>4. CASE block = "instant"
      <4>1. "instant" \in answered'
        BY <2>4, <3>1, <3>4, SimulatorNext DEF Applies
      <4>. QED BY <1>0, <2>7, <4>1 DEF Behind
    <3>. QED BY <3>1, <3>2, <3>3, <3>4
  <2>. QED BY <1>0, <2>5, <2>6, <2>7 DEF Units
<1>. QED BY <1>1, <1>2, <1>3, <1>4, <1>5, <1>6 DEF BuiltinNext

LEMMA BuiltinInvariant == BuiltinSpec => []BuiltinInv
<1>1. BuiltinInv /\ [BuiltinNext]_builtinVars => BuiltinInv'
  BY TypeStep, AskedStep, BehindStep DEF BuiltinInv
<1>. QED BY InitInv, <1>1, PTL DEF BuiltinSpec

(* Nothing unexpected is ever in the state of a device.                    *)
THEOREM BuiltinTypes == BuiltinSpec => []BuiltinTypeOK
BY BuiltinInvariant, PTL DEF BuiltinInv

-----------------------------------------------------------------------------
(* The labels of what the meters decode.                                   *)
LEMMA PointLabels ==
    ASSUME NEW w, NEW S PROVE {p.label : p \in Points(w, S)} = {q[2] : q \in S}
<1>1. \A q \in S : Point(q[1], q[2], w, "value").label = q[2]
  BY DEF Point
<1>. QED BY <1>1 DEF Points

LEMMA InstantLabels ==
    ASSUME NEW n PROVE {p.label : p \in Instantaneous(n)} = 12..17
<1>. DEFINE S == {<<n + i, 12 + i>> : i \in 0..5}
<1>1. {q[2] : q \in S} = {12 + i : i \in 0..5}
  <2>1. \A i \in 0..5 : <<n + i, 12 + i>>[2] = 12 + i
    OBVIOUS
  <2>. QED BY <2>1, Zenon
<1>2. {12 + i : i \in 0..5} = 12..17
  <2>1. \A k \in 12..17 : k - 12 \in 0..5 /\ 12 + (k - 12) = k
    OBVIOUS
  <2>2. \A i \in 0..5 : 12 + i \in 12..17
    OBVIOUS
  <2>. QED BY <2>1, <2>2
<1>. QED BY <1>1, <1>2, PointLabels DEF Instantaneous

LEMMA CounterLabels ==
    /\ {p.label : p \in MeterPoints("total")} = {0}
    /\ {p.label : p \in MeterPoints("export")} = {8}
    /\ {p.label : p \in MeterPoints("import")} = {10}
<1>1. \A n : {p.label : p \in Points(2, {<<0, n>>})} = {n}
  <2>. TAKE n
  <2>1. {q[2] : q \in {<<0, n>>}} = {n}
    OBVIOUS
  <2>. QED BY <2>1, PointLabels
<1>2. /\ MeterPoints("total") = Points(2, {<<0, 0>>})
      /\ MeterPoints("export") = Points(2, {<<0, 8>>})
      /\ MeterPoints("import") = Points(2, {<<0, 10>>})
  BY DEF MeterPoints
<1>. QED BY <1>1, <1>2

(* A meter's points are values, and drop out only for want of one.         *)
MeterBlocks == {"all", "energy", "total", "export", "import", "instant"}
LEMMA MeterValues ==
    \A b \in MeterBlocks : \A p \in MeterPoints(b) : p.as = "value" /\ p.label \in 0..17
<1>1. \A n : \A p \in Instantaneous(n) : p.as = "value" /\ p.label \in 0..17
  BY DEF Instantaneous, Points, Point
<1>2. \A n : \A p \in Energies(n) : p.as = "value" /\ p.label \in 0..17
  BY DEF Energies, Points, Point
<1>3. /\ \A p \in MeterPoints("total") : p.as = "value" /\ p.label \in 0..17
      /\ \A p \in MeterPoints("export") : p.as = "value" /\ p.label \in 0..17
      /\ \A p \in MeterPoints("import") : p.as = "value" /\ p.label \in 0..17
  BY DEF MeterPoints, Points, Point
<1>4. /\ MeterPoints("all") = Energies(0) \cup Instantaneous(InstantStart)
      /\ MeterPoints("energy") = Energies(0) /\ MeterPoints("instant") = Instantaneous(0)
  BY DEF MeterPoints
<1>. QED BY <1>1, <1>2, <1>3, <1>4 DEF MeterBlocks

LEMMA HoldsValue == ASSUME BuiltinTypeOK, NEW r PROVE Holds(r) \in Values
BY DEF BuiltinTypeOK, Holds, Values

LEMMA MeterKept ==
    ASSUME BuiltinTypeOK, unit # "solplanet", NEW b \in MeterBlocks
    PROVE  {p.label : p \in Decoded(b)} = Given({p.label : p \in MeterPoints(b)})
<1>1. ASSUME NEW p \in MeterPoints(b) PROVE Kept(p) <=> Holds(p.label) # "none"
  <2>1. p.as = "value" /\ p.label \in 0..17
    BY MeterValues
  <2>2. p.label \notin Floored
    BY <2>1 DEF Floored
  <2>3. Holds(p.label) \in {"none", "odd", "usual"}
    BY HoldsValue DEF Values
  <2>. QED BY <2>1, <2>2, <2>3 DEF Kept
<1>2. Decoded(b) = {p \in MeterPoints(b) : Kept(p)}
  BY DEF Decoded, AllPoints
<1>. QED BY <1>1, <1>2 DEF Given

LEMMA WholeInv == BuiltinInv => NothingPartial
<1>. SUFFICES ASSUME BuiltinInv, block = "end", Published PROVE NothingPartial
  BY DEF NothingPartial
<1>. unit \in Units /\ BuiltinTypeOK
  BY DEF BuiltinInv, BuiltinTypeOK
<1>1. success
  BY DEF Published
<1>2. CASE unit = "solplanet"
  BY <1>1, <1>2 DEF BuiltinInv, Behind, NothingPartial
<1>3. CASE unit = "hiking"
  <2>1. answered = {"instant", "total", "export", "import"}
    BY <1>1, <1>3, HikingBlocks DEF BuiltinInv, Behind, BuiltinTypeOK, plan
  <2>2. Out = Decoded("instant") \cup Decoded("total") \cup Decoded("export")
              \cup Decoded("import")
    BY <2>1 DEF Out
  <2>3. {p.label : p \in Out} = {p.label : p \in Decoded("instant")}
          \cup {p.label : p \in Decoded("total")} \cup {p.label : p \in Decoded("export")}
          \cup {p.label : p \in Decoded("import")}
    BY <2>2
  <2>4. MeterPoints("instant") = Instantaneous(0)
    BY DEF MeterPoints
  <2>5. {p.label : p \in MeterPoints("instant")} = 12..17
    BY <2>4, InstantLabels
  <2>6. /\ {p.label : p \in Decoded("instant")} = Given(12..17)
        /\ {p.label : p \in Decoded("total")} = Given({0})
        /\ {p.label : p \in Decoded("export")} = Given({8})
        /\ {p.label : p \in Decoded("import")} = Given({10})
    BY <1>3, <2>5, MeterKept, CounterLabels DEF MeterBlocks
  <2>7. {p.label : p \in Out} = Given({0, 8, 10} \cup 12..17)
    BY <2>3, <2>6 DEF Given
  <2>. QED BY <1>3, <2>7 DEF NothingPartial
<1>4. CASE unit = "simulator"
  <2>1. PICK b \in answered : b \in {"all", "instant"}
    BY <1>1, <1>4 DEF BuiltinInv, Behind
  <2>2. PICK n : Instantaneous(n) \subseteq MeterPoints(b)
    BY <2>1 DEF MeterPoints
  <2>3. Decoded(b) \subseteq Out
    BY <2>1 DEF Out
  <2>4. 12..17 \subseteq {p.label : p \in MeterPoints(b)}
    <3>1. {p.label : p \in Instantaneous(n)} \subseteq {p.label : p \in MeterPoints(b)}
      BY <2>2
    <3>. QED BY <3>1, InstantLabels
  <2>5. {p.label : p \in Decoded(b)} = Given({p.label : p \in MeterPoints(b)})
    BY <1>4, <2>1, MeterKept DEF MeterBlocks
  <2>6. Given(12..17) \subseteq {p.label : p \in Decoded(b)}
    BY <2>4, <2>5 DEF Given
  <2>. QED BY <1>4, <2>3, <2>6 DEF NothingPartial
<1>. QED BY <1>2, <1>3, <1>4 DEF Units

(* Whatever reads fail, a poll publishes all that its device must have and *)
(* gives, or nothing: readBasic() gives up on a required block, and        *)
(* tolerates only the others; of a block that was read it drops values     *)
(* that are none, one by one.                                              *)
THEOREM NothingPartialGoesOut == BuiltinSpec => []NothingPartial
BY BuiltinInvariant, WholeInv, PTL

-----------------------------------------------------------------------------
(* A count the device gives and the block has room for is the count kept,  *)
(* unless it is zero.                                                      *)
LEMMA CountKept == \A n \in 1..MAX_INPUTS : MpptOf(n) = n
BY BuiltinAssumption DEF MpptOf, Byte

(* An input that counts as connected is kept with both values and power.   *)
LEMMA ConnectedKept ==
    ASSUME BuiltinTypeOK, MAX_INPUTS <= 10, NEW i \in 1..MAX_INPUTS, Connected(i)
    PROVE  \A p \in Input(i) : Kept(p)
<1>1. \A p \in Input(i) : p.label = Voltage(i) \/ (p.label = Current(i) /\ p.as = "value")
  BY DEF Input, Points, Point
<1>2. Holds(Voltage(i)) = "usual" /\ Holds(Current(i)) \in {"odd", "usual"}
  BY HoldsValue DEF Connected, Values
<1>3. Current(i) \notin Floored
  <2>1. MAX_INPUTS \in Nat
    BY BuiltinAssumption
  <2>2. Current(i) \in 31320..31338
    BY <2>1 DEF Current
  <2>. QED BY <2>2 DEF Floored
<1>. QED BY <1>1, <1>2, <1>3 DEF Kept

LEMMA PvPoints == SolplanetPoints("pv") = InputPoints
<1>1. "pv" \notin DOMAIN readDeviceInfo /\ "pv" \notin DOMAIN readBasicMeasurements
  BY DEF readDeviceInfo, readBasicMeasurements
<1>2. "pv" \in DOMAIN readPVInputs /\ readPVInputs["pv"] = InputPoints
  BY DEF readPVInputs
<1>3. /\ "pv" \notin DOMAIN readGridAndPhaseMeasurements
      /\ "pv" \notin DOMAIN readGridEnergyAndLoad /\ "pv" \notin DOMAIN readStorage
  BY DEF readGridAndPhaseMeasurements, readGridEnergyAndLoad, readStorage
<1>. QED BY <1>1, <1>2, <1>3 DEF SolplanetPoints

LEMMA InputsInv == ASSUME MAX_INPUTS <= 10, BuiltinInv PROVE AllInputsPublished
<1>. BuiltinTypeOK
  BY DEF BuiltinInv
<1>0. device.inputs \in Nat
  <2>1. device.inputs \in InputCounts
    BY DEF BuiltinTypeOK, Devices
  <2>. QED BY <2>1, BuiltinAssumption
<1>. SUFFICES ASSUME block = "end", Published, unit = "solplanet",
                     ~guessed, device.inputs <= MAX_INPUTS,
                     NEW i \in 1..device.inputs, Connected(i)
              PROVE  Input(i) \subseteq Out
  BY DEF AllInputsPublished
<1>1. device.inputs \in 1..MAX_INPUTS /\ MAX_INPUTS \in Nat /\ i \in 1..MAX_INPUTS
  <2>1. MAX_INPUTS \in Nat
    BY BuiltinAssumption
  <2>. QED BY <1>0, <2>1
<1>2. mpptCount = device.inputs
  <2>1. mpptCount = MpptOf(device.inputs)
    BY DEF BuiltinInv, Asked, Published
  <2>. QED BY <1>1, <2>1, CountKept
<1>3. "pv" \in answered
  BY DEF BuiltinInv, Behind, Published
<1>4. i \in UsedInputs
  BY <1>1, <1>2 DEF UsedInputs
<1>5. Input(i) \subseteq AllPoints("pv")
  <2>1. Input(i) \subseteq InputPoints
    BY <1>4 DEF InputPoints
  <2>. QED BY <2>1, PvPoints DEF AllPoints
<1>6. \A p \in Input(i) : Kept(p)
  BY <1>1, ConnectedKept
<1>7. Input(i) \subseteq Decoded("pv")
  BY <1>5, <1>6 DEF Decoded
<1>. QED BY <1>3, <1>7 DEF Out

(* However many inputs an inverter has, up to those the block of registers *)
(* has room for: voltage, current and power of each that counts as         *)
(* connected are in what is published, unless a read that counts failed    *)
(* and detectDeviceConfiguration() assumed a default.                      *)
THEOREM AllInputsArePublished ==
    ASSUME MAX_INPUTS <= 10
    PROVE  BuiltinSpec => []AllInputsPublished
<1>1. BuiltinInv => AllInputsPublished
  BY InputsInv
<1>. QED BY <1>1, BuiltinInvariant, PTL

-----------------------------------------------------------------------------
(* PhasesAreReal.  The points of the phases by their labels and where they *)
(* stand in their blocks: no other point is labelled so there.             *)
PhaseLike(p) == \/ p.label = 31359 + p.at /\ p.at <= 8
                \/ p.label = 31663 + p.at /\ p.at <= 10
NotPhase(S) == \A p \in S : ~PhaseLike(p)

LEMMA FixedApart ==
    /\ \A b \in DOMAIN readDeviceInfo : NotPhase(readDeviceInfo[b])
    /\ \A b \in DOMAIN readBasicMeasurements : NotPhase(readBasicMeasurements[b])
    /\ \A b \in DOMAIN readGridAndPhaseMeasurements : NotPhase(readGridAndPhaseMeasurements[b])
    /\ \A b \in DOMAIN readGridEnergyAndLoad : NotPhase(readGridEnergyAndLoad[b])
    /\ \A b \in DOMAIN readStorage : NotPhase(readStorage[b])
<1>1. \A b \in DOMAIN readDeviceInfo : NotPhase(readDeviceInfo[b])
  BY DEF readDeviceInfo, NotPhase, Points, Texts, Point, PhaseLike
<1>2. \A b \in DOMAIN readBasicMeasurements : NotPhase(readBasicMeasurements[b])
  BY DEF readBasicMeasurements, NotPhase, Points, Texts, Point, PhaseLike
<1>3. \A b \in DOMAIN readGridAndPhaseMeasurements : NotPhase(readGridAndPhaseMeasurements[b])
  BY DEF readGridAndPhaseMeasurements, NotPhase, Points, Texts, Point, PhaseLike
<1>4. \A b \in DOMAIN readGridEnergyAndLoad : NotPhase(readGridEnergyAndLoad[b])
  BY DEF readGridEnergyAndLoad, NotPhase, Points, Texts, Point, PhaseLike
<1>5. \A b \in DOMAIN readStorage : NotPhase(readStorage[b])
  BY DEF readStorage, NotPhase, Points, Texts, Point, PhaseLike
<1>. QED BY <1>1, <1>2, <1>3, <1>4, <1>5

(* The points of an input: each stands where its label says.               *)
LEMMA InputIs ==
    \A p \in InputPoints :
        \E i \in 1..MAX_INPUTS :
            \/ /\ p = Point(2 * i - 2, 31317 + 2 * i, 1, "value")
               /\ p.at = 2 * i - 2 /\ p.label = 31317 + 2 * i
            \/ /\ p = Point(2 * i - 1, 31318 + 2 * i, 1, "value")
               /\ p.at = 2 * i - 1 /\ p.label = 31318 + 2 * i
            \/ /\ p = Point(2 * i - 2, 31317 + 2 * i, 2, "product")
               /\ p.at = 2 * i - 2 /\ p.label = 31317 + 2 * i
<1>. TAKE p \in InputPoints
<1>1. PICK i \in UsedInputs : p \in Input(i)
  BY DEF InputPoints
<1>2. i \in 1..MAX_INPUTS
  BY <1>1 DEF UsedInputs
<1>3. p \in {Point(2 * i - 2, Voltage(i), 1, "value"), Point(2 * i - 1, Current(i), 1, "value"),
            Point(2 * i - 2, Voltage(i), 2, "product")}
  BY <1>1 DEF Input, Points
<1>. QED BY <1>2, <1>3 DEF Point, Voltage, Current

LEMMA InputsApart == \A b \in DOMAIN readPVInputs : NotPhase(readPVInputs[b])
<1>. MAX_INPUTS \in Nat /\ MAX_STRINGS \in Nat
  BY BuiltinAssumption
<1>1. NotPhase(InputPoints)
  <2>1. ASSUME NEW p \in InputPoints PROVE ~PhaseLike(p)
    BY InputIs DEF PhaseLike
  <2>. QED BY <2>1 DEF NotPhase
<1>2. NotPhase(StringPoints)
  BY DEF StringPoints, NotPhase, Points, Point, PhaseLike
<1>3. NotPhase(Points(2, {<<0, 31601>>, <<2, 31603>>, <<4, 31605>>}))
  BY DEF NotPhase, Points, Texts, Point, PhaseLike
<1>. QED BY <1>1, <1>2, <1>3 DEF readPVInputs

LEMMA SolplanetApart == \A b \in DOMAIN Solplanet : NotPhase(SolplanetPoints(b))
<1>. TAKE b \in DOMAIN Solplanet
<1>1. \/ b \in DOMAIN readDeviceInfo \/ b \in DOMAIN readBasicMeasurements
      \/ b \in DOMAIN readPVInputs \/ b \in DOMAIN readGridAndPhaseMeasurements
      \/ b \in DOMAIN readGridEnergyAndLoad \/ b \in DOMAIN readStorage
  BY DEF Solplanet, readDeviceInfo, readBasicMeasurements, readPVInputs,
         readGridAndPhaseMeasurements, readGridEnergyAndLoad, readStorage
<1>. QED BY <1>1, FixedApart, InputsApart DEF SolplanetPoints

(* The points of the phases are such points.                               *)
LEMMA PhaseBlocks == \A b : \A p \in PhasePoints(b) : PhaseLike(p)
<1>1. \A p \in PhasePoints("grid") : PhaseLike(p)
  BY DEF PhasePoints, Points, Point, PhaseLike
<1>2. \A p \in PhasePoints("gridPower") : PhaseLike(p)
  BY DEF PhasePoints, Points, Point, PhaseLike
<1>3. \A b : b \notin {"grid", "gridPower"} => PhasePoints(b) = {}
  BY DEF PhasePoints
<1>. QED BY <1>1, <1>2, <1>3

(* An inverter that reads has told its phases, and told them truly.        *)
Phased ==
    unit = "solplanet" =>
        /\ phaseDetected => isThreePhase = device.three
        /\ block \in DOMAIN Solplanet \cup {"inputs", "stringNumber", "stored"} => phaseDetected
        /\ block = "end" /\ success => phaseDetected

LEMMA PhasedInit == BuiltinInit => Phased
<1>. SUFFICES ASSUME BuiltinInit PROVE Phased
  OBVIOUS
<1>1. block \notin DOMAIN Solplanet \cup {"inputs", "stringNumber", "stored", "end"}
  BY SolplanetBlocks DEF BuiltinInit, Basics, AfterPv, AfterGrid, Storages
<1>. QED BY <1>1 DEF BuiltinInit, Phased

LEMMA PhaseTold ==
    ASSUME BuiltinTypeOK, Phased, unit = "solplanet", NEW yes, NEW no, DetectPhase(yes, no),
           device' = device
    PROVE  /\ phaseDetected' => isThreePhase' = device'.three
           /\ \/ block' = yes /\ phaseDetected'
              \/ block' = no
<1>1. CASE UNCHANGED <<isThreePhase, phaseDetected>>
  <2>1. phaseDetected' => isThreePhase' = device'.three
    BY <1>1 DEF Phased
  <2>. QED BY <1>1, <2>1 DEF DetectPhase
<1>2. CASE ~phaseDetected /\ phaseDetected'
  <2>1. PICK type \in {IF device.three THEN "3" ELSE "1", "other"} :
           Tells(type) /\ isThreePhase' = (type = "3")
    BY <1>2 DEF DetectPhase
  <2>2. (type = "3") <=> device.three
    BY <2>1 DEF Tells
  <2>3. device.three \in BOOLEAN
    BY DEF BuiltinTypeOK, Devices
  <2>4. isThreePhase' = device'.three
    BY <2>1, <2>2, <2>3
  <2>. QED BY <1>2, <2>4 DEF DetectPhase
<1>. QED BY <1>1, <1>2 DEF DetectPhase

LEMMA PhasedStep ==
    ASSUME BuiltinInv, Phased, [BuiltinNext]_builtinVars
    PROVE  Phased'
<1>. BuiltinTypeOK
  BY DEF BuiltinInv
<1>1. unit' = unit /\ device' = device
  BY DEF BuiltinNext, builtinVars, Begin, StartBasic, DetectInputs, DetectStrings, SkipBlock,
         ReadBlock, FailBlock, StartStorage, EndPoll
<1>. SUFFICES ASSUME unit = "solplanet" PROVE Phased'
  BY <1>1 DEF Phased
<1>2. {"idle", "inputs", "stringNumber", "begin", "end", "stored"} \cap DOMAIN Solplanet = {}
  BY SolplanetBlocks DEF Basics, AfterPv, AfterGrid, Storages
<1>3. CASE Begin
  <2>1. DetectPhase("idle", "idle")
    BY <1>3 DEF Begin
  <2>. QED BY <1>1, <1>2, <2>1, PhaseTold DEF Phased
<1>4. CASE StartBasic
  <2>1. DetectPhase("inputs", "end") /\ (success' => block' = "inputs")
    BY <1>4 DEF StartBasic
  <2>2. \/ block' = "inputs" /\ phaseDetected'
        \/ block' = "end" /\ ~success'
    BY <1>1, <2>1, PhaseTold
  <2>. QED BY <1>1, <1>2, <2>1, <2>2, PhaseTold DEF Phased
<1>5. ASSUME UNCHANGED <<isThreePhase, phaseDetected>>,
             \/ block' = "idle"
             \/ block \in DOMAIN Solplanet \cup {"inputs", "stringNumber", "stored"}
             \/ block = "end" /\ success
             \/ UNCHANGED <<block, success>>
      PROVE Phased'
  BY <1>1, <1>2, <1>5 DEF Phased
<1>6. CASE DetectInputs \/ DetectStrings
  BY <1>5, <1>6 DEF DetectInputs, DetectStrings
<1>7. CASE SkipBlock \/ ReadBlock \/ FailBlock
  <2>1. block \in DOMAIN Solplanet
    BY <1>7 DEF SkipBlock, ReadBlock, FailBlock, Reading, plan
  <2>. QED BY <1>5, <1>7, <2>1 DEF SkipBlock, ReadBlock, FailBlock, known
<1>8. CASE StartStorage \/ EndPoll
  BY <1>5, <1>8 DEF StartStorage, EndPoll, Published, known
<1>9. CASE UNCHANGED builtinVars
  BY <1>5, <1>9 DEF builtinVars, known
<1>. QED BY <1>3, <1>4, <1>6, <1>7, <1>8, <1>9 DEF BuiltinNext

LEMMA PhasesInv == BuiltinInv /\ Phased => PhasesAreReal
<1>. SUFFICES ASSUME BuiltinInv, Phased, block = "end", Published, unit = "solplanet",
                     NEW b \in answered, NEW p \in PhasePoints(b)
              PROVE  p \in Out <=> device.three /\ Kept(p)
  BY DEF PhasesAreReal
<1>1. isThreePhase = device.three /\ device.three \in BOOLEAN
  BY DEF Phased, Published, BuiltinInv, BuiltinTypeOK, Devices
<1>2. answered \subseteq DOMAIN Solplanet
  BY DEF BuiltinInv, BuiltinTypeOK, plan
<1>3. p \in Out => Kept(p)
  BY DEF Out, Decoded
<1>4. CASE device.three
  <2>1. p \in AllPoints(b)
    BY <1>1, <1>4 DEF AllPoints
  <2>2. Kept(p) => p \in Out
    BY <2>1 DEF Out, Decoded
  <2>. QED BY <1>3, <1>4, <2>2
<1>5. CASE ~device.three
  <2>1. \A c \in answered : Decoded(c) \subseteq SolplanetPoints(c)
    BY <1>1, <1>5 DEF Decoded, AllPoints
  <2>2. NotPhase(Out)
    BY <1>2, <2>1, SolplanetApart DEF Out, NotPhase
  <2>3. PhaseLike(p)
    BY PhaseBlocks
  <2>. QED BY <1>5, <2>2, <2>3 DEF NotPhase
<1>. QED BY <1>1, <1>4, <1>5

(* Whatever an inverter answers while it starts up: of an inverter with    *)
(* three phases each value it gives of a phase is published with the block *)
(* it is in, and none of an inverter with one.                             *)
THEOREM PublishedPhasesAreReal == BuiltinSpec => []PhasesAreReal
<1>1. BuiltinInit => BuiltinInv /\ Phased
  BY InitInv, PhasedInit
<1>2. BuiltinInv /\ Phased /\ [BuiltinNext]_builtinVars => (BuiltinInv /\ Phased)'
  BY TypeStep, AskedStep, BehindStep, PhasedStep DEF BuiltinInv
<1>. QED BY <1>1, <1>2, PhasesInv, PTL DEF BuiltinSpec

-----------------------------------------------------------------------------
(* LabelsAreTrue.  The points of a block: each labelled with the register  *)
(* it comes from, within the registers that are the block's own, and no    *)
(* register in two values.                                                 *)
Own(S, base, top) ==
    \A p \in S : /\ p \in [at : Nat, label : Nat, words : {1, 2},
                            as : {"value", "text", "product"}]
                 /\ p.label = base + p.at /\ p.label + p.words <= top
Apart(S) ==
    \A p, q \in {r \in S : r.as = "value"} :
        p # q => p.label + p.words <= q.label \/ q.label + q.words <= p.label

(* The fixed tables, block by block.                                       *)
LEMMA InfoOwn ==
    /\ Own(readDeviceInfo["address"], 31002, 31003) /\ Apart(readDeviceInfo["address"])
    /\ Own(readDeviceInfo["gridCode"], 31027, 31028) /\ Apart(readDeviceInfo["gridCode"])
BY DEF readDeviceInfo, Points, Texts, Point, Own, Apart

LEMMA BasicOwn == Own(readBasicMeasurements["basic"], 31301, 31319)
BY DEF readBasicMeasurements, Points, Texts, Point, Own
LEMMA BasicApart == Apart(readBasicMeasurements["basic"])
BY DEF readBasicMeasurements, Points, Texts, Point, Apart

(* With the points a three-phase inverter has besides.                     *)
GridPoints(b) == readGridAndPhaseMeasurements[b] \cup PhasePoints(b)
EnergyPoints(b) == readGridEnergyAndLoad[b] \cup PhasePoints(b)

LEMMA GridOwn == Own(GridPoints("grid"), 31359, 31380)
BY DEF GridPoints, readGridAndPhaseMeasurements, PhasePoints, Points, Texts, Point, Own
LEMMA GridApart == Apart(GridPoints("grid"))
BY DEF GridPoints, readGridAndPhaseMeasurements, PhasePoints, Points, Texts, Point, Apart
LEMMA ConnOwn ==
    /\ Own(GridPoints("connection"), 31391, 31392)
    /\ Apart(GridPoints("connection"))
BY DEF GridPoints, readGridAndPhaseMeasurements, PhasePoints, Points, Texts, Point, Own, Apart
LEMMA EnergyOwn ==
    /\ Own(EnergyPoints("acEnergy"), 31630, 31634)
    /\ Own(EnergyPoints("eps"), 31634, 31637)
    /\ Own(EnergyPoints("epsPower"), 31637, 31645)
    /\ Own(EnergyPoints("epsPhases"), 31645, 31663)
    /\ Own(EnergyPoints("gridPower"), 31663, 31679)
<1>1. Own(EnergyPoints("acEnergy"), 31630, 31634)
  BY DEF EnergyPoints, readGridEnergyAndLoad, PhasePoints, Points, Texts, Point, Own
<1>2. Own(EnergyPoints("eps"), 31634, 31637)
  BY DEF EnergyPoints, readGridEnergyAndLoad, PhasePoints, Points, Texts, Point, Own
<1>3. Own(EnergyPoints("epsPower"), 31637, 31645)
  BY DEF EnergyPoints, readGridEnergyAndLoad, PhasePoints, Points, Texts, Point, Own
<1>4. Own(EnergyPoints("epsPhases"), 31645, 31663)
  BY DEF EnergyPoints, readGridEnergyAndLoad, PhasePoints, Points, Texts, Point, Own
<1>5. Own(EnergyPoints("gridPower"), 31663, 31679)
  BY DEF EnergyPoints, readGridEnergyAndLoad, PhasePoints, Points, Texts, Point, Own
<1>. QED BY <1>1, <1>2, <1>3, <1>4, <1>5

LEMMA EnergyApart ==
    /\ Apart(EnergyPoints("acEnergy"))
    /\ Apart(EnergyPoints("eps"))
    /\ Apart(EnergyPoints("epsPower"))
    /\ Apart(EnergyPoints("epsPhases"))
    /\ Apart(EnergyPoints("gridPower"))
<1>1. Apart(EnergyPoints("acEnergy"))
  BY DEF EnergyPoints, readGridEnergyAndLoad, PhasePoints, Points, Texts, Point, Apart
<1>2. Apart(EnergyPoints("eps"))
  BY DEF EnergyPoints, readGridEnergyAndLoad, PhasePoints, Points, Texts, Point, Apart
<1>3. Apart(EnergyPoints("epsPower"))
  BY DEF EnergyPoints, readGridEnergyAndLoad, PhasePoints, Points, Texts, Point, Apart
<1>4. Apart(EnergyPoints("epsPhases"))
  BY DEF EnergyPoints, readGridEnergyAndLoad, PhasePoints, Points, Texts, Point, Apart
<1>5. Apart(EnergyPoints("gridPower"))
  BY DEF EnergyPoints, readGridEnergyAndLoad, PhasePoints, Points, Texts, Point, Apart
<1>. QED BY <1>1, <1>2, <1>3, <1>4, <1>5

LEMMA StorageOwn ==
    /\ Own(readStorage["battery"], 31607, 31630) /\ Apart(readStorage["battery"])
    /\ Own(readStorage["bms"], 31679, 31682) /\ Apart(readStorage["bms"])
    /\ Own(readStorage["generator"], 31685, 31688) /\ Apart(readStorage["generator"])
<1>1. Own(readStorage["battery"], 31607, 31630)
  BY DEF readStorage, Points, Texts, Point, Own
<1>2. Apart(readStorage["battery"])
  BY DEF readStorage, Points, Texts, Point, Apart
<1>3. Own(readStorage["bms"], 31679, 31682) /\ Apart(readStorage["bms"])
  BY DEF readStorage, Points, Texts, Point, Own, Apart
<1>4. Own(readStorage["generator"], 31685, 31688) /\ Apart(readStorage["generator"])
  BY DEF readStorage, Points, Texts, Point, Own, Apart
<1>. QED BY <1>1, <1>2, <1>3, <1>4

(* As many inputs and strings as their blocks have registers for.          *)
LEMMA PVOwn ==
    ASSUME MAX_INPUTS <= 10, MAX_STRINGS <= 20
    PROVE  /\ Own(readPVInputs["pv"], 31319, 31339) /\ Apart(readPVInputs["pv"])
           /\ Own(readPVInputs["strings"], 31339, 31359) /\ Apart(readPVInputs["strings"])
           /\ Own(readPVInputs["pvEnergy"], 31601, 31607) /\ Apart(readPVInputs["pvEnergy"])
<1>. MAX_INPUTS \in Nat /\ MAX_STRINGS \in Nat
  BY BuiltinAssumption
<1>1. Own(InputPoints, 31319, 31339)
  <2>1. ASSUME NEW p \in InputPoints
        PROVE  /\ p \in [at : Nat, label : Nat, words : {1, 2},
                          as : {"value", "text", "product"}]
               /\ p.label = 31319 + p.at /\ p.label + p.words <= 31339
    BY InputIs DEF Point
  <2>. QED BY <2>1 DEF Own
<1>2. Apart(InputPoints)
  <2>1. \A p \in {r \in InputPoints : r.as = "value"} :
           p = Point(p.label - 31319, p.label, 1, "value") /\ p.words = 1 /\ p.label \in Nat
    BY InputIs DEF Point
  <2>2. ASSUME NEW p \in {r \in InputPoints : r.as = "value"},
               NEW q \in {r \in InputPoints : r.as = "value"}, p # q
        PROVE  p.label + p.words <= q.label \/ q.label + q.words <= p.label
    <3>1. p.label # q.label
      BY <2>1, <2>2
    <3>. QED BY <2>1, <3>1
  <2>. QED BY <2>2 DEF Apart
<1>3. Own(StringPoints, 31339, 31359)
  BY DEF StringPoints, Points, Point, Own
<1>4. Apart(StringPoints)
  BY DEF StringPoints, Points, Point, Apart
<1>5. Own(readPVInputs["pvEnergy"], 31601, 31607) /\ Apart(readPVInputs["pvEnergy"])
  BY DEF readPVInputs, Points, Point, Own, Apart
<1>6. readPVInputs["pv"] = InputPoints /\ readPVInputs["strings"] = StringPoints
  BY DEF readPVInputs
<1>. QED BY <1>1, <1>2, <1>3, <1>4, <1>5, <1>6

(* The meters.                                                             *)
LEMMA MeterOwn ==
    /\ Own(MeterPoints("all"), 0, 18) /\ Apart(MeterPoints("all"))
    /\ Own(MeterPoints("energy"), 0, 12) /\ Apart(MeterPoints("energy"))
    /\ Own(MeterPoints("total"), 0, 2) /\ Apart(MeterPoints("total"))
    /\ Own(MeterPoints("export"), 8, 10) /\ Apart(MeterPoints("export"))
    /\ Own(MeterPoints("import"), 10, 12) /\ Apart(MeterPoints("import"))
    /\ Own(MeterPoints("instant"), 12, 18) /\ Apart(MeterPoints("instant"))
<1>1. Own(MeterPoints("all"), 0, 18)
  BY DEF MeterPoints, Energies, Instantaneous, InstantStart, Points, Point, Own
<1>2. Apart(MeterPoints("all"))
  BY DEF MeterPoints, Energies, Instantaneous, InstantStart, Points, Point, Apart
<1>3. Own(MeterPoints("energy"), 0, 12) /\ Apart(MeterPoints("energy"))
  BY DEF MeterPoints, Energies, Points, Point, Own, Apart
<1>4. Own(MeterPoints("total"), 0, 2) /\ Apart(MeterPoints("total"))
  BY DEF MeterPoints, Points, Point, Own, Apart
<1>5. Own(MeterPoints("export"), 8, 10) /\ Apart(MeterPoints("export"))
  BY DEF MeterPoints, Points, Point, Own, Apart
<1>6. Own(MeterPoints("import"), 10, 12) /\ Apart(MeterPoints("import"))
  BY DEF MeterPoints, Points, Point, Own, Apart
<1>7. Own(MeterPoints("instant"), 12, 18) /\ Apart(MeterPoints("instant"))
  BY DEF MeterPoints, Instantaneous, Points, Point, Own, Apart
<1>. QED BY <1>1, <1>2, <1>3, <1>4, <1>5, <1>6, <1>7

(* Top(b): where the registers of block b end that no other block decodes. *)
Top(b) == IF b = "basic" THEN 31319 ELSE plan[b].base + plan[b].count

(* A block of which less is decoded is no worse.                           *)
LEMMA OwnLess ==
    ASSUME NEW S, NEW T, S \subseteq T, NEW base, NEW top, Own(T, base, top), Apart(T)
    PROVE  Own(S, base, top) /\ Apart(S)
BY DEF Own, Apart

(* What an inverter decodes at most from a block.                          *)
Full(b) == SolplanetPoints(b) \cup PhasePoints(b)
Labelled(b) == Own(Full(b), plan[b].base, Top(b)) /\ Apart(Full(b))

(* Which function decodes which block.                                     *)
LEMMA ReadDomains ==
    /\ DOMAIN readDeviceInfo = {"address", "gridCode"}
    /\ DOMAIN readBasicMeasurements = {"basic"}
    /\ DOMAIN readPVInputs = {"pv", "strings", "pvEnergy"}
    /\ DOMAIN readGridAndPhaseMeasurements = {"grid", "connection"}
    /\ DOMAIN readGridEnergyAndLoad = {"acEnergy", "eps", "epsPower", "epsPhases", "gridPower"}
    /\ DOMAIN readStorage = {"battery", "bms", "generator"}
BY DEF readDeviceInfo, readBasicMeasurements, readPVInputs, readGridAndPhaseMeasurements,
       readGridEnergyAndLoad, readStorage

LEMMA FullOwn ==
    ASSUME unit = "solplanet", MAX_INPUTS <= 10, MAX_STRINGS <= 20, NEW b \in DOMAIN Solplanet
    PROVE  Labelled(b)
<1>0. plan = Solplanet
  BY DEF plan
<1>1. Labelled("address")
  <2>1. plan["address"].base = 31002 /\ Top("address") = 31003
    BY <1>0 DEF Top, Solplanet, Read
  <2>2. Full("address") = readDeviceInfo["address"]
    BY ReadDomains DEF Full, SolplanetPoints, PhasePoints
  <2>3. Own(Full("address"), 31002, 31003) /\ Apart(Full("address"))
    BY ONLY <2>2, InfoOwn
  <2>. QED BY <2>1, <2>3 DEF Labelled
<1>2. Labelled("gridCode")
  <2>1. plan["gridCode"].base = 31027 /\ Top("gridCode") = 31028
    BY <1>0 DEF Top, Solplanet, Read
  <2>2. Full("gridCode") = readDeviceInfo["gridCode"]
    BY ReadDomains DEF Full, SolplanetPoints, PhasePoints
  <2>3. Own(Full("gridCode"), 31027, 31028) /\ Apart(Full("gridCode"))
    BY ONLY <2>2, InfoOwn
  <2>. QED BY <2>1, <2>3 DEF Labelled
<1>3. Labelled("basic")
  <2>1. plan["basic"].base = 31301 /\ Top("basic") = 31319
    BY <1>0 DEF Top, Solplanet, Read
  <2>2. Full("basic") = readBasicMeasurements["basic"]
    BY ReadDomains DEF Full, SolplanetPoints, PhasePoints
  <2>3. Own(Full("basic"), 31301, 31319) /\ Apart(Full("basic"))
    BY ONLY <2>2, BasicOwn, BasicApart
  <2>. QED BY <2>1, <2>3 DEF Labelled
<1>4. Labelled("pv")
  <2>1. plan["pv"].base = 31319 /\ Top("pv") = 31339
    BY <1>0 DEF Top, Solplanet, Read
  <2>2. Full("pv") = readPVInputs["pv"]
    BY ReadDomains DEF Full, SolplanetPoints, PhasePoints
  <2>3. Own(Full("pv"), 31319, 31339) /\ Apart(Full("pv"))
    BY <2>2, PVOwn
  <2>. QED BY <2>1, <2>3 DEF Labelled
<1>5. Labelled("strings")
  <2>1. plan["strings"].base = 31339 /\ Top("strings") = 31359
    BY <1>0 DEF Top, Solplanet, Read
  <2>2. Full("strings") = readPVInputs["strings"]
    BY ReadDomains DEF Full, SolplanetPoints, PhasePoints
  <2>3. Own(Full("strings"), 31339, 31359) /\ Apart(Full("strings"))
    BY <2>2, PVOwn
  <2>. QED BY <2>1, <2>3 DEF Labelled
<1>6. Labelled("pvEnergy")
  <2>1. plan["pvEnergy"].base = 31601 /\ Top("pvEnergy") = 31607
    BY <1>0 DEF Top, Solplanet, Read
  <2>2. Full("pvEnergy") = readPVInputs["pvEnergy"]
    BY ReadDomains DEF Full, SolplanetPoints, PhasePoints
  <2>3. Own(Full("pvEnergy"), 31601, 31607) /\ Apart(Full("pvEnergy"))
    BY <2>2, PVOwn
  <2>. QED BY <2>1, <2>3 DEF Labelled
<1>7. Labelled("grid")
  <2>1. plan["grid"].base = 31359 /\ Top("grid") = 31380
    BY <1>0 DEF Top, Solplanet, Read
  <2>2. Full("grid") = GridPoints("grid")
    BY ReadDomains DEF Full, SolplanetPoints, GridPoints
  <2>3. Own(Full("grid"), 31359, 31380) /\ Apart(Full("grid"))
    BY ONLY <2>2, GridOwn, GridApart, ConnOwn
  <2>. QED BY <2>1, <2>3 DEF Labelled
<1>8. Labelled("connection")
  <2>1. plan["connection"].base = 31391 /\ Top("connection") = 31392
    BY <1>0 DEF Top, Solplanet, Read
  <2>2. Full("connection") = GridPoints("connection")
    BY ReadDomains DEF Full, SolplanetPoints, GridPoints
  <2>3. Own(Full("connection"), 31391, 31392) /\ Apart(Full("connection"))
    BY ONLY <2>2, GridOwn, GridApart, ConnOwn
  <2>. QED BY <2>1, <2>3 DEF Labelled
<1>9. Labelled("acEnergy")
  <2>1. plan["acEnergy"].base = 31630 /\ Top("acEnergy") = 31634
    BY <1>0 DEF Top, Solplanet, Read
  <2>2. Full("acEnergy") = EnergyPoints("acEnergy")
    BY ReadDomains DEF Full, SolplanetPoints, EnergyPoints
  <2>3. Own(Full("acEnergy"), 31630, 31634) /\ Apart(Full("acEnergy"))
    BY ONLY <2>2, EnergyOwn, EnergyApart
  <2>. QED BY <2>1, <2>3 DEF Labelled
<1>10. Labelled("eps")
  <2>1. plan["eps"].base = 31634 /\ Top("eps") = 31637
    BY <1>0 DEF Top, Solplanet, Read
  <2>2. Full("eps") = EnergyPoints("eps")
    BY ReadDomains DEF Full, SolplanetPoints, EnergyPoints
  <2>3. Own(Full("eps"), 31634, 31637) /\ Apart(Full("eps"))
    BY ONLY <2>2, EnergyOwn, EnergyApart
  <2>. QED BY <2>1, <2>3 DEF Labelled
<1>11. Labelled("epsPower")
  <2>1. plan["epsPower"].base = 31637 /\ Top("epsPower") = 31645
    BY <1>0 DEF Top, Solplanet, Read
  <2>2. Full("epsPower") = EnergyPoints("epsPower")
    BY ReadDomains DEF Full, SolplanetPoints, EnergyPoints
  <2>3. Own(Full("epsPower"), 31637, 31645) /\ Apart(Full("epsPower"))
    BY ONLY <2>2, EnergyOwn, EnergyApart
  <2>. QED BY <2>1, <2>3 DEF Labelled
<1>12. Labelled("epsPhases")
  <2>1. plan["epsPhases"].base = 31645 /\ Top("epsPhases") = 31663
    BY <1>0 DEF Top, Solplanet, Read
  <2>2. Full("epsPhases") = EnergyPoints("epsPhases")
    BY ReadDomains DEF Full, SolplanetPoints, EnergyPoints
  <2>3. Own(Full("epsPhases"), 31645, 31663) /\ Apart(Full("epsPhases"))
    BY ONLY <2>2, EnergyOwn, EnergyApart
  <2>. QED BY <2>1, <2>3 DEF Labelled
<1>13. Labelled("gridPower")
  <2>1. plan["gridPower"].base = 31663 /\ Top("gridPower") = 31679
    BY <1>0 DEF Top, Solplanet, Read
  <2>2. Full("gridPower") = EnergyPoints("gridPower")
    BY ReadDomains DEF Full, SolplanetPoints, EnergyPoints
  <2>3. Own(Full("gridPower"), 31663, 31679) /\ Apart(Full("gridPower"))
    BY ONLY <2>2, EnergyOwn, EnergyApart
  <2>. QED BY <2>1, <2>3 DEF Labelled
<1>14. Labelled("battery")
  <2>1. plan["battery"].base = 31607 /\ Top("battery") = 31630
    BY <1>0 DEF Top, Solplanet, Read
  <2>2. Full("battery") = readStorage["battery"]
    BY ReadDomains DEF Full, SolplanetPoints, PhasePoints
  <2>3. Own(Full("battery"), 31607, 31630) /\ Apart(Full("battery"))
    BY ONLY <2>2, StorageOwn
  <2>. QED BY <2>1, <2>3 DEF Labelled
<1>15. Labelled("bms")
  <2>1. plan["bms"].base = 31679 /\ Top("bms") = 31682
    BY <1>0 DEF Top, Solplanet, Read
  <2>2. Full("bms") = readStorage["bms"]
    BY ReadDomains DEF Full, SolplanetPoints, PhasePoints
  <2>3. Own(Full("bms"), 31679, 31682) /\ Apart(Full("bms"))
    BY ONLY <2>2, StorageOwn
  <2>. QED BY <2>1, <2>3 DEF Labelled
<1>16. Labelled("generator")
  <2>1. plan["generator"].base = 31685 /\ Top("generator") = 31688
    BY <1>0 DEF Top, Solplanet, Read
  <2>2. Full("generator") = readStorage["generator"]
    BY ReadDomains DEF Full, SolplanetPoints, PhasePoints
  <2>3. Own(Full("generator"), 31685, 31688) /\ Apart(Full("generator"))
    BY ONLY <2>2, StorageOwn
  <2>. QED BY <2>1, <2>3 DEF Labelled
<1>. QED BY <1>1, <1>2, <1>3, <1>4, <1>5, <1>6, <1>7, <1>8,
            <1>9, <1>10, <1>11, <1>12, <1>13, <1>14, <1>15, <1>16, SolplanetBlocks
         DEF Basics, AfterPv, AfterGrid, Storages

LEMMA TopIn ==
    ASSUME unit = "solplanet", NEW b \in DOMAIN Solplanet
    PROVE  Top(b) <= plan[b].base + plan[b].count
BY SolplanetBlocks DEF plan, Top, Solplanet, Read, Basics, AfterPv, AfterGrid, Storages

LEMMA MeterTop ==
    ASSUME unit \in {"hiking", "simulator"}, NEW b \in DOMAIN plan
    PROVE  /\ Own(MeterPoints(b), plan[b].base, Top(b)) /\ Apart(MeterPoints(b))
           /\ Top(b) <= plan[b].base + plan[b].count
<1>1. CASE unit = "hiking"
  <2>1. plan = Hiking
    BY <1>1 DEF plan
  <2>2. b \in {"instant", "total", "export", "import"}
    BY <2>1, HikingBlocks
  <2>3. /\ Hiking["instant"].base = 12 /\ Top("instant") = 18
        /\ Hiking["total"].base = 0 /\ Top("total") = 2
        /\ Hiking["export"].base = 8 /\ Top("export") = 10
        /\ Hiking["import"].base = 10 /\ Top("import") = 12
    BY <2>1 DEF Top, Hiking, Read
  <2>4. Top(b) <= plan[b].base + plan[b].count
    BY <2>1, <2>2 DEF Top, Hiking, Read
  <2>. QED BY <2>1, <2>2, <2>3, <2>4, MeterOwn
<1>2. CASE unit = "simulator"
  <2>1. plan = Simulator
    BY <1>2 DEF plan
  <2>2. b \in {"all", "energy", "total", "instant"}
    BY <2>1, SimulatorBlocks
  <2>3. /\ Simulator["all"].base = 0 /\ Top("all") = 18
        /\ Simulator["energy"].base = 0 /\ Top("energy") = 12
        /\ Simulator["total"].base = 0 /\ Top("total") = 2
        /\ Simulator["instant"].base = 12 /\ Top("instant") = 18
    BY <2>1 DEF Top, Simulator, Read
  <2>4. Top(b) <= plan[b].base + plan[b].count
    BY <2>1, <2>2 DEF Top, Simulator, Read
  <2>. QED BY <2>1, <2>2, <2>3, <2>4, MeterOwn
<1>. QED BY <1>1, <1>2

(* So for whatever a device decodes from a block of its plan.              *)
LEMMA DecodedOwn ==
    ASSUME BuiltinTypeOK, MAX_INPUTS <= 10, MAX_STRINGS <= 20, NEW b \in DOMAIN plan
    PROVE  /\ Own(Decoded(b), plan[b].base, Top(b)) /\ Apart(Decoded(b))
           /\ Top(b) <= plan[b].base + plan[b].count
<1>1. CASE unit = "solplanet"
  <2>1. Decoded(b) \subseteq Full(b)
    BY <1>1 DEF Decoded, AllPoints, Full
  <2>2. b \in DOMAIN Solplanet
    BY <1>1 DEF plan
  <2>. QED BY <1>1, <2>1, <2>2, FullOwn, TopIn, OwnLess DEF Labelled
<1>2. CASE unit # "solplanet"
  <2>1. Decoded(b) \subseteq MeterPoints(b)
    BY <1>2 DEF Decoded, AllPoints
  <2>2. unit \in {"hiking", "simulator"}
    BY <1>2 DEF BuiltinTypeOK, Units
  <2>. QED BY <2>1, <2>2, MeterTop, OwnLess
<1>. QED BY <1>1, <1>2

(* The simulator reads all at once, or with the moment one part before it. *)
Alone ==
    unit = "simulator" =>
        /\ block \notin {"inputs", "stringNumber"}
        /\ block \in {"all", "energy", "total"} => answered = {}
        /\ block = "instant" => "all" \notin answered
        /\ \/ answered \subseteq {"all"}
           \/ answered \subseteq {"energy", "instant"}
           \/ answered \subseteq {"total", "instant"}

(* No two blocks that were answered in one call have a register in common. *)
LEMMA BlocksApart ==
    ASSUME BuiltinTypeOK, Alone, NEW b \in answered, NEW c \in answered, b # c
    PROVE  Top(b) <= plan[c].base \/ Top(c) <= plan[b].base
<1>0. answered \subseteq DOMAIN plan /\ unit \in Units
  BY DEF BuiltinTypeOK
<1>1. CASE unit = "solplanet"
  <2>1. plan = Solplanet
    BY <1>1 DEF plan
  <2>. DEFINE Blocks == {"address", "gridCode", "basic", "pv", "strings", "pvEnergy", "grid",
                         "connection", "acEnergy", "eps", "epsPower", "epsPhases", "gridPower",
                         "battery", "bms", "generator"}
  <2>2. b \in Blocks /\ c \in Blocks
    BY <1>0, <2>1, SolplanetBlocks DEF Basics, AfterPv, AfterGrid, Storages
  <2>3. /\ plan["address"].base = 31002 /\ Top("address") = 31003
        /\ plan["gridCode"].base = 31027 /\ Top("gridCode") = 31028
        /\ plan["basic"].base = 31301 /\ Top("basic") = 31319
        /\ plan["pv"].base = 31319 /\ Top("pv") = 31339
        /\ plan["strings"].base = 31339 /\ Top("strings") = 31359
        /\ plan["pvEnergy"].base = 31601 /\ Top("pvEnergy") = 31607
        /\ plan["grid"].base = 31359 /\ Top("grid") = 31380
        /\ plan["connection"].base = 31391 /\ Top("connection") = 31392
    BY <2>1 DEF Top, Solplanet, Read
  <2>4. /\ plan["acEnergy"].base = 31630 /\ Top("acEnergy") = 31634
        /\ plan["eps"].base = 31634 /\ Top("eps") = 31637
        /\ plan["epsPower"].base = 31637 /\ Top("epsPower") = 31645
        /\ plan["epsPhases"].base = 31645 /\ Top("epsPhases") = 31663
        /\ plan["gridPower"].base = 31663 /\ Top("gridPower") = 31679
        /\ plan["battery"].base = 31607 /\ Top("battery") = 31630
        /\ plan["bms"].base = 31679 /\ Top("bms") = 31682
        /\ plan["generator"].base = 31685 /\ Top("generator") = 31688
    BY <2>1 DEF Top, Solplanet, Read
  <2>. QED BY <2>2, <2>3, <2>4
<1>2. CASE unit = "hiking"
  <2>1. plan = Hiking
    BY <1>2 DEF plan
  <2>2. /\ b \in {"instant", "total", "export", "import"}
        /\ c \in {"instant", "total", "export", "import"}
    BY <1>0, <2>1, HikingBlocks
  <2>3. /\ plan["instant"].base = 12 /\ Top("instant") = 18
        /\ plan["total"].base = 0 /\ Top("total") = 2
        /\ plan["export"].base = 8 /\ Top("export") = 10
        /\ plan["import"].base = 10 /\ Top("import") = 12
    BY <2>1 DEF Top, Hiking, Read
  <2>. QED BY <2>2, <2>3
<1>3. CASE unit = "simulator"
  <2>1. plan = Simulator
    BY <1>3 DEF plan
  <2>2. {b, c} \subseteq {"energy", "instant"} \/ {b, c} \subseteq {"total", "instant"}
    BY <1>3 DEF Alone
  <2>3. /\ plan["instant"].base = 12 /\ Top("energy") = 12 /\ Top("total") = 2
    BY <2>1 DEF Top, Simulator, Read
  <2>. QED BY <2>2, <2>3
<1>. QED BY <1>0, <1>1, <1>2, <1>3 DEF Units

(* A set numbered without repetition has as many members as numbers.       *)
LEMMA Numbered ==
    ASSUME NEW P, NEW f \in [P -> Nat], NEW n \in Nat,
           \A x \in P : f[x] <= n, \A x, y \in P : f[x] = f[y] => x = y
    PROVE  /\ IsFiniteSet({f[x] : x \in P})
           /\ Cardinality({f[x] : x \in P}) = Cardinality(P)
<1>. DEFINE N == {f[x] : x \in P}
<1>1. N \in SUBSET Nat /\ \A k \in N : k <= n
  OBVIOUS
<1>2. IsFiniteSet(N)
  BY <1>1, FS_BoundedSetOfNaturals
<1>3. f \in Injection(P, N) /\ f \in Surjection(P, N)
  <2>1. f \in [P -> N]
    OBVIOUS
  <2>2. \A k \in N : \E x \in P : f[x] = k
    OBVIOUS
  <2>. QED BY <2>1, <2>2 DEF Injection, Surjection, IsInjective
<1>4. Cardinality(P) = Cardinality(N)
  BY <1>2, <1>3, FS_Injection
<1>. QED BY <1>2, <1>4

(* Intervals of one or two that do not overlap: their union counts as many *)
(* as there are, and one more for each of two.                             *)
LEMMA Counted ==
    ASSUME NEW P, NEW first \in [P -> Nat], NEW size \in [P -> {1, 2}], NEW n \in Nat,
           \A x \in P : first[x] + size[x] <= n,
           \A x, y \in P : x # y => \/ first[x] + size[x] <= first[y]
                                    \/ first[y] + size[y] <= first[x]
    PROVE  Cardinality(UNION {first[x] .. (first[x] + size[x] - 1) : x \in P}) =
              Cardinality(P) + Cardinality({x \in P : size[x] = 2})
<1>. DEFINE Two == {x \in P : size[x] = 2}
            Heads == {first[x] : x \in P}
            next == [x \in Two |-> first[x] + 1]
            Tails == {next[x] : x \in Two}
<1>1. IsFiniteSet(Heads) /\ Cardinality(Heads) = Cardinality(P)
  <2>1. \A x \in P : first[x] <= n
    OBVIOUS
  <2>2. \A x, y \in P : first[x] = first[y] => x = y
    OBVIOUS
  <2>. QED BY <2>1, <2>2, Numbered
<1>2. IsFiniteSet(Tails) /\ Cardinality(Tails) = Cardinality(Two)
  <2>1. next \in [Two -> Nat]
    OBVIOUS
  <2>2. \A x \in Two : next[x] <= n
    OBVIOUS
  <2>3. \A x, y \in Two : next[x] = next[y] => x = y
    OBVIOUS
  <2>. HIDE DEF next
  <2>. QED BY <2>1, <2>2, <2>3, Numbered
<1>3. Heads \cap Tails = {}
  <2>1. SUFFICES ASSUME NEW x \in P, NEW y \in Two, first[x] = first[y] + 1 PROVE FALSE
    OBVIOUS
  <2>. QED BY <2>1
<1>4. UNION {first[x] .. (first[x] + size[x] - 1) : x \in P} = Heads \cup Tails
  <2>1. ASSUME NEW x \in P, NEW k \in first[x] .. (first[x] + size[x] - 1)
        PROVE  k \in Heads \cup Tails
    <3>1. k = first[x] \/ (x \in Two /\ k = first[x] + 1)
      OBVIOUS
    <3>. QED BY <3>1
  <2>2. ASSUME NEW k \in Heads
        PROVE  \E x \in P : k \in first[x] .. (first[x] + size[x] - 1)
    OBVIOUS
  <2>3. ASSUME NEW k \in Tails
        PROVE  \E x \in P : k \in first[x] .. (first[x] + size[x] - 1)
    <3>1. PICK x \in Two : k = first[x] + 1
      OBVIOUS
    <3>2. x \in P /\ k \in first[x] .. (first[x] + size[x] - 1)
      BY <3>1
    <3>. QED BY <3>2
  <2>. HIDE DEF Heads, Tails
  <2>. QED BY <2>1, <2>2, <2>3
<1>5. Cardinality(Heads \cup Tails) = Cardinality(Heads) + Cardinality(Tails)
  <2>. HIDE DEF Heads, Tails
  <2>1. Cardinality(Heads) \in Nat /\ Cardinality(Tails) \in Nat
    BY <1>1, <1>2, FS_CardinalityType
  <2>2. Cardinality(Heads \cup Tails) =
           Cardinality(Heads) + Cardinality(Tails) - Cardinality(Heads \cap Tails)
    BY <1>1, <1>2, FS_Union
  <2>3. Cardinality(Heads \cap Tails) = 0
    BY <1>3, FS_EmptySet
  <2>. QED BY <2>1, <2>2, <2>3
<1>. QED BY <1>1, <1>2, <1>4, <1>5

(* The registers are natural numbers, none beyond those of the inverter.   *)
LEMMA TopBound ==
    ASSUME unit \in Units, NEW b \in DOMAIN plan
    PROVE  /\ plan[b].base \in Nat /\ plan[b].count \in Nat
           /\ Top(b) \in Nat /\ Top(b) <= 31688
<1>1. CASE unit = "solplanet"
  BY <1>1, SolplanetBlocks DEF plan, Top, Solplanet, Read, Basics, AfterPv, AfterGrid, Storages
<1>2. CASE unit = "hiking"
  BY <1>2, HikingBlocks DEF plan, Top, Hiking, Read
<1>3. CASE unit = "simulator"
  BY <1>3, SimulatorBlocks DEF plan, Top, Simulator, Read
<1>. QED BY <1>1, <1>2, <1>3 DEF Units

LEMMA PushedIs ==
    \A e \in Pushed : \E b \in answered : \E p \in Decoded(b) : e = <<b, p>> /\ e[1] = b /\ e[2] = p
BY DEF Pushed

(* A pushed point: what it is made from is on its label.                   *)
LEMMA PushedOwn ==
    ASSUME BuiltinTypeOK, MAX_INPUTS <= 10, MAX_STRINGS <= 20, NEW e \in Pushed
    PROVE  /\ e[1] \in answered /\ e[2] \in Decoded(e[1])
           /\ e[2].label \in Nat /\ e[2].words \in {1, 2} /\ e[2].at \in Nat
           /\ e[2].label = plan[e[1]].base + e[2].at
           /\ e[2].label + e[2].words <= Top(e[1]) /\ e[2].label + e[2].words <= 31688
           /\ e[2].at + e[2].words <= plan[e[1]].count
<1>1. PICK b \in answered : \E p \in Decoded(b) : e = <<b, p>> /\ e[1] = b /\ e[2] = p
  BY PushedIs
<1>2. PICK p \in Decoded(b) : e = <<b, p>> /\ e[1] = b /\ e[2] = p
  BY <1>1
<1>3. b \in DOMAIN plan /\ unit \in Units
  BY DEF BuiltinTypeOK
<1>4. Own(Decoded(b), plan[b].base, Top(b)) /\ Top(b) <= plan[b].base + plan[b].count
  BY <1>3, DecodedOwn
<1>5. /\ p.label \in Nat /\ p.words \in {1, 2} /\ p.at \in Nat
      /\ p.label = plan[b].base + p.at /\ p.label + p.words <= Top(b)
  BY <1>2, <1>4 DEF Own
<1>6. /\ plan[b].base \in Nat /\ plan[b].count \in Nat
      /\ Top(b) \in Nat /\ Top(b) <= 31688
  BY <1>3, TopBound
<1>. QED BY <1>2, <1>4, <1>5, <1>6

(* No register goes out as two values.                                     *)
LEMMA PushedApart ==
    ASSUME BuiltinTypeOK, Alone, MAX_INPUTS <= 10, MAX_STRINGS <= 20,
           NEW e \in Pushed, NEW f \in Pushed, e # f, e[2].as = "value", f[2].as = "value"
    PROVE  \/ e[2].label + e[2].words <= f[2].label
           \/ f[2].label + f[2].words <= e[2].label
<1>1. /\ e[1] \in answered /\ e[2] \in Decoded(e[1]) /\ f[1] \in answered /\ f[2] \in Decoded(f[1])
      /\ e = <<e[1], e[2]>> /\ f = <<f[1], f[2]>>
  BY PushedIs, Zenon
<1>2. CASE e[1] = f[1]
  <2>1. e[2] # f[2]
    BY <1>1, <1>2
  <2>2. e[1] \in DOMAIN plan
    BY <1>1 DEF BuiltinTypeOK
  <2>3. Apart(Decoded(e[1]))
    BY <2>2, DecodedOwn
  <2>. QED BY <1>1, <1>2, <2>1, <2>3 DEF Apart
<1>3. CASE e[1] # f[1]
  <2>1. Top(e[1]) <= plan[f[1]].base \/ Top(f[1]) <= plan[e[1]].base
    BY <1>1, <1>3, BlocksApart
  <2>2. e[1] \in DOMAIN plan /\ f[1] \in DOMAIN plan /\ unit \in Units
    BY <1>1 DEF BuiltinTypeOK
  <2>3. /\ plan[e[1]].base \in Nat /\ Top(e[1]) \in Nat
        /\ plan[f[1]].base \in Nat /\ Top(f[1]) \in Nat
    BY <2>2, TopBound
  <2>4. /\ e[2].label \in Nat /\ e[2].words \in {1, 2} /\ e[2].at \in Nat
        /\ e[2].label = plan[e[1]].base + e[2].at /\ e[2].label + e[2].words <= Top(e[1])
    BY PushedOwn
  <2>5. /\ f[2].label \in Nat /\ f[2].words \in {1, 2} /\ f[2].at \in Nat
        /\ f[2].label = plan[f[1]].base + f[2].at /\ f[2].label + f[2].words <= Top(f[1])
    BY PushedOwn
  <2>. QED BY <2>1, <2>3, <2>4, <2>5
<1>. QED BY <1>2, <1>3

(* A text stands beside its value, in whatever is decoded of a block.      *)
Backed(S) ==
    \A p \in S : \/ p.as = "value"
                 \/ /\ p.as = "text" /\ p.words = 1
                    /\ Point(p.at, p.label, 1, "value") \in S

LEMMA TablesBacked ==
    /\ \A b \in DOMAIN readDeviceInfo : Backed(readDeviceInfo[b])
    /\ \A b \in DOMAIN readBasicMeasurements : Backed(readBasicMeasurements[b])
    /\ \A b \in DOMAIN readGridAndPhaseMeasurements : Backed(readGridAndPhaseMeasurements[b])
    /\ \A b \in DOMAIN readGridEnergyAndLoad : Backed(readGridEnergyAndLoad[b])
    /\ \A b \in DOMAIN readStorage : Backed(readStorage[b])
<1>1. \A b \in DOMAIN readDeviceInfo : Backed(readDeviceInfo[b])
  BY DEF readDeviceInfo, Backed, Points, Texts, Point
<1>2. \A b \in DOMAIN readBasicMeasurements : Backed(readBasicMeasurements[b])
  BY DEF readBasicMeasurements, Backed, Points, Texts, Point
<1>3. \A b \in DOMAIN readGridAndPhaseMeasurements : Backed(readGridAndPhaseMeasurements[b])
  BY DEF readGridAndPhaseMeasurements, Backed, Points, Texts, Point
<1>4. \A b \in DOMAIN readGridEnergyAndLoad : Backed(readGridEnergyAndLoad[b])
  BY DEF readGridEnergyAndLoad, Backed, Points, Texts, Point
<1>5. \A b \in DOMAIN readStorage : Backed(readStorage[b])
  BY DEF readStorage, Backed, Points, Texts, Point
<1>. QED BY <1>1, <1>2, <1>3, <1>4, <1>5

LEMMA SolplanetBacked == \A b \in DOMAIN Solplanet \ {"pv"} : Backed(SolplanetPoints(b))
<1>. TAKE b \in DOMAIN Solplanet \ {"pv"}
<1>1. \/ b \in DOMAIN readDeviceInfo \/ b \in DOMAIN readBasicMeasurements
      \/ b \in {"strings", "pvEnergy"} \/ b \in DOMAIN readGridAndPhaseMeasurements
      \/ b \in DOMAIN readGridEnergyAndLoad \/ b \in DOMAIN readStorage
  BY SolplanetBlocks, ReadDomains DEF Basics, AfterPv, AfterGrid, Storages
<1>2. Backed(readPVInputs["strings"]) /\ Backed(readPVInputs["pvEnergy"])
  BY DEF readPVInputs, StringPoints, Backed, Points, Point
<1>. QED BY <1>1, <1>2, TablesBacked, ReadDomains DEF SolplanetPoints

LEMMA AllBacked ==
    ASSUME unit \in Units, NEW b \in DOMAIN plan, b # "pv" PROVE Backed(AllPoints(b))
<1>1. CASE unit = "solplanet"
  <2>1. Backed(SolplanetPoints(b))
    BY <1>1, SolplanetBacked DEF plan
  <2>2. \A p \in PhasePoints(b) : p.as = "value"
    BY DEF PhasePoints, Points, Point
  <2>. QED BY <1>1, <2>1, <2>2 DEF AllPoints, Backed
<1>2. CASE unit # "solplanet"
  <2>1. b \in MeterBlocks
    BY <1>2, HikingBlocks, SimulatorBlocks DEF Units, plan, MeterBlocks
  <2>. QED BY <1>2, <2>1, MeterValues DEF AllPoints, Backed
<1>. QED BY <1>1, <1>2

(* What a text or a product is made from goes out as values besides.       *)
LEMMA TextBeside ==
    ASSUME unit \in Units, NEW b \in DOMAIN plan, b # "pv",
           NEW p \in Decoded(b), p.as # "value"
    PROVE  \E q \in Decoded(b) : q.as = "value" /\ From(b, q) = From(b, p)
<1>. DEFINE q == Point(p.at, p.label, 1, "value")
<1>1. p.words = 1 /\ q \in AllPoints(b) /\ Kept(p)
  BY AllBacked DEF Decoded, Backed
<1>2. q.at = p.at /\ q.label = p.label /\ q.words = 1 /\ q.as = "value"
  BY DEF Point
<1>3. Kept(q)
  BY <1>1, <1>2 DEF Kept
<1>4. From(b, q) = From(b, p)
  BY <1>1, <1>2 DEF From
<1>. QED BY <1>1, <1>2, <1>3, <1>4 DEF Decoded

LEMMA ProductBeside ==
    ASSUME BuiltinTypeOK, MAX_INPUTS <= 10, "pv" \in DOMAIN plan,
           NEW p \in Decoded("pv"), NEW r \in From("pv", p)
    PROVE  \E q \in Decoded("pv") : q.as = "value" /\ r \in From("pv", q)
<1>1. unit = "solplanet" /\ plan["pv"].base = 31319
  BY HikingBlocks, SimulatorBlocks DEF BuiltinTypeOK, Units, plan, Solplanet, Read
<1>2. PhasePoints("pv") = {}
  BY DEF PhasePoints
<1>3. AllPoints("pv") = InputPoints
  BY <1>1, <1>2, PvPoints DEF AllPoints
<1>4. PICK i \in UsedInputs : Connected(i) /\ p \in Input(i)
  BY <1>3 DEF Decoded, InputPoints
<1>5. i \in 1..MAX_INPUTS /\ MAX_INPUTS \in Nat
  BY <1>4, BuiltinAssumption DEF UsedInputs
<1>6. Input(i) \subseteq Decoded("pv")
  <2>1. \A q \in Input(i) : Kept(q)
    BY <1>4, <1>5, ConnectedKept
  <2>. QED BY <1>3, <1>4, <2>1 DEF Decoded, InputPoints
<1>7. CASE p.as = "value"
  BY <1>7
<1>8. CASE p.as # "value"
  <2>. DEFINE v == Point(2 * i - 2, Voltage(i), 1, "value")
              c == Point(2 * i - 1, Current(i), 1, "value")
  <2>1. p.at = 2 * i - 2 /\ p.words = 2
    BY <1>4, <1>8 DEF Input, Points, Point
  <2>2. v \in Input(i) /\ c \in Input(i)
    BY DEF Input, Points
  <2>3. /\ v.at = 2 * i - 2 /\ v.words = 1 /\ v.as = "value"
        /\ c.at = 2 * i - 1 /\ c.words = 1 /\ c.as = "value"
    BY DEF Point
  <2>. HIDE DEF v, c
  <2>4. r \in {31319 + (2 * i - 2) + j : j \in 0..1}
    BY <1>1, <2>1 DEF From
  <2>5. r = 31319 + (2 * i - 2) + 0 \/ r = 31319 + (2 * i - 1) + 0
    BY <1>5, <2>4
  <2>6. From("pv", v) = {31319 + (2 * i - 2) + j : j \in 0..0}
    BY <1>1, <2>3 DEF From
  <2>7. From("pv", c) = {31319 + (2 * i - 1) + j : j \in 0..0}
    BY <1>1, <2>3 DEF From
  <2>8. r \in From("pv", v) \/ r \in From("pv", c)
    BY <2>5, <2>6, <2>7
  <2>. QED BY <1>6, <2>2, <2>3, <2>8
<1>. QED BY <1>7, <1>8

LEMMA LabelsInv ==
    ASSUME BuiltinTypeOK, Alone, MAX_INPUTS <= 10, MAX_STRINGS <= 20
    PROVE  LabelsAreTrue
<1>. DEFINE values == {e \in Pushed : e[2].as = "value"}
            sources == UNION {From(e[1], e[2]) : e \in values}
<1>1. ASSUME NEW e \in Pushed
      PROVE  From(e[1], e[2]) = e[2].label .. (e[2].label + e[2].words - 1)
  <2>1. PICK base, at, words, label :
           /\ base = plan[e[1]].base /\ at = e[2].at /\ words = e[2].words /\ label = e[2].label
           /\ base \in Nat /\ at \in Nat /\ words \in {1, 2} /\ label = base + at
    <3>1. e[1] \in DOMAIN plan /\ unit \in Units
      BY PushedOwn DEF BuiltinTypeOK
    <3>2. plan[e[1]].base \in Nat
      BY <3>1, TopBound
    <3>. QED BY <3>2, PushedOwn
  <2>2. {base + at + i : i \in 0..(words - 1)} = label .. (label + words - 1)
    <3>1. ASSUME NEW k \in label .. (label + words - 1)
          PROVE  k - label \in 0..(words - 1) /\ k = base + at + (k - label)
      BY <2>1
    <3>2. ASSUME NEW i \in 0..(words - 1) PROVE base + at + i \in label .. (label + words - 1)
      BY <2>1
    <3>. QED BY <3>1, <3>2
  <2>. QED BY <2>1, <2>2 DEF From
<1>2. \A e \in Pushed : e[2].at + e[2].words <= plan[e[1]].count
  BY PushedOwn
<1>. DEFINE first == [e \in values |-> e[2].label]
            size == [e \in values |-> e[2].words]
<1>3. first \in [values -> Nat] /\ size \in [values -> {1, 2}]
  BY PushedOwn
<1>4. \A e \in values : first[e] + size[e] <= 31688
  BY PushedOwn
<1>5. \A e, f \in values : e # f => \/ first[e] + size[e] <= first[f]
                                    \/ first[f] + size[f] <= first[e]
  BY PushedApart
<1>6. \A e \in values : From(e[1], e[2]) = first[e] .. (first[e] + size[e] - 1)
  BY <1>1
<1>7. {e \in values : e[2].words = 2} = {e \in values : size[e] = 2}
  OBVIOUS
<1>8. Cardinality(sources) = Cardinality(values) + Cardinality({e \in values : e[2].words = 2})
  <2>. HIDE DEF first, size, values
  <2>1. sources = UNION {first[e] .. (first[e] + size[e] - 1) : e \in values}
    BY <1>6
  <2>2. Cardinality(UNION {first[e] .. (first[e] + size[e] - 1) : e \in values}) =
           Cardinality(values) + Cardinality({e \in values : size[e] = 2})
    <3>1. 31688 \in Nat
      OBVIOUS
    <3>. QED BY <1>3, <1>4, <1>5, <3>1, Counted
  <2>. QED BY <1>7, <2>1, <2>2
<1>9. ASSUME NEW e \in Pushed \ values, NEW r \in From(e[1], e[2]) PROVE r \in sources
  <2>1. PICK b \in answered : \E p \in Decoded(b) : e = <<b, p>> /\ e[1] = b /\ e[2] = p
    BY PushedIs
  <2>2. PICK p \in Decoded(b) : e = <<b, p>> /\ e[1] = b /\ e[2] = p
    BY <2>1
  <2>3. p.as # "value" /\ r \in From(b, p)
    BY <2>2
  <2>4. b \in DOMAIN plan /\ unit \in Units
    BY DEF BuiltinTypeOK
  <2>5. PICK q \in Decoded(b) : q.as = "value" /\ r \in From(b, q)
    <3>1. CASE b = "pv"
      BY <2>3, <2>4, <3>1, ProductBeside
    <3>2. CASE b # "pv"
      BY <2>3, <2>4, <3>2, TextBeside
    <3>. QED BY <3>1, <3>2
  <2>6. <<b, q>> \in Pushed
    BY DEF Pushed
  <2>7. <<b, q>>[1] = b /\ <<b, q>>[2] = q
    OBVIOUS
  <2>. QED BY <2>5, <2>6, <2>7
<1>. QED BY <1>1, <1>2, <1>8, <1>9 DEF LabelsAreTrue

(* The way the simulator falls back is kept by every step.                 *)
LEMMA AloneStep ==
    ASSUME BuiltinTypeOK, Alone, [BuiltinNext]_builtinVars PROVE Alone'
<1>. SUFFICES ASSUME unit = "simulator" PROVE Alone'
  BY DEF Alone, BuiltinNext, builtinVars, Begin, StartBasic, DetectInputs, DetectStrings,
         SkipBlock, ReadBlock, FailBlock, StartStorage, EndPoll
<1>0. plan = Simulator /\ unit' = unit
  BY DEF plan, BuiltinNext, builtinVars, Begin, StartBasic, DetectInputs, DetectStrings,
         SkipBlock, ReadBlock, FailBlock, StartStorage, EndPoll
<1>1. CASE Begin \/ DetectInputs \/ DetectStrings
  <2>1. block' = "idle" /\ answered' = answered
    BY <1>1 DEF Begin, DetectInputs, DetectStrings, Alone
  <2>. QED BY <1>0, <2>1 DEF Alone
<1>2. CASE StartBasic
  BY <1>0, <1>2 DEF StartBasic, FirstBlock, Alone
<1>3. CASE SkipBlock \/ ReadBlock \/ FailBlock
  <2>1. block \in {"all", "energy", "total", "instant"}
    BY <1>0, <1>3, SimulatorBlocks DEF SkipBlock, ReadBlock, FailBlock, Reading
  <2>2. \/ block' = Simulator[block].bad /\ answered' = answered
        \/ block' = Simulator[block].good /\ answered' = answered \cup {block}
    BY <1>0, <1>3 DEF SkipBlock, ReadBlock, FailBlock
  <2>3. CASE block = "all"
    BY <1>0, <2>2, <2>3, SimulatorNext DEF Alone
  <2>4. CASE block \in {"energy", "total"}
    <3>1. answered = {} /\ block' \in {"total", "instant"}
      BY <2>2, <2>4, SimulatorNext DEF Alone
    <3>2. answered' \subseteq {block}
      BY <2>2, <3>1
    <3>3. block' = "total" => answered' = {}
      <4>1. Simulator["energy"].good = "instant" /\ Simulator["total"].good = "instant"
        BY DEF Simulator, Read
      <4>. QED BY <2>2, <2>4, <3>1, <4>1
    <3>. QED BY <1>0, <2>4, <3>1, <3>2, <3>3 DEF Alone
  <2>5. CASE block = "instant"
    BY <1>0, <2>2, <2>5, SimulatorNext DEF Alone
  <2>. QED BY <2>1, <2>3, <2>4, <2>5
<1>4. CASE EndPoll
  BY <1>0, <1>4 DEF EndPoll, Alone
<1>5. CASE StartStorage \/ UNCHANGED builtinVars
  BY <1>0, <1>5 DEF StartStorage, builtinVars, Alone
<1>. QED BY <1>1, <1>2, <1>3, <1>4, <1>5 DEF BuiltinNext

(* With room for every input and string in their blocks, as the code has:  *)
(* what a device publishes under a label was read from the registers that  *)
(* begin there, within the response; no register goes out as two values;   *)
(* and no text or power of an input without the values it is made from.    *)
THEOREM EveryLabelIsTrue ==
    ASSUME MAX_INPUTS <= 10, MAX_STRINGS <= 20
    PROVE  BuiltinSpec => []LabelsAreTrue
<1>1. BuiltinInit => Alone
  BY DEF BuiltinInit, Alone
<1>2. BuiltinTypeOK /\ Alone /\ [BuiltinNext]_builtinVars => Alone'
  BY AloneStep
<1>3. BuiltinTypeOK /\ Alone => LabelsAreTrue
  BY LabelsInv
<1>. QED BY <1>1, <1>2, <1>3, BuiltinTypes, PTL DEF BuiltinSpec

-----------------------------------------------------------------------------
(* The factory.  A step of what it created is a step of a device described *)
(* by a file or of a built-in one, and leaves the other as it is.          *)
LEMMA FactoryStep ==
    [FactoryNext]_factoryVars => [Next]_vars /\ [BuiltinNext]_builtinVars
BY DEF FactoryNext, factoryVars, PollGeneric, PollBuiltin

(* So what holds of either kind of device, whatever it is created from,    *)
(* holds of the device that Poller::begin() creates.                       *)
THEOREM FactoryMakesDevices == FactorySpec => Spec /\ BuiltinSpec
<1>1. FactoryInit => Init /\ BuiltinInit
  BY DEF FactoryInit
<1>. QED BY <1>1, FactoryStep, PTL DEF FactorySpec, Spec, BuiltinSpec

(* The device that is created stays within the types of its variables and, *)
(* if built in, in the class its model names.                              *)
THEOREM FactoryTypes == FactorySpec => []FactoryTypeOK
<1>. DEFINE Named == model \in Models /\ (create(model) \in Units => unit = create(model))
<1>1. FactoryInit => Named
  BY DEF FactoryInit
<1>2. Named /\ [FactoryNext]_factoryVars => Named'
  <2>1. [FactoryNext]_factoryVars => UNCHANGED <<model, unit>>
    BY DEF FactoryNext, factoryVars, builtinVars, PollGeneric, PollBuiltin, BuiltinNext, Begin,
           StartBasic, DetectInputs, DetectStrings, SkipBlock, ReadBlock, FailBlock,
           StartStorage, EndPoll
  <2>. QED BY <2>1
<1>3. TypeOK /\ BuiltinTypeOK /\ Named => FactoryTypeOK
  BY DEF FactoryTypeOK
<1>. HIDE DEF Named
<1>. QED BY <1>1, <1>2, <1>3, FactoryMakesDevices, GenericTypes, BuiltinTypes, PTL
            DEF FactorySpec
=============================================================================
