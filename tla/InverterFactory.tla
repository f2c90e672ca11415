---------------------------- MODULE InverterFactory ----------------------------
(***************************************************************************)
(* What Poller::begin() makes of the configured device_model               *)
(* (lib/inverter_core): one device, described by a file or built in, which *)
(* is polled until the next boot, or none.                                 *)
(***************************************************************************)
EXTENDS GenericDevice, BuiltinDevice

VARIABLE model   \* device_model

factoryVars == <<vars, builtinVars, model>>

(* A model is "json:" and a safe name, or an unsafe one, or a name.        *)
Models == {"json", "json_unsafe", "solplanet_asw_gen", "solplanet_asw_hybrid",
           "hiking_dds238", "dds238_simulator", "other"}

create(m) ==
    CASE m = "json" -> "generic"
      [] m \in {"solplanet_asw_gen", "solplanet_asw_hybrid"} -> "solplanet"
      [] m = "hiking_dds238" -> "hiking"
      [] m = "dds238_simulator" -> "simulator"
      [] OTHER -> "none"

Created(kind) == create(model) = kind

(* The half that is not created is given one fixed state.                  *)
FactoryInit ==
    /\ model \in Models /\ Init /\ BuiltinInit
    /\ ~Created("generic") => schema = 1
    /\ IF create(model) \in Units THEN unit = create(model)
                                  ELSE unit = "hiking" /\ device = CHOOSE d \in Devices : TRUE

(* begin() of the created device is the loading of the file, or Begin.     *)
PollGeneric == Created("generic") /\ Next /\ UNCHANGED <<builtinVars, model>>
PollBuiltin == create(model) \in Units /\ BuiltinNext /\ UNCHANGED <<vars, model>>

FactoryNext == PollGeneric \/ PollBuiltin

FactorySpec == FactoryInit /\ [][FactoryNext]_factoryVars

(* The device that was created stays within the types of its variables,    *)
(* and a built-in one within the class its model names.                    *)
FactoryTypeOK ==
    /\ TypeOK /\ BuiltinTypeOK /\ model \in Models
    /\ create(model) \in Units => unit = create(model)
================================================================================
