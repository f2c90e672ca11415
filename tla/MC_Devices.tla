------------------------------ MODULE MC_Devices ------------------------------
EXTENDS InverterFactory

(* Two names stand for the inverter.  Nothing but create() looks at the    *)
(* name, so states that differ in it alone are counted once.               *)
CreatedView == <<vars, builtinVars, create(model)>>
===============================================================================
