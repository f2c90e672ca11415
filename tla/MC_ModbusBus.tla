---- MODULE MC_ModbusBus ----
EXTENDS ModbusBus
====
