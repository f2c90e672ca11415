---- MODULE MC_ConfigStore ----
EXTENDS ConfigStore
====
