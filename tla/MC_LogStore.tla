---- MODULE MC_LogStore ----
EXTENDS LogStore
====
