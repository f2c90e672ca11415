---- MODULE MC_Availability ----
EXTENDS Availability
====
