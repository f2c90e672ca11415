--------------------------- MODULE MC_Connectivity ---------------------------
EXTENDS Connectivity
==============================================================================
