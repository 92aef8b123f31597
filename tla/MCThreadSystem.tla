---------------------------- MODULE MCThreadSystem ----------------------------
EXTENDS ThreadSystem
MCCores == 0 .. 1
MCThreads == 0 .. 2
=============================================================================
