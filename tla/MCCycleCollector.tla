-------------------------- MODULE MCCycleCollector --------------------------
EXTENDS CycleCollector
=============================================================================
