---------------------------- MODULE MCAiCircuit ----------------------------
EXTENDS AiCircuitProperties
=============================================================================
