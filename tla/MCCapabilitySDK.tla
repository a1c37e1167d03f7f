-------------------------- MODULE MCCapabilitySDK --------------------------
(* Calling threads for TLC.                                                *)
EXTENDS CapabilitySDK

CONSTANTS t1, t2

MCThreads == {t1, t2}
=============================================================================
