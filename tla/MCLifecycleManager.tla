------------------------- MODULE MCLifecycleManager -------------------------
(* One service and two operators for TLC.                          *)
EXTENDS LifecycleManager

CONSTANTS s1, t1, t2

OneService == {s1}
MCOperators == {t1, t2}
=============================================================================
