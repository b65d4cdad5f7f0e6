------------------------------- MODULE MCMetrics ------------------------------
(* TLC instances of Metrics.                                                *)
EXTENDS Metrics
CONSTANTS c1, c2
===============================================================================
