------------------------- MODULE MCMetricsPipeline --------------------------
(***************************************************************************)
(* Instances of MetricsPipeline for TLC.  The addresses have two octets;   *)
(* neither is its own reverse, nor the reverse of the other.               *)
(***************************************************************************)
EXTENDS MetricsPipeline

MCSources == {<<1, 2>>, <<3, 4>>}
=============================================================================
