--------------------------- MODULE MCMetricHistory ---------------------------
(* Values of the constants of MetricHistory for TLC. *)
EXTENDS MetricHistory

=============================================================================
