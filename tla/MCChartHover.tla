--------------------------- MODULE MCChartHover ----------------------------
(* ChartHover on a small instance. *)
EXTENDS ChartHover
=============================================================================
