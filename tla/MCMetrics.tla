----------------------------- MODULE MCMetrics -------------------------------
(***************************************************************************)
(* The average loads of a report: two compressors, and a monitor that      *)
(* samples the queues twice.                                               *)
(***************************************************************************)
EXTENDS Metrics

TwoCompressors == [comp |-> 2]
Plain == [comp |-> "plain"]
=============================================================================
