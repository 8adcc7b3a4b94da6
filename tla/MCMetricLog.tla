---------------------------- MODULE MCMetricLog ----------------------------
(* MetricLog with two searches one after the other.                        *)
EXTENDS MetricLog
MCTraffic == {{}, {"a"}, {"a", "b"}}
MCQueries == {[b |-> 0, e |-> 3, max |-> 0, res |-> ""], [b |-> 2, e |-> 3, max |-> 0, res |-> ""]}
=============================================================================
