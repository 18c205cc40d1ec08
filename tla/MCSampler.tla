---------------------------- MODULE MCSampler ----------------------------
(* Small instances of Sampler: a water level and another sensor, on one port. *)
(* err_cnt, which nothing sets, is such that one failure clears the level.   *)
EXTENDS Sampler

TwoSensors == <<"Z1", "VT">>
OnePort == [x \in Sensor |-> "RS1"]
\* The level has the shorter prefix, with which the answers of the other begin too.
ShortPrefix == [x \in Sensor |-> IF x = "Z1" THEN Sensor ELSE {x}]
OthersDirect == {"VT"}
Unknown == {2}
==========================================================================
