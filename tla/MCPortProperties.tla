-------------------------- MODULE MCPortProperties --------------------------
(* TLC instances of PortProperties: a profile with two metrics controllers *)
(* may set, one of a type that the end of a session does not clear, as the *)
(* parser accepts it, and the updates that tell the checks of              *)
(* setProperty() and setPropertyMulti() apart.                             *)
EXTENDS PortProperties

Drops == "METRIC_SIGNAL_DROPS"
Locks == "METRIC_SIGNAL_LOCK_COUNT"

MCMetrics == {Drops, Locks, LastReset}

MCDeclared == [x \in Telemetry \union MCMetrics |->
                  IF x = Drops THEN "doubleValue" ELSE Native(x)]

(* The time of the last reset is kept but not offered.                     *)
MCSupported == Telemetry \union {Drops, Locks}

MCWritable == {Drops, Locks}

Try(x, tag, n) == [property |-> x, value |-> [tag |-> tag, number |-> n]]

(* A batch that repeats a property; one good and one unsupported; one good *)
(* and one of the wrong type.                                              *)
MCBatches == { <<Try(Drops, "doubleValue", 1), Try(Locks, "longValue", 1),
                 Try(Drops, "doubleValue", 2)>>,
               <<Try(Drops, "doubleValue", 1), Try(LastReset, "longValue", 2)>>,
               <<Try(Drops, "doubleValue", 1), Try(Drops, "intValue", 2)>> }

(* The host writes a metric under the key of the wrong type.               *)
MCUtUpdates == {Try(Drops, "intValue", 3)}
=============================================================================
