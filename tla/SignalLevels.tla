---------------------------- MODULE SignalLevels ----------------------------
(***************************************************************************)
(* The statuses of a signal and the telemetry derived from each.           *)
(***************************************************************************)
EXTENDS Integers

SignalStatuses == {"NO_SIGNAL", "UNSTABLE", "STABLE", "NOT_SUPPORTED"}

SignalStrengthDbm(s) ==
    CASE s = "STABLE" -> -20 [] s = "UNSTABLE" -> -50 [] OTHER -> 0

SignalQuality(s) ==
    CASE s = "STABLE" -> 85 [] s = "UNSTABLE" -> 20
      [] s = "NOT_SUPPORTED" -> 5 [] OTHER -> 0
=============================================================================
