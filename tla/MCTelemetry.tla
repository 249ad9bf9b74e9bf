---- MODULE MCTelemetry ----
(* Telemetry with a control station and a pc receiver.                     *)
EXTENDS Telemetry
====
