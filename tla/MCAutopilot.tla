---- MODULE MCAutopilot ----
(* Autopilot with the gains of configs/config.json and small limits.       *)
EXTENDS Autopilot

(* Half a degree, ten degrees, one whose sum leaves eight bits, and one    *)
(* that only a misframed packet can hold.                                  *)
SomeAngles == {-1, 0, 20, 290, 700}
SomeBytes == {-128, 0, 127}

ASSUME ModerateAssumption == GainsModerate
====
