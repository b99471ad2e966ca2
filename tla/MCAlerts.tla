------------------------------ MODULE MCAlerts ------------------------------
(* The CPU with custom rules, and a thermal collector with two zones, one of *)
(* which may be missing or of the type of the other; values 0 (low),         *)
(* 1 (warning) and 2 (critical).                                             *)
EXTENDS Alerts

MCMetrics == {"cpu", "thermal"}
MCParts == {"total", "acpitz", "x86_pkg"}
MCLabels == {"busy"}

MCSnapshots ==
  [m \in MCMetrics |->
    IF m = "cpu" THEN {<< <<"total", v>> >> : v \in 0 .. 2}
    ELSE {<< <<"acpitz", 1>>, <<"x86_pkg", v>> >> : v \in {0, 1}}
           \cup {<< <<"acpitz", 0>> >>, << <<"acpitz", 1>>, <<"acpitz", 0>> >>}]

Rule(metric, op, value, severity) ==
  [metric |-> metric, op |-> op, value |-> value, severity |-> severity,
   label |-> "busy"]

Limits(max, rules) ==
  [warning |-> [m \in MCMetrics |-> 1], critical |-> [m \in MCMetrics |-> 2],
   rules |-> rules, maxHistory |-> max]

MCConfigs ==
  {Limits(1, <<Rule("cpu", ">", 1, "critical"),
               Rule("temp", ">=", 0, "warning")>>),
   Limits(0, <<Rule("cpu", "==", 0, "critical"),
               Rule("cpu", "<", 2, "warning")>>)}
=============================================================================
