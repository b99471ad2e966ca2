--------------------------- MODULE MCAlertScreen ----------------------------
(* The CPU alone, at one of two values, and no custom rules.               *)
EXTENDS AlertScreen

MCSnapshots == [m \in {"cpu"} |-> {<< <<"total", v>> >> : v \in {0, 2}}]

MCConfigs ==
  {[warning |-> [m \in {"cpu"} |-> 1], critical |-> [m \in {"cpu"} |-> 2],
    rules |-> <<>>, maxHistory |-> 50]}
=============================================================================
