------------------------------ MODULE MCMachine ------------------------------
(* Three rules, two-bit counters, two cores and one object of the other      *)
(* kinds, three processes besides init, two log paths, a service and a       *)
(* socket, two lines.                                                        *)
EXTENDS Machine

MCRules == 1..3
MCObjects == [k \in Kinds |-> IF k = "cpu" THEN 1..2 ELSE {1}]
MCPids == 1..4
MCPaths == {"a", "b"}
MCUnits == <<1, 2>>
MCRunsAs == <<"running", "listening">>
=============================================================================
