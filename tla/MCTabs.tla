------------------------------- MODULE MCTabs -------------------------------
(* Three objects; a listing may lose one, gain one, or swap two.  The second *)
(* and third object's pids share a digit.                                    *)
EXTENDS Tabs

a == [id |-> "a", tag |-> 0]
b == [id |-> "b", tag |-> 1]
c0 == [id |-> "c", tag |-> 0]

MCListings == [t \in Tabs |-> IF t \in {"Firewall", "Packages"} THEN {<<a>>, <<b, a>>}
                              ELSE {<<>>, <<a, b>>, <<b, c0, a>>}]
MCKept == [n \in 0 .. 1 |-> IF n = 0 THEN {"a", "b", "c"} ELSE {"b", "c"}]
MCEngines == <<"e1", "e2">>
MCHeights == {9, 15, 20}
MCColumns == <<"measured", "rank">>
MCRank == [i \in {"a", "b", "c"} |-> CASE i = "a" -> 1 [] i = "b" -> 2 [] i = "c" -> 3]
MCSignals == <<"SIGTERM", "SIGKILL">>
MCPidText == [i \in {"a", "b", "c"} |-> CASE i = "a" -> <<"1">> [] i = "b" -> <<"1", "2">> [] i = "c" -> <<"2">>]
MCPhrase == <<"1", "1">>
MCPanels == <<"sysinfo", "cpu", "disk">>
MCPanelHeight == [sysinfo |-> 5, cpu |-> 8, disk |-> 7]
MCHits == {<<>>, <<b>>}
MCKeys == [t \in Tabs |->
  CASE t = "Process" -> {"up", "down", "k", "enter", "esc", "s", "t", "r", "f6", "/",
                         "backspace", "1", "2"}
    [] t = "Docker" -> {"up", "down", "pgup", "pgdown", "home", "enter", "esc", "l",
                         "s", "d", "p", "y"}
    [] t = "Packages" -> {"up", "down", "tab", "c", "b", "/", "r", "u", "enter", "esc",
                          "backspace", "1", "y"}
    [] t = "Services" -> {"up", "down", "tab", "/", "a", "f", "r", "l", "enter", "esc",
                          "backspace", "s", "1", "y"}
    [] t = "Firewall" -> {"up", "down", "tab", "b", "a", "d", "e", "enter", "esc",
                          "backspace", "1", "y"}
    [] t = "Users" -> {"up", "down", "tab", "/", "h", "a", "d", "enter", "esc",
                       "backspace", "1", "y"}
    [] t = "Advanced" -> {"up", "down", "tab", "x", "b", "esc", "y"}
    [] t = "Network" -> {"up", "down", "tab", "f", "k", "/", "esc", "backspace", "1"}
    [] t = "Dashboard" -> {"up", "down", "pgup", "pgdown", "home"}]
=============================================================================
