----------------------------- MODULE AlertBoard -----------------------------
(***************************************************************************)
(* The alert monitor seen from outside: a board with at most one alert for *)
(* every thing it watches.  Examining a snapshot settles, at once, the     *)
(* level of everything the snapshot names, and a CPU snapshot also that of *)
(* the custom rules on metric "cpu"; nothing else changes.                 *)
(*                                                                         *)
(* That a check is one step is the promise.  Which rules a check looks at  *)
(* is taken over from the code, and is less than the configuration offers: *)
(* a rule on memory, disk or temperature, which config.go:40 names and the *)
(* wizard makes, is never settled (alerts.go:149).                         *)
(***************************************************************************)
EXTENDS Naturals, Sequences

CONSTANTS
  Metrics,      \* the topics watched
  Parts,        \* the mounts, zones... a snapshot may name
  Labels,       \* labels of custom rules
  Snapshots,    \* Snapshots[m]: the snapshots of metric m, <<part, value>> pairs
  Configs       \* the configurations

VARIABLES
  cfg,          \* the configuration in force
  board         \* board[k]: the level shown for key k, "none" without an alert

Keys == (Metrics \X Parts) \cup ({"rule"} \X Labels)

Levels == {"none", "warning", "critical"}

\* The level of a value of metric m.
Level(c, m, v) ==
  IF v >= c.critical[m] THEN "critical"
  ELSE IF v >= c.warning[m] THEN "warning" ELSE "none"

Holds(r, v) ==
  \/ r.op = ">" /\ v > r.value
  \/ r.op = ">=" /\ v >= r.value
  \/ r.op = "<" /\ v < r.value
  \/ r.op = "==" /\ v = r.value

\* The rules the monitor looks at: those on the CPU's percentage, and no other.
Judges(c, i, label) == c.rules[i].metric = "cpu" /\ c.rules[i].label = label

RuleLevel(c, label, v) ==
  LET last == CHOOSE i \in DOMAIN c.rules :
                /\ Judges(c, i, label)
                /\ \A j \in DOMAIN c.rules : Judges(c, j, label) => j <= i
  IN  IF Holds(c.rules[last], v) THEN c.rules[last].severity ELSE "none"

\* A snapshot that names a part twice, as two thermal zones of one type do,
\* settles it by the later value.
PartLevel(c, m, snap, k) ==
  LET last == CHOOSE i \in DOMAIN snap :
                /\ k = <<m, snap[i][1]>>
                /\ \A j \in DOMAIN snap : k = <<m, snap[j][1]>> => j <= i
  IN  Level(c, m, snap[last][2])

Settled(c, m, snap, k) ==
  IF \E i \in DOMAIN snap : k = <<m, snap[i][1]>> THEN PartLevel(c, m, snap, k)
  ELSE IF m = "cpu" /\ k[1] = "rule" /\ \E i \in DOMAIN c.rules : Judges(c, i, k[2])
    THEN RuleLevel(c, k[2], snap[1][2])
  ELSE board[k]

Init ==
  /\ cfg \in Configs
  /\ board = [k \in Keys |-> "none"]

Examine(m, snap) ==
  /\ board' = [k \in Keys |-> Settled(cfg, m, snap, k)]
  /\ UNCHANGED cfg

Reload ==
  /\ cfg' \in Configs
  /\ UNCHANGED board

Next == Reload \/ \E m \in Metrics : \E snap \in Snapshots[m] : Examine(m, snap)

Spec == Init /\ [][Next]_<<cfg, board>>
=============================================================================
