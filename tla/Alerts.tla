------------------------------- MODULE Alerts -------------------------------
(***************************************************************************)
(* internal/services/alerts/alerts.go: the monitor that compares the       *)
(* snapshots of four topics with the thresholds of the configuration and   *)
(* with the user's custom rules.                                           *)
(*                                                                         *)
(* A check copies the configuration under the mutex and releases it; every *)
(* setAlert and clearAlert that follows takes the mutex again.  The steps  *)
(* here are those critical sections, so that Reload can come in between.   *)
(* Values are small numbers; an alert is its key, its level and its number *)
(* in the order of raising, which stands for its timestamp.                *)
(***************************************************************************)
EXTENDS Integers, Sequences, FiniteSets, FiniteSetsExt, Lists

CONSTANTS
  Metrics,      \* the topics watched: cpu, memory, disk, thermal in the code
  Parts,        \* what a snapshot may name: the CPU, a mount, a zone
  Labels,       \* labels of custom rules
  Snapshots,    \* Snapshots[m]: the snapshots of metric m, <<part, value>> pairs
  Configs,      \* configurations Reload may give
  SubCap,       \* bus.bufferSize, 16
  OutCap,       \* capacity of out, 8
  DefaultMax,   \* history bound when max_history is not positive, 50
  MaxSnapshots  \* bound: snapshots published in a behaviour

\* A custom rule, whatever its metric and its operator say.
RuleType == [metric : STRING, op : STRING, value : Int,
             severity : {"warning", "critical"}, label : Labels]

ASSUME AlertsAssumption ==
  /\ "rule" \notin Metrics
  /\ \A m \in Metrics : Snapshots[m] \subseteq Seq(Parts \X Int)
  /\ \A c \in Configs : c.rules \in Seq(RuleType) /\ c.maxHistory \in Int
  /\ SubCap \in Nat /\ OutCap \in Nat /\ MaxSnapshots \in Nat /\ DefaultMax \in Nat \ {0}

VARIABLES
  cfg,          \* Service.cfg
  sub,          \* sub[m]: the buffered snapshots of subCPU, subMem, ...
  seen,         \* snapshots published so far
  running,      \* Start has not returned
  work,         \* the setAlert and clearAlert calls the check has still to make
  active,       \* Service.active, a set of alerts with one alert per key
  history,      \* Service.history
  raised,       \* alerts raised so far
  out           \* the buffered alert snapshots of Service.out

inVars == <<cfg, sub, seen, running>>
vars == <<inVars, work, active, history, raised, out>>

Keys == (Metrics \X Parts) \cup ({"rule"} \X Labels)

\* The level key k has once the calls still to be made are made.
Standing(k) ==
  LET todo == {i \in DOMAIN work : work[i].key = k}
  IN  IF todo # {} THEN work[Max(todo)].level
      ELSE IF \E a \in active : a.key = k
        THEN (CHOOSE a \in active : a.key = k).level
      ELSE "none"

Board == INSTANCE AlertBoard WITH board <- [k \in Keys |-> Standing(k)]

\* EvaluateCustomRule; an operator it does not know never holds.
EvaluateCustomRule(r, v) ==
  \/ r.op = ">" /\ v > r.value
  \/ r.op = ">=" /\ v >= r.value
  \/ r.op = "<" /\ v < r.value
  \/ r.op = "==" /\ v = r.value

Verdict(c, m, v) ==
  IF v >= c.critical[m] THEN "critical"
  ELSE IF v >= c.warning[m] THEN "warning" ELSE "none"

Init ==
  /\ cfg \in Configs
  /\ sub = [m \in Metrics |-> <<>>]
  /\ seen = 0
  /\ running = TRUE
  /\ work = <<>>
  /\ active = {}
  /\ history = <<>>
  /\ raised = 0
  /\ out = <<>>
-----------------------------------------------------------------------------
\* A collector's snapshot reaches the monitor's channel, or is dropped there.
Arrive(m) ==
  /\ seen < MaxSnapshots
  /\ seen' = seen + 1
  /\ \E snap \in Snapshots[m] :
       sub' = [sub EXCEPT ![m] = IF Len(@) < SubCap THEN Append(@, snap) ELSE @]
  /\ UNCHANGED <<cfg, running, work, active, history, raised, out>>

\* The calls of checkCPU, checkMemory, checkDisk or checkThermal for one snapshot.
Calls(m, snap) ==
  [i \in DOMAIN snap |-> [key |-> <<m, snap[i][1]>>,
                          level |-> Verdict(cfg, m, snap[i][2])]]

\* Mutant of RuleCalls: rules of every metric are held against the CPU's value.
RuleCallsAnyMetric(m, snap) ==
  IF m # "cpu" THEN <<>>
  ELSE [i \in DOMAIN cfg.rules |->
         [key |-> <<"rule", cfg.rules[i].label>>,
          level |-> IF EvaluateCustomRule(cfg.rules[i], snap[1][2])
                      THEN cfg.rules[i].severity ELSE "none"]]

\* checkCPU's loop over the custom rules, which looks at metric "cpu" only.
RuleCalls(m, snap) ==
  IF m # "cpu" THEN <<>>
  ELSE LET at == Ascending({i \in DOMAIN cfg.rules : cfg.rules[i].metric = "cpu"})
       IN  [n \in DOMAIN at |->
             [key |-> <<"rule", cfg.rules[at[n]].label>>,
              level |-> IF EvaluateCustomRule(cfg.rules[at[n]], snap[1][2])
                          THEN cfg.rules[at[n]].severity ELSE "none"]]

\* One case of Start's select: a snapshot is taken and its check begins.
Check(m) ==
  /\ running
  /\ work = <<>>
  /\ sub[m] # <<>>
  /\ work' = Calls(m, Head(sub[m])) \o RuleCalls(m, Head(sub[m]))
  /\ sub' = [sub EXCEPT ![m] = Tail(@)]
  /\ UNCHANGED <<cfg, seen, running, active, history, raised, out>>

MaxHistory == IF cfg.maxHistory <= 0 THEN DefaultMax ELSE cfg.maxHistory

NewAlert == [key |-> Head(work).key, level |-> Head(work).level,
             number |-> raised + 1]

\* s.active[key] = alert
WithAlert == {a \in active : a.key # Head(work).key} \cup {NewAlert}

\* Mutant of Trimmed: the newest alerts are cut off.
TrimmedNewest(h) ==
  IF Len(h) > MaxHistory THEN SubSeq(h, Len(h) - MaxHistory + 1, Len(h)) ELSE h

\* s.history[:maxHist]; max_history is the one of the present configuration.
Trimmed(h) == IF Len(h) > MaxHistory THEN SubSeq(h, 1, MaxHistory) ELSE h

\* Mutant of Published: one snapshot more than out has room for.
PublishedOverCap(acts, hist) ==
  IF Len(out) <= OutCap
    THEN Append(out, [active |-> acts, history |-> hist]) ELSE out

\* publishLocked: active and history, as they are now, to out if it has room.
Published(acts, hist) ==
  IF Len(out) < OutCap
    THEN Append(out, [active |-> acts, history |-> hist]) ELSE out

\* Mutant of SetAlert: the snapshot is made before the alert joins the history.
SetAlertLate ==
  /\ work # <<>>
  /\ Head(work).level # "none"
  /\ raised' = raised + 1
  /\ active' = WithAlert
  /\ history' = Trimmed(<<NewAlert>> \o history)
  /\ out' = Published(active', history)
  /\ work' = Tail(work)
  /\ UNCHANGED inVars

\* Mutant of SetAlert: the send on out has no default case.
SetAlertBlocks ==
  /\ work # <<>>
  /\ Head(work).level # "none"
  /\ Len(out) < OutCap
  /\ raised' = raised + 1
  /\ active' = WithAlert
  /\ history' = Trimmed(<<NewAlert>> \o history)
  /\ out' = Published(active', history')
  /\ work' = Tail(work)
  /\ UNCHANGED inVars

\* setAlert, under the mutex.
SetAlert ==
  /\ work # <<>>
  /\ Head(work).level # "none"
  /\ raised' = raised + 1
  /\ active' = WithAlert
  /\ history' = Trimmed(<<NewAlert>> \o history)
  /\ out' = Published(active', history')
  /\ work' = Tail(work)
  /\ UNCHANGED inVars

\* clearAlert, under the mutex: published only when there was an alert.
ClearAlert ==
  /\ work # <<>>
  /\ Head(work).level = "none"
  /\ active' = {a \in active : a.key # Head(work).key}
  /\ out' = IF active' # active THEN Published(active', history) ELSE out
  /\ work' = Tail(work)
  /\ UNCHANGED <<inVars, history, raised>>

\* Reload, from another goroutine, between any two of the steps above.
Reload ==
  /\ cfg' \in Configs
  /\ UNCHANGED <<sub, seen, running, work, active, history, raised, out>>

\* case <-ctx.Done(): Start returns, at the select only.
Stop ==
  /\ running
  /\ work = <<>>
  /\ running' = FALSE
  /\ UNCHANGED <<cfg, sub, seen, work, active, history, raised, out>>

Monitor == SetAlert \/ ClearAlert \/ \E m \in Metrics : Check(m)

Next == Monitor \/ Reload \/ Stop \/ \E m \in Metrics : Arrive(m)

Spec == Init /\ [][Next]_vars

\* The monitor's goroutine runs on while one of its steps is possible.
FairSpec == Spec /\ WF_vars(Monitor)
-----------------------------------------------------------------------------
Alert == [key : Keys, level : {"warning", "critical"}, number : 1 .. raised]

TypeOK ==
  /\ cfg \in Configs
  /\ \A m \in Metrics : Len(sub[m]) <= SubCap /\ sub[m] \in Seq(Snapshots[m])
  /\ seen \in 0 .. MaxSnapshots
  /\ running \in BOOLEAN
  /\ work \in Seq([key : Keys, level : {"none", "warning", "critical"}])
  /\ active \subseteq Alert
  /\ history \in Seq(Alert)
  /\ raised \in Nat
  /\ out \in Seq([active : SUBSET Alert, history : Seq(Alert)])
  /\ Len(out) <= OutCap

Bounds == {IF c.maxHistory <= 0 THEN DefaultMax ELSE c.maxHistory : c \in Configs}

\* The history holds the newest alerts, newest first, with none missing and
\* none twice, at most as many as some configuration asks for and, when more
\* were raised, no fewer than the smallest does.
RecentHistory ==
  /\ \A i \in DOMAIN history : history[i].number = raised - i + 1
  /\ history # <<>> => \E b \in Bounds : Len(history) <= b
  /\ Len(history) = raised \/ \E b \in Bounds : Len(history) >= b

Explained(acts, hist) ==
  \A a \in acts :
    \/ \E i \in DOMAIN hist : hist[i] = a
    \/ hist # <<>> /\ \A i \in DOMAIN hist : hist[i].number > a.number

\* In the state and in every snapshot sent, an active alert is in the history,
\* unless as many newer ones as it holds have pushed it out; and no key has
\* two alerts.
ActiveExplained ==
  \A snap \in ({[active |-> active, history |-> history]}
                 \cup {out[i] : i \in DOMAIN out}) :
    /\ Explained(snap.active, snap.history)
    /\ \A a, b \in snap.active : a.key = b.key => a = b

\* The monitor is the board of AlertBoard: each snapshot settles what it names
\* and, for the CPU's, the rules on metric "cpu", as a whole, although alerts
\* are set and cleared one at a time while the configuration may be reloaded.
\* Rules on other metrics, which config.go:40 names and Validate and the wizard
\* accept, are judged by no check (alerts.go:149), and the board knows of none.
ImplementsBoard == Board!Spec

\* No step of the monitor waits for a reader of its output: whatever arrives
\* is examined, as long as Start has not been told to return.
EverythingExamined ==
  \A m \in Metrics : sub[m] # <<>> ~> sub[m] = <<>> \/ ~running
=============================================================================
