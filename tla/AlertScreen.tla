---------------------------- MODULE AlertScreen -----------------------------
(***************************************************************************)
(* The way of an alert to the screen as main.go wires it: the registry     *)
(* bridges the output of the services it was given to the bus, and the     *)
(* root model (internal/ui/app.go) listens on the topic "alerts".          *)
(***************************************************************************)
EXTENDS Alerts

CONSTANT BusCap   \* bus.bufferSize, 16

VARIABLES
  feed,    \* the channel of b.Subscribe("alerts")
  toast    \* the active alerts of the last alertMsg

screenVars == <<feed, toast>>

\* The services main.go hands to reg.Register.
Registered ==
  {"cpu", "mem", "swap", "disk", "ioSvc", "net", "netstats", "routing", "thermal",
   "sysinfo", "proc", "ports", "docker", "initsys", "fw", "pkgs", "usrSvc", "advSvc",
   "dmesg"}

ScreenInit == Init /\ feed = <<>> /\ toast = {}

\* The registry's bridge for the monitor's output, if the monitor has one.
Bridge ==
  /\ "alertsMon" \in Registered
  /\ out # <<>>
  /\ feed' = IF Len(feed) < BusCap THEN Append(feed, Head(out)) ELSE feed
  /\ out' = Tail(out)
  /\ UNCHANGED <<inVars, work, active, history, raised, toast>>

\* listenAlerts delivers a snapshot; Update shows its alerts and listens again.
Listen ==
  /\ feed # <<>>
  /\ toast' = Head(feed).active
  /\ feed' = Tail(feed)
  /\ UNCHANGED vars

ScreenNext == (Next /\ UNCHANGED screenVars) \/ Bridge \/ Listen

ScreenSpec ==
  /\ ScreenInit
  /\ [][ScreenNext]_<<vars, screenVars>>
  /\ WF_<<vars, screenVars>>(Monitor /\ UNCHANGED screenVars)
  /\ WF_<<vars, screenVars>>(Bridge)
  /\ WF_<<vars, screenVars>>(Listen)

\* main.go: the monitor "publishes alerts"; README: the drawer is "displaying
\* active & historical threshold breaches".  An alert that stays active while
\* the monitor runs is on the screen in the end.
AlertsReachScreen == active # {} ~> toast # {} \/ active = {} \/ ~running
=============================================================================
