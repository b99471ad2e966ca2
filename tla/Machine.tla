------------------------------- MODULE Machine -------------------------------
(***************************************************************************)
(* The parts that stand between the tabs and the machine: those of         *)
(* internal/services, and the screen of the terminal tab.  They share no   *)
(* state: a behaviour is one of one part.                                  *)
(***************************************************************************)
EXTENDS FirewallEngines, Counters, ProcessTree, AuditLog, InitBackends, HostDetection,
        TerminalScreen

VARIABLE part
vars == <<part, engineVars, countersVars, treeVars, auditVars, initVars, hostVars, screenVars>>

Parts == {"firewall", "counters", "process tree", "audit", "init", "host", "screen"}

\* The parts a behaviour is not about stay in one initial state.
Init ==
  /\ part \in Parts
  /\ EnginesInit /\ (part # "firewall" => engine = "ufw" /\ up)
  /\ CountersInit /\ (part # "counters" => kind = "cpu")
  /\ TreeInit
  /\ AuditInit /\ (part # "audit" => logPath = CHOOSE p \in Paths : TRUE)
  /\ InitBackendsInit
  /\ part # "init" => backend = "openrc" /\ \A u \in Names : style[u] = "marked"
  /\ HostInit
  /\ part # "host" => subject = "init" /\ host = CHOOSE h \in Hosts("init") : TRUE
  /\ ScreenInit

Firewall == part = "firewall" /\ EnginesNext
              /\ UNCHANGED <<countersVars, treeVars, auditVars, initVars, hostVars, screenVars>>
Counting == part = "counters" /\ CountersNext
              /\ UNCHANGED <<engineVars, treeVars, auditVars, initVars, hostVars, screenVars>>
Processes == part = "process tree" /\ TreeNext
              /\ UNCHANGED <<engineVars, countersVars, auditVars, initVars, hostVars, screenVars>>
Auditing == part = "audit" /\ AuditNext
              /\ UNCHANGED <<engineVars, countersVars, treeVars, initVars, hostVars, screenVars>>
InitSystems == part = "init" /\ InitBackendsNext
              /\ UNCHANGED <<engineVars, countersVars, treeVars, auditVars, hostVars, screenVars>>
Detecting == part = "host" /\ HostNext
              /\ UNCHANGED <<engineVars, countersVars, treeVars, auditVars, initVars, screenVars>>
Displaying == part = "screen" /\ ScreenNext
              /\ UNCHANGED <<engineVars, countersVars, treeVars, auditVars, initVars, hostVars>>

Next ==
  /\ Firewall \/ Counting \/ Processes \/ Auditing \/ InitSystems
     \/ Detecting \/ Displaying
  /\ part' = part

Spec == Init /\ [][Next]_vars
-----------------------------------------------------------------------------
TypeOK ==
  /\ EnginesTypeOK /\ CountersTypeOK /\ TreeTypeOK
  /\ AuditTypeOK /\ InitBackendsTypeOK /\ HostTypeOK
  /\ ScreenTypeOK
=============================================================================
