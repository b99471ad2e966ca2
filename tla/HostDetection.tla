---------------------------- MODULE HostDetection ----------------------------
(***************************************************************************)
(* Which backends a host gets: sysdetect probes it once, each service takes*)
(* its backend from that profile, and the tabs look again for the backends *)
(* they offer, on a host that may have changed in between.                 *)
(***************************************************************************)
EXTENDS Naturals, Sequences, FiniteSets, SequencesExt, Lists

VARIABLES
  subject,      \* what is detected: "firewall", "packages" or "init"
  host,         \* what is true of the host
  kept,         \* history: it has been so from the start
  service,      \* the backend the service took from the profile, or "none-yet"
  offered       \* the backends the tab offers, the first being active
hostVars == <<subject, host, kept, service, offered>>

\* What can be installed, run or missing.  Some of it is in sbin, which the
\* PATH of the user may leave out.
Facts ==
  [firewall |-> {"ufw", "firewall-cmd", "firewalld-runs", "nft", "iptables", "sbin-on-PATH"},
   packages |-> {"apt", "dnf", "yum", "pacman", "yay", "zypper", "apk", "emerge",
                "sbin-on-PATH"},
   init |-> {"pid-1-readable"}]

\* The hosts there are, by what pid 1 is and the marks they have.
InitHosts ==
  {{"systemd", "/run/systemd"}, {"openrc-init", "/run/openrc"}, {"busybox", "/run/openrc"},
   {"init", "/etc/inittab"}, {"init", "/etc/inittab", "/run/openrc"}, {"runit"}}

Hosts(s) ==
  IF s = "init" THEN {h \union f : h \in InitHosts, f \in SUBSET Facts.init}
  ELSE {h \in SUBSET Facts[s] : ("firewalld-runs" \in h => "firewall-cmd" \in h)
                                 /\ ("yay" \in h => "pacman" \in h)}

HostInit ==
  /\ subject \in DOMAIN Facts
  /\ host \in Hosts(subject)
  /\ kept = TRUE
  /\ service = "none-yet"
  /\ offered = <<>>
-----------------------------------------------------------------------------
\* Which backend is taken where a fact holds, the first match first.
FirewallProbes ==
  <<<<"ufw", "ufw">>, <<"firewalld-runs", "firewalld">>, <<"nft", "nftables">>,
    <<"iptables", "iptables">>>>

\* Mutant of FirewallEngines: what lies below the front ends comes first.
FirewallEnginesBelowFirst ==
  <<<<"nft", "nftables">>, <<"iptables", "iptables">>, <<"ufw", "ufw">>,
    <<"firewall-cmd", "firewalld">>>>

FirewallEngines ==
  <<<<"ufw", "ufw">>, <<"firewall-cmd", "firewalld">>, <<"nft", "nftables">>,
    <<"iptables", "iptables">>>>
PackageProbes ==
  <<<<"apt", "apt">>, <<"dnf", "dnf">>, <<"yum", "dnf">>, <<"pacman", "pacman">>,
    <<"zypper", "zypper">>, <<"apk", "apk">>, <<"emerge", "apt">>>>
PackageHelpers ==
  <<<<"pacman", "pacman">>, <<"yay", "yay">>, <<"apt", "apt">>, <<"dnf", "dnf">>,
    <<"yum", "dnf">>, <<"apk", "apk">>, <<"zypper", "zypper">>>>

Hits(probes, facts) == {i \in DOMAIN probes : probes[i][1] \in facts}
Backends(probes) == [i \in DOMAIN probes |-> probes[i][2]]

\* Mutant of Found: dnf twice where yum is there as well.
FoundTwice(probes, facts, fallback) ==
  LET all == Selected(Backends(probes), Hits(probes, facts))
  IN  IF all = <<>> THEN <<fallback>> ELSE all

\* The backends of a list of probes, each once, or the fallback.
Found(probes, facts, fallback) ==
  LET hits == Hits(probes, facts)
      once == Selected(Backends(probes),
                {i \in hits : \A j \in hits : j < i => probes[j][2] # probes[i][2]})
  IN  IF once = <<>> THEN <<fallback>> ELSE once

\* detectInitSystem.
InitSystem ==
  CASE "pid-1-readable" \in host /\ "systemd" \in host -> "systemd"
    [] "pid-1-readable" \in host /\ "openrc-init" \in host -> "openrc"
    [] "pid-1-readable" \in host /\ "runit" \in host -> "runit"
    [] "pid-1-readable" \in host /\ "init" \in host ->
         IF "/etc/inittab" \in host \/ "/run/openrc" \notin host THEN "sysvinit" ELSE "openrc"
    [] OTHER -> IF "/run/systemd" \in host THEN "systemd"
                ELSE IF "/run/openrc" \in host THEN "openrc" ELSE "unknown"

\* Detect, and New of the service: systemd stands in for what is not known.
Detect ==
  /\ service = "none-yet"
  /\ service' = CASE subject = "firewall" -> Head(Found(FirewallProbes, host, "nftables"))
                  [] subject = "packages" -> Head(Found(PackageProbes, host, "apt"))
                  [] subject = "init" ->
                       IF InitSystem \in {"openrc", "sysvinit"} THEN InitSystem ELSE "systemd"
  /\ UNCHANGED <<subject, host, kept, offered>>

\* exec.LookPath finds what is on the PATH.
OnPath == IF "sbin-on-PATH" \in host THEN host ELSE host \ {"ufw", "nft", "iptables", "apk"}

\* AvailableFirewallBackends and AvailableBackends, when the tabs are made.
Scan ==
  /\ service # "none-yet" /\ offered = <<>>
  /\ subject # "init"
  /\ offered' = IF subject = "firewall" THEN Found(FirewallEngines, OnPath, "nftables")
                ELSE Found(PackageHelpers, OnPath, "apt")
  /\ UNCHANGED <<subject, host, kept, service>>

\* Something is installed, removed, started or stopped.
Change ==
  /\ \E f \in Facts[subject] \ {"sbin-on-PATH", "pid-1-readable"} :
       /\ host' = IF f \in host THEN host \ {f} ELSE host \union {f}
       /\ host' \in Hosts(subject)
  /\ kept' = FALSE
  /\ UNCHANGED <<subject, service, offered>>

HostNext == Detect \/ Scan \/ Change
-----------------------------------------------------------------------------
HostTypeOK ==
  /\ host \in Hosts(subject)
  /\ offered = <<>> \/ service # "none-yet"
  /\ Cardinality(ToSet(offered)) = Len(offered)

\* The package managers of one distribution.
Families == {{"apt"}, {"dnf", "yum"}, {"pacman", "yay"}, {"zypper"}, {"apk"}, {"emerge"}}

\* The engine whose rules or packages the service publishes is the one the tab
\* sends its operations to until b is pressed (firewall.go:88, packages.go:80
\* of the tabs), although the two are found by different lists at different
\* times: on a host that has not changed, whose PATH has sbin, where firewalld
\* runs if it is installed and ufw is not, and with managers of one family.
EnginesAgree ==
  offered # <<>> /\ kept =>
    \/ Head(offered) = service
    \/ "sbin-on-PATH" \notin host
    \/ subject = "firewall" /\ "firewall-cmd" \in host /\ "firewalld-runs" \notin host
         /\ "ufw" \notin host
    \/ subject = "packages" /\ ~\E f \in Families : host \subseteq f \union {"sbin-on-PATH"}
=============================================================================
