--------------------------- MODULE FirewallEngines ---------------------------
(***************************************************************************)
(* The engines of internal/services/firewall behind one interface: a       *)
(* service lists the rules every 5 s, and rules are added, deleted by the  *)
(* id of the listing, and changed by other administrators meanwhile.       *)
(***************************************************************************)
EXTENDS Naturals, Sequences, SequencesExt, FiniteSets, FiniteSetsExt

CONSTANT Rules          \* what tells two rules apart
ASSUME RulesAssumption == Rules \subseteq Nat \ {0} /\ IsFiniteSet(Rules)

VARIABLES
  engine,       \* FirewallBackend.Name
  up,           \* whether the engine is enabled
  chains,       \* the kernel's rules, chain by chain
  shown,        \* Snapshot.Rules: the rules of the latest listing with their ids
  stale,        \* history: the rules have changed since that listing
  deleted       \* history: what the latest DeleteRule was asked for and did
engineVars == <<engine, up, chains, shown, stale, deleted>>

Nothing == [asked |-> 0, gone |-> 0, stale |-> FALSE]
\* Engines that can be switched on and off from here.
Switchable == {"ufw", "firewalld"}

InKernel == UNION {ToSet(chains[c]) : c \in DOMAIN chains}
Unused == Rules \ (InKernel \union {shown[i].rule : i \in DOMAIN shown})

EnginesInit ==
  /\ engine \in {"iptables", "nftables", "ufw", "firewalld"}
  /\ up \in (IF engine \in Switchable THEN BOOLEAN ELSE {TRUE})
  /\ chains = [INPUT |-> <<>>, FORWARD |-> <<>>]
  /\ shown = <<>>
  /\ stale = FALSE
  /\ deleted = Nothing
-----------------------------------------------------------------------------
Numbered(rules) == [i \in DOMAIN rules |-> [id |-> i, rule |-> rules[i]]]
Handled(rules) == [i \in DOMAIN rules |-> [id |-> rules[i], rule |-> rules[i]]]

\* Mutant of IptablesRules: the policy line of each chain is counted as well.
IptablesRulesAndPolicies ==
  [i \in DOMAIN (chains.INPUT \o chains.FORWARD) |->
     [id |-> i + Cardinality(DOMAIN chains), rule |-> (chains.INPUT \o chains.FORWARD)[i]]]

\* iptables -S: the policies first, then the rules of the chains in turn.
IptablesRules == Numbered(chains.INPUT \o chains.FORWARD)

\* nft -j gives handles; the plain listing, where -j fails, counts.
NftRules == {Handled(chains.INPUT \o chains.FORWARD), Numbered(chains.INPUT \o chains.FORWARD)}

\* ufw status numbered has no rules to list while ufw is inactive.
UfwRules == Numbered(IF up THEN chains.INPUT ELSE <<>>)

FirewalldRules == Numbered(chains.INPUT)

\* What the engine can list now; firewall-cmd fails while the daemon is off.
Listings ==
  CASE engine = "iptables" -> {IptablesRules}
    [] engine = "nftables" -> NftRules
    [] engine = "ufw" -> {UfwRules}
    [] engine = "firewalld" -> IF up THEN {FirewalldRules} ELSE {}

\* collect: a command that fails publishes no rules.
CollectRules ==
  /\ shown' \in Listings \union {<<>>}
  /\ stale' = FALSE
  /\ UNCHANGED <<engine, up, chains, deleted>>
-----------------------------------------------------------------------------
\* AddRule for INPUT: ufw and firewalld refuse a rule without a port.
AddRule(hasPort) ==
  /\ engine \in Switchable => hasPort
  /\ engine = "firewalld" => up
  /\ Unused # {}
  /\ chains' = [chains EXCEPT !.INPUT = Append(@, Min(Unused))]
  /\ stale' = TRUE
  /\ UNCHANGED <<engine, up, shown, deleted>>

\* The position in INPUT that DeleteRule(id) removes, 0 where it is refused:
\* nft takes no handle without its table and chain, and firewalld lists again
\* and removes the port that has the number by then.
Removes(id) ==
  CASE engine = "nftables" -> 0
    [] engine = "firewalld" /\ ~up -> 0
    [] OTHER -> IF id \in DOMAIN chains.INPUT THEN id ELSE 0

\* DeleteRule with the id of the row on the screen.
DeleteRule(row) ==
  LET at == Removes(row.id)
  IN  /\ chains' = IF at = 0 THEN chains ELSE [chains EXCEPT !.INPUT = RemoveAt(@, at)]
      /\ deleted' = [asked |-> row.rule, stale |-> stale,
                     gone |-> IF at = 0 THEN 0 ELSE chains.INPUT[at]]
      /\ stale' = (stale \/ at # 0)
      /\ UNCHANGED <<engine, up, shown>>

\* Enable or Disable, by what IsEnabled says; iptables and nft have neither.
Toggle ==
  /\ engine \in Switchable
  /\ up' = ~up
  /\ UNCHANGED <<engine, chains, shown, stale, deleted>>

\* Another administrator inserts a rule anywhere, or deletes one.
Elsewhere ==
  /\ \E c \in DOMAIN chains :
       /\ engine \in Switchable => c = "INPUT"
       /\ \/ /\ Unused # {}
             /\ \E i \in 1..(Len(chains[c]) + 1) :
                  chains' = [chains EXCEPT ![c] = InsertAt(@, i, Min(Unused))]
          \/ \E i \in DOMAIN chains[c] : chains' = [chains EXCEPT ![c] = RemoveAt(@, i)]
  /\ stale' = TRUE
  /\ UNCHANGED <<engine, up, shown, deleted>>

EnginesNext ==
  \/ CollectRules
  \/ \E hasPort \in BOOLEAN : AddRule(hasPort)
  \/ \E i \in DOMAIN shown : DeleteRule(shown[i])
  \/ Toggle
  \/ Elsewhere
-----------------------------------------------------------------------------
EnginesTypeOK ==
  /\ up \in BOOLEAN /\ stale \in BOOLEAN
  /\ \A c \in DOMAIN chains : chains[c] \in Seq(Rules)
  /\ shown \in Seq([id : Nat, rule : Rules])
  /\ deleted.gone \in Rules \union {0}

\* A rule is deleted by a number.  While nobody, this program included, has
\* changed the rules since the listing on the screen, the rule that goes is
\* the one that was shown with that number, or none goes: an iptables number
\* counts over all chains and is used in INPUT (iptables.go:111).
DeletesShown == ~deleted.stale => deleted.gone \in {0, deleted.asked}
=============================================================================
