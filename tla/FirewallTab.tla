---------------------------- MODULE FirewallTab -----------------------------
(* internal/ui/tabs/firewall.go.  A row's id is a rule id of the engine the  *)
(* listing came from.                                                        *)
EXTENDS TabCore

FirewallInit ==
  [panel |-> 0, cursor |-> 0, add |-> FALSE, addPort |-> <<>>, addStep |-> 0, mode |-> 0,
   active |-> 0]

\* maxItems.
FirewallMax == IF ui.panel = 0 THEN Len(rows) ELSE 3

\* The form; of a rule, the port is what is followed here, and the action and the
\* protocol, which tab toggles in the second and third step, are left out.  The last enter adds the rule and empties it.
FinishRule ==
  /\ Order("add rule", NoRow, ui.addPort, asked)
  /\ ui' = [ui EXCEPT !.add = FALSE, !.addPort = <<>>, !.addStep = 0]

RuleWizard(k) ==
  \/ k = "esc" /\ Become([ui EXCEPT !.add = FALSE, !.addPort = <<>>])
  \/ /\ k = "enter" /\ ui.addStep < 2
     /\ ui.addStep = 0 => ui.addPort # <<>>
     /\ Become([ui EXCEPT !.addStep = @ + 1])
  \/ k = "enter" /\ ui.addStep = 2 /\ FinishRule
  \/ k = "backspace" /\ ui.addStep = 0 /\ Become([ui EXCEPT !.addPort = Erased(@)])
  \/ k \in Chars /\ ui.addStep = 0 /\ Become([ui EXCEPT !.addPort = Typed(@, k)])

\* The delete dialog: y takes the rule under the cursor now.
RuleDialog(k) ==
  \/ /\ k = "y" /\ ui.cursor < Len(rows)
     /\ Start("delete rule", At(rows, ui.cursor))
     /\ ui' = [ui EXCEPT !.mode = 0]
  \/ /\ \/ k = "y" /\ ui.cursor >= Len(rows)
        \/ k \in {"n", "esc"}
     /\ Become([ui EXCEPT !.mode = 0])

\* The engine on the screen, which need not be the one b has switched to: the
\* service's listings replace the tab's own.
ActiveFirewall == At(Engines, ui.active)
FirewallShown ==
  [NoAsk EXCEPT !.at = snap.engine, !.switched = snap.engine # ActiveFirewall]

\* b: the next engine and its rules (none, if it cannot list them).
SwitchEngine ==
  LET next == (ui.active + 1) % Len(Engines)
  IN  /\ \E l \in Listings[tab] : snap' = [rows |-> l, engine |-> At(Engines, next)]
      /\ cmds' = Switched
      /\ ui' = [ui EXCEPT !.active = next, !.cursor = 0]

\* The list's keys; a and d work on both panels.
RuleList(k) ==
  \/ k = "tab" /\ Become([ui EXCEPT !.panel = (@ + 1) % 2, !.cursor = 0])
  \/ k \in {"up", "k"} /\ Become([ui EXCEPT !.cursor = Up(@)])
  \/ k \in {"down", "j"} /\ Become([ui EXCEPT !.cursor = Down(@, FirewallMax)])
  \/ k = "b" /\ SwitchEngine
  \/ k = "a" /\ may
       /\ Become([ui EXCEPT !.add = TRUE, !.addStep = 0, !.addPort = <<>>])
  \/ k = "d" /\ may /\ ui.cursor < Len(rows) /\ Become([ui EXCEPT !.mode = 1])
  \/ k = "e" /\ may /\ Order("toggle", NoRow, <<>>, FirewallShown) /\ ui' = ui

FirewallKey(k) ==
  \/ ui.add /\ RuleWizard(k)
  \/ ~ui.add /\ ui.mode = 1 /\ RuleDialog(k)
  \/ ~ui.add /\ ui.mode = 0 /\ RuleList(k)

\* ReceivePayload: what the jump brings goes into the form, the rest of which
\* stays as it was; the privilege is not asked for.
ReceivePayload(port) ==
  /\ Become([ui EXCEPT !.add = TRUE, !.addStep = 0,
                       !.addPort = IF port # <<>> THEN port ELSE @])

\* The service's own listing, whichever engine b has switched to.
FirewallArrive(s) == snap' = s /\ ui' = ui

\* View, viewRules: the dialogs are on the first panel, the question about a
\* rule only while there is a rule under the cursor.
FirewallView(h) ==
  LET here == ui.cursor < Len(rows)
  IN  [panel |-> ui.panel, size |-> Len(rows), cursor |-> ui.cursor,
       window |-> Window(Len(rows), ui.cursor, 0),
       row |-> IF here THEN At(rows, ui.cursor) ELSE NoRow,
       dialog |-> ui.panel = 0 /\ snap # NoSnap /\ (ui.add \/ (ui.mode = 1 /\ here))]
=============================================================================
