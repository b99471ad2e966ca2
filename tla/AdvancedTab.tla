---------------------------- MODULE AdvancedTab -----------------------------
(* internal/ui/tabs/advanced.go.  tag 1 marks a session from another host.   *)
EXTENDS TabCore

AdvancedInit == [panel |-> 0, cursor |-> 0, mode |-> 0]

\* The dialog: y ends the session under the cursor now.
SessionDialog(k) ==
  \/ /\ k = "y" /\ ui.cursor < Len(rows)
     /\ Start("SIGHUP", At(rows, ui.cursor))
     /\ ui' = [ui EXCEPT !.mode = 0]
  \/ /\ \/ k = "y" /\ ui.cursor >= Len(rows)
        \/ k \in {"n", "esc"}
     /\ Become([ui EXCEPT !.mode = 0])

\* Each panel has a list of its own; they are taken to be equally long.
SessionList(k) ==
  \/ k = "tab" /\ Become([ui EXCEPT !.panel = (@ + 1) % 3, !.cursor = 0])
  \/ k = "up" /\ Become([ui EXCEPT !.cursor = Up(@)])
  \/ k \in {"down", "j"} /\ Become([ui EXCEPT !.cursor = Down(@, Len(rows))])
  \/ /\ k \in {"k", "x"} /\ ui.panel = 0 /\ may /\ ui.cursor < Len(rows)
     /\ Become([ui EXCEPT !.mode = 1])
  \/ /\ k = "b" /\ ui.panel = 0 /\ ui.cursor < Len(rows)
     /\ At(rows, ui.cursor).tag = 1
     /\ Fetch("jump", At(rows, ui.cursor)) /\ ui' = ui

AdvancedKey(k) ==
  \/ ui.mode = 1 /\ SessionDialog(k)
  \/ ui.mode = 0 /\ SessionList(k)

AdvancedArrive(s) == snap' = s /\ ui' = ui

\* View, viewSSH, viewCron and viewStorage: lists without a window.
AdvancedView(h) ==
  LET here == ui.cursor < Len(rows)
  IN  [panel |-> ui.panel, size |-> Len(rows), cursor |-> ui.cursor,
       window |-> Window(Len(rows), ui.cursor, 0),
       row |-> IF here THEN At(rows, ui.cursor) ELSE NoRow,
       dialog |-> ui.panel = 0 /\ snap # NoSnap /\ ui.mode = 1 /\ here]
=============================================================================
