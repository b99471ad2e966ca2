------------------------------ MODULE UsersTab ------------------------------
(* internal/ui/tabs/users.go.  tag 1 marks a system account.                 *)
EXTENDS TabCore

CONSTANT MaxCursor   \* bound: the cursor, which has no end of its own here

UsersInit ==
  [panel |-> 0, cursor |-> 0, filter |-> 0, filterMode |-> FALSE, hide |-> TRUE,
   add |-> FALSE, addInput |-> <<>>, mode |-> 0]

\* filteredUsers: system accounts may be hidden, then the filter applies.
Visible(list, hide) == Selected(list, {i \in DOMAIN list : ~hide \/ list[i].tag = 0})
Accounts == Filtered(Visible(rows, ui.hide), ui.filter)

UserWizard(k) ==
  \/ k = "esc" /\ Become([ui EXCEPT !.add = FALSE, !.addInput = <<>>])
  \/ /\ k = "enter" /\ ui.addInput # <<>>
     /\ Order("add user", NoRow, ui.addInput, asked)
     /\ ui' = [ui EXCEPT !.add = FALSE, !.addInput = <<>>]
  \/ k = "backspace" /\ Become([ui EXCEPT !.addInput = Erased(@)])
  \/ k \in Chars /\ Become([ui EXCEPT !.addInput = Typed(@, k)])

\* The delete dialog: y takes the account under the cursor now.
UserDialog(k) ==
  \/ /\ k = "y" /\ ui.cursor < Len(Accounts)
     /\ Start("delete user", At(Accounts, ui.cursor))
     /\ ui' = [ui EXCEPT !.mode = 0]
  \/ /\ \/ k = "y" /\ ui.cursor >= Len(Accounts)
        \/ k \in {"n", "esc"}
     /\ Become([ui EXCEPT !.mode = 0])

UserFilter(k) ==
  \/ k \in {"esc", "enter"} /\ Become([ui EXCEPT !.filterMode = FALSE])
  \/ k = "backspace" /\ Become([ui EXCEPT !.filter = Up(@)])
  \/ Filtering(k) /\ Become([ui EXCEPT !.filter = More(@)])

\* down has no limit, and d works on the other panels too.
UserList(k) ==
  \/ k = "tab" /\ Become([ui EXCEPT !.panel = (@ + 1) % 3, !.cursor = 0])
  \/ k \in {"up", "k"} /\ Become([ui EXCEPT !.cursor = Up(@)])
  \/ k \in {"down", "j"} /\ ui.cursor < MaxCursor /\ Become([ui EXCEPT !.cursor = @ + 1])
  \/ k = "/" /\ Become([ui EXCEPT !.filterMode = TRUE, !.filter = 0])
  \/ k = "h" /\ Become([ui EXCEPT !.hide = ~@])
  \/ k = "a" /\ may /\ Become([ui EXCEPT !.add = TRUE, !.addInput = <<>>])
  \/ k = "d" /\ may /\ ui.cursor < Len(Accounts) /\ Become([ui EXCEPT !.mode = 1])

UsersKey(k) ==
  \/ ui.add /\ UserWizard(k)
  \/ ~ui.add /\ ui.mode = 1 /\ UserDialog(k)
  \/ ~ui.add /\ ui.mode = 0 /\ ui.filterMode /\ UserFilter(k)
  \/ ~ui.add /\ ui.mode = 0 /\ ~ui.filterMode /\ UserList(k)

UsersArrive(s) == snap' = s /\ ui' = ui

\* View, viewUsers and viewGroups (with as many groups as accounts): only the
\* groups have a window.
UsersView(h) ==
  LET n == IF ui.panel = 0 THEN Len(Accounts) ELSE Len(rows)
      here == ui.cursor < Len(Accounts)
  IN  [panel |-> ui.panel, size |-> n, cursor |-> ui.cursor,
       window |-> Window(n, ui.cursor, IF ui.panel = 1 THEN h - 8 ELSE 0),
       row |-> IF here THEN At(Accounts, ui.cursor) ELSE NoRow,
       dialog |-> ui.panel = 0 /\ snap # NoSnap /\ (ui.add \/ (ui.mode = 1 /\ here))]
=============================================================================
