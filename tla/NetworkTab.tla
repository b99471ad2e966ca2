----------------------------- MODULE NetworkTab -----------------------------
(* internal/ui/tabs/network.go.  tag 1 marks a socket whose process is known.*)
EXTENDS TabCore

NetworkInit == [panel |-> 0, cursor |-> 0, filter |-> 0, filterMode |-> FALSE, mode |-> 0]

Sockets == Filtered(rows, ui.filter)

\* The loops of f and k over the listing, counting the rows the filter leaves.
SocketUnderCursor == IF ui.cursor < Len(Sockets) THEN At(Sockets, ui.cursor) ELSE NoRow

\* The statistics panel has no list.
NetworkMax == IF ui.panel = 4 THEN 0 ELSE Len(Sockets)

NetworkShown ==
  [NoAsk EXCEPT !.row = IF ui.cursor < Len(Sockets) THEN At(Sockets, ui.cursor) ELSE NoRow]

\* k ends a process without a question, a check or an audit entry; j, k and f
\* do so even while a filter is typed.
NetworkKey(k) ==
  \/ k = "tab" /\ Become([ui EXCEPT !.panel = (@ + 1) % 5, !.cursor = 0])
  \/ k = "up" /\ Become([ui EXCEPT !.cursor = Up(@)])
  \/ k \in {"down", "j"} /\ Become([ui EXCEPT !.cursor = Down(@, NetworkMax)])
  \/ /\ k = "f" /\ ui.panel = 1 /\ SocketUnderCursor # NoRow
     /\ Fetch("jump", SocketUnderCursor) /\ ui' = ui
  \/ /\ k = "k" /\ ui.panel = 2 /\ SocketUnderCursor.tag = 1
     /\ Order("SIGTERM", SocketUnderCursor, <<>>, NetworkShown) /\ ui' = ui
  \/ k = "/" /\ Become([ui EXCEPT !.filterMode = ~@, !.filter = IF ui.filterMode THEN 0 ELSE @])
  \/ k = "esc" /\ Become([ui EXCEPT !.filterMode = FALSE, !.filter = 0])
  \/ k \in Chars /\ ui.filterMode /\ Become([ui EXCEPT !.filter = More(@), !.cursor = 0])
  \/ k = "backspace" /\ ui.filterMode /\ ui.filter > 0
       /\ Become([ui EXCEPT !.filter = Up(@), !.cursor = 0])

NetworkArrive(s) == snap' = s /\ ui' = ui

\* View and the views of the panels; listeners and connections have a window,
\* cut when rows and header together are too many.
NetworkView(h) ==
  LET n == Len(Sockets)
      room == IF ui.panel \in {1, 2} /\ n + 1 > h - 12 THEN h - 12 ELSE 0
  IN  [panel |-> ui.panel, size |-> n, cursor |-> ui.cursor,
       window |-> Window(n, ui.cursor, room),
       row |-> IF ui.cursor < n THEN At(Sockets, ui.cursor) ELSE NoRow,
       dialog |-> FALSE]
=============================================================================
