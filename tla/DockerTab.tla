----------------------------- MODULE DockerTab ------------------------------
(* internal/ui/tabs/docker.go.  tag 1 marks a paused container.              *)
EXTENDS TabCore

CONSTANTS
  DetailLines,  \* lines of the detail panel
  LogLines,     \* lines of a log
  MaxScroll     \* bound: a scroll offset no view has clamped

DockerInit ==
  [cursor |-> 0, mode |-> 0, actionTarget |-> "none", panel |-> "table", scroll |-> 0,
   logLines |-> "none", logLoading |-> FALSE]

DockerOp == <<"stop", "restart", "start", "pause", "unpause", "remove">>

\* y: the container under the cursor now, not actionTarget.
DockerConfirm ==
  \/ /\ ui.cursor < Len(rows)
     /\ Start(DockerOp[ui.mode], At(rows, ui.cursor))
     /\ ui' = [ui EXCEPT !.mode = 0]
  \/ /\ ui.cursor >= Len(rows)
     /\ Become([ui EXCEPT !.mode = 0])

DockerDialog(k) ==
  \/ k = "y" /\ DockerConfirm
  \/ k \in {"n", "esc"} /\ Become([ui EXCEPT !.mode = 0])

Height == CHOOSE h \in Heights : TRUE

\* The offset after the next View; the panel needs a container to show.
DockerScroll(u) ==
  LET lines == IF u.panel = "detail" THEN DetailLines
               ELSE IF u.logLoading THEN 5 ELSE LogLines
      view == Height - 4
  IN  [u EXCEPT !.scroll = IF u.panel # "table" /\ u.cursor < Len(rows)
                             THEN Scrolled(@, lines, view) ELSE @]

\* The offset moves by the lines of a key, or to the top.
DockerMove(by) ==
  /\ ui.scroll + by \in -MaxScroll .. MaxScroll
  /\ Become(DockerScroll([ui EXCEPT !.scroll = @ + by]))

DockerPanel(k) ==
  \/ k = "up" /\ DockerMove(-1)
  \/ k \in {"down", "j"} /\ DockerMove(1)
  \/ k = "pgup" /\ DockerMove(-(Height \div 2))
  \/ k = "pgdown" /\ DockerMove(Height \div 2)
  \/ k = "home" /\ DockerMove(-ui.scroll)
  \/ /\ k \in {"esc", "enter", "q"}
     /\ Become([ui EXCEPT !.panel = "table", !.scroll = 0, !.logLines = "none",
                          !.logLoading = FALSE])

DockerKeys == [s |-> 1, r |-> 2, a |-> 3, d |-> 6]

\* startAction.
DockerAsk(mode) ==
  /\ may
  /\ ui.cursor < Len(rows)
  /\ Become([ui EXCEPT !.mode = mode, !.actionTarget = At(rows, ui.cursor)])

DockerList(k) ==
  \/ k = "up" /\ Become([ui EXCEPT !.cursor = Up(@)])
  \/ k \in {"down", "j"} /\ Become([ui EXCEPT !.cursor = Down(@, Len(rows))])
  \/ k = "enter" /\ Become(DockerScroll([ui EXCEPT !.panel = "detail", !.scroll = 0]))
  \/ /\ k = "l" /\ ui.cursor < Len(rows)
     /\ Fetch("logs", At(rows, ui.cursor))
     /\ ui' = [ui EXCEPT !.panel = "logs", !.scroll = 0, !.logLines = "none",
                         !.logLoading = TRUE]
  \/ k \in DOMAIN DockerKeys /\ DockerAsk(DockerKeys[k])
  \/ k = "p" /\ ui.cursor < Len(rows) /\ DockerAsk(4 + At(rows, ui.cursor).tag)

DockerKey(k) ==
  \/ ui.mode > 0 /\ DockerDialog(k)
  \/ ui.mode = 0 /\ ui.panel # "table" /\ DockerPanel(k)
  \/ ui.mode = 0 /\ ui.panel = "table" /\ DockerList(k)

\* Update on a snapshot (the cursor stays where it was) and on a
\* dockerLogsMsg, which is shown whichever container is under the cursor and
\* kept even when the panel was closed; a failed fetch clears the log.
DockerArrive(s) == snap' = s /\ ui' = ui
DockerResult(c, ok) ==
  IF c.op = "logs"
    THEN DockerScroll([ui EXCEPT !.logLoading = FALSE,
                                 !.logLines = IF ok THEN c.row.id ELSE "none"])
    ELSE ui

\* View, renderTable: the panel, the window of the list, the row under the
\* cursor, and whether the dialog is on the screen.
DockerView(h) ==
  LET here == ui.cursor < Len(rows)
      panel == IF here THEN ui.panel ELSE "table"
  IN  [panel |-> panel, size |-> Len(rows), cursor |-> ui.cursor,
       window |-> Window(Len(rows), ui.cursor, h - 10),
       row |-> IF here THEN At(rows, ui.cursor) ELSE NoRow,
       dialog |-> ui.mode > 0 /\ panel = "table"]

\* renderDetail, renderLogs and renderScrollable: whose lines are shown.
DockerLog == IF ui.logLoading THEN "loading" ELSE ui.logLines
=============================================================================
