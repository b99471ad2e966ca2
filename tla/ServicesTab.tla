---------------------------- MODULE ServicesTab -----------------------------
(* internal/ui/tabs/services.go.  tag 1 marks a failed unit, 0 a running one.*)
EXTENDS TabCore

ServicesInit ==
  [panel |-> 0, cursor |-> 0, filter |-> 0, filterMode |-> FALSE, unitFilter |-> "all",
   mode |-> 0, actionUnit |-> NoRow, detail |-> FALSE, selectedUnit |-> NoRow]

\* filteredUnits.
Units ==
  Filtered(Selected(rows, {i \in DOMAIN rows : \/ ui.unitFilter = "all"
                                               \/ ui.unitFilter = "failed" /\ rows[i].tag = 1
                                               \/ ui.unitFilter = "running" /\ rows[i].tag = 0}),
           ui.filter)

UnitOp == <<"start", "stop", "restart", "enable", "disable", "mask">>

\* Mutant of ServicesConfirm: the unit is looked up again.
ServicesConfirmLate ==
  /\ ui.cursor < Len(Units)
  /\ Start(UnitOp[ui.mode], At(Units, ui.cursor))
  /\ ui' = [ui EXCEPT !.mode = 0]

\* y: doUnitAction on the unit the dialog named.
ServicesConfirm ==
  /\ Start(UnitOp[ui.mode], ui.actionUnit)
  /\ ui' = [ui EXCEPT !.mode = 0]

ServicesDialog(k) ==
  \/ k = "y" /\ ServicesConfirm
  \/ k \in {"n", "esc"} /\ Become([ui EXCEPT !.mode = 0])

ServicesFilter(k) ==
  \/ k \in {"esc", "enter"} /\ Become([ui EXCEPT !.filterMode = FALSE])
  \/ k = "backspace" /\ Become([ui EXCEPT !.filter = Up(@)])
  \/ Filtering(k) /\ Become([ui EXCEPT !.filter = More(@)])

UnitKey == [s |-> 1, x |-> 2, e |-> 4, d |-> 5, m |-> 6]
UnitAsk(mode) ==
  /\ may /\ ui.panel = 0 /\ ui.cursor < Len(Units)
  /\ Become([ui EXCEPT !.mode = mode, !.actionUnit = At(Units, ui.cursor)])

\* r restarts a unit where that is possible and filters elsewhere.
ServicesR ==
  \/ UnitAsk(3)
  \/ ~(may /\ ui.panel = 0) /\ Become([ui EXCEPT !.unitFilter = "running"])

ServicesList(k) ==
  \/ /\ k = "tab"
     /\ LET u == [ui EXCEPT !.panel = (@ + 1) % 3, !.cursor = 0]
        IN  IF u.panel = 2 /\ ui.selectedUnit # NoRow
              THEN Fetch("logs", ui.selectedUnit) /\ ui' = u
              ELSE Become(u)
  \/ k = "up" /\ Become([ui EXCEPT !.cursor = Up(@)])
  \/ k \in {"down", "j"} /\ ui.panel = 0
       /\ Become([ui EXCEPT !.cursor = Down(@, Len(Units))])
  \/ k = "/" /\ Become([ui EXCEPT !.filterMode = TRUE])
  \/ k = "esc" /\ Become([ui EXCEPT !.filter = 0])
  \/ k \in {"a", "f"} /\ Become([ui EXCEPT !.unitFilter = IF k = "a" THEN "all"
                                                          ELSE "failed"])
  \/ k = "r" /\ ServicesR
  \/ /\ k = "l" /\ ui.panel = 0 /\ ui.cursor < Len(Units)
     /\ Fetch("logs", At(Units, ui.cursor))
     /\ ui' = [ui EXCEPT !.panel = 2, !.selectedUnit = At(Units, ui.cursor)]
  \/ k = "enter" /\ ui.panel = 0 /\ Become([ui EXCEPT !.detail = TRUE])
  \/ k \in DOMAIN UnitKey /\ UnitAsk(UnitKey[k])

ServicesKey(k) ==
  \/ ui.mode > 0 /\ ServicesDialog(k)
  \/ ui.mode = 0 /\ ui.detail /\ k \in {"esc", "enter", "q"}
       /\ Become([ui EXCEPT !.detail = FALSE])
  \/ ui.mode = 0 /\ ~ui.detail /\ ui.filterMode /\ ServicesFilter(k)
  \/ ui.mode = 0 /\ ~ui.detail /\ ~ui.filterMode /\ ServicesList(k)

ServicesArrive(s) == snap' = s /\ ui' = ui

\* View, viewUnits and renderUnitDetail.
ServicesView(h) ==
  LET here == ui.cursor < Len(Units)
  IN  [panel |-> IF ui.panel = 0 /\ ui.detail /\ here THEN "detail" ELSE ui.panel,
       size |-> Len(Units), cursor |-> ui.cursor,
       window |-> Window(Len(Units), ui.cursor, h - 10),
       row |-> IF here THEN At(Units, ui.cursor) ELSE NoRow,
       dialog |-> ui.mode > 0 /\ ui.panel = 0 /\ ~(ui.detail /\ here)
                              /\ snap # NoSnap]
=============================================================================
