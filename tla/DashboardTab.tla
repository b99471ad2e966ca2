---------------------------- MODULE DashboardTab ----------------------------
(* internal/ui/tabs/dashboard.go: panels in rows, which the mouse rearranges.*)
EXTENDS TabCore

CONSTANTS
  Panels,       \* the ids of the panels, in the order of the default layout
  PanelHeight   \* lines of a panel

ASSUME DashboardAssumption ==
  Panels \in Seq(STRING) /\ \A i, j \in DOMAIN Panels : Panels[i] = Panels[j] => i = j

DashboardInit ==
  [layout |-> [i \in DOMAIN Panels |-> <<Panels[i]>>], dragTarget |-> "none",
   scroll |-> 0, mode |-> 0]

\* The width of the screen.
Width == 60

\* The zone of a box of width w and height h that a point in it falls into.
Zone(x, y, w, h) ==
  CASE x < w \div 4 -> "left"
    [] x > (w * 3) \div 4 -> "right"
    [] OTHER -> CASE y < h \div 4 -> "top"
                  [] y > (h * 3) \div 4 -> "bottom"
                  [] OTHER -> "center"
Zones == {Zone(x, y, 8, 8) : x \in 0 .. 7, y \in 0 .. 7}

\* A row without a panel.
Less(row, p) == Selected(row, {i \in DOMAIN row : row[i] # p})

\* Mutant of Without: the rows that lose their only panel stay.
WithoutHoles(layout, p) == [i \in DOMAIN layout |-> Less(layout[i], p)]

\* The layout without a panel, and without the row that this leaves empty.
Without(layout, p) ==
  LET left == [i \in DOMAIN layout |-> Less(layout[i], p)]
  IN  Selected(left, {i \in DOMAIN left : left[i] # <<>>})

\* The rows that take the place of row when src is dropped on dst in it; the
\* center counts as left.
Placed(row, src, dst, zone) ==
  IF \A i \in DOMAIN row : row[i] # dst THEN <<row>>
  ELSE CASE zone = "top" -> <<<<src>>, row>>
         [] zone = "bottom" -> <<row, <<src>>>>
         [] zone = "right" -> <<FlattenSeq([i \in DOMAIN row |->
                                 IF row[i] = dst THEN <<dst, src>> ELSE <<row[i]>>])>>
         [] OTHER -> <<FlattenSeq([i \in DOMAIN row |->
                        IF row[i] = dst THEN <<src, dst>> ELSE <<row[i]>>])>>

\* handleDrop.
Dropped(layout, src, dst, zone) ==
  LET left == Without(layout, src)
  IN  FlattenSeq([i \in DOMAIN left |-> Placed(left[i], src, dst, zone)])

\* View: the lines of a row, the width of each of its panels, all the lines.
RowHeight(row) ==
  FoldLeft(LAMBDA m, p : IF PanelHeight[p] > m THEN PanelHeight[p] ELSE m, 0, row)
RowWidth(row) == LET w == (Width - 2) \div Len(row) IN IF w < 20 THEN 20 ELSE w
Lines(layout) == FoldLeft(LAMBDA n, row : n + RowHeight(row), 0, layout)

\* The offset after the View that follows every step.
DashboardScroll(u) ==
  [u EXCEPT !.scroll = Scrolled(@, Lines(u.layout), (CHOOSE h \in Heights : TRUE) - 4)]

Page == (CHOOSE h \in Heights : TRUE) \div 2

DashboardKey(k) ==
  \/ k \in {"up", "k"} /\ Become(DashboardScroll([ui EXCEPT !.scroll = @ - 1]))
  \/ k \in {"down", "j"} /\ Become(DashboardScroll([ui EXCEPT !.scroll = @ + 1]))
  \/ k = "pgup" /\ Become(DashboardScroll([ui EXCEPT !.scroll = @ - Page]))
  \/ k = "pgdown" /\ Become(DashboardScroll([ui EXCEPT !.scroll = @ + Page]))
  \/ k = "home" /\ Become(DashboardScroll([ui EXCEPT !.scroll = 0]))

\* The mouse is pressed on a panel, and released on one or on nothing.
DashboardMouse ==
  \/ \E p \in ToSet(Panels) : Become([ui EXCEPT !.dragTarget = p])
  \/ /\ ui.dragTarget # "none"
     /\ Become([ui EXCEPT !.dragTarget = "none"])
  \/ /\ ui.dragTarget # "none"
     /\ \E p \in ToSet(Panels) \ {ui.dragTarget}, z \in Zones :
          Become(DashboardScroll(
            [ui EXCEPT !.layout = Dropped(@, ui.dragTarget, p, z),
                       !.dragTarget = "none"]))
=============================================================================
