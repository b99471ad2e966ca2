---------------------------- MODULE PackagesTab -----------------------------
(* internal/ui/tabs/packages.go.  A row's tag is its category.               *)
EXTENDS TabCore

CONSTANTS
  Categories,  \* positions of the category filter, 0 being all
  Hits,        \* bound: the listings a search may bring
  Phrase       \* the characters of "UPDATE ALL"

ASSUME PackagesAssumption == Hits \subseteq Seq([id : STRING, tag : Nat])

PackagesInit ==
  [panel |-> 0, cursor |-> 0, filter |-> 0, filterMode |-> FALSE, catFilterIdx |-> 0,
   active |-> 0, searchQuery |-> 0, searchResults |-> <<>>, searchSuggestions |-> <<>>,
   searchLoading |-> FALSE, mode |-> 0, opTarget |-> NoRow, opInput |-> <<>>,
   lastOp |-> FALSE]

ActiveEngine == At(Engines, ui.active)

\* filteredInstalled.
Installed ==
  Filtered(Selected(rows, {i \in DOMAIN rows : ui.catFilterIdx \in {0, rows[i].tag + 1}}),
           ui.filter)

\* The list enter installs from.
Found == IF ui.searchResults = <<>> THEN ui.searchSuggestions ELSE ui.searchResults

\* maxItems: the suggestions are not counted.
PackagesMax ==
  CASE ui.panel = 0 -> Len(Installed) [] ui.panel = 1 -> Len(ui.searchResults)
    [] OTHER -> Len(rows)

Search(u) == Fetch("search", NoRow) /\ ui' = [u EXCEPT !.searchLoading = TRUE]
-----------------------------------------------------------------------------
\* y: the system update needs the phrase; install and remove take the package
\* the dialog was opened on.  (The code leaves opTarget; nothing reads it before
\* the next dialog sets it.)
PackagesConfirm ==
  \/ /\ ui.mode = 3 /\ ui.opInput = Phrase
     /\ Start("upgrade", NoRow)
     /\ ui' = [ui EXCEPT !.mode = 0, !.opInput = <<>>]
  \/ ui.mode = 3 /\ ui.opInput # Phrase /\ Become([ui EXCEPT !.mode = 0])
  \/ /\ ui.mode \in {1, 2}
     /\ Start(IF ui.mode = 1 THEN "install" ELSE "remove", ui.opTarget)
     /\ ui' = [ui EXCEPT !.mode = 0, !.opTarget = NoRow]

PackagesDialog(k) ==
  \/ k = "y" /\ PackagesConfirm
  \/ /\ k \in {"n", "esc"}
     /\ Become([ui EXCEPT !.mode = 0, !.opInput = <<>>, !.opTarget = NoRow])
  \/ k \in Chars /\ ui.mode = 3 /\ Become([ui EXCEPT !.opInput = Typed(@, k)])

PackagesFilter(k) ==
  \/ k = "esc" /\ Become([ui EXCEPT !.filterMode = FALSE])
  \/ /\ k = "enter"
     /\ IF ui.panel = 1 /\ ui.filter > 0
          THEN Search([ui EXCEPT !.filterMode = FALSE, !.searchQuery = ui.filter])
          ELSE Become([ui EXCEPT !.filterMode = FALSE])
  \/ k = "backspace" /\ Become([ui EXCEPT !.filter = Up(@)])
  \/ Filtering(k) /\ Become([ui EXCEPT !.filter = More(@)])

\* b: the next backend, its packages (or the old ones, if it cannot list them),
\* and the last search again.
SwitchBackend ==
  LET u == [ui EXCEPT !.active = (@ + 1) % Len(Engines), !.cursor = 0]
  IN  /\ \/ snap' = snap
         \/ \E l \in Listings[tab] : snap' = [rows |-> l, engine |-> At(Engines, u.active)]
      /\ IF ui.searchQuery > 0
           THEN /\ Room
                /\ cmds' = Switched \cup {Cmd("search", NoRow, <<>>, NoAsk)}
                /\ ui' = [u EXCEPT !.searchLoading = TRUE]
           ELSE cmds' = Switched /\ ui' = u

PackagesList(k) ==
  \/ k = "tab" /\ Become([ui EXCEPT !.panel = (@ + 1) % 3, !.cursor = 0])
  \/ k \in {"up", "k"} /\ Become([ui EXCEPT !.cursor = Up(@)])
  \/ k \in {"down", "j"} /\ Become([ui EXCEPT !.cursor = Down(@, PackagesMax)])
  \/ k = "c" /\ Become([ui EXCEPT !.catFilterIdx = (@ + 1) % Categories, !.cursor = 0])
  \/ k = "b" /\ SwitchBackend
  \/ k = "/" /\ Become([ui EXCEPT !.filterMode = TRUE, !.filter = 0])
  \/ /\ k = "r" /\ may /\ ui.panel = 0 /\ ui.cursor < Len(Installed)
     /\ Become([ui EXCEPT !.mode = 2, !.opTarget = At(Installed, ui.cursor)])
  \/ /\ k = "enter" /\ may /\ ui.panel = 1 /\ ui.cursor < Len(Found)
     /\ Become([ui EXCEPT !.mode = 1, !.opTarget = At(Found, ui.cursor)])
  \/ k = "u" /\ may /\ Become([ui EXCEPT !.mode = 3, !.opInput = <<>>])

\* The result of an operation is dismissed before any other key is taken.
PackagesKey(k) ==
  \/ /\ ui.lastOp /\ k \in {"esc", "enter", "q"}
     /\ Become([ui EXCEPT !.lastOp = FALSE])
  \/ ~ui.lastOp /\ ui.mode > 0 /\ PackagesDialog(k)
  \/ ~ui.lastOp /\ ui.mode = 0 /\ ui.filterMode /\ PackagesFilter(k)
  \/ ~ui.lastOp /\ ui.mode = 0 /\ ~ui.filterMode /\ PackagesList(k)

PackagesArrive(s) == snap' = s /\ ui' = ui

\* searchResultMsg (suggestions come only without results) and pkgOpMsg.
PackagesResult(c, ok) ==
  IF c.op = "search"
    THEN LET u == [ui EXCEPT !.searchLoading = FALSE]
         IN  IF ok THEN {[u EXCEPT !.searchResults = hit[1], !.searchSuggestions = hit[2]] :
                           hit \in {p \in Hits \X Hits : p[1] = <<>> \/ p[2] = <<>>}}
             ELSE {u}
    ELSE {[ui EXCEPT !.lastOp = TRUE]}

\* View, viewInstalled, viewSearch and viewUpdates: the questions about a
\* removal and about the update are on the first panel only.
PackagesView(h) ==
  LET list == IF ui.panel = 0 THEN Installed ELSE Found
  IN  [panel |-> ui.panel, size |-> Len(list), cursor |-> ui.cursor,
       window |-> Window(Len(list), ui.cursor, IF ui.panel = 0 THEN h - 13 ELSE 0),
       row |-> IF ui.cursor < Len(list) THEN At(list, ui.cursor) ELSE NoRow,
       dialog |-> /\ ~ui.lastOp
                  /\ \/ ui.panel = 0 /\ ui.mode \in {2, 3} /\ snap # NoSnap
                     \/ ui.panel = 1 /\ ui.mode = 1 /\ ~ui.searchLoading]
=============================================================================
