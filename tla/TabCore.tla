------------------------------ MODULE TabCore -------------------------------
(***************************************************************************)
(* What the tabs of internal/ui/tabs share: a listing that a service's     *)
(* snapshots replace, a cursor, a dialog that asks before something is     *)
(* done, and commands, which bubbletea runs in goroutines of their own     *)
(* while the tab goes on handling keys.  A command acts on the system,     *)
(* writes the audit log, and returns a message with its result.            *)
(*                                                                         *)
(* One tab is modelled at a time (variable tab): the tabs share no state,  *)
(* and a message that is not a tab's own leaves it alone.  A tab is handed *)
(* every key its handler has a case for, also the few letters app.go keeps *)
(* for itself (see RootModel).  Text, styles and widths are left out.      *)
(***************************************************************************)
EXTENDS Integers, Sequences, FiniteSets, SequencesExt, Lists

CONSTANTS
  Tabs,       \* the tabs under test
  Listings,   \* Listings[t]: those tab t may be sent, sequences of rows [id, tag],
              \* tag being all that tells two rows of one object apart
  Kept,       \* Kept[n]: the ids that n typed characters of a filter leave
  Engines,    \* the backends of a tab that can switch, in order
  SvcEngine,  \* the backend the service itself collects from
  Heights,    \* terminal heights the views are checked at
  MaxInput,   \* bound: characters of an input
  MaxFilter,  \* bound: characters of a filter
  MaxCmds     \* bound: commands under way at a time

VARIABLES
  tab,        \* the tab under test
  ui,         \* its fields, except the snapshot
  snap,       \* its snapshot: [rows, engine]
  world,      \* the tag each listed object has by now
  cmds,       \* commands under way
  may,        \* the privilege checks allow operations
  asked       \* the open dialog: the row and the backend it was opened on (at), the
              \* text typed into it, whether a listing came since, where the row is
              \* looked up again (moved), and whether another backend is the active
              \* one than the screen says (switched)

vars == <<tab, ui, snap, world, cmds, may, asked>>

Ids == UNION {{l[i].id : i \in DOMAIN l} : l \in UNION {Listings[t] : t \in Tabs}}

ASSUME TabAssumption ==
  /\ MaxInput \in Nat /\ MaxFilter \in Nat /\ MaxCmds \in Nat \ {0}
  /\ Engines \in Seq(STRING) /\ SvcEngine \in STRING
  /\ Heights \subseteq Int
  /\ DOMAIN Kept = 0 .. MaxFilter /\ Ids \subseteq Kept[0]
  /\ \A t \in Tabs : Listings[t] \subseteq
       Seq([id : STRING, tag : IF t = "Packages" THEN Nat ELSE {0, 1}])

\* The characters typed into an input (bound: the letters are left out).
Chars == {"1", "2"}

\* The keys that are no single character, and those a filter accepts, of which
\* only the number matters.
Named == {"up", "down", "tab", "enter", "esc", "backspace", "f6", "f9",
          "pgup", "pgdown", "home"}
Filtering(k) == k \notin Named \cup {"/"}

NoRow == [id |-> "none", tag |-> 0]
NoSnap == [rows |-> <<>>, engine |-> "none"]
NoAsk == [row |-> NoRow, at |-> "none", moved |-> FALSE, switched |-> FALSE,
          typed |-> <<>>]
-----------------------------------------------------------------------------
(* Lists, cursors (counted from 0, as in the code) and texts.              *)

rows == snap.rows

\* Mutant of Up: the first row is not looked for.
UpPast(c) == c - 1

Up(c) == IF c > 0 THEN c - 1 ELSE c
Down(c, n) == IF c < n - 1 THEN c + 1 ELSE c
At(list, c) == list[c + 1]

Filtered(list, n) == Selected(list, {i \in DOMAIN list : list[i].id \in Kept[n]})

More(n) == IF n < MaxFilter THEN n + 1 ELSE n
Typed(text, k) == IF Len(text) < MaxInput THEN Append(text, k) ELSE text
Erased(text) == IF text = <<>> THEN text ELSE Front(text)

\* Mutant of Window: the end of the list is not looked at.
WindowUnclamped(n, c, view) ==
  IF view > 0 /\ n > view
    THEN LET s == IF c < view \div 2 THEN 0 ELSE c - view \div 2
         IN  [from |-> s, to |-> s + view]
    ELSE [from |-> 0, to |-> n]

\* The rows of a list of n on a screen with room for view of them.
Window(n, c, view) ==
  IF view > 0 /\ n > view
    THEN LET s == IF c < view \div 2 THEN 0 ELSE c - view \div 2
         IN  IF s + view > n THEN [from |-> n - view, to |-> n]
             ELSE [from |-> s, to |-> s + view]
    ELSE [from |-> 0, to |-> n]

\* A scroll offset as renderScrollable leaves it.
Scrolled(offset, lines, view) ==
  LET most == IF lines > view THEN lines - view ELSE 0
  IN  IF view <= 0 THEN offset
      ELSE IF offset > most THEN most ELSE IF offset < 0 THEN 0 ELSE offset
-----------------------------------------------------------------------------
(* Steps of a handler.                                                     *)

Quiet == UNCHANGED <<snap, cmds>>
Become(u) == ui' = u /\ Quiet

Slots == 1 .. MaxCmds

\* A command that will do op to row, or with text; from is what the screen said.
Cmd(op, row, text, from) ==
  [slot |-> CHOOSE n \in Slots : \A c \in cmds : c.slot # n, op |-> op, row |-> row,
   text |-> text, at |-> "none", asked |-> from, phase |-> "waiting"]

Room == Cardinality(cmds) < MaxCmds

\* The handler returns a command.
Order(op, row, text, from) ==
  /\ Room
  /\ cmds' = cmds \cup {Cmd(op, row, text, from)}
  /\ UNCHANGED snap

\* An operation on a row that a dialog asked about, and one that only fetches.
Start(op, row) == Order(op, row, <<>>, asked)
Fetch(op, row) == Order(op, row, <<>>, NoAsk)

\* A switch of backend under commands that have not run yet.
Switched == {[c EXCEPT !.asked.switched = @ \/ c.phase = "waiting"] : c \in cmds}

Advance(c, phase, at) ==
  cmds' = (cmds \ {c}) \cup {[c EXCEPT !.phase = phase, !.at = at]}
=============================================================================
