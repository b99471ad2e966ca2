----------------------------- MODULE ProcessTab -----------------------------
(* internal/ui/tabs/process.go.  A row's id is a process id and its tag the  *)
(* program that has it; world is what the kernel would say now.              *)
EXTENDS TabCore

CONSTANTS
  Columns,   \* the sort columns, in the order s goes through them
  Rank,      \* Rank[id]: the place of a process by pid, name and tree order
  Signals,   \* signalMenuItems
  Mortal,    \* bound: the pids that may be taken by another program
  PidText    \* PidText[id]: the digits of the pid

ASSUME ProcessAssumption ==
  /\ Signals \in Seq({"SIGTERM", "SIGKILL", "SIGSTOP", "SIGCONT", "SIGHUP", "SIGINT",
                      "SIGQUIT", "SIGUSR1", "SIGUSR2"})
  /\ Signals # <<>>
  /\ Columns \in Seq({"measured", "rank"})

ProcessInit ==
  [cursor |-> 0, mode |-> 0, killTarget |-> NoRow, killInput |-> <<>>, signalCursor |-> 0,
   col |-> 1, reverse |-> FALSE, tree |-> FALSE, filter |-> 0, filterMode |-> FALSE,
   detail |-> FALSE, sortMenu |-> FALSE, sortMenuCursor |-> 0]

\* sortMenuItems: each column, then its reverse.
SortItems == 2 * Len(Columns)
ItemCol(i) == (i \div 2) + 1
ItemReverse(i) == i % 2 = 1

ByRank(list) ==
  [i \in DOMAIN list |->
    CHOOSE r \in ToSet(list) :
      Cardinality({q \in ToSet(list) : Rank[q.id] < Rank[r.id]}) = i - 1]

\* sorted: a measured column (CPU, memory, I/O) orders the processes as their
\* numbers happen to be, which is the order of the listing.
Sorted(list, u) ==
  IF u.tree THEN ByRank(list)
  ELSE LET ordered == IF Columns[u.col] = "measured" THEN list ELSE ByRank(list)
       IN  IF u.reverse THEN Reverse(ordered) ELSE ordered

\* filtered.
Procs == Filtered(Sorted(rows, ui), ui.filter)
-----------------------------------------------------------------------------
\* startKill: the target is copied when the dialog opens.
StartKill ==
  /\ ui.cursor < Len(Procs)
  /\ Become([ui EXCEPT !.mode = 3, !.killTarget = At(Procs, ui.cursor),
                       !.killInput = <<>>, !.signalCursor = 0])

\* sendSignal begins: the command is done here and now, and the event loop
\* waits for it (see Busy); its first step verifies the name.
SendSignal(sig) == Start(sig, ui.killTarget)

\* Mutant of ConfirmKill: any number will do.
ConfirmKillAny ==
  /\ ui' = [ui EXCEPT !.mode = 0, !.killInput = <<>>]
  /\ IF ui.killInput # <<>> THEN SendSignal("SIGKILL") ELSE Quiet

\* confirmKill: only the target's own pid lets SIGKILL go.
ConfirmKill ==
  /\ ui' = [ui EXCEPT !.mode = 0, !.killInput = <<>>]
  /\ IF ui.killInput = PidText[ui.killTarget.id] THEN SendSignal("SIGKILL") ELSE Quiet

TypePid(k) ==
  \/ k = "enter" /\ ConfirmKill
  \/ k = "esc" /\ Become([ui EXCEPT !.mode = 0, !.killInput = <<>>])
  \/ k = "backspace" /\ Become([ui EXCEPT !.killInput = Erased(@)])
  \/ k \in Chars /\ Become([ui EXCEPT !.killInput = Typed(@, k)])

SignalMenu(k) ==
  \/ k \in {"up", "k"} /\ Become([ui EXCEPT !.signalCursor = Up(@)])
  \/ k \in {"down", "j"} /\ Become([ui EXCEPT !.signalCursor = Down(@, Len(Signals))])
  \/ /\ k = "enter" /\ At(Signals, ui.signalCursor) = "SIGKILL"
     /\ Become([ui EXCEPT !.mode = 2, !.killInput = <<>>])
  \/ /\ k = "enter" /\ At(Signals, ui.signalCursor) # "SIGKILL"
     /\ SendSignal(At(Signals, ui.signalCursor))
     /\ ui' = [ui EXCEPT !.mode = 0]
  \/ k \in {"esc", "q"} /\ Become([ui EXCEPT !.mode = 0])

SortMenu(k) ==
  \/ k \in {"up", "k"} /\ Become([ui EXCEPT !.sortMenuCursor = Up(@)])
  \/ k \in {"down", "j"} /\ Become([ui EXCEPT !.sortMenuCursor = Down(@, SortItems)])
  \/ /\ k = "enter"
     /\ Become([ui EXCEPT !.col = ItemCol(ui.sortMenuCursor), !.sortMenu = FALSE,
                          !.reverse = ItemReverse(ui.sortMenuCursor)])
  \/ k \in {"esc", "q", "f6"} /\ Become([ui EXCEPT !.sortMenu = FALSE])

\* Any key whose name is made of the filter's characters is typed, an arrow's
\* too.  The cursor is left alone, and may end up below the last row.
ProcessFilter(k) ==
  \/ k = "esc" /\ Become([ui EXCEPT !.filterMode = FALSE, !.filter = 0])
  \/ k = "enter" /\ Become([ui EXCEPT !.filterMode = FALSE])
  \/ k = "backspace" /\ Become([ui EXCEPT !.filter = Up(@)])
  \/ k \notin {"esc", "enter", "backspace", "/"} /\ Become([ui EXCEPT !.filter = More(@)])

ProcessList(k) ==
  \/ k = "up" /\ Become([ui EXCEPT !.cursor = Up(@)])
  \/ k \in {"down", "j"} /\ Become([ui EXCEPT !.cursor = Down(@, Len(Procs))])
  \/ k = "s" /\ Become([ui EXCEPT !.col = (@ % Len(Columns)) + 1])
  \/ k = "t" /\ Become([ui EXCEPT !.tree = ~@])
  \/ k = "r" /\ Become([ui EXCEPT !.reverse = ~@])
  \/ /\ k = "f6"
     /\ Become([ui EXCEPT !.sortMenu = TRUE,
                          !.sortMenuCursor = CHOOSE i \in 0 .. SortItems - 1 :
                             ItemCol(i) = ui.col /\ ItemReverse(i) = ui.reverse])
  \/ k = "/" /\ Become([ui EXCEPT !.filterMode = TRUE, !.filter = 0])
  \/ k = "esc" /\ Become(IF ui.detail THEN [ui EXCEPT !.detail = FALSE]
                         ELSE [ui EXCEPT !.filter = 0])
  \/ k = "enter" /\ Become([ui EXCEPT !.detail = ~@])
  \/ k \in {"k", "f9"} /\ may /\ StartKill

ProcessKey(k) ==
  \/ ui.mode = 2 /\ TypePid(k)
  \/ ui.mode = 3 /\ SignalMenu(k)
  \/ ui.mode = 0 /\ ui.sortMenu /\ SortMenu(k)
  \/ ui.mode = 0 /\ ~ui.sortMenu /\ ui.filterMode /\ ProcessFilter(k)
  \/ ui.mode = 0 /\ ~ui.sortMenu /\ ~ui.filterMode /\ ProcessList(k)

\* busMsg: the cursor is held below the number of processes, which is not the
\* number the filter leaves.
ProcessArrive(s) ==
  /\ snap' = s
  /\ LET n == Len(s.rows)
     IN  ui' = [ui EXCEPT !.cursor = IF @ >= n /\ n > 0 THEN n - 1 ELSE @]

\* View and renderTable.  The dialogs take lines from the list; the detail
\* panel hides list and dialogs.
ProcessView(h) ==
  LET list == Procs
      extra == 8 + (IF ui.filterMode \/ ui.filter > 0 THEN 2 ELSE 0)
                 + (CASE ui.mode = 3 -> Len(Signals) + 3 [] ui.mode = 2 -> 3
                      [] OTHER -> 0)
                 + (IF ui.sortMenu THEN SortItems + 3 ELSE 0)
      room == IF h - extra < 3 THEN 3 ELSE h - extra
  IN  [panel |-> IF ui.detail THEN "detail" ELSE "table", size |-> Len(list),
       cursor |-> ui.cursor, window |-> Window(Len(list), ui.cursor, room),
       row |-> IF ui.cursor < Len(list) THEN At(list, ui.cursor) ELSE NoRow,
       dialog |-> ui.mode > 0 /\ ~ui.detail]
=============================================================================
