----------------------------- MODULE TabsProofs -----------------------------
(***************************************************************************)
(* What the tabs do is what was asked, for every listing, key, backend and *)
(* number of commands under way.                                           *)
(*                                                                         *)
(* ActsAsAsked and TypedInFull speak of the commands under way.  They      *)
(* follow from CmdsInv, which says of every command at every phase what it *)
(* owes to the dialog it came from.  A command is made from the fields of  *)
(* the tab (killTarget, opTarget, the row under the cursor, the text of    *)
(* the form), so CmdsInv in turn rests on UiInv: while a dialog is open    *)
(* these fields are what the dialog was opened on and what has been typed  *)
(* into it.                                                                *)
(*                                                                         *)
(* WindowSafe is arithmetic, once it is known that what a filter or an     *)
(* order leaves of a list has a length.  LayoutWhole follows from a layout *)
(* being Arranged: its rows have something, nothing twice and nothing in   *)
(* common.  Taking a panel out, putting it beside another and joining the  *)
(* rows again each keep that, so every drop does.                          *)
(***************************************************************************)
EXTENDS Tabs, ListsProofs, FunctionTheorems, FiniteSetTheorems, SequenceTheorems, TLAPS

\* The history of a question, whatever it is about.
AskOK(q) ==
  /\ DOMAIN q = {"row", "at", "moved", "switched", "typed"}
  /\ q.moved \in BOOLEAN /\ q.switched \in BOOLEAN
  /\ q.switched => tab \in Switching

\* Where an operation on a row would be done now.
Where(row) ==
  IF tab = "Process" THEN Program(row.tag)
  ELSE IF tab \in Switching THEN At(Engines, ui.active) ELSE "none"

\* The row an operation takes is the one asked about, as far as its tab promises.
RowAsAsked(row, from) ==
  row \in {NoRow, from.row} \/ (from.moved /\ tab \notin Latching)

\* The text that some operations need has been typed.
TextAsAsked(op, row, text, from) ==
  /\ op = "SIGKILL" => from.typed = PidText[row.id]
  /\ op = "upgrade" => from.typed = Phrase
  /\ op \in {"add user", "add rule"} => from.typed = text

\* An operation that may be ordered.
Meant(op, row, text, from) ==
  /\ AskOK(from)
  /\ TextAsAsked(op, row, text, from)
  /\ op \notin Fetches => RowAsAsked(row, from) /\ (from.at = Where(row) \/ from.switched)
  /\ tab = "Process" => op \notin Fetches

CmdShape(c) ==
  /\ DOMAIN c = {"slot", "op", "row", "text", "at", "asked", "phase"}
  /\ c.slot \in Slots
  /\ c.phase \in {"waiting", "verified", "ran", "logged"}
  /\ AskOK(c.asked)

\* What a command owes at its phase.
CmdOK(c) ==
  /\ CmdShape(c)
  /\ TextAsAsked(c.op, c.row, c.text, c.asked)
  /\ c.op \in Fetches => c.phase = "waiting" /\ tab # "Process"
  /\ c.op \notin Fetches => RowAsAsked(c.row, c.asked)
  /\ c.op \notin Fetches /\ c.phase = "waiting" =>
       c.asked.at = Where(c.row) \/ c.asked.switched
  /\ c.phase # "waiting" => c.at = c.asked.at \/ c.asked.switched

SlotsApart == \A c, d \in cmds : c.slot = d.slot => c = d

CmdsInv == IsFiniteSet(cmds) /\ SlotsApart /\ \A c \in cmds : CmdOK(c)

\* What a key does to the commands.
Ordered ==
  \E op, row, text, from : Order(op, row, text, from) /\ Meant(op, row, text, from)

SameEngine == tab' = tab /\ (tab \in Switching => ui'.active = ui.active)

Searched == Room /\ cmds' = Switched \cup {Cmd("search", NoRow, <<>>, NoAsk)}

CmdStep ==
  \/ SameEngine /\ (cmds' = cmds \/ Ordered)
  \/ tab' = tab /\ tab \in Switching /\ (cmds' = Switched \/ Searched)
-----------------------------------------------------------------------------
(* The commands.                                                           *)

\* There is a slot for a command as long as there is room.
LEMMA FreeSlot ==
  ASSUME CmdsInv, Room
  PROVE  \E n \in Slots : \A c \in cmds : c.slot # n
<1> SUFFICES ASSUME \A n \in Slots : \E c \in cmds : c.slot = n PROVE FALSE
  OBVIOUS
<1> DEFINE f == [c \in cmds |-> c.slot]
<1>1. f \in Surjection(cmds, Slots)
  <2>1. f \in [cmds -> Slots]
    BY DEF CmdsInv, CmdOK, CmdShape
  <2>2. \A n \in Slots : \E c \in cmds : f[c] = n
    OBVIOUS
  <2> QED BY <2>1, <2>2 DEF Surjection
<1>2. Cardinality(Slots) <= Cardinality(cmds)
  BY <1>1, FS_Surjection DEF CmdsInv
<1>3. MaxCmds \in Nat /\ 0 < MaxCmds
  BY TabAssumption
<1>4. Cardinality(Slots) = MaxCmds
  BY <1>3, FS_Interval DEF Slots
<1>5. Cardinality(cmds) \in Nat
  BY FS_CardinalityType DEF CmdsInv
<1> QED BY <1>2, <1>3, <1>4, <1>5 DEF Room

\* A command that is ordered keeps its promise, in a slot of its own.
LEMMA CmdMade ==
  ASSUME CmdsInv, Room, NEW op, NEW row, NEW text, NEW from, Meant(op, row, text, from)
  PROVE  CmdOK(Cmd(op, row, text, from)) /\ \A c \in cmds : c.slot # Cmd(op, row, text, from).slot
<1> DEFINE n == CHOOSE n \in Slots : \A c \in cmds : c.slot # n
<1>1. n \in Slots /\ \A c \in cmds : c.slot # n
  BY FreeSlot
<1> HIDE DEF n
<1> DEFINE d == [slot |-> n, op |-> op, row |-> row, text |-> text, at |-> "none",
                 asked |-> from, phase |-> "waiting"]
<1>2. Cmd(op, row, text, from) = d
  BY DEF Cmd, n
<1>3. CmdOK(d)
  BY <1>1 DEF CmdOK, CmdShape, Meant
<1> QED BY <1>1, <1>2, <1>3

\* A command's promise does not depend on the state, but for the backend.
LEMMA CmdKept ==
  ASSUME SameEngine, NEW c, CmdOK(c) PROVE CmdOK(c)'
<1>1. Where(c.row)' = Where(c.row)
  BY DEF SameEngine, Where
<1>2. RowAsAsked(c.row, c.asked)' <=> RowAsAsked(c.row, c.asked)
  BY DEF SameEngine, RowAsAsked
<1>3. TextAsAsked(c.op, c.row, c.text, c.asked)' <=> TextAsAsked(c.op, c.row, c.text, c.asked)
  BY DEF TextAsAsked
<1>4. CmdShape(c)' <=> CmdShape(c)
  BY DEF CmdShape, AskOK, Slots, SameEngine, Switching
<1> QED BY <1>1, <1>2, <1>3, <1>4 DEF CmdOK, SameEngine

\* The commands of a set keep theirs, and so do fewer.
LEMMA FewerCmds ==
  ASSUME CmdsInv, SameEngine, cmds' \subseteq cmds PROVE CmdsInv'
<1>1. IsFiniteSet(cmds')
  BY FS_Subset DEF CmdsInv
<1>2. SlotsApart'
  BY DEF CmdsInv, SlotsApart
<1>3. \A c \in cmds' : CmdOK(c)'
  BY CmdKept DEF CmdsInv
<1> QED BY <1>1, <1>2, <1>3 DEF CmdsInv

LEMMA OneMore ==
  ASSUME CmdsInv, SameEngine, Ordered PROVE CmdsInv'
<1>1. PICK op, row, text, from : Order(op, row, text, from) /\ Meant(op, row, text, from)
  BY DEF Ordered
<1> DEFINE d == Cmd(op, row, text, from)
<1>2. Room /\ cmds' = cmds \cup {d}
  BY <1>1 DEF Order
<1>3. CmdOK(d) /\ \A c \in cmds : c.slot # d.slot
  BY <1>1, <1>2, CmdMade
<1> HIDE DEF d
<1>4. IsFiniteSet(cmds')
  BY <1>2, FS_AddElement DEF CmdsInv
<1>5. SlotsApart'
  BY <1>2, <1>3 DEF CmdsInv, SlotsApart
<1>6. \A c \in cmds' : CmdOK(c)'
  BY <1>2, <1>3, CmdKept DEF CmdsInv
<1> QED BY <1>4, <1>5, <1>6 DEF CmdsInv

\* A command that goes on.
LEMMA CmdAdvances ==
  ASSUME CmdsInv, SameEngine, NEW c \in cmds, NEW phase, NEW at, Advance(c, phase, at),
         phase \in {"verified", "ran", "logged"}, c.op \notin Fetches,
         at = c.asked.at \/ c.asked.switched
  PROVE  CmdsInv'
<1> DEFINE d == [c EXCEPT !.phase = phase, !.at = at]
<1>1. cmds' = (cmds \ {c}) \cup {d}
  BY DEF Advance
<1>2. CmdOK(c)
  BY DEF CmdsInv
<1>3. /\ DOMAIN d = DOMAIN c /\ d.slot = c.slot /\ d.op = c.op /\ d.row = c.row
      /\ d.text = c.text /\ d.asked = c.asked /\ d.phase = phase /\ d.at = at
  BY <1>2 DEF CmdOK, CmdShape
<1> HIDE DEF d
<1>4. CmdOK(d)
  BY <1>2, <1>3 DEF CmdOK, CmdShape
<1>5. IsFiniteSet(cmds')
  BY <1>1, FS_RemoveElement, FS_AddElement DEF CmdsInv
<1>6. SlotsApart'
  BY <1>1, <1>3 DEF CmdsInv, SlotsApart
<1>7. \A e \in cmds' : CmdOK(e)'
  BY <1>1, <1>4, CmdKept DEF CmdsInv
<1> QED BY <1>5, <1>6, <1>7 DEF CmdsInv

\* A switch of backend: what has not run yet may now run elsewhere.
SwitchedOf(c) == [c EXCEPT !.asked.switched = @ \/ c.phase = "waiting"]

LEMMA SwitchedFacts ==
  ASSUME NEW c, CmdShape(c), tab \in Switching
  PROVE  /\ CmdShape(SwitchedOf(c))
         /\ SwitchedOf(c).slot = c.slot /\ SwitchedOf(c).op = c.op /\ SwitchedOf(c).row = c.row
         /\ SwitchedOf(c).text = c.text /\ SwitchedOf(c).at = c.at /\ SwitchedOf(c).phase = c.phase
         /\ SwitchedOf(c).asked.row = c.asked.row /\ SwitchedOf(c).asked.at = c.asked.at
         /\ SwitchedOf(c).asked.typed = c.asked.typed
         /\ SwitchedOf(c).asked.moved = c.asked.moved
         /\ SwitchedOf(c).asked.switched = (c.asked.switched \/ c.phase = "waiting")
<1> DEFINE q == [c.asked EXCEPT !.switched = @ \/ c.phase = "waiting"]
<1>1. SwitchedOf(c) = [c EXCEPT !.asked = q]
  BY DEF SwitchedOf
<1>2. /\ AskOK(q) /\ q.row = c.asked.row /\ q.at = c.asked.at /\ q.typed = c.asked.typed
      /\ q.moved = c.asked.moved
      /\ q.switched = (c.asked.switched \/ c.phase = "waiting")
  BY DEF CmdShape, AskOK
<1> HIDE DEF q
<1> QED BY <1>1, <1>2 DEF CmdShape

LEMMA SwitchedOK ==
  ASSUME tab' = tab, tab \in Switching, NEW c, CmdOK(c) PROVE CmdOK(SwitchedOf(c))'
<1> DEFINE d == SwitchedOf(c)
<1>1. /\ CmdShape(d) /\ d.slot = c.slot /\ d.op = c.op /\ d.row = c.row /\ d.text = c.text
      /\ d.at = c.at /\ d.phase = c.phase /\ d.asked.row = c.asked.row
      /\ d.asked.at = c.asked.at /\ d.asked.typed = c.asked.typed
      /\ d.asked.moved = c.asked.moved
      /\ d.asked.switched = (c.asked.switched \/ c.phase = "waiting")
  BY SwitchedFacts DEF CmdOK
<1> HIDE DEF d
<1>3. RowAsAsked(c.row, c.asked) => RowAsAsked(d.row, d.asked)'
  BY <1>1 DEF RowAsAsked, Latching
<1>4. TextAsAsked(c.op, c.row, c.text, c.asked) => TextAsAsked(d.op, d.row, d.text, d.asked)
  BY <1>1 DEF TextAsAsked
<1>5. CmdShape(d)'
  BY <1>1 DEF CmdShape, AskOK, Slots
<1>6. CmdOK(d)'
  BY <1>1, <1>3, <1>4, <1>5 DEF CmdOK, TextAsAsked
<1> QED BY <1>6 DEF d

LEMMA AllSwitch ==
  ASSUME CmdsInv, tab' = tab, tab \in Switching
  PROVE  /\ IsFiniteSet(Switched)
         /\ \A c \in Switched : CmdOK(c)' /\ \E d \in cmds : c.slot = d.slot
         /\ \A c, d \in Switched : c.slot = d.slot => c = d
         /\ \A d \in cmds : \E c \in Switched : c.slot = d.slot
<1>1. Switched = {SwitchedOf(c) : c \in cmds}
  BY DEF Switched, SwitchedOf
<1>2. \A c \in cmds : SwitchedOf(c).slot = c.slot
  BY SwitchedFacts DEF CmdsInv, CmdOK
<1>3. IsFiniteSet(Switched)
  <2> DEFINE f == [c \in cmds |-> SwitchedOf(c)]
  <2>1. f \in Surjection(cmds, Switched)
    BY <1>1 DEF Surjection
  <2> QED BY <2>1, FS_Surjection DEF CmdsInv
<1>4. \A c \in cmds : CmdOK(SwitchedOf(c))'
  BY SwitchedOK DEF CmdsInv
<1>5. \A c \in Switched : CmdOK(c)'
  <2> SUFFICES ASSUME NEW c \in cmds PROVE CmdOK(SwitchedOf(c))'
    BY <1>1
  <2> QED BY <1>4
<1> QED BY <1>1, <1>2, <1>3, <1>5 DEF CmdsInv, SlotsApart

\* Whatever a key does to the commands keeps their promises.
LEMMA CmdStepKeeps ==
  ASSUME CmdsInv, CmdStep PROVE CmdsInv'
<1>1. CASE SameEngine /\ cmds' = cmds
  BY <1>1, FewerCmds
<1>2. CASE SameEngine /\ Ordered
  BY <1>2, OneMore
<1>3. CASE tab' = tab /\ tab \in Switching /\ cmds' = Switched
  BY <1>3, AllSwitch DEF CmdsInv, SlotsApart
<1>4. CASE tab' = tab /\ tab \in Switching /\ Searched
  <2>1. PICK e : e = Cmd("search", NoRow, <<>>, NoAsk)
    OBVIOUS
  <2>2. Meant("search", NoRow, <<>>, NoAsk)
    BY <1>4 DEF Meant, TextAsAsked, AskOK, NoAsk, Fetches, Switching
  <2>3. CmdOK(e) /\ \A c \in cmds : c.slot # e.slot
    BY <1>4, <2>1, <2>2, CmdMade DEF Searched
  <2>4. e.op = "search" /\ e.phase = "waiting"
    BY <2>1 DEF Cmd
  <2>5. CmdOK(e)'
    BY <1>4, <2>3, <2>4 DEF CmdOK, CmdShape, TextAsAsked, AskOK, Slots, Fetches, Switching
  <2>6. cmds' = Switched \cup {e}
    BY <1>4, <2>1 DEF Searched
  <2>7. IsFiniteSet(cmds')
    BY <1>4, <2>6, AllSwitch, FS_AddElement
  <2>8. \A c \in cmds' : CmdOK(c)'
    BY <1>4, <2>5, <2>6, AllSwitch
  <2>9. \A c \in Switched : c.slot # e.slot
    BY <1>4, <2>3, AllSwitch
  <2>10. SlotsApart'
    BY <1>4, <2>6, <2>9, AllSwitch DEF SlotsApart
  <2> QED BY <2>7, <2>8, <2>10 DEF CmdsInv
<1> QED BY <1>1, <1>2, <1>3, <1>4 DEF CmdStep
-----------------------------------------------------------------------------
(* The dialogs.                                                            *)

\* The text after key k.
Answered(text, k) ==
  CASE k = "backspace" -> Erased(text) [] k \in Chars -> Typed(text, k) [] OTHER -> text

\* What a question may have in it depends on the tab, which stays.
LEMMA AskOKNext ==
  ASSUME tab' = tab PROVE AskOK(asked') <=> AskOK(asked)'
BY DEF AskOK, Switching

\* What a key does to the history of the question.
LEMMA Asking ==
  ASSUME tab # "Dashboard", tab' = tab, AskOK(asked), NEW k, Answering(k)
  PROVE  /\ AskOK(asked') /\ AskOK(asked)'
         /\ Dialog(ui') # 0 /\ Dialog(ui) = 0 => asked' = Shown
         /\ Dialog(ui') # 0 /\ Dialog(ui) # 0 =>
              /\ asked'.row = asked.row /\ asked'.at = asked.at
              /\ asked'.moved = asked.moved /\ asked'.switched = asked.switched
              /\ Dialog(ui') # Dialog(ui) => asked'.typed = <<>>
              /\ Dialog(ui') = Dialog(ui) => asked'.typed = Answered(asked.typed, k)
<1>1. AskOK(NoAsk)
  BY DEF AskOK, NoAsk
<1>2. AskOK(Shown)
  BY DEF AskOK, Shown
<1>3. CASE Dialog(ui') = 0
  BY <1>1, <1>3, AskOKNext DEF Answering
<1>4. CASE Dialog(ui') # 0 /\ Dialog(ui) = 0
  BY <1>2, <1>4, AskOKNext DEF Answering
<1>5. CASE Dialog(ui') # 0 /\ Dialog(ui) # 0 /\ Dialog(ui') # Dialog(ui)
  <2>1. asked' = [asked EXCEPT !.typed = <<>>]
    BY <1>5 DEF Answering
  <2> QED BY <1>5, <2>1 DEF AskOK
<1>6. CASE Dialog(ui') # 0 /\ Dialog(ui') = Dialog(ui)
  <2>1. asked' = [asked EXCEPT !.typed = Answered(asked.typed, k)]
    BY <1>6 DEF Answering, Answered
  <2> QED BY <1>6, <2>1 DEF AskOK
<1> QED BY <1>3, <1>4, <1>5, <1>6

\* Cursors stay natural numbers.
LEMMA Cursors ==
  ASSUME NEW c \in Nat PROVE Up(c) \in Nat /\ \A n : Down(c, n) \in Nat
BY DEF Up, Down

\* An operation on the row of the open dialog, with what has been typed into it.
LEMMA Starts ==
  ASSUME AskOK(asked), NEW op, NEW row, Start(op, row), tab # "Process" \/ op \notin Fetches,
         TextAsAsked(op, row, <<>>, asked), RowAsAsked(row, asked),
         asked.at = Where(row) \/ asked.switched
  PROVE  Ordered /\ snap' = snap
BY DEF Start, Ordered, Order, Meant

\* A command that only fetches.
LEMMA Fetched ==
  ASSUME tab # "Process", NEW op \in Fetches, NEW row, Fetch(op, row) PROVE Ordered /\ snap' = snap
<1>1. Meant(op, row, <<>>, NoAsk)
  BY DEF Meant, TextAsAsked, AskOK, NoAsk, Fetches
<1> QED BY <1>1 DEF Fetch, Ordered, Order
-----------------------------------------------------------------------------
(* The process tab.  The dialogs are about killTarget, and killInput holds  *)
(* what has been typed since the pid was asked for.                        *)

ProcessOK ==
  /\ DOMAIN ui = DOMAIN ProcessInit
  /\ ui.cursor \in Nat
  /\ ui.mode \in {0, 2, 3}
  /\ ui.mode # 0 => asked.row = ui.killTarget /\ asked.at = Program(ui.killTarget.tag)
  /\ ui.mode = 2 => asked.typed = ui.killInput
  /\ ui.mode = 3 => ui.signalCursor \in 0 .. Len(Signals) - 1

LEMMA SignalCount ==
  /\ Len(Signals) \in Nat /\ 0 < Len(Signals)
  /\ \A i \in 0 .. Len(Signals) - 1 : Signals[i + 1] \in
       {"SIGTERM", "SIGKILL", "SIGSTOP", "SIGCONT", "SIGHUP", "SIGINT", "SIGQUIT",
        "SIGUSR1", "SIGUSR2"}
<1>1. Len(Signals) \in Nat /\ Len(Signals) # 0
  BY ProcessAssumption, EmptySeq, LenProperties
<1>2. \A i \in 0 .. Len(Signals) - 1 : i + 1 \in 1 .. Len(Signals)
  BY <1>1
<1> QED BY <1>1, <1>2, ProcessAssumption, ElementOfSeq

LEMMA ProcessStarts ==
  ASSUME tab = "Process", ProcessOK, AskOK(asked), ui.mode # 0, NEW sig, SendSignal(sig),
         asked.typed = PidText[ui.killTarget.id] \/ sig # "SIGKILL",
         sig \notin {"upgrade", "add user", "add rule"} \cup Fetches
  PROVE  Ordered /\ snap' = snap
<1>1. asked.at = Where(ui.killTarget)
  BY DEF ProcessOK, Where
<1>2. RowAsAsked(ui.killTarget, asked)
  BY DEF ProcessOK, RowAsAsked
<1>3. TextAsAsked(sig, ui.killTarget, <<>>, asked)
  BY DEF TextAsAsked
<1> QED BY <1>1, <1>2, <1>3, Starts DEF SendSignal

\* A step of the tab that opens no dialog and orders nothing.
LEMMA ProcessRests ==
  ASSUME tab = "Process", ProcessOK, AskOK(asked), NEW k, Answering(k), tab' = tab,
         DOMAIN ui' = DOMAIN ui, ui'.cursor \in Nat, ui'.mode = 0
  PROVE  ProcessOK' /\ AskOK(asked)'
<1>1. Dialog(ui') = 0
  BY DEF Dialog
<1> QED BY <1>1, Asking DEF ProcessOK

LEMMA TypePidKeeps ==
  ASSUME tab = "Process", ProcessOK, AskOK(asked), NEW k, Answering(k), tab' = tab,
         ui.mode = 2, TypePid(k)
  PROVE  ProcessOK' /\ AskOK(asked)' /\ CmdStep /\ snap' = snap
<1>0. SameEngine
  BY DEF SameEngine, Switching
<1>1. CASE k = "enter" /\ ConfirmKill
  <2>1. DOMAIN ui' = DOMAIN ui /\ ui'.cursor = ui.cursor /\ ui'.mode = 0
    BY <1>1 DEF ConfirmKill, ProcessOK, ProcessInit
  <2>2. ProcessOK' /\ AskOK(asked)'
    BY <2>1, ProcessRests DEF ProcessOK
  <2>3. CASE ui.killInput = PidText[ui.killTarget.id]
    <3>1. SendSignal("SIGKILL")
      BY <1>1, <2>3 DEF ConfirmKill
    <3>2. asked.typed = PidText[ui.killTarget.id]
      BY <2>3 DEF ProcessOK
    <3>3. Ordered /\ snap' = snap
      <4>1. ui.mode # 0 /\ "SIGKILL" \notin {"upgrade", "add user", "add rule"} \cup Fetches
        BY DEF Fetches
      <4> QED BY <3>1, <3>2, <4>1, ProcessStarts
    <3> QED BY <1>0, <2>2, <3>3 DEF CmdStep
  <2>4. CASE ui.killInput # PidText[ui.killTarget.id]
    BY <1>0, <1>1, <2>2, <2>4 DEF ConfirmKill, Quiet, CmdStep
  <2> QED BY <2>3, <2>4
<1>2. CASE k = "esc" /\ Become([ui EXCEPT !.mode = 0, !.killInput = <<>>])
  <2>1. DOMAIN ui' = DOMAIN ui /\ ui'.cursor = ui.cursor /\ ui'.mode = 0
    BY <1>2 DEF Become, ProcessOK, ProcessInit
  <2> QED BY <1>0, <1>2, <2>1, ProcessRests DEF ProcessOK, Become, Quiet, CmdStep
<1>3. CASE \/ k = "backspace" /\ Become([ui EXCEPT !.killInput = Erased(@)])
           \/ k \in Chars /\ Become([ui EXCEPT !.killInput = Typed(@, k)])
  <2>1. /\ DOMAIN ui' = DOMAIN ui /\ ui'.cursor = ui.cursor /\ ui'.mode = 2
        /\ ui'.killTarget = ui.killTarget /\ ui'.killInput = Answered(ui.killInput, k)
    BY <1>3 DEF Become, ProcessOK, ProcessInit, Answered, Chars
  <2>2. Dialog(ui) = 2 /\ Dialog(ui') = 2
    BY <2>1 DEF Dialog
  <2>3. ProcessOK' /\ AskOK(asked)'
    BY <2>1, <2>2, Asking DEF ProcessOK, Program
  <2> QED BY <1>0, <1>3, <2>3 DEF Become, Quiet, CmdStep
<1> QED BY <1>1, <1>2, <1>3 DEF TypePid

LEMMA SignalMenuKeeps ==
  ASSUME tab = "Process", ProcessOK, AskOK(asked), NEW k, Answering(k), tab' = tab,
         ui.mode = 3, SignalMenu(k)
  PROVE  ProcessOK' /\ AskOK(asked)' /\ CmdStep /\ snap' = snap
<1>0. SameEngine
  BY DEF SameEngine, Switching
<1>1. CASE \/ k \in {"up", "k"} /\ Become([ui EXCEPT !.signalCursor = Up(@)])
           \/ k \in {"down", "j"} /\ Become([ui EXCEPT !.signalCursor = Down(@, Len(Signals))])
  <2>1. /\ DOMAIN ui' = DOMAIN ui /\ ui'.cursor = ui.cursor /\ ui'.mode = 3
        /\ ui'.killTarget = ui.killTarget
        /\ ui'.signalCursor \in {Up(ui.signalCursor), Down(ui.signalCursor, Len(Signals))}
    BY <1>1 DEF Become, ProcessOK, ProcessInit
  <2>c. ui'.signalCursor \in 0 .. Len(Signals) - 1
    BY <2>1, SignalCount DEF ProcessOK, Up, Down
  <2>2. Dialog(ui) = 3 /\ Dialog(ui') = 3
    BY <2>1 DEF Dialog
  <2>3. ProcessOK' /\ AskOK(asked)'
    BY <2>1, <2>c, <2>2, Asking DEF ProcessOK, Program
  <2> QED BY <1>0, <1>1, <2>3 DEF Become, Quiet, CmdStep
<1>2. CASE Become([ui EXCEPT !.mode = 2, !.killInput = <<>>])
  <2>1. /\ DOMAIN ui' = DOMAIN ui /\ ui'.cursor = ui.cursor /\ ui'.mode = 2
        /\ ui'.killTarget = ui.killTarget /\ ui'.killInput = <<>>
    BY <1>2 DEF Become, ProcessOK, ProcessInit
  <2>2. Dialog(ui) = 3 /\ Dialog(ui') = 2
    BY <2>1 DEF Dialog
  <2>3. ProcessOK' /\ AskOK(asked)'
    BY <2>1, <2>2, Asking DEF ProcessOK, Program
  <2> QED BY <1>0, <1>2, <2>3 DEF Become, Quiet, CmdStep
<1>3. CASE /\ k = "enter" /\ At(Signals, ui.signalCursor) # "SIGKILL"
           /\ SendSignal(At(Signals, ui.signalCursor))
           /\ ui' = [ui EXCEPT !.mode = 0]
  <2>1. DOMAIN ui' = DOMAIN ui /\ ui'.cursor = ui.cursor /\ ui'.mode = 0
    BY <1>3 DEF ProcessOK, ProcessInit
  <2>2. ProcessOK' /\ AskOK(asked)'
    BY <2>1, ProcessRests DEF ProcessOK
  <2>3. At(Signals, ui.signalCursor) \in
          {"SIGTERM", "SIGKILL", "SIGSTOP", "SIGCONT", "SIGHUP", "SIGINT", "SIGQUIT",
           "SIGUSR1", "SIGUSR2"}
    BY SignalCount DEF ProcessOK, At
  <2>4. Ordered /\ snap' = snap
    <3>1. PICK sig : sig = At(Signals, ui.signalCursor)
      OBVIOUS
    <3>2. sig \notin {"upgrade", "add user", "add rule"} \cup Fetches
      BY <2>3, <3>1 DEF Fetches
    <3>3. sig # "SIGKILL" /\ SendSignal(sig)
      BY <1>3, <3>1
    <3>4. ui.mode # 0
      OBVIOUS
    <3> QED BY <3>2, <3>3, <3>4, ProcessStarts
  <2> QED BY <1>0, <2>2, <2>4 DEF CmdStep
<1>4. CASE k \in {"esc", "q"} /\ Become([ui EXCEPT !.mode = 0])
  <2>1. DOMAIN ui' = DOMAIN ui /\ ui'.cursor = ui.cursor /\ ui'.mode = 0
    BY <1>4 DEF Become, ProcessOK, ProcessInit
  <2> QED BY <1>0, <1>4, <2>1, ProcessRests DEF ProcessOK, Become, Quiet, CmdStep
<1> QED BY <1>1, <1>2, <1>3, <1>4 DEF SignalMenu

LEMMA ProcessShown ==
  ASSUME tab = "Process", ui.cursor < Len(Procs)
  PROVE  Shown.row = At(Procs, ui.cursor) /\ Shown.at = Program(At(Procs, ui.cursor).tag)
<1>1. View(CHOOSE h \in Heights : TRUE).row = At(Procs, ui.cursor)
  BY DEF View, ProcessView
<1> QED BY <1>1 DEF Shown

LEMMA StartKillKeeps ==
  ASSUME tab = "Process", ProcessOK, AskOK(asked), NEW k, Answering(k), tab' = tab,
         ui.mode = 0, StartKill
  PROVE  ProcessOK' /\ AskOK(asked)' /\ CmdStep /\ snap' = snap
<1>1. /\ DOMAIN ui' = DOMAIN ui /\ ui'.cursor = ui.cursor /\ ui'.mode = 3
      /\ ui'.killTarget = At(Procs, ui.cursor) /\ ui'.signalCursor = 0
      /\ ui.cursor < Len(Procs)
  BY DEF StartKill, Become, ProcessOK, ProcessInit
<1>2. Dialog(ui) = 0 /\ Dialog(ui') = 3
  BY <1>1 DEF Dialog
<1>3. asked' = Shown /\ AskOK(asked)'
  BY <1>2, Asking
<1>4. asked'.row = At(Procs, ui.cursor) /\ asked'.at = Program(At(Procs, ui.cursor).tag)
  BY <1>1, <1>3, ProcessShown
<1>5. ProcessOK'
  BY <1>1, <1>4, SignalCount DEF ProcessOK, Program
<1> QED BY <1>3, <1>5 DEF StartKill, Become, Quiet, CmdStep, SameEngine, Switching

\* Every other key of the list and its menus leaves the tab without a dialog.
LEMMA ProcessListKeeps ==
  ASSUME tab = "Process", ProcessOK, AskOK(asked), NEW k, Answering(k), tab' = tab,
         ui.mode = 0, SortMenu(k) \/ ProcessFilter(k) \/ ProcessList(k)
  PROVE  ProcessOK' /\ AskOK(asked)' /\ CmdStep /\ snap' = snap
<1>1. CASE SortMenu(k) \/ ProcessFilter(k)
  <2>1. DOMAIN ui' = DOMAIN ui /\ ui'.cursor = ui.cursor /\ ui'.mode = 0 /\ Quiet
    <3>1. CASE SortMenu(k)
      BY <3>1 DEF SortMenu, Become, ProcessOK, ProcessInit
    <3>2. CASE ProcessFilter(k)
      BY <3>2 DEF ProcessFilter, Become, ProcessOK, ProcessInit
    <3> QED BY <1>1, <3>1, <3>2
  <2> QED BY <2>1, ProcessRests DEF ProcessOK, Quiet, CmdStep, SameEngine, Switching
<1>2. CASE ProcessList(k) /\ ~StartKill
  <2>1. /\ DOMAIN ui' = DOMAIN ui /\ ui'.mode = 0 /\ Quiet
        /\ ui'.cursor \in {ui.cursor, Up(ui.cursor), Down(ui.cursor, Len(Procs))}
    BY <1>2 DEF ProcessList, Become, ProcessOK, ProcessInit
  <2>2. ui'.cursor \in Nat
    BY <2>1, Cursors DEF ProcessOK
  <2> QED BY <2>1, <2>2, ProcessRests DEF Quiet, CmdStep, SameEngine, Switching
<1>3. CASE StartKill
  BY <1>3, StartKillKeeps
<1> QED BY <1>1, <1>2, <1>3

LEMMA ProcessKeyKeeps ==
  ASSUME tab = "Process", ProcessOK, AskOK(asked), NEW k, Answering(k), tab' = tab,
         ProcessKey(k)
  PROVE  ProcessOK' /\ AskOK(asked)' /\ CmdStep /\ snap' = snap
BY TypePidKeeps, SignalMenuKeeps, ProcessListKeeps DEF ProcessKey
-----------------------------------------------------------------------------
(* Tabs that look the row up again.  While a question is open the row under *)
(* the cursor is the one that was shown, unless a listing has come since.   *)

\* The row under the cursor of a list is the one asked about.
Under(list) == asked.moved \/ (ui.cursor < Len(list) /\ asked.row = At(list, ui.cursor))

\* What a plain tab shows: no backend.
LEMMA PlainShown ==
  ASSUME tab \in {"Docker", "Services", "Users", "Advanced"}
  PROVE  /\ Shown.at = "none" /\ Shown.moved = FALSE /\ Shown.typed = <<>>
         /\ tab = "Docker" /\ ui.cursor < Len(rows) => Shown.row = At(rows, ui.cursor)
         /\ tab = "Services" /\ ui.cursor < Len(Units) => Shown.row = At(Units, ui.cursor)
         /\ tab = "Users" /\ ui.cursor < Len(Accounts) => Shown.row = At(Accounts, ui.cursor)
         /\ tab = "Advanced" /\ ui.cursor < Len(rows) => Shown.row = At(rows, ui.cursor)
<1>1. Shown.at = "none" /\ Shown.moved = FALSE /\ Shown.typed = <<>>
  BY DEF Shown, Switching
<1>2. Shown.row = View(CHOOSE h \in Heights : TRUE).row
  BY DEF Shown
<1>3. tab = "Docker" /\ ui.cursor < Len(rows) => Shown.row = At(rows, ui.cursor)
  BY <1>2 DEF View, DockerView
<1>4. tab = "Services" /\ ui.cursor < Len(Units) => Shown.row = At(Units, ui.cursor)
  BY <1>2 DEF View, ServicesView
<1>5. tab = "Users" /\ ui.cursor < Len(Accounts) => Shown.row = At(Accounts, ui.cursor)
  BY <1>2 DEF View, UsersView
<1>6. tab = "Advanced" /\ ui.cursor < Len(rows) => Shown.row = At(rows, ui.cursor)
  BY <1>2 DEF View, AdvancedView
<1> QED BY <1>1, <1>3, <1>4, <1>5, <1>6

\* A step without a command in a tab with one engine.
LEMMA NothingOrdered ==
  ASSUME Quiet, tab' = tab, tab \notin Switching PROVE CmdStep /\ snap' = snap
BY DEF Quiet, CmdStep, SameEngine

LEMMA SomethingOrdered ==
  ASSUME Ordered, tab' = tab, tab \notin Switching PROVE CmdStep
BY DEF CmdStep, SameEngine
-----------------------------------------------------------------------------
(* The docker tab.                                                         *)

DockerOK ==
  /\ DOMAIN ui = DOMAIN DockerInit
  /\ ui.cursor \in Nat
  /\ ui.mode \in 0 .. 6
  /\ ui.mode # 0 => asked.at = "none" /\ Under(rows)

LEMMA DockerDialogKeeps ==
  ASSUME tab = "Docker", DockerOK, AskOK(asked), NEW k, Answering(k), tab' = tab,
         ui.mode # 0, DockerDialog(k)
  PROVE  DockerOK' /\ AskOK(asked)' /\ CmdStep /\ snap' = snap
<1>0. tab \notin Switching
  BY DEF Switching
<1>1. DOMAIN ui' = DOMAIN ui /\ ui'.cursor = ui.cursor /\ ui'.mode = 0
  BY DEF DockerDialog, DockerConfirm, Become, DockerOK, DockerInit
<1>2. Dialog(ui') = 0
  BY <1>1 DEF Dialog
<1>3. DockerOK' /\ AskOK(asked)'
  BY <1>1, <1>2, Asking DEF DockerOK
<1>4. CASE Quiet
  BY <1>0, <1>3, <1>4, NothingOrdered
<1>5. CASE ui.cursor < Len(rows) /\ Start(DockerOp[ui.mode], At(rows, ui.cursor))
  <2>1. PICK op, row : op = DockerOp[ui.mode] /\ row = At(rows, ui.cursor)
    OBVIOUS
  <2>2. ui.mode \in 1 .. 6
    BY DEF DockerOK
  <2>3. op \in {"stop", "restart", "start", "pause", "unpause", "remove"}
    BY <2>1, <2>2 DEF DockerOp
  <2>4. TextAsAsked(op, row, <<>>, asked)
    BY <2>3 DEF TextAsAsked
  <2>5. RowAsAsked(row, asked)
    BY <2>1 DEF RowAsAsked, DockerOK, Under, Latching
  <2>6. asked.at = Where(row)
    BY DEF DockerOK, Where, Switching
  <2>7. Ordered /\ snap' = snap
    BY <1>5, <2>1, <2>4, <2>5, <2>6, Starts
  <2> QED BY <1>0, <1>3, <2>7, SomethingOrdered
<1> QED BY <1>4, <1>5 DEF DockerDialog, DockerConfirm, Become

LEMMA DockerQuiet ==
  ASSUME tab = "Docker", DockerOK, AskOK(asked), NEW k, Answering(k), tab' = tab,
         DOMAIN ui' = DOMAIN ui, ui'.cursor \in Nat, ui'.mode = 0
  PROVE  DockerOK' /\ AskOK(asked)'
<1>1. Dialog(ui') = 0
  BY DEF Dialog
<1> QED BY <1>1, Asking DEF DockerOK

\* What a view clamps leaves everything else alone.
LEMMA DockerScrolls ==
  ASSUME NEW u
  PROVE  /\ DOMAIN DockerScroll(u) = DOMAIN u
         /\ DockerScroll(u).cursor = u.cursor /\ DockerScroll(u).mode = u.mode
BY DEF DockerScroll

LEMMA DockerPanelKeeps ==
  ASSUME tab = "Docker", DockerOK, AskOK(asked), NEW k, Answering(k), tab' = tab,
         ui.mode = 0, DockerPanel(k)
  PROVE  DockerOK' /\ AskOK(asked)' /\ CmdStep /\ snap' = snap
<1>0. tab \notin Switching
  BY DEF Switching
<1>1. CASE \E by : DockerMove(by)
  <2>1. PICK by : DockerMove(by)
    BY <1>1
  <2> DEFINE u == [ui EXCEPT !.scroll = @ + by]
  <2>2. DOMAIN u = DOMAIN ui /\ u.cursor = ui.cursor /\ u.mode = ui.mode
    BY DEF DockerOK, DockerInit
  <2>3. ui' = DockerScroll(u) /\ Quiet
    BY <2>1 DEF DockerMove, Become
  <2> HIDE DEF u
  <2>4. DOMAIN ui' = DOMAIN ui /\ ui'.cursor = ui.cursor /\ ui'.mode = 0
    BY <2>2, <2>3, DockerScrolls
  <2> QED BY <1>0, <2>3, <2>4, DockerQuiet, NothingOrdered DEF DockerOK
<1>2. CASE Become([ui EXCEPT !.panel = "table", !.scroll = 0, !.logLines = "none",
                             !.logLoading = FALSE])
  <2>1. DOMAIN ui' = DOMAIN ui /\ ui'.cursor = ui.cursor /\ ui'.mode = 0 /\ Quiet
    BY <1>2 DEF Become, DockerOK, DockerInit
  <2> QED BY <1>0, <2>1, DockerQuiet, NothingOrdered DEF DockerOK
<1> QED BY <1>1, <1>2 DEF DockerPanel

LEMMA DockerAskKeeps ==
  ASSUME tab = "Docker", DockerOK, AskOK(asked), NEW k, Answering(k), tab' = tab,
         ui.mode = 0, NEW mode \in 1 .. 6, DockerAsk(mode)
  PROVE  DockerOK' /\ AskOK(asked)' /\ CmdStep /\ snap' = snap
<1>0. tab \notin Switching
  BY DEF Switching
<1>1. /\ DOMAIN ui' = DOMAIN ui /\ ui'.cursor = ui.cursor /\ ui'.mode = mode
      /\ ui.cursor < Len(rows) /\ Quiet
  BY DEF DockerAsk, Become, DockerOK, DockerInit
<1>2. Dialog(ui) = 0 /\ Dialog(ui') # 0
  BY <1>1 DEF Dialog
<1>3. asked' = Shown /\ AskOK(asked)'
  BY <1>2, Asking
<1>4. asked'.at = "none" /\ asked'.row = At(rows, ui.cursor)
  BY <1>1, <1>3, PlainShown
<1>5. DockerOK'
  BY <1>1, <1>4 DEF DockerOK, Under, Quiet, rows
<1> QED BY <1>0, <1>1, <1>3, <1>5, NothingOrdered

\* The listings, and their rows.
LEMMA Listed ==
  ASSUME tab \in Tabs, snap.rows \in Listings[tab] \cup {<<>>}
  PROVE  /\ Len(rows) \in Nat
         /\ \A i \in Nat : i < Len(rows) =>
              At(rows, i) \in [id : STRING, tag : IF tab = "Packages" THEN Nat ELSE {0, 1}]
<1> DEFINE R == [id : STRING, tag : IF tab = "Packages" THEN Nat ELSE {0, 1}]
<1>1. Listings[tab] \subseteq Seq(R)
  BY TabAssumption
<1>2. rows \in Seq(R)
  BY <1>1, EmptySeq DEF rows
<1> HIDE DEF R
<1>3. Len(rows) \in Nat
  BY <1>2, LenProperties
<1>4. \A i \in Nat : i < Len(rows) => i + 1 \in 1 .. Len(rows)
  BY <1>3
<1>5. \A i \in Nat : i < Len(rows) => At(rows, i) \in R
  BY <1>2, <1>4, ElementOfSeq DEF At
<1> QED BY <1>3, <1>5 DEF R

LEMMA DockerListKeeps ==
  ASSUME tab = "Docker", DockerOK, AskOK(asked), NEW k, Answering(k), tab' = tab,
         tab \in Tabs, snap.rows \in Listings[tab] \cup {<<>>}, ui.mode = 0, DockerList(k)
  PROVE  DockerOK' /\ AskOK(asked)' /\ CmdStep /\ snap' = snap
<1>0. tab \notin Switching
  BY DEF Switching
<1>1. CASE \/ Become([ui EXCEPT !.cursor = Up(@)])
           \/ Become([ui EXCEPT !.cursor = Down(@, Len(rows))])
  <2>1. /\ DOMAIN ui' = DOMAIN ui /\ ui'.mode = 0 /\ Quiet
        /\ ui'.cursor \in {Up(ui.cursor), Down(ui.cursor, Len(rows))}
    BY <1>1 DEF Become, DockerOK, DockerInit
  <2>2. ui'.cursor \in Nat
    BY <2>1, Cursors DEF DockerOK
  <2> QED BY <1>0, <2>1, <2>2, DockerQuiet, NothingOrdered
<1>2. CASE Become(DockerScroll([ui EXCEPT !.panel = "detail", !.scroll = 0]))
  <2> DEFINE u == [ui EXCEPT !.panel = "detail", !.scroll = 0]
  <2>1. DOMAIN u = DOMAIN ui /\ u.cursor = ui.cursor /\ u.mode = ui.mode
    BY DEF DockerOK, DockerInit
  <2>2. ui' = DockerScroll(u) /\ Quiet
    BY <1>2 DEF Become
  <2> HIDE DEF u
  <2>3. DOMAIN ui' = DOMAIN ui /\ ui'.cursor = ui.cursor /\ ui'.mode = 0
    BY <2>1, <2>2, DockerScrolls
  <2> QED BY <1>0, <2>2, <2>3, DockerQuiet, NothingOrdered DEF DockerOK
<1>3. CASE /\ k = "l" /\ ui.cursor < Len(rows)
           /\ Fetch("logs", At(rows, ui.cursor))
           /\ ui' = [ui EXCEPT !.panel = "logs", !.scroll = 0, !.logLines = "none",
                               !.logLoading = TRUE]
  <2>1. DOMAIN ui' = DOMAIN ui /\ ui'.cursor = ui.cursor /\ ui'.mode = 0
    BY <1>3 DEF DockerOK, DockerInit
  <2>2. Ordered /\ snap' = snap
    BY <1>3, Fetched DEF Fetches
  <2> QED BY <1>0, <2>1, <2>2, DockerQuiet, SomethingOrdered DEF DockerOK
<1>4. CASE k \in DOMAIN DockerKeys /\ DockerAsk(DockerKeys[k])
  <2>1. DockerKeys[k] \in 1 .. 6
    BY <1>4 DEF DockerKeys
  <2> QED BY <1>4, <2>1, DockerAskKeeps
<1>5. CASE k = "p" /\ ui.cursor < Len(rows) /\ DockerAsk(4 + At(rows, ui.cursor).tag)
  <2>1. At(rows, ui.cursor) \in [id : STRING, tag : {0, 1}]
    BY <1>5, Listed DEF DockerOK
  <2>2. 4 + At(rows, ui.cursor).tag \in 1 .. 6
    BY <2>1
  <2> QED BY <1>5, <2>2, DockerAskKeeps
<1> QED BY <1>1, <1>2, <1>3, <1>4, <1>5 DEF DockerList

LEMMA DockerKeyKeeps ==
  ASSUME tab = "Docker", DockerOK, AskOK(asked), NEW k, Answering(k), tab' = tab,
         tab \in Tabs, snap.rows \in Listings[tab] \cup {<<>>}, DockerKey(k)
  PROVE  DockerOK' /\ AskOK(asked)' /\ CmdStep /\ snap' = snap
<1>1. ui.mode > 0 => ui.mode # 0
  BY DEF DockerOK
<1> QED BY <1>1, DockerDialogKeeps, DockerPanelKeeps, DockerListKeeps DEF DockerKey
-----------------------------------------------------------------------------
(* The services tab keeps the unit its dialog was opened on.               *)

ServicesOK ==
  /\ DOMAIN ui = DOMAIN ServicesInit
  /\ ui.cursor \in Nat
  /\ ui.mode \in 0 .. 6
  /\ ui.mode # 0 => asked.at = "none" /\ asked.row = ui.actionUnit

LEMMA ServicesQuiet ==
  ASSUME tab = "Services", ServicesOK, AskOK(asked), NEW k, Answering(k), tab' = tab,
         DOMAIN ui' = DOMAIN ui, ui'.cursor \in Nat, ui'.mode = 0
  PROVE  ServicesOK' /\ AskOK(asked)'
<1>1. Dialog(ui') = 0
  BY DEF Dialog
<1> QED BY <1>1, Asking DEF ServicesOK

LEMMA ServicesDialogKeeps ==
  ASSUME tab = "Services", ServicesOK, AskOK(asked), NEW k, Answering(k), tab' = tab,
         ui.mode # 0, ServicesDialog(k)
  PROVE  ServicesOK' /\ AskOK(asked)' /\ CmdStep /\ snap' = snap
<1>0. tab \notin Switching
  BY DEF Switching
<1>1. DOMAIN ui' = DOMAIN ui /\ ui'.cursor = ui.cursor /\ ui'.mode = 0
  BY DEF ServicesDialog, ServicesConfirm, Become, ServicesOK, ServicesInit
<1>2. ServicesOK' /\ AskOK(asked)'
  BY <1>1, ServicesQuiet DEF ServicesOK
<1>3. CASE Quiet
  BY <1>0, <1>2, <1>3, NothingOrdered
<1>4. CASE Start(UnitOp[ui.mode], ui.actionUnit)
  <2>1. PICK op, row : op = UnitOp[ui.mode] /\ row = ui.actionUnit
    OBVIOUS
  <2>2. ui.mode \in 1 .. 6
    BY DEF ServicesOK
  <2>3. op \in {"start", "stop", "restart", "enable", "disable", "mask"}
    BY <2>1, <2>2 DEF UnitOp
  <2>4. TextAsAsked(op, row, <<>>, asked)
    BY <2>3 DEF TextAsAsked
  <2>5. RowAsAsked(row, asked) /\ asked.at = Where(row)
    BY <2>1 DEF RowAsAsked, ServicesOK, Where, Switching
  <2>6. Ordered /\ snap' = snap
    BY <1>4, <2>1, <2>4, <2>5, Starts
  <2> QED BY <1>0, <1>2, <2>6, SomethingOrdered
<1> QED BY <1>3, <1>4 DEF ServicesDialog, ServicesConfirm, Become

LEMMA UnitAskKeeps ==
  ASSUME tab = "Services", ServicesOK, AskOK(asked), NEW k, Answering(k), tab' = tab,
         ui.mode = 0, NEW mode \in 1 .. 6, UnitAsk(mode)
  PROVE  ServicesOK' /\ AskOK(asked)' /\ CmdStep /\ snap' = snap
<1>0. tab \notin Switching
  BY DEF Switching
<1>1. /\ DOMAIN ui' = DOMAIN ui /\ ui'.cursor = ui.cursor /\ ui'.mode = mode
      /\ ui'.actionUnit = At(Units, ui.cursor) /\ ui.cursor < Len(Units) /\ Quiet
  BY DEF UnitAsk, Become, ServicesOK, ServicesInit
<1>2. Dialog(ui) = 0 /\ Dialog(ui') # 0
  BY <1>1 DEF Dialog
<1>3. asked' = Shown /\ AskOK(asked)'
  BY <1>2, Asking
<1>4. asked'.at = "none" /\ asked'.row = At(Units, ui.cursor)
  BY <1>1, <1>3, PlainShown
<1>5. ServicesOK'
  BY <1>1, <1>4 DEF ServicesOK
<1> QED BY <1>0, <1>1, <1>3, <1>5, NothingOrdered

UnitAsked == \E mode \in 1 .. 6 : UnitAsk(mode)

UnitsFiltered ==
  \/ \E f : Become([ui EXCEPT !.filterMode = f])
  \/ \E f : Become([ui EXCEPT !.filter = f])
  \/ \E f : Become([ui EXCEPT !.unitFilter = f])
  \/ \E f : Become([ui EXCEPT !.detail = f])

LEMMA ServicesListKeeps ==
  ASSUME tab = "Services", ServicesOK, AskOK(asked), NEW k, Answering(k), tab' = tab,
         ui.mode = 0, ServicesFilter(k) \/ ServicesList(k)
  PROVE  ServicesOK' /\ AskOK(asked)' /\ CmdStep /\ snap' = snap
<1>0. tab \notin Switching
  BY DEF Switching
<1>1. CASE ServicesFilter(k)
  <2>1. DOMAIN ui' = DOMAIN ui /\ ui'.cursor = ui.cursor /\ ui'.mode = 0 /\ Quiet
    BY <1>1 DEF ServicesFilter, Become, ServicesOK, ServicesInit
  <2> QED BY <1>0, <2>1, ServicesQuiet, NothingOrdered DEF ServicesOK
<1>2. CASE \E mode \in 1 .. 6 : UnitAsk(mode)
  BY <1>2, UnitAskKeeps
<1>3. CASE k = "tab" /\ ServicesList(k)
  <2> DEFINE u == [ui EXCEPT !.panel = (@ + 1) % 3, !.cursor = 0]
  <2>1. DOMAIN u = DOMAIN ui /\ u.cursor = 0 /\ u.mode = 0
    BY DEF ServicesOK, ServicesInit
  <2>2. ui' = u /\ (Fetch("logs", ui.selectedUnit) \/ Quiet)
    <3>1. u.selectedUnit = ui.selectedUnit
      BY DEF ServicesOK, ServicesInit
    <3> QED BY <1>3, <3>1 DEF ServicesList, Become, UnitKey, UnitAsk
  <2> HIDE DEF u
  <2>3. ServicesOK' /\ AskOK(asked)'
    BY <2>1, <2>2, ServicesQuiet
  <2>4. Fetch("logs", ui.selectedUnit) => Ordered /\ snap' = snap
    BY Fetched DEF Fetches
  <2> QED BY <1>0, <2>2, <2>3, <2>4, NothingOrdered, SomethingOrdered
<1>4. CASE /\ Fetch("logs", At(Units, ui.cursor))
           /\ ui' = [ui EXCEPT !.panel = 2, !.selectedUnit = At(Units, ui.cursor)]
  <2>1. DOMAIN ui' = DOMAIN ui /\ ui'.cursor = ui.cursor /\ ui'.mode = 0
    BY <1>4 DEF ServicesOK, ServicesInit
  <2>2. Ordered /\ snap' = snap
    BY <1>4, Fetched DEF Fetches
  <2> QED BY <1>0, <2>1, <2>2, ServicesQuiet, SomethingOrdered DEF ServicesOK
<1>5. CASE \/ Become([ui EXCEPT !.cursor = Up(@)])
           \/ Become([ui EXCEPT !.cursor = Down(@, Len(Units))])
           \/ \E f : Become([ui EXCEPT !.filterMode = f])
           \/ \E f : Become([ui EXCEPT !.filter = f])
           \/ \E f : Become([ui EXCEPT !.unitFilter = f])
           \/ \E f : Become([ui EXCEPT !.detail = f])
  <2>1. /\ DOMAIN ui' = DOMAIN ui /\ ui'.mode = 0 /\ Quiet
        /\ ui'.cursor \in {ui.cursor, Up(ui.cursor), Down(ui.cursor, Len(Units))}
    BY <1>5 DEF Become, ServicesOK, ServicesInit
  <2>2. ui'.cursor \in Nat
    BY <2>1, Cursors DEF ServicesOK
  <2> QED BY <1>0, <2>1, <2>2, ServicesQuiet, NothingOrdered
<1>6. CASE UnitAsked \/ UnitsFiltered
  BY <1>2, <1>5, <1>6 DEF UnitAsked, UnitsFiltered
<1>7. k # "tab" /\ ServicesList(k) =>
        \/ UnitAsked \/ UnitsFiltered
        \/ /\ Fetch("logs", At(Units, ui.cursor))
           /\ ui' = [ui EXCEPT !.panel = 2, !.selectedUnit = At(Units, ui.cursor)]
        \/ Become([ui EXCEPT !.cursor = Up(@)])
        \/ Become([ui EXCEPT !.cursor = Down(@, Len(Units))])
  <2> SUFFICES ASSUME k # "tab", ServicesList(k), ~UnitAsked, ~UnitsFiltered
               PROVE  \/ /\ Fetch("logs", At(Units, ui.cursor))
                         /\ ui' = [ui EXCEPT !.panel = 2, !.selectedUnit = At(Units, ui.cursor)]
                      \/ Become([ui EXCEPT !.cursor = Up(@)])
                      \/ Become([ui EXCEPT !.cursor = Down(@, Len(Units))])
    OBVIOUS
  <2>1. ~(k \in DOMAIN UnitKey /\ UnitAsk(UnitKey[k]))
    BY DEF UnitAsked, UnitKey
  <2>2. ~ServicesR
    <3>1. ~UnitAsk(3)
      BY DEF UnitAsked
    <3>2. ~Become([ui EXCEPT !.unitFilter = "running"])
      BY DEF UnitsFiltered
    <3> QED BY <3>1, <3>2 DEF ServicesR
  <2>3. /\ ~Become([ui EXCEPT !.filterMode = TRUE]) /\ ~Become([ui EXCEPT !.filter = 0])
        /\ ~Become([ui EXCEPT !.unitFilter = IF k = "a" THEN "all" ELSE "failed"])
        /\ ~Become([ui EXCEPT !.detail = TRUE])
    BY DEF UnitsFiltered
  <2> QED BY <2>1, <2>2, <2>3 DEF ServicesList
<1> QED BY <1>1, <1>3, <1>4, <1>5, <1>6, <1>7

LEMMA ServicesKeyKeeps ==
  ASSUME tab = "Services", ServicesOK, AskOK(asked), NEW k, Answering(k), tab' = tab,
         ServicesKey(k)
  PROVE  ServicesOK' /\ AskOK(asked)' /\ CmdStep /\ snap' = snap
<1>1. ui.mode > 0 => ui.mode # 0
  BY DEF ServicesOK
<1>2. CASE ui.mode > 0 /\ ServicesDialog(k)
  BY <1>1, <1>2, ServicesDialogKeeps
<1>3. CASE ui.mode = 0 /\ Become([ui EXCEPT !.detail = FALSE])
  <2>1. DOMAIN ui' = DOMAIN ui /\ ui'.cursor = ui.cursor /\ ui'.mode = 0 /\ Quiet
    BY <1>3 DEF Become, ServicesOK, ServicesInit
  <2>2. tab \notin Switching
    BY DEF Switching
  <2> QED BY <2>1, <2>2, ServicesQuiet, NothingOrdered DEF ServicesOK
<1>4. CASE ui.mode = 0 /\ (ServicesFilter(k) \/ ServicesList(k))
  BY <1>4, ServicesListKeeps
<1> QED BY <1>2, <1>3, <1>4 DEF ServicesKey
-----------------------------------------------------------------------------
(* The packages tab keeps the package its dialog was opened on; its backend *)
(* may be switched while no dialog is open.                                *)

PackagesOK ==
  /\ DOMAIN ui = DOMAIN PackagesInit
  /\ ui.cursor \in Nat
  /\ ui.mode \in 0 .. 3
  /\ ui.mode # 0 => asked.at = At(Engines, ui.active) \/ asked.switched
  /\ ui.mode \in {1, 2} => asked.row = ui.opTarget
  /\ ui.mode = 3 => asked.typed = ui.opInput

\* A listing a tab may have come by.
NewListing == snap' = snap \/ snap'.rows \in Listings[tab]

LEMMA SwitchingShown ==
  ASSUME tab \in Switching
  PROVE  /\ Shown.at = At(Engines, ui.active) \/ Shown.switched
         /\ Shown.typed = <<>>
         /\ tab = "Packages" /\ ui.panel = 0 /\ ui.cursor < Len(Installed) =>
              Shown.row = At(Installed, ui.cursor)
         /\ tab = "Packages" /\ ui.panel = 1 /\ ui.cursor < Len(Found) =>
              Shown.row = At(Found, ui.cursor)
         /\ tab = "Firewall" /\ ui.cursor < Len(rows) => Shown.row = At(rows, ui.cursor)
<1>1. (Shown.at = At(Engines, ui.active) \/ Shown.switched) /\ Shown.typed = <<>>
  BY DEF Shown
<1>2. Shown.row = View(CHOOSE h \in Heights : TRUE).row
  BY DEF Shown
<1>3. tab = "Packages" /\ ui.panel = 0 /\ ui.cursor < Len(Installed) =>
        Shown.row = At(Installed, ui.cursor)
  BY <1>2 DEF View, PackagesView
<1>4. tab = "Packages" /\ ui.panel = 1 /\ ui.cursor < Len(Found) =>
        Shown.row = At(Found, ui.cursor)
  BY <1>2 DEF View, PackagesView
<1>5. tab = "Firewall" /\ ui.cursor < Len(rows) => Shown.row = At(rows, ui.cursor)
  BY <1>2 DEF View, FirewallView
<1> QED BY <1>1, <1>3, <1>4, <1>5

LEMMA PackagesQuiet ==
  ASSUME tab = "Packages", PackagesOK, AskOK(asked), NEW k, Answering(k), tab' = tab,
         DOMAIN ui' = DOMAIN ui, ui'.cursor \in Nat, ui'.mode = 0
  PROVE  PackagesOK' /\ AskOK(asked)'
<1>1. Dialog(ui') = 0
  BY DEF Dialog
<1> QED BY <1>1, Asking DEF PackagesOK

\* The operation of the open dialog.
LEMMA PackagesStarts ==
  ASSUME tab = "Packages", PackagesOK, AskOK(asked), ui.mode # 0,
         NEW op \in {"upgrade", "install", "remove"}, NEW row, Start(op, row),
         op = "upgrade" => ui.mode = 3 /\ ui.opInput = Phrase /\ row = NoRow,
         op # "upgrade" => ui.mode \in {1, 2} /\ row = ui.opTarget
  PROVE  Ordered /\ snap' = snap
<1>1. asked.at = Where(row) \/ asked.switched
  BY DEF PackagesOK, Where, Switching
<1>2. RowAsAsked(row, asked)
  BY DEF PackagesOK, RowAsAsked
<1>3. TextAsAsked(op, row, <<>>, asked)
  BY DEF PackagesOK, TextAsAsked
<1> QED BY <1>1, <1>2, <1>3, Starts

LEMMA PackagesDialogKeeps ==
  ASSUME tab = "Packages", PackagesOK, AskOK(asked), NEW k, Answering(k), tab' = tab,
         ui.mode # 0, PackagesDialog(k)
  PROVE  PackagesOK' /\ AskOK(asked)' /\ CmdStep /\ snap' = snap
<1>1. CASE PackagesConfirm \/ Become([ui EXCEPT !.mode = 0, !.opInput = <<>>, !.opTarget = NoRow])
  <2>1. /\ DOMAIN ui' = DOMAIN ui /\ ui'.cursor = ui.cursor /\ ui'.mode = 0
        /\ ui'.active = ui.active
    BY <1>1 DEF PackagesConfirm, Become, PackagesOK, PackagesInit
  <2>2. PackagesOK' /\ AskOK(asked)'
    BY <2>1, PackagesQuiet DEF PackagesOK
  <2>3. SameEngine
    BY <2>1 DEF SameEngine
  <2>4. CASE Quiet
    BY <2>2, <2>3, <2>4 DEF Quiet, CmdStep
  <2>5. CASE ui.mode = 3 /\ ui.opInput = Phrase /\ Start("upgrade", NoRow)
    <3>1. Ordered /\ snap' = snap
      BY <2>5, PackagesStarts
    <3> QED BY <2>2, <2>3, <3>1 DEF CmdStep
  <2>6. CASE /\ ui.mode \in {1, 2}
             /\ Start(IF ui.mode = 1 THEN "install" ELSE "remove", ui.opTarget)
    <3>1. PICK op : op = IF ui.mode = 1 THEN "install" ELSE "remove"
      OBVIOUS
    <3>2. op \in {"install", "remove"} /\ op # "upgrade" /\ Start(op, ui.opTarget)
      BY <2>6, <3>1
    <3>3. Ordered /\ snap' = snap
      BY <2>6, <3>2, PackagesStarts
    <3> QED BY <2>2, <2>3, <3>3 DEF CmdStep
  <2> QED BY <1>1, <2>4, <2>5, <2>6 DEF PackagesConfirm, Become
<1>2. CASE k \in Chars /\ ui.mode = 3 /\ Become([ui EXCEPT !.opInput = Typed(@, k)])
  <2>1. /\ DOMAIN ui' = DOMAIN ui /\ ui'.cursor = ui.cursor /\ ui'.mode = 3
        /\ ui'.active = ui.active /\ ui'.opInput = Answered(ui.opInput, k)
    BY <1>2 DEF Become, PackagesOK, PackagesInit, Answered, Chars
  <2>2. Dialog(ui) = 3 /\ Dialog(ui') = 3
    BY <1>2, <2>1 DEF Dialog
  <2>3. PackagesOK' /\ AskOK(asked)'
    BY <1>2, <2>1, <2>2, Asking DEF PackagesOK, At
  <2> QED BY <1>2, <2>1, <2>3 DEF Become, Quiet, CmdStep, SameEngine
<1> QED BY <1>1, <1>2 DEF PackagesDialog

LEMMA PackagesAsks ==
  ASSUME tab = "Packages", PackagesOK, AskOK(asked), NEW k, Answering(k), tab' = tab,
         ui.mode = 0, DOMAIN ui' = DOMAIN ui, ui'.cursor = ui.cursor, ui'.active = ui.active,
         ui'.mode \in 1 .. 3,
         ui'.mode \in {1, 2} => Shown.row = ui'.opTarget,
         ui'.mode = 3 => ui'.opInput = <<>>
  PROVE  PackagesOK' /\ AskOK(asked)'
<1>1. Dialog(ui) = 0 /\ Dialog(ui') # 0
  BY DEF Dialog
<1>2. asked' = Shown /\ AskOK(asked)'
  BY <1>1, Asking
<1>3. tab \in Switching
  BY DEF Switching
<1>4. (asked'.at = At(Engines, ui.active) \/ asked'.switched) /\ asked'.typed = <<>>
  BY <1>2, <1>3, SwitchingShown
<1> QED BY <1>2, <1>4 DEF PackagesOK, At

\* b.
LEMMA SwitchBackendKeeps ==
  ASSUME tab = "Packages", PackagesOK, AskOK(asked), NEW k, Answering(k), tab' = tab,
         ui.mode = 0, SwitchBackend
  PROVE  PackagesOK' /\ AskOK(asked)' /\ CmdStep /\ NewListing
<1> DEFINE u == [ui EXCEPT !.active = (@ + 1) % Len(Engines), !.cursor = 0]
<1>1. DOMAIN u = DOMAIN ui /\ u.cursor = 0 /\ u.mode = 0 /\ u.searchQuery = ui.searchQuery
  BY DEF PackagesOK, PackagesInit
<1>2. /\ ui' = u \/ ui' = [u EXCEPT !.searchLoading = TRUE]
      /\ cmds' = Switched \/ Searched
  BY DEF SwitchBackend, Searched
<1>3. NewListing
  <2>1. ASSUME NEW l \in Listings[tab], NEW e, snap' = [rows |-> l, engine |-> e]
        PROVE  snap'.rows \in Listings[tab]
    BY <2>1
  <2> QED BY <2>1 DEF SwitchBackend, NewListing
<1> HIDE DEF u
<1>4. DOMAIN ui' = DOMAIN ui /\ ui'.cursor = 0 /\ ui'.mode = 0
  BY <1>1, <1>2 DEF PackagesOK, PackagesInit
<1>5. PackagesOK' /\ AskOK(asked)'
  BY <1>4, PackagesQuiet
<1> QED BY <1>2, <1>3, <1>5 DEF CmdStep, Switching

\* The keys of the lists that only move about.
PackagesMoves ==
  \/ \E p : Become([ui EXCEPT !.panel = p, !.cursor = 0])
  \/ \E c : Become([ui EXCEPT !.catFilterIdx = c, !.cursor = 0])
  \/ Become([ui EXCEPT !.cursor = Up(@)])
  \/ Become([ui EXCEPT !.cursor = Down(@, PackagesMax)])
  \/ \E f : Become([ui EXCEPT !.filterMode = f])
  \/ \E f : Become([ui EXCEPT !.filter = f])
  \/ Become([ui EXCEPT !.filterMode = TRUE, !.filter = 0])

LEMMA PackagesMovesKeeps ==
  ASSUME tab = "Packages", PackagesOK, AskOK(asked), NEW k, Answering(k), tab' = tab,
         ui.mode = 0, PackagesMoves
  PROVE  PackagesOK' /\ AskOK(asked)' /\ CmdStep /\ snap' = snap
<1>1. /\ DOMAIN ui' = DOMAIN ui /\ ui'.mode = 0 /\ Quiet /\ ui'.active = ui.active
      /\ ui'.cursor \in {0, ui.cursor, Up(ui.cursor), Down(ui.cursor, PackagesMax)}
  BY DEF PackagesMoves, Become, PackagesOK, PackagesInit
<1>2. ui'.cursor \in Nat
  BY <1>1, Cursors DEF PackagesOK
<1> QED BY <1>1, <1>2, PackagesQuiet DEF Quiet, CmdStep, SameEngine

LEMMA PackagesFilterKeeps ==
  ASSUME tab = "Packages", PackagesOK, AskOK(asked), NEW k, Answering(k), tab' = tab,
         ui.mode = 0, PackagesFilter(k)
  PROVE  PackagesOK' /\ AskOK(asked)' /\ CmdStep /\ snap' = snap
<1>1. CASE PackagesMoves
  BY <1>1, PackagesMovesKeeps
<1>2. CASE Search([ui EXCEPT !.filterMode = FALSE, !.searchQuery = ui.filter])
  <2> DEFINE u == [ui EXCEPT !.filterMode = FALSE, !.searchQuery = ui.filter]
  <2>1. DOMAIN u = DOMAIN ui /\ u.cursor = ui.cursor /\ u.mode = 0 /\ u.active = ui.active
    BY DEF PackagesOK, PackagesInit
  <2>2. ui' = [u EXCEPT !.searchLoading = TRUE] /\ Fetch("search", NoRow)
    BY <1>2 DEF Search
  <2> HIDE DEF u
  <2>3. /\ DOMAIN ui' = DOMAIN ui /\ ui'.cursor = ui.cursor /\ ui'.mode = 0
        /\ ui'.active = ui.active
    BY <2>1, <2>2 DEF PackagesOK, PackagesInit
  <2>4. Ordered /\ snap' = snap
    BY <2>2, Fetched DEF Fetches
  <2> QED BY <2>3, <2>4, PackagesQuiet DEF PackagesOK, CmdStep, SameEngine
<1>3. PackagesFilter(k) /\ ~PackagesMoves =>
        Search([ui EXCEPT !.filterMode = FALSE, !.searchQuery = ui.filter])
  <2>1. ~PackagesMoves => /\ ~Become([ui EXCEPT !.filterMode = FALSE])
                          /\ ~Become([ui EXCEPT !.filter = Up(@)])
                          /\ ~Become([ui EXCEPT !.filter = More(@)])
    BY DEF PackagesMoves
  <2> QED BY <2>1 DEF PackagesFilter
<1> QED BY <1>1, <1>2, <1>3

LEMMA PackagesListKeeps ==
  ASSUME tab = "Packages", PackagesOK, AskOK(asked), NEW k, Answering(k), tab' = tab,
         ui.mode = 0, PackagesList(k)
  PROVE  PackagesOK' /\ AskOK(asked)' /\ CmdStep /\ NewListing
<1>0. tab \in Switching
  BY DEF Switching
<1>1. CASE PackagesMoves
  BY <1>1, PackagesMovesKeeps DEF NewListing
<1>2. CASE SwitchBackend
  BY <1>2, SwitchBackendKeeps
<1>3. CASE /\ ui.panel = 0 /\ ui.cursor < Len(Installed)
           /\ Become([ui EXCEPT !.mode = 2, !.opTarget = At(Installed, ui.cursor)])
  <2>1. /\ DOMAIN ui' = DOMAIN ui /\ ui'.cursor = ui.cursor /\ ui'.active = ui.active
        /\ ui'.mode = 2 /\ ui'.opTarget = At(Installed, ui.cursor) /\ Quiet
    BY <1>3 DEF Become, PackagesOK, PackagesInit
  <2>2. Shown.row = ui'.opTarget
    BY <1>0, <1>3, <2>1, SwitchingShown
  <2> QED BY <2>1, <2>2, PackagesAsks DEF Quiet, CmdStep, SameEngine, NewListing
<1>4. CASE /\ ui.panel = 1 /\ ui.cursor < Len(Found)
           /\ Become([ui EXCEPT !.mode = 1, !.opTarget = At(Found, ui.cursor)])
  <2>1. /\ DOMAIN ui' = DOMAIN ui /\ ui'.cursor = ui.cursor /\ ui'.active = ui.active
        /\ ui'.mode = 1 /\ ui'.opTarget = At(Found, ui.cursor) /\ Quiet
    BY <1>4 DEF Become, PackagesOK, PackagesInit
  <2>2. Shown.row = ui'.opTarget
    BY <1>0, <1>4, <2>1, SwitchingShown
  <2> QED BY <2>1, <2>2, PackagesAsks DEF Quiet, CmdStep, SameEngine, NewListing
<1>5. CASE Become([ui EXCEPT !.mode = 3, !.opInput = <<>>])
  <2>1. /\ DOMAIN ui' = DOMAIN ui /\ ui'.cursor = ui.cursor /\ ui'.active = ui.active
        /\ ui'.mode = 3 /\ ui'.opInput = <<>> /\ Quiet
    BY <1>5 DEF Become, PackagesOK, PackagesInit
  <2> QED BY <2>1, PackagesAsks DEF Quiet, CmdStep, SameEngine, NewListing
<1>6. ASSUME ~PackagesMoves
      PROVE  \/ SwitchBackend
             \/ /\ ui.panel = 0 /\ ui.cursor < Len(Installed)
                /\ Become([ui EXCEPT !.mode = 2, !.opTarget = At(Installed, ui.cursor)])
             \/ /\ ui.panel = 1 /\ ui.cursor < Len(Found)
                /\ Become([ui EXCEPT !.mode = 1, !.opTarget = At(Found, ui.cursor)])
             \/ Become([ui EXCEPT !.mode = 3, !.opInput = <<>>])
  <2>1. /\ ~Become([ui EXCEPT !.panel = (@ + 1) % 3, !.cursor = 0])
        /\ ~Become([ui EXCEPT !.cursor = Up(@)])
        /\ ~Become([ui EXCEPT !.cursor = Down(@, PackagesMax)])
        /\ ~Become([ui EXCEPT !.catFilterIdx = (@ + 1) % Categories, !.cursor = 0])
        /\ ~Become([ui EXCEPT !.filterMode = TRUE, !.filter = 0])
    BY <1>6 DEF PackagesMoves
  <2> QED BY <2>1 DEF PackagesList
<1> QED BY <1>1, <1>2, <1>3, <1>4, <1>5, <1>6

LEMMA PackagesKeyKeeps ==
  ASSUME tab = "Packages", PackagesOK, AskOK(asked), NEW k, Answering(k), tab' = tab,
         PackagesKey(k)
  PROVE  PackagesOK' /\ AskOK(asked)' /\ CmdStep /\ NewListing
<1>1. CASE k \in {"esc", "enter", "q"} /\ Become([ui EXCEPT !.lastOp = FALSE])
  <2>1. /\ DOMAIN ui' = DOMAIN ui /\ ui'.cursor = ui.cursor /\ ui'.active = ui.active
        /\ ui'.mode = ui.mode /\ ui'.opTarget = ui.opTarget /\ ui'.opInput = ui.opInput
        /\ Quiet
    BY <1>1 DEF Become, PackagesOK, PackagesInit
  <2>2. Dialog(ui) = ui.mode /\ Dialog(ui') = ui.mode
    BY <2>1 DEF Dialog
  <2>3. Answered(asked.typed, k) = asked.typed
    BY <1>1 DEF Answered, Chars
  <2>4. CASE ui.mode = 0
    BY <2>1, <2>4, PackagesQuiet DEF PackagesOK, Quiet, CmdStep, SameEngine, NewListing
  <2>5. CASE ui.mode # 0
    <3>1. /\ AskOK(asked)' /\ asked'.row = asked.row /\ asked'.at = asked.at
          /\ asked'.moved = asked.moved /\ asked'.switched = asked.switched
          /\ asked'.typed = asked.typed
      BY <2>2, <2>3, <2>5, Asking
    <3>2. PackagesOK'
      BY <2>1, <3>1 DEF PackagesOK, At
    <3> QED BY <2>1, <3>1, <3>2 DEF Quiet, CmdStep, SameEngine, NewListing
  <2> QED BY <2>4, <2>5
<1>2. CASE ui.mode > 0 /\ PackagesDialog(k)
  <2>1. ui.mode # 0
    BY <1>2
  <2> QED BY <1>2, <2>1, PackagesDialogKeeps DEF NewListing
<1>3. CASE ui.mode = 0 /\ PackagesFilter(k)
  BY <1>3, PackagesFilterKeeps DEF NewListing
<1>4. CASE ui.mode = 0 /\ PackagesList(k)
  BY <1>4, PackagesListKeeps
<1> QED BY <1>1, <1>2, <1>3, <1>4 DEF PackagesKey
-----------------------------------------------------------------------------
(* The firewall tab: a form for a new rule, which a jump from another tab   *)
(* may open over the question about a rule, and the engines b goes through. *)

FirewallOK ==
  /\ DOMAIN ui = DOMAIN FirewallInit
  /\ ui.cursor \in Nat
  /\ ui.mode \in {0, 1}
  /\ ui.add \in BOOLEAN
  /\ ui.add = TRUE \/ ui.mode = 1 => asked.at = At(Engines, ui.active) \/ asked.switched
  /\ ui.mode = 1 => Under(rows)
  /\ ui.add = TRUE => asked.typed = ui.addPort
  /\ ui.add = FALSE => ui.addPort = <<>>

LEMMA FirewallDialog ==
  ASSUME tab = "Firewall"
  PROVE  /\ ui.add = TRUE => Dialog(ui) = 9
         /\ ui.add = FALSE => Dialog(ui) = ui.mode
         /\ ui'.add = TRUE => Dialog(ui') = 9
         /\ ui'.add = FALSE => Dialog(ui') = ui'.mode
BY DEF Dialog

LEMMA FirewallQuiet ==
  ASSUME tab = "Firewall", FirewallOK, AskOK(asked), NEW k, Answering(k), tab' = tab,
         DOMAIN ui' = DOMAIN ui, ui'.cursor \in Nat, ui'.mode = 0, ui'.add = FALSE,
         ui'.addPort = <<>>
  PROVE  FirewallOK' /\ AskOK(asked)'
<1>1. Dialog(ui') = 0
  BY FirewallDialog
<1>2. AskOK(asked)'
  BY <1>1, Asking
<1>3. ui'.add \in BOOLEAN
  OBVIOUS
<1>4. ui'.mode \in {0, 1} /\ ui'.mode # 1
  OBVIOUS
<1>5. ui'.add # TRUE
  OBVIOUS
<1> QED BY <1>2, <1>3, <1>4, <1>5 DEF FirewallOK

\* A step of the open form, which may leave it.
LEMMA WizardStep ==
  ASSUME tab = "Firewall", FirewallOK, AskOK(asked), NEW k, Answering(k), tab' = tab,
         snap' = snap, ui.add, DOMAIN ui' = DOMAIN ui, ui'.cursor = ui.cursor,
         ui'.active = ui.active, ui'.mode = ui.mode,
         \/ ui'.add = FALSE /\ ui'.addPort = <<>>
         \/ ui'.add = TRUE /\ ui'.addPort = Answered(ui.addPort, k)
  PROVE  FirewallOK' /\ AskOK(asked)'
<1>1. ui.add = TRUE /\ Dialog(ui) = 9
  <2>1. ui.add = TRUE
    BY DEF FirewallOK
  <2> QED BY <2>1, FirewallDialog
<1>2. /\ ui'.add = TRUE => Dialog(ui') = 9
      /\ ui'.add = FALSE => Dialog(ui') = ui.mode
  BY FirewallDialog
<1>3. CASE Dialog(ui') = 0
  <2>1. ui'.add = FALSE /\ ui'.addPort = <<>> /\ ui'.mode = 0
    BY <1>2, <1>3
  <2>2. ui'.cursor \in Nat
    BY DEF FirewallOK
  <2> QED BY <2>1, <2>2, FirewallQuiet
<1>4. CASE Dialog(ui') # 0
  <2>1. /\ AskOK(asked)' /\ asked'.row = asked.row /\ asked'.at = asked.at
        /\ asked'.moved = asked.moved /\ asked'.switched = asked.switched
        /\ ui'.add = TRUE => asked'.typed = Answered(asked.typed, k)
    BY <1>1, <1>2, <1>4, Asking
  <2> QED BY <1>1, <2>1 DEF FirewallOK, Under, At, rows
<1> QED BY <1>3, <1>4

LEMMA RuleWizardKeeps ==
  ASSUME tab = "Firewall", FirewallOK, AskOK(asked), NEW k, Answering(k), tab' = tab,
         ui.add, RuleWizard(k)
  PROVE  FirewallOK' /\ AskOK(asked)' /\ CmdStep /\ snap' = snap
<1>1. CASE FinishRule
  <2>1. /\ DOMAIN ui' = DOMAIN ui /\ ui'.cursor = ui.cursor /\ ui'.active = ui.active
        /\ ui'.mode = ui.mode /\ ui'.add = FALSE /\ ui'.addPort = <<>>
    BY <1>1 DEF FinishRule, FirewallOK, FirewallInit
  <2>2. Order("add rule", NoRow, ui.addPort, asked)
    BY <1>1 DEF FinishRule
  <2>3. Meant("add rule", NoRow, ui.addPort, asked)
    BY DEF FirewallOK, Meant, TextAsAsked, RowAsAsked, Where, Switching
  <2>4. Ordered /\ snap' = snap
    BY <2>2, <2>3 DEF Ordered, Order
  <2> QED BY <2>1, <2>4, WizardStep DEF CmdStep, SameEngine
<1>2. CASE Become([ui EXCEPT !.add = FALSE, !.addPort = <<>>])
  <2>1. /\ DOMAIN ui' = DOMAIN ui /\ ui'.cursor = ui.cursor /\ ui'.active = ui.active
        /\ ui'.mode = ui.mode /\ ui'.add = FALSE /\ ui'.addPort = <<>> /\ Quiet
    BY <1>2 DEF Become, FirewallOK, FirewallInit
  <2> QED BY <2>1, WizardStep DEF Quiet, CmdStep, SameEngine
<1>3. CASE \/ k = "enter" /\ Become([ui EXCEPT !.addStep = @ + 1])
           \/ k = "backspace" /\ Become([ui EXCEPT !.addPort = Erased(@)])
           \/ k \in Chars /\ Become([ui EXCEPT !.addPort = Typed(@, k)])
  <2>1. /\ DOMAIN ui' = DOMAIN ui /\ ui'.cursor = ui.cursor /\ ui'.active = ui.active
        /\ ui'.mode = ui.mode /\ ui'.add = ui.add /\ ui'.addPort = Answered(ui.addPort, k)
        /\ Quiet
    BY <1>3 DEF Become, FirewallOK, FirewallInit, Answered, Chars
  <2>2. ui'.add = TRUE
    BY <2>1 DEF FirewallOK
  <2> QED BY <2>1, <2>2, WizardStep DEF Quiet, CmdStep, SameEngine
<1> QED BY <1>1, <1>2, <1>3 DEF RuleWizard

LEMMA RuleDialogKeeps ==
  ASSUME tab = "Firewall", FirewallOK, AskOK(asked), NEW k, Answering(k), tab' = tab,
         ~ui.add, ui.mode = 1, RuleDialog(k)
  PROVE  FirewallOK' /\ AskOK(asked)' /\ CmdStep /\ snap' = snap
<1>1. /\ DOMAIN ui' = DOMAIN ui /\ ui'.cursor = ui.cursor /\ ui'.active = ui.active
      /\ ui'.mode = 0 /\ ui'.add = FALSE /\ ui'.addPort = <<>>
  BY DEF RuleDialog, Become, FirewallOK, FirewallInit
<1>2. FirewallOK' /\ AskOK(asked)'
  BY <1>1, FirewallQuiet DEF FirewallOK
<1>3. CASE Quiet
  BY <1>1, <1>2, <1>3 DEF Quiet, CmdStep, SameEngine
<1>4. CASE ui.cursor < Len(rows) /\ Start("delete rule", At(rows, ui.cursor))
  <2>1. PICK row : row = At(rows, ui.cursor)
    OBVIOUS
  <2>2. TextAsAsked("delete rule", row, <<>>, asked)
    BY DEF TextAsAsked
  <2>3. RowAsAsked(row, asked) /\ (asked.at = Where(row) \/ asked.switched)
    BY <2>1 DEF RowAsAsked, FirewallOK, Under, Latching, Where, Switching
  <2>4. Ordered /\ snap' = snap
    BY <1>4, <2>1, <2>2, <2>3, Starts
  <2> QED BY <1>1, <1>2, <2>4 DEF CmdStep, SameEngine
<1> QED BY <1>3, <1>4 DEF RuleDialog, Become

LEMMA RuleListKeeps ==
  ASSUME tab = "Firewall", FirewallOK, AskOK(asked), NEW k, Answering(k), tab' = tab,
         ~ui.add, ui.mode = 0, RuleList(k)
  PROVE  FirewallOK' /\ AskOK(asked)' /\ CmdStep /\ NewListing
<1>0. tab \in Switching
  BY DEF Switching
<1>1. CASE \/ Become([ui EXCEPT !.panel = (@ + 1) % 2, !.cursor = 0])
           \/ Become([ui EXCEPT !.cursor = Up(@)])
           \/ Become([ui EXCEPT !.cursor = Down(@, FirewallMax)])
  <2>1. /\ DOMAIN ui' = DOMAIN ui /\ ui'.mode = 0 /\ ui'.add = FALSE /\ ui'.addPort = <<>>
        /\ ui'.active = ui.active /\ Quiet
        /\ ui'.cursor \in {0, Up(ui.cursor), Down(ui.cursor, FirewallMax)}
    BY <1>1 DEF Become, FirewallOK, FirewallInit
  <2>2. ui'.cursor \in Nat
    <3>1. Up(ui.cursor) \in Nat /\ Down(ui.cursor, FirewallMax) \in Nat
      BY Cursors DEF FirewallOK
    <3> QED BY <2>1, <3>1
  <2>3. CmdStep /\ NewListing
    BY <2>1 DEF Quiet, CmdStep, SameEngine, NewListing
  <2>4. FirewallOK' /\ AskOK(asked)'
    BY <2>1, <2>2, FirewallQuiet
  <2> QED BY <2>3, <2>4
<1>2. CASE SwitchEngine
  <2>1. PICK n : n = (ui.active + 1) % Len(Engines)
    OBVIOUS
  <2>2. ui' = [ui EXCEPT !.active = n, !.cursor = 0] /\ cmds' = Switched
    BY <1>2, <2>1 DEF SwitchEngine
  <2>3. NewListing
    <3>1. PICK l \in Listings[tab] : snap' = [rows |-> l, engine |-> At(Engines, n)]
      BY <1>2, <2>1 DEF SwitchEngine
    <3> QED BY <3>1 DEF NewListing
  <2>4. /\ DOMAIN ui' = DOMAIN ui /\ ui'.cursor = 0 /\ ui'.mode = 0 /\ ui'.add = FALSE
        /\ ui'.addPort = <<>>
    BY <2>2 DEF FirewallOK, FirewallInit
  <2>5. FirewallOK' /\ AskOK(asked)'
    <3>1. ui'.cursor \in Nat
      BY <2>4
    <3> QED BY <2>4, <3>1, FirewallQuiet
  <2> QED BY <1>0, <2>2, <2>3, <2>5 DEF CmdStep
<1>3. CASE Become([ui EXCEPT !.add = TRUE, !.addStep = 0, !.addPort = <<>>])
  <2>1. /\ DOMAIN ui' = DOMAIN ui /\ ui'.cursor = ui.cursor /\ ui'.mode = 0
        /\ ui'.add = TRUE /\ ui'.addPort = <<>> /\ ui'.active = ui.active /\ Quiet
    BY <1>3 DEF Become, FirewallOK, FirewallInit
  <2>2. Dialog(ui) = 0 /\ Dialog(ui') = 9
    BY <2>1, FirewallDialog DEF FirewallOK
  <2>3. asked' = Shown /\ AskOK(asked)'
    BY <2>2, Asking
  <2>4. (asked'.at = At(Engines, ui.active) \/ asked'.switched) /\ asked'.typed = <<>>
    BY <1>0, <2>3, SwitchingShown
  <2>5. ui'.mode \in {0, 1} /\ ui'.mode # 1 /\ ui'.add \in BOOLEAN /\ ui'.add # FALSE
    <3>1. ui'.mode = 0 /\ ui'.add = TRUE
      BY <2>1
    <3>2. ui'.mode \in {0, 1} /\ ui'.mode # 1
      BY <3>1
    <3>3. ui'.add \in BOOLEAN
      BY <3>1
    <3>4. ui'.add # FALSE
      BY <3>1
    <3> QED BY <3>2, <3>3, <3>4
  <2>6. FirewallOK'
    BY <2>1, <2>4, <2>5 DEF FirewallOK, At
  <2> QED BY <2>1, <2>3, <2>6 DEF Quiet, CmdStep, SameEngine, NewListing
<1>4. CASE ui.cursor < Len(rows) /\ Become([ui EXCEPT !.mode = 1])
  <2>1. /\ DOMAIN ui' = DOMAIN ui /\ ui'.cursor = ui.cursor /\ ui'.mode = 1
        /\ ui'.add = FALSE /\ ui'.addPort = <<>> /\ ui'.active = ui.active /\ Quiet
    BY <1>4 DEF Become, FirewallOK, FirewallInit
  <2>2. Dialog(ui) = 0 /\ Dialog(ui') = 1
    BY <2>1, FirewallDialog DEF FirewallOK
  <2>3. asked' = Shown /\ AskOK(asked)'
    BY <2>2, Asking
  <2>4. (Shown.at = At(Engines, ui.active) \/ Shown.switched) /\ Shown.row = At(rows, ui.cursor)
    BY <1>0, <1>4, SwitchingShown
  <2>5. FirewallOK'
    BY <1>4, <2>1, <2>3, <2>4 DEF FirewallOK, At, Under, Quiet, rows
  <2> QED BY <2>1, <2>3, <2>5 DEF Quiet, CmdStep, SameEngine, NewListing
<1>5. CASE Order("toggle", NoRow, <<>>, FirewallShown) /\ ui' = ui
  <2>1. Meant("toggle", NoRow, <<>>, FirewallShown)
    <3>1. AskOK(FirewallShown) /\ (FirewallShown.at = ActiveFirewall \/ FirewallShown.switched)
      BY DEF FirewallShown, NoAsk, AskOK, Switching
    <3> QED BY <3>1 DEF Meant, TextAsAsked, RowAsAsked, Where, Switching, ActiveFirewall
  <2>2. Ordered /\ snap' = snap
    BY <1>5, <2>1 DEF Ordered, Order
  <2>3. FirewallOK' /\ AskOK(asked)'
    BY <1>5, FirewallQuiet DEF FirewallOK
  <2> QED BY <1>5, <2>2, <2>3 DEF CmdStep, SameEngine, NewListing
<1> QED BY <1>1, <1>2, <1>3, <1>4, <1>5 DEF RuleList

LEMMA FirewallKeyKeeps ==
  ASSUME tab = "Firewall", FirewallOK, AskOK(asked), NEW k, Answering(k), tab' = tab,
         FirewallKey(k)
  PROVE  FirewallOK' /\ AskOK(asked)' /\ CmdStep /\ NewListing
BY RuleWizardKeeps, RuleDialogKeeps, RuleListKeeps DEF FirewallKey, NewListing

\* The jump: it opens the form, over the question about a rule too.
LEMMA JumpKeeps ==
  ASSUME FirewallOK, AskOK(asked), Jump
  PROVE  FirewallOK' /\ AskOK(asked)' /\ CmdStep /\ snap' = snap
<1>0. tab = "Firewall" /\ tab' = tab /\ tab \in Switching
  BY DEF Jump, Switching
<1>1. PICK port \in {<<>>, <<"1">>} :
        /\ ReceivePayload(port)
        /\ asked' = IF ui.add /\ port = <<>> THEN asked
                    ELSE [(IF Dialog(ui) = 0 THEN Shown ELSE asked) EXCEPT !.typed = port]
  BY DEF Jump
<1>2. /\ DOMAIN ui' = DOMAIN ui /\ ui'.cursor = ui.cursor /\ ui'.mode = ui.mode
      /\ ui'.add = TRUE /\ ui'.active = ui.active /\ Quiet
      /\ ui'.addPort = IF port # <<>> THEN port ELSE ui.addPort
  BY <1>1 DEF ReceivePayload, Become, FirewallOK, FirewallInit
<1>3. CmdStep /\ snap' = snap
  BY <1>0, <1>2 DEF Quiet, CmdStep, SameEngine
<1>4. CASE ui.add /\ port = <<>>
  <2>1. asked' = asked
    BY <1>1, <1>4
  <2> QED BY <1>0, <1>2, <1>3, <1>4, <2>1 DEF FirewallOK, Under, At, rows, AskOK
<1>5. CASE ~(ui.add /\ port = <<>>) /\ Dialog(ui) = 0
  <2>1. asked' = [Shown EXCEPT !.typed = port]
    BY <1>1, <1>5
  <2>2. AskOK(Shown)
    BY DEF Shown, AskOK
  <2>3. /\ AskOK(asked') /\ asked'.typed = port
        /\ asked'.at = At(Engines, ui.active) \/ asked'.switched
    BY <1>0, <2>1, <2>2, SwitchingShown DEF AskOK
  <2>4. ui.mode = 0 /\ ui.add = FALSE
    <3>1. ui.add = TRUE \/ ui.add = FALSE
      BY DEF FirewallOK
    <3>2. CASE ui.add = TRUE
      <4>1. Dialog(ui) = 9
        BY <1>0, <3>2, FirewallDialog
      <4>2. Dialog(ui) = 0
        BY <1>5
      <4>3. FALSE
        BY <4>1, <4>2
      <4> QED BY <4>3
    <3>3. CASE ui.add = FALSE
      BY <1>0, <1>5, <3>3, FirewallDialog
    <3> QED BY <3>1, <3>2, <3>3
  <2>5. ui'.addPort = port
    BY <1>2, <2>4 DEF FirewallOK
  <2>6. ui'.mode \in {0, 1} /\ ui'.mode # 1 /\ ui'.add \in BOOLEAN /\ ui'.add # FALSE
    <3>1. ui'.mode = 0 /\ ui'.add = TRUE
      BY <1>2, <2>4
    <3>2. ui'.mode \in {0, 1} /\ ui'.mode # 1
      BY <3>1
    <3>3. ui'.add \in BOOLEAN
      BY <3>1
    <3>4. ui'.add # FALSE
      BY <3>1
    <3> QED BY <3>2, <3>3, <3>4
  <2>7. FirewallOK'
    BY <1>2, <2>3, <2>5, <2>6 DEF FirewallOK, At
  <2> QED BY <1>0, <1>3, <2>3, <2>7, AskOKNext
<1>6. CASE ~(ui.add /\ port = <<>>) /\ Dialog(ui) # 0
  <2>1. asked' = [asked EXCEPT !.typed = port]
    BY <1>1, <1>6
  <2>2. /\ AskOK(asked') /\ asked'.typed = port /\ asked'.row = asked.row
        /\ asked'.at = asked.at /\ asked'.moved = asked.moved
        /\ asked'.switched = asked.switched
    BY <2>1 DEF AskOK
  <2>3. ui.add \/ ui.mode = 1
    BY <1>0, <1>6, FirewallDialog DEF FirewallOK
  <2>4. ui'.addPort = port
    BY <1>2, <1>6 DEF FirewallOK
  <2> QED BY <1>0, <1>2, <1>3, <2>2, <2>3, <2>4, AskOKNext DEF FirewallOK, Under, At, rows
<1> QED BY <1>4, <1>5, <1>6
-----------------------------------------------------------------------------
(* The users tab: a form for a new account, and a question about one.      *)

UsersOK ==
  /\ DOMAIN ui = DOMAIN UsersInit
  /\ ui.cursor \in Nat
  /\ ui.mode \in {0, 1}
  /\ ui.add \in BOOLEAN
  /\ ui.mode = 1 => asked.at = "none" /\ Under(Accounts) /\ ui.add = FALSE
  /\ ui.add = TRUE => asked.at = "none" /\ asked.typed = ui.addInput

LEMMA UsersDialog ==
  ASSUME tab = "Users"
  PROVE  /\ ui.add = TRUE => Dialog(ui) = 9
         /\ ui.add = FALSE => Dialog(ui) = ui.mode
         /\ ui'.add = TRUE => Dialog(ui') = 9
         /\ ui'.add = FALSE => Dialog(ui') = ui'.mode
BY DEF Dialog

LEMMA UsersQuiet ==
  ASSUME tab = "Users", UsersOK, AskOK(asked), NEW k, Answering(k), tab' = tab,
         DOMAIN ui' = DOMAIN ui, ui'.cursor \in Nat, ui'.mode = 0, ui'.add = FALSE
  PROVE  UsersOK' /\ AskOK(asked)'
<1>1. Dialog(ui') = 0
  BY UsersDialog
<1>2. AskOK(asked)'
  BY <1>1, Asking
<1>3. ui'.add \in BOOLEAN
  OBVIOUS
<1>4. ui'.mode \in {0, 1} /\ ui'.mode # 1
  OBVIOUS
<1>5. ui'.add # TRUE
  OBVIOUS
<1> QED BY <1>2, <1>3, <1>4, <1>5 DEF UsersOK

\* The form is opened, or a key typed into it.
LEMMA UserForm ==
  ASSUME tab = "Users", UsersOK, AskOK(asked), NEW k, Answering(k), tab' = tab,
         DOMAIN ui' = DOMAIN ui, ui'.cursor = ui.cursor, ui'.mode = 0, ui'.add = TRUE,
         \/ ui.add = TRUE /\ ui'.addInput = Answered(ui.addInput, k)
         \/ ui.add = FALSE /\ ui.mode = 0 /\ ui'.addInput = <<>>
  PROVE  UsersOK' /\ AskOK(asked)'
<1>1. Dialog(ui') = 9
  BY UsersDialog
<1>2. AskOK(asked)' /\ asked'.at = "none" /\ asked'.typed = ui'.addInput
  <2>1. CASE ui.add = TRUE /\ ui'.addInput = Answered(ui.addInput, k)
    <3>1. Dialog(ui) = 9
      BY <2>1, UsersDialog
    <3>2. /\ AskOK(asked)' /\ asked'.at = asked.at
          /\ asked'.typed = Answered(asked.typed, k)
      BY <1>1, <3>1, Asking
    <3>3. asked.at = "none" /\ asked.typed = ui.addInput
      BY <2>1 DEF UsersOK
    <3> QED BY <2>1, <3>2, <3>3
  <2>2. CASE ui.add = FALSE /\ ui.mode = 0 /\ ui'.addInput = <<>>
    <3>1. Dialog(ui) = 0
      BY <2>2, UsersDialog
    <3>2. asked' = Shown /\ AskOK(asked)'
      BY <1>1, <3>1, Asking
    <3> QED BY <2>2, <3>2, PlainShown
  <2> QED BY <2>1, <2>2
<1>3. ui'.add \in BOOLEAN
  OBVIOUS
<1>4. ui'.mode \in {0, 1} /\ ui'.mode # 1
  OBVIOUS
<1> QED BY <1>2, <1>3, <1>4 DEF UsersOK

LEMMA UserWizardKeeps ==
  ASSUME tab = "Users", UsersOK, AskOK(asked), NEW k, Answering(k), tab' = tab,
         ui.add = TRUE, UserWizard(k)
  PROVE  UsersOK' /\ AskOK(asked)' /\ CmdStep /\ snap' = snap
<1>0. tab \notin Switching
  BY DEF Switching
<1>m. ui.mode = 0
  BY DEF UsersOK
<1>1. CASE Become([ui EXCEPT !.add = FALSE, !.addInput = <<>>])
  <2>1. /\ DOMAIN ui' = DOMAIN ui /\ ui'.cursor = ui.cursor /\ ui'.mode = 0
        /\ ui'.add = FALSE /\ Quiet
    BY <1>1, <1>m DEF Become, UsersOK, UsersInit
  <2> QED BY <1>0, <2>1, UsersQuiet, NothingOrdered DEF UsersOK
<1>2. CASE /\ Order("add user", NoRow, ui.addInput, asked)
           /\ ui' = [ui EXCEPT !.add = FALSE, !.addInput = <<>>]
  <2>1. /\ DOMAIN ui' = DOMAIN ui /\ ui'.cursor = ui.cursor /\ ui'.mode = 0
        /\ ui'.add = FALSE
    BY <1>2, <1>m DEF UsersOK, UsersInit
  <2>2. asked.at = "none" /\ asked.typed = ui.addInput
    BY DEF UsersOK
  <2>3. Meant("add user", NoRow, ui.addInput, asked)
    BY <2>2 DEF Meant, TextAsAsked, RowAsAsked, Where, Switching
  <2>4. Ordered /\ snap' = snap
    BY <1>2, <2>3 DEF Ordered, Order
  <2> QED BY <1>0, <2>1, <2>4, UsersQuiet, SomethingOrdered DEF UsersOK
<1>3. CASE \/ k = "backspace" /\ Become([ui EXCEPT !.addInput = Erased(@)])
           \/ k \in Chars /\ Become([ui EXCEPT !.addInput = Typed(@, k)])
  <2>1. /\ DOMAIN ui' = DOMAIN ui /\ ui'.cursor = ui.cursor /\ ui'.mode = 0
        /\ ui'.add = ui.add /\ ui'.addInput = Answered(ui.addInput, k) /\ Quiet
    BY <1>3, <1>m DEF Become, UsersOK, UsersInit, Answered, Chars
  <2>2. ui'.add = TRUE
    BY <2>1
  <2> QED BY <1>0, <2>1, <2>2, UserForm, NothingOrdered
<1> QED BY <1>1, <1>2, <1>3 DEF UserWizard

LEMMA UserDialogKeeps ==
  ASSUME tab = "Users", UsersOK, AskOK(asked), NEW k, Answering(k), tab' = tab,
         ui.mode = 1, UserDialog(k)
  PROVE  UsersOK' /\ AskOK(asked)' /\ CmdStep /\ snap' = snap
<1>0. tab \notin Switching
  BY DEF Switching
<1>1. asked.at = "none" /\ Under(Accounts) /\ ui.add = FALSE
  BY DEF UsersOK
<1>2. DOMAIN ui' = DOMAIN ui /\ ui'.cursor = ui.cursor /\ ui'.mode = 0 /\ ui'.add = ui.add
  BY DEF UserDialog, Become, UsersOK, UsersInit
<1>3. UsersOK' /\ AskOK(asked)'
  <2>1. ui'.add = FALSE /\ ui'.cursor \in Nat
    BY <1>1, <1>2 DEF UsersOK
  <2> QED BY <1>2, <2>1, UsersQuiet
<1>4. CASE Quiet
  BY <1>0, <1>3, <1>4, NothingOrdered
<1>5. CASE ui.cursor < Len(Accounts) /\ Start("delete user", At(Accounts, ui.cursor))
  <2>1. PICK row : row = At(Accounts, ui.cursor)
    OBVIOUS
  <2>2. TextAsAsked("delete user", row, <<>>, asked)
    BY DEF TextAsAsked
  <2>3. RowAsAsked(row, asked) /\ asked.at = Where(row)
    BY <1>1, <2>1 DEF RowAsAsked, Under, Latching, Where, Switching
  <2>4. Ordered /\ snap' = snap
    BY <1>5, <2>1, <2>2, <2>3, Starts
  <2> QED BY <1>0, <1>3, <2>4, SomethingOrdered
<1> QED BY <1>4, <1>5 DEF UserDialog, Become

LEMMA UserListKeeps ==
  ASSUME tab = "Users", UsersOK, AskOK(asked), NEW k, Answering(k), tab' = tab,
         ui.add = FALSE, ui.mode = 0, UserFilter(k) \/ UserList(k)
  PROVE  UsersOK' /\ AskOK(asked)' /\ CmdStep /\ snap' = snap
<1>0. tab \notin Switching
  BY DEF Switching
<1>1. CASE UserFilter(k)
  <2>1. /\ DOMAIN ui' = DOMAIN ui /\ ui'.cursor = ui.cursor /\ ui'.mode = 0
        /\ ui'.add = ui.add /\ Quiet
    BY <1>1 DEF UserFilter, Become, UsersOK, UsersInit
  <2>2. ui'.add = FALSE /\ ui'.cursor \in Nat
    BY <2>1 DEF UsersOK
  <2> QED BY <1>0, <2>1, <2>2, UsersQuiet, NothingOrdered
<1>2. CASE \/ Become([ui EXCEPT !.panel = (@ + 1) % 3, !.cursor = 0])
           \/ Become([ui EXCEPT !.cursor = Up(@)])
           \/ Become([ui EXCEPT !.cursor = @ + 1])
           \/ Become([ui EXCEPT !.filterMode = TRUE, !.filter = 0])
           \/ Become([ui EXCEPT !.hide = ~@])
  <2>1. /\ DOMAIN ui' = DOMAIN ui /\ ui'.mode = 0 /\ ui'.add = ui.add /\ Quiet
        /\ ui'.cursor \in {0, ui.cursor, Up(ui.cursor), ui.cursor + 1}
    BY <1>2 DEF Become, UsersOK, UsersInit
  <2>2. ui'.cursor \in Nat
    BY <2>1, Cursors DEF UsersOK
  <2>3. ui'.add = FALSE
    BY <2>1
  <2> QED BY <1>0, <2>1, <2>2, <2>3, UsersQuiet, NothingOrdered
<1>3. CASE Become([ui EXCEPT !.add = TRUE, !.addInput = <<>>])
  <2>1. /\ DOMAIN ui' = DOMAIN ui /\ ui'.cursor = ui.cursor /\ ui'.mode = 0
        /\ ui'.add = TRUE /\ ui'.addInput = <<>> /\ Quiet
    BY <1>3 DEF Become, UsersOK, UsersInit
  <2> QED BY <1>0, <2>1, UserForm, NothingOrdered
<1>4. CASE ui.cursor < Len(Accounts) /\ Become([ui EXCEPT !.mode = 1])
  <2>1. /\ DOMAIN ui' = DOMAIN ui /\ ui'.cursor = ui.cursor /\ ui'.mode = 1
        /\ ui'.add = ui.add /\ ui'.hide = ui.hide /\ ui'.filter = ui.filter /\ Quiet
    BY <1>4 DEF Become, UsersOK, UsersInit
  <2>2. ui'.add = FALSE
    BY <2>1
  <2>3. Dialog(ui) = 0
    BY UsersDialog
  <2>d. Dialog(ui') = 1
    BY <2>1, <2>2, UsersDialog
  <2>4. asked' = Shown /\ AskOK(asked)'
    BY <2>3, <2>d, Asking
  <2>5. asked'.at = "none" /\ asked'.row = At(Accounts, ui.cursor)
    BY <1>4, <2>4, PlainShown
  <2>6. Accounts' = Accounts
    BY <2>1 DEF Accounts, rows, Quiet
  <2>7. Under(Accounts)'
    BY <1>4, <2>1, <2>5, <2>6 DEF Under, At
  <2>8. ui'.add \in BOOLEAN /\ ui'.add # TRUE
    BY <2>2
  <2>9. UsersOK'
    BY <2>1, <2>2, <2>5, <2>7, <2>8 DEF UsersOK
  <2> QED BY <1>0, <2>1, <2>4, <2>9, NothingOrdered
<1> QED BY <1>1, <1>2, <1>3, <1>4 DEF UserList

LEMMA UsersKeyKeeps ==
  ASSUME tab = "Users", UsersOK, AskOK(asked), NEW k, Answering(k), tab' = tab, UsersKey(k)
  PROVE  UsersOK' /\ AskOK(asked)' /\ CmdStep /\ snap' = snap
<1>1. ui.add = TRUE \/ ui.add = FALSE
  BY DEF UsersOK
<1>2. CASE ui.add = TRUE
  <2>1. UserWizard(k)
    BY <1>2 DEF UsersKey
  <2> QED BY <1>2, <2>1, UserWizardKeeps
<1>3. CASE ui.add = FALSE
  <2>1. \/ ui.mode = 1 /\ UserDialog(k)
        \/ ui.mode = 0 /\ (UserFilter(k) \/ UserList(k))
    BY <1>3 DEF UsersKey
  <2> QED BY <1>3, <2>1, UserDialogKeeps, UserListKeeps
<1> QED BY <1>1, <1>2, <1>3
-----------------------------------------------------------------------------
(* The advanced, network and dashboard tabs.                               *)

AdvancedOK ==
  /\ DOMAIN ui = DOMAIN AdvancedInit
  /\ ui.cursor \in Nat
  /\ ui.mode \in {0, 1}
  /\ ui.mode = 1 => asked.at = "none" /\ Under(rows)

LEMMA AdvancedQuiet ==
  ASSUME tab = "Advanced", AdvancedOK, AskOK(asked), NEW k, Answering(k), tab' = tab,
         DOMAIN ui' = DOMAIN ui, ui'.cursor \in Nat, ui'.mode = 0
  PROVE  AdvancedOK' /\ AskOK(asked)'
<1>1. Dialog(ui') = 0
  BY DEF Dialog
<1> QED BY <1>1, Asking DEF AdvancedOK

LEMMA AdvancedKeyKeeps ==
  ASSUME tab = "Advanced", AdvancedOK, AskOK(asked), NEW k, Answering(k), tab' = tab,
         AdvancedKey(k)
  PROVE  AdvancedOK' /\ AskOK(asked)' /\ CmdStep /\ snap' = snap
<1>0. tab \notin Switching
  BY DEF Switching
<1>1. CASE ui.mode = 1 /\ SessionDialog(k)
  <2>1. DOMAIN ui' = DOMAIN ui /\ ui'.cursor = ui.cursor /\ ui'.mode = 0
    BY <1>1 DEF SessionDialog, Become, AdvancedOK, AdvancedInit
  <2>2. AdvancedOK' /\ AskOK(asked)'
    BY <2>1, AdvancedQuiet DEF AdvancedOK
  <2>3. CASE Quiet
    BY <1>0, <2>2, <2>3, NothingOrdered
  <2>4. CASE ui.cursor < Len(rows) /\ Start("SIGHUP", At(rows, ui.cursor))
    <3>1. PICK row : row = At(rows, ui.cursor)
      OBVIOUS
    <3>2. TextAsAsked("SIGHUP", row, <<>>, asked)
      BY DEF TextAsAsked
    <3>3. RowAsAsked(row, asked) /\ asked.at = Where(row)
      BY <1>1, <3>1 DEF RowAsAsked, AdvancedOK, Under, Latching, Where, Switching
    <3>4. Ordered /\ snap' = snap
      BY <2>4, <3>1, <3>2, <3>3, Starts
    <3> QED BY <1>0, <2>2, <3>4, SomethingOrdered
  <2> QED BY <1>1, <2>3, <2>4 DEF SessionDialog, Become
<1>2. CASE ui.mode = 0 /\ SessionList(k)
  <2>1. CASE \/ Become([ui EXCEPT !.panel = (@ + 1) % 3, !.cursor = 0])
             \/ Become([ui EXCEPT !.cursor = Up(@)])
             \/ Become([ui EXCEPT !.cursor = Down(@, Len(rows))])
    <3>1. /\ DOMAIN ui' = DOMAIN ui /\ ui'.mode = 0 /\ Quiet
          /\ ui'.cursor \in {0, Up(ui.cursor), Down(ui.cursor, Len(rows))}
      BY <1>2, <2>1 DEF Become, AdvancedOK, AdvancedInit
    <3>2. ui'.cursor \in Nat
      BY <3>1, Cursors DEF AdvancedOK
    <3> QED BY <1>0, <3>1, <3>2, AdvancedQuiet, NothingOrdered
  <2>2. CASE ui.cursor < Len(rows) /\ Become([ui EXCEPT !.mode = 1])
    <3>1. DOMAIN ui' = DOMAIN ui /\ ui'.cursor = ui.cursor /\ ui'.mode = 1 /\ Quiet
      BY <2>2 DEF Become, AdvancedOK, AdvancedInit
    <3>2. Dialog(ui) = 0 /\ Dialog(ui') # 0
      BY <1>2, <3>1 DEF Dialog
    <3>3. asked' = Shown /\ AskOK(asked)'
      BY <3>2, Asking
    <3>4. asked'.at = "none" /\ asked'.row = At(rows, ui.cursor)
      BY <2>2, <3>3, PlainShown
    <3>5. AdvancedOK'
      BY <2>2, <3>1, <3>4 DEF AdvancedOK, Under, Quiet, rows
    <3> QED BY <1>0, <3>1, <3>3, <3>5, NothingOrdered
  <2>3. CASE Fetch("jump", At(rows, ui.cursor)) /\ ui' = ui
    <3>1. Ordered /\ snap' = snap
      BY <2>3, Fetched DEF Fetches
    <3> QED BY <1>0, <1>2, <2>3, <3>1, AdvancedQuiet, SomethingOrdered DEF AdvancedOK
  <2> QED BY <1>2, <2>1, <2>2, <2>3 DEF SessionList
<1> QED BY <1>1, <1>2 DEF AdvancedKey

NetworkOK == DOMAIN ui = DOMAIN NetworkInit /\ ui.cursor \in Nat /\ ui.mode = 0

LEMMA NetworkKeyKeeps ==
  ASSUME tab = "Network", NetworkOK, AskOK(asked), NEW k, Answering(k), tab' = tab,
         NetworkKey(k)
  PROVE  NetworkOK' /\ AskOK(asked)' /\ CmdStep /\ snap' = snap
<1>0. tab \notin Switching
  BY DEF Switching
<1>1. ASSUME DOMAIN ui' = DOMAIN ui, ui'.cursor \in Nat, ui'.mode = 0
      PROVE  NetworkOK' /\ AskOK(asked)'
  <2>1. Dialog(ui') = 0
    BY <1>1 DEF Dialog
  <2> QED BY <1>1, <2>1, Asking DEF NetworkOK
<1>2. CASE Quiet
  <2>1. /\ DOMAIN ui' = DOMAIN ui /\ ui'.mode = 0
        /\ ui'.cursor \in {0, ui.cursor, Up(ui.cursor), Down(ui.cursor, NetworkMax)}
    BY <1>2 DEF NetworkKey, Become, NetworkOK, NetworkInit
  <2>2. ui'.cursor \in Nat
    BY <2>1, Cursors DEF NetworkOK
  <2> QED BY <1>0, <1>1, <1>2, <2>1, <2>2, NothingOrdered
<1>3. CASE Fetch("jump", SocketUnderCursor) /\ ui' = ui
  <2>1. Ordered /\ snap' = snap
    BY <1>3, Fetched DEF Fetches
  <2> QED BY <1>0, <1>1, <1>3, <2>1, SomethingOrdered DEF NetworkOK
<1>4. CASE Order("SIGTERM", SocketUnderCursor, <<>>, NetworkShown) /\ ui' = ui
  <2>1. Meant("SIGTERM", SocketUnderCursor, <<>>, NetworkShown)
    <3>1. AskOK(NetworkShown) /\ NetworkShown.row = SocketUnderCursor /\ NetworkShown.at = "none"
      BY DEF NetworkShown, SocketUnderCursor, NoAsk, AskOK
    <3> QED BY <3>1 DEF Meant, TextAsAsked, RowAsAsked, Where, Switching
  <2>2. Ordered /\ snap' = snap
    BY <1>4, <2>1 DEF Ordered, Order
  <2> QED BY <1>0, <1>1, <1>4, <2>2, SomethingOrdered DEF NetworkOK
<1> QED BY <1>2, <1>3, <1>4 DEF NetworkKey, Become

DashboardOK == DOMAIN ui = DOMAIN DashboardInit

LEMMA DashboardKeeps ==
  ASSUME tab = "Dashboard", DashboardOK, tab' = tab,
         DashboardMouse \/ (\E k : DashboardKey(k))
  PROVE  DashboardOK' /\ CmdStep /\ snap' = snap
<1>0. tab \notin Switching
  BY DEF Switching
<1>1. \A u : DOMAIN DashboardScroll(u) = DOMAIN u
  BY DEF DashboardScroll
<1>2. DOMAIN ui' = DOMAIN ui /\ Quiet
  <2>1. CASE DashboardMouse
    <3>1. CASE \E p \in ToSet(Panels) : Become([ui EXCEPT !.dragTarget = p])
      BY <3>1 DEF Become
    <3>2. CASE Become([ui EXCEPT !.dragTarget = "none"])
      BY <3>2 DEF Become
    <3>3. CASE \E p \in ToSet(Panels) \ {ui.dragTarget}, z \in Zones :
                 Become(DashboardScroll(
                   [ui EXCEPT !.layout = Dropped(@, ui.dragTarget, p, z),
                              !.dragTarget = "none"]))
      BY <1>1, <3>3 DEF Become
    <3> QED BY <2>1, <3>1, <3>2, <3>3 DEF DashboardMouse
  <2>2. CASE \E k : DashboardKey(k)
    BY <1>1, <2>2 DEF DashboardKey, Become
  <2> QED BY <2>1, <2>2
<1> QED BY <1>0, <1>2, NothingOrdered DEF DashboardOK
-----------------------------------------------------------------------------
(* The invariant.                                                          *)

TabOK ==
  /\ tab = "Process" => ProcessOK
  /\ tab = "Docker" => DockerOK
  /\ tab = "Packages" => PackagesOK
  /\ tab = "Services" => ServicesOK
  /\ tab = "Firewall" => FirewallOK
  /\ tab = "Users" => UsersOK
  /\ tab = "Advanced" => AdvancedOK
  /\ tab = "Network" => NetworkOK
  /\ tab = "Dashboard" => DashboardOK

UiInv == tab \in Tabs /\ snap.rows \in Listings[tab] \cup {<<>>} /\ AskOK(asked) /\ TabOK

WorldOK == world \in [Ids -> {0, 1}] /\ may \in BOOLEAN

TabsInv == UiInv /\ CmdsInv /\ WorldOK

LEMMA NineTabs ==
  ASSUME tab \in Tabs
  PROVE  tab \in {"Process", "Docker", "Packages", "Services", "Firewall", "Users",
                  "Advanced", "Network", "Dashboard"}
BY TabsAssumption

LEMMA InitInv == Init => TabsInv
<1> SUFFICES ASSUME Init PROVE TabsInv
  OBVIOUS
<1>1. AskOK(asked) /\ snap.rows = <<>> /\ tab \in Tabs
  BY DEF Init, AskOK, NoAsk, NoSnap
<1>2. CmdsInv
  BY FS_EmptySet DEF Init, CmdsInv, SlotsApart
<1>3. WorldOK
  BY DEF Init, WorldOK
<1>4. ui = TabInit[tab]
  BY DEF Init
<1>5. tab = "Process" => ProcessOK
  BY <1>1, <1>4 DEF TabInit, ProcessInit, ProcessOK
<1>6. tab = "Docker" => DockerOK
  BY <1>1, <1>4 DEF TabInit, DockerInit, DockerOK
<1>7. tab = "Packages" => PackagesOK
  BY <1>1, <1>4 DEF TabInit, PackagesInit, PackagesOK
<1>8. tab = "Services" => ServicesOK
  BY <1>1, <1>4 DEF TabInit, ServicesInit, ServicesOK
<1>9. tab = "Firewall" => FirewallOK
  <2> SUFFICES ASSUME tab = "Firewall" PROVE FirewallOK
    OBVIOUS
  <2>1. /\ DOMAIN ui = DOMAIN FirewallInit /\ ui.cursor = 0 /\ ui.mode = 0
        /\ ui.add = FALSE /\ ui.addPort = <<>>
    BY <1>1, <1>4 DEF TabInit, FirewallInit
  <2>2. ui.add \in BOOLEAN /\ ui.add # TRUE
    BY <2>1
  <2> QED BY <2>1, <2>2 DEF FirewallOK
<1>10. tab = "Users" => UsersOK
  <2> SUFFICES ASSUME tab = "Users" PROVE UsersOK
    OBVIOUS
  <2>1. DOMAIN ui = DOMAIN UsersInit /\ ui.cursor = 0 /\ ui.mode = 0 /\ ui.add = FALSE
    BY <1>1, <1>4 DEF TabInit, UsersInit
  <2>2. ui.add \in BOOLEAN /\ ui.add # TRUE
    BY <2>1
  <2> QED BY <2>1, <2>2 DEF UsersOK
<1>11. tab = "Advanced" => AdvancedOK
  BY <1>1, <1>4 DEF TabInit, AdvancedInit, AdvancedOK
<1>12. tab = "Network" => NetworkOK
  BY <1>1, <1>4 DEF TabInit, NetworkInit, NetworkOK
<1>13. tab = "Dashboard" => DashboardOK
  BY <1>1, <1>4 DEF TabInit, DashboardOK
<1>14. TabOK
  BY <1>5, <1>6, <1>7, <1>8, <1>9, <1>10, <1>11, <1>12, <1>13 DEF TabOK
<1> QED BY <1>1, <1>2, <1>3, <1>14 DEF TabsInv, UiInv
-----------------------------------------------------------------------------
(* Keys, the mouse and the jump.                                           *)

LEMMA KeyKeeps ==
  ASSUME UiInv, NEW k, Key(k)
  PROVE  UiInv' /\ CmdStep
<1>1. tab \in Tabs /\ snap.rows \in Listings[tab] \cup {<<>>} /\ AskOK(asked)
  BY DEF UiInv
<1>2. tab' = tab /\ Answering(k)
  BY DEF Key
<1>3. SUFFICES AskOK(asked)' /\ TabOK' /\ CmdStep /\ NewListing
  BY <1>1, <1>2, <1>3 DEF UiInv, NewListing
<1>4. CASE tab = "Process"
  <2>1. ProcessOK /\ ProcessKey(k)
    BY <1>4 DEF UiInv, TabOK, Key
  <2>2. ProcessOK' /\ AskOK(asked)' /\ CmdStep /\ snap' = snap
    BY <1>1, <1>2, <1>4, <2>1, ProcessKeyKeeps
  <2> QED BY <1>2, <1>4, <2>2 DEF TabOK, NewListing
<1>5. CASE tab = "Docker"
  <2>1. DockerOK /\ DockerKey(k)
    BY <1>5 DEF UiInv, TabOK, Key
  <2>2. DockerOK' /\ AskOK(asked)' /\ CmdStep /\ snap' = snap
    BY <1>1, <1>2, <1>5, <2>1, DockerKeyKeeps
  <2> QED BY <1>2, <1>5, <2>2 DEF TabOK, NewListing
<1>6. CASE tab = "Packages"
  <2>1. PackagesOK /\ PackagesKey(k)
    BY <1>6 DEF UiInv, TabOK, Key
  <2>2. PackagesOK' /\ AskOK(asked)' /\ CmdStep /\ NewListing
    BY <1>1, <1>2, <1>6, <2>1, PackagesKeyKeeps
  <2> QED BY <1>2, <1>6, <2>2 DEF TabOK
<1>7. CASE tab = "Services"
  <2>1. ServicesOK /\ ServicesKey(k)
    BY <1>7 DEF UiInv, TabOK, Key
  <2>2. ServicesOK' /\ AskOK(asked)' /\ CmdStep /\ snap' = snap
    BY <1>1, <1>2, <1>7, <2>1, ServicesKeyKeeps
  <2> QED BY <1>2, <1>7, <2>2 DEF TabOK, NewListing
<1>8. CASE tab = "Firewall"
  <2>1. FirewallOK /\ FirewallKey(k)
    BY <1>8 DEF UiInv, TabOK, Key
  <2>2. FirewallOK' /\ AskOK(asked)' /\ CmdStep /\ NewListing
    BY <1>1, <1>2, <1>8, <2>1, FirewallKeyKeeps
  <2> QED BY <1>2, <1>8, <2>2 DEF TabOK
<1>9. CASE tab = "Users"
  <2>1. UsersOK /\ UsersKey(k)
    BY <1>9 DEF UiInv, TabOK, Key
  <2>2. UsersOK' /\ AskOK(asked)' /\ CmdStep /\ snap' = snap
    BY <1>1, <1>2, <1>9, <2>1, UsersKeyKeeps
  <2> QED BY <1>2, <1>9, <2>2 DEF TabOK, NewListing
<1>10. CASE tab = "Advanced"
  <2>1. AdvancedOK /\ AdvancedKey(k)
    BY <1>10 DEF UiInv, TabOK, Key
  <2>2. AdvancedOK' /\ AskOK(asked)' /\ CmdStep /\ snap' = snap
    BY <1>1, <1>2, <1>10, <2>1, AdvancedKeyKeeps
  <2> QED BY <1>2, <1>10, <2>2 DEF TabOK, NewListing
<1>11. CASE tab = "Network"
  <2>1. NetworkOK /\ NetworkKey(k)
    BY <1>11 DEF UiInv, TabOK, Key
  <2>2. NetworkOK' /\ AskOK(asked)' /\ CmdStep /\ snap' = snap
    BY <1>1, <1>2, <1>11, <2>1, NetworkKeyKeeps
  <2> QED BY <1>2, <1>11, <2>2 DEF TabOK, NewListing
<1>12. CASE tab = "Dashboard"
  <2>1. DashboardOK /\ DashboardKey(k)
    BY <1>12 DEF UiInv, TabOK, Key
  <2>2. DashboardOK' /\ CmdStep /\ snap' = snap
    BY <1>2, <1>12, <2>1, DashboardKeeps
  <2>3. asked' = NoAsk
    BY <1>2, <1>12 DEF Answering
  <2>4. AskOK(asked)'
    BY <2>3 DEF AskOK, NoAsk
  <2> QED BY <1>2, <1>12, <2>2, <2>4 DEF TabOK, NewListing
<1> QED BY <1>1, <1>4, <1>5, <1>6, <1>7, <1>8, <1>9, <1>10, <1>11, <1>12, NineTabs

LEMMA MouseKeeps ==
  ASSUME UiInv, Mouse
  PROVE  UiInv' /\ CmdStep
<1>1. tab = "Dashboard" /\ tab' = tab /\ asked' = asked /\ DashboardMouse
  BY DEF Mouse
<1>2. DashboardOK
  BY <1>1 DEF UiInv, TabOK
<1>3. DashboardOK' /\ CmdStep /\ snap' = snap
  BY <1>1, <1>2, DashboardKeeps
<1> QED BY <1>1, <1>3 DEF UiInv, TabOK, AskOK

LEMMA JumpStepKeeps ==
  ASSUME UiInv, Jump
  PROVE  UiInv' /\ CmdStep
<1>1. tab = "Firewall" /\ tab' = tab
  BY DEF Jump
<1>2. FirewallOK /\ AskOK(asked)
  BY <1>1 DEF UiInv, TabOK
<1>3. FirewallOK' /\ AskOK(asked)' /\ CmdStep /\ snap' = snap
  BY <1>2, JumpKeeps
<1> QED BY <1>1, <1>3 DEF UiInv, TabOK
-----------------------------------------------------------------------------
(* A listing.  It may be any of the tab's: with a dialog open the question  *)
(* goes on, about a row that may no longer be under the cursor.             *)

\* What a listing does to the history of the question.
AskedOn ==
  asked' = IF Dialog(ui) = 0 \/ tab \in Latching THEN asked ELSE [asked EXCEPT !.moved = TRUE]

LEMMA AskedOnKeeps ==
  ASSUME AskOK(asked), AskedOn, tab' = tab
  PROVE  /\ AskOK(asked)'
         /\ asked'.row = asked.row /\ asked'.at = asked.at /\ asked'.typed = asked.typed
         /\ asked'.switched = asked.switched
         /\ asked.moved => asked'.moved
         /\ Dialog(ui) # 0 /\ tab \notin Latching => asked'.moved
<1>1. CASE Dialog(ui) = 0 \/ tab \in Latching
  <2>1. asked' = asked
    BY <1>1 DEF AskedOn
  <2> QED BY <1>1, <2>1 DEF AskOK
<1>2. CASE ~(Dialog(ui) = 0 \/ tab \in Latching)
  <2>1. asked' = [asked EXCEPT !.moved = TRUE]
    BY <1>2 DEF AskedOn
  <2>2. asked'.moved = TRUE
    BY <2>1 DEF AskOK
  <2> QED BY <2>1, <2>2 DEF AskOK
<1> QED BY <1>1, <1>2

LEMMA ArriveKeeps ==
  ASSUME UiInv, Arrive
  PROVE  UiInv' /\ SameEngine
<1>1. tab \in Tabs /\ tab # "Dashboard" /\ tab' = tab /\ AskOK(asked)
  BY DEF Arrive, UiInv
<1>2. PICK l \in Listings[tab] :
        LET s == [rows |-> l, engine |-> SvcEngine]
        IN  CASE tab = "Process" -> ProcessArrive(s)
              [] tab = "Docker" -> DockerArrive(s)
              [] tab = "Packages" -> PackagesArrive(s)
              [] tab = "Services" -> ServicesArrive(s)
              [] tab = "Firewall" -> FirewallArrive(s)
              [] tab = "Users" -> UsersArrive(s)
              [] tab = "Advanced" -> AdvancedArrive(s)
              [] tab = "Network" -> NetworkArrive(s)
  BY DEF Arrive
<1>3. AskedOn
  BY DEF Arrive, AskedOn
<1>4. /\ AskOK(asked)' /\ asked'.row = asked.row /\ asked'.at = asked.at
      /\ asked'.typed = asked.typed /\ (asked.moved => asked'.moved)
      /\ asked'.switched = asked.switched
      /\ (Dialog(ui) # 0 /\ tab \notin Latching => asked'.moved)
  BY <1>1, <1>3, AskedOnKeeps
<1>5. PICK s : s = [rows |-> l, engine |-> SvcEngine]
  OBVIOUS
<1>6. s.rows = l
  BY <1>5
<1>7. CASE tab = "Process"
  <2>1. ProcessOK
    BY <1>7 DEF UiInv, TabOK
  <2>2. ProcessArrive(s)
    BY <1>2, <1>5, <1>7
  <2>3. Len(s.rows) \in Nat
    <3>1. l \in Seq([id : STRING, tag : IF tab = "Packages" THEN Nat ELSE {0, 1}])
      BY <1>1, TabAssumption
    <3> QED BY <1>6, <3>1, LenProperties
  <2>4. /\ snap' = s /\ DOMAIN ui' = DOMAIN ui /\ ui'.cursor \in Nat /\ ui'.mode = ui.mode
        /\ ui'.killTarget = ui.killTarget /\ ui'.killInput = ui.killInput
        /\ ui'.signalCursor = ui.signalCursor
    BY <2>1, <2>2, <2>3 DEF ProcessArrive, ProcessOK, ProcessInit
  <2>5. ProcessOK'
    BY <1>4, <2>1, <2>4 DEF ProcessOK, Program
  <2> QED BY <1>1, <1>4, <1>6, <1>7, <2>4, <2>5 DEF UiInv, TabOK, SameEngine, Switching
<1>8. CASE tab # "Process"
  <2>1. snap' = s /\ ui' = ui
    <3>1. \/ DockerArrive(s) \/ PackagesArrive(s) \/ ServicesArrive(s) \/ FirewallArrive(s)
          \/ UsersArrive(s) \/ AdvancedArrive(s) \/ NetworkArrive(s)
      BY <1>1, <1>2, <1>5, <1>8, NineTabs
    <3> QED BY <3>1 DEF DockerArrive, PackagesArrive, ServicesArrive, FirewallArrive,
                        UsersArrive, AdvancedArrive, NetworkArrive
  <2>2. tab = "Docker" => DockerOK'
    BY <1>1, <1>4, <2>1 DEF UiInv, TabOK, DockerOK, Under, Dialog, Latching
  <2>3. tab = "Packages" => PackagesOK'
    BY <1>1, <1>4, <2>1 DEF UiInv, TabOK, PackagesOK, At
  <2>4. tab = "Services" => ServicesOK'
    BY <1>1, <1>4, <2>1 DEF UiInv, TabOK, ServicesOK
  <2>5. ASSUME tab = "Firewall" PROVE FirewallOK'
    <3>1. FirewallOK
      BY <2>5 DEF UiInv, TabOK
    <3>2. ui.mode = 1 => asked'.moved
      BY <1>4, <2>5 DEF Dialog, Latching
    <3> QED BY <1>1, <1>4, <2>1, <3>1, <3>2 DEF FirewallOK, Under, At
  <2>6. ASSUME tab = "Users" PROVE UsersOK'
    <3>1. UsersOK
      BY <2>6 DEF UiInv, TabOK
    <3>2. ui.mode = 1 => asked'.moved
      BY <1>4, <2>6 DEF Dialog, Latching
    <3> QED BY <1>1, <1>4, <2>1, <3>1, <3>2 DEF UsersOK, Under
  <2>7. tab = "Advanced" => AdvancedOK'
    BY <1>1, <1>4, <2>1 DEF UiInv, TabOK, AdvancedOK, Under, Dialog, Latching
  <2>8. tab = "Network" => NetworkOK'
    BY <1>1, <1>4, <2>1 DEF UiInv, TabOK, NetworkOK
  <2>9. TabOK'
    BY <1>1, <1>8, <2>2, <2>3, <2>4, <2>5, <2>6, <2>7, <2>8 DEF TabOK
  <2> QED BY <1>1, <1>4, <1>6, <2>1, <2>9 DEF UiInv, SameEngine
<1> QED BY <1>7, <1>8
-----------------------------------------------------------------------------
(* The steps of a command.                                                 *)

\* Nothing that the user looks at changes.
LEMMA StandStill ==
  ASSUME UiInv, UNCHANGED <<tab, ui, snap, asked>>
  PROVE  UiInv' /\ SameEngine
<1>1. rows' = rows /\ Accounts' = Accounts
  <2>1. rows' = rows
    BY DEF rows
  <2> QED BY <2>1 DEF Accounts
<1>2. Under(rows)' <=> Under(rows)
  BY <1>1 DEF Under, At
<1>3. Under(Accounts)' <=> Under(Accounts)
  BY <1>1 DEF Under, At
<1>4. ProcessOK => ProcessOK'
  BY DEF ProcessOK, Program
<1>5. DockerOK => DockerOK'
  BY <1>2 DEF DockerOK
<1>6. PackagesOK => PackagesOK'
  BY DEF PackagesOK, At
<1>7. ServicesOK => ServicesOK'
  BY DEF ServicesOK
<1>8. FirewallOK => FirewallOK'
  BY <1>2 DEF FirewallOK, At
<1>9. UsersOK => UsersOK'
  BY <1>3 DEF UsersOK
<1>10. AdvancedOK => AdvancedOK'
  BY <1>2 DEF AdvancedOK
<1>11. NetworkOK => NetworkOK'
  BY DEF NetworkOK
<1>12. DashboardOK => DashboardOK'
  BY DEF DashboardOK
<1>13. TabOK => TabOK'
  BY <1>4, <1>5, <1>6, <1>7, <1>8, <1>9, <1>10, <1>11, <1>12 DEF TabOK
<1> QED BY <1>13 DEF UiInv, AskOK, SameEngine

\* process.VerifyProcessName: where the name is the one listed, it is the one
\* the screen has shown.
LEMMA RunKeeps ==
  ASSUME UiInv, CmdsInv, NEW c \in cmds, Run(c)
  PROVE  UiInv' /\ CmdsInv'
<1>1. UiInv' /\ SameEngine
  BY StandStill DEF Run
<1>2. CmdOK(c)
  BY DEF CmdsInv
<1>3. /\ c.phase = "ran" => c.op \notin Fetches
      /\ c.phase = "verified" => c.op \notin Fetches
  BY <1>2 DEF CmdOK
<1>5. CASE tab = "Process" /\ c.phase = "waiting" /\ Verify(c)
  <2>1. c.op \notin Fetches /\ (c.asked.at = Program(c.row.tag) \/ c.asked.switched)
    BY <1>2, <1>5 DEF CmdOK, Where
  <2>2. CASE world[c.row.id] = c.row.tag
    <3>1. Advance(c, "verified", Program(c.row.tag))
      BY <1>5, <2>2 DEF Verify
    <3>2. Program(c.row.tag) = c.asked.at \/ c.asked.switched
      BY <2>1
    <3>3. CmdsInv'
      BY <1>1, <2>1, <3>1, <3>2, CmdAdvances
    <3> QED BY <1>1, <3>3
  <2>3. CASE world[c.row.id] # c.row.tag
    <3>1. cmds' = cmds \ {c}
      BY <1>5, <2>3 DEF Verify
    <3> QED BY <1>1, <3>1, FewerCmds
  <2> QED BY <2>2, <2>3
<1>6. CASE c.phase = "verified" /\ Advance(c, "ran", c.at)
  <2>1. c.at = c.asked.at \/ c.asked.switched
    BY <1>2, <1>6 DEF CmdOK
  <2>2. CmdsInv'
    BY <1>1, <1>3, <1>6, <2>1, CmdAdvances
  <2> QED BY <1>1, <2>2
<1>7. CASE /\ tab # "Process" /\ c.phase = "waiting" /\ c.op \notin Fetches
           /\ Advance(c, "ran", IF tab \in Switching THEN At(Engines, ui.active) ELSE "none")
  <2>1. PICK at : at = IF tab \in Switching THEN At(Engines, ui.active) ELSE "none"
    OBVIOUS
  <2>2. at = c.asked.at \/ c.asked.switched
    BY <1>2, <1>7, <2>1 DEF CmdOK, Where
  <2>3. Advance(c, "ran", at)
    BY <1>7, <2>1
  <2>4. CmdsInv'
    BY <1>1, <1>7, <2>2, <2>3, CmdAdvances
  <2> QED BY <1>1, <2>4
<1> QED BY <1>1, <1>5, <1>6, <1>7 DEF Run

LEMMA WriteEventKeeps ==
  ASSUME UiInv, CmdsInv, NEW c \in cmds, WriteEvent(c)
  PROVE  UiInv' /\ CmdsInv'
<1>1. UiInv' /\ SameEngine
  BY StandStill DEF WriteEvent
<1>2. CmdOK(c) /\ c.phase = "ran"
  BY DEF CmdsInv, WriteEvent
<1>3. c.op \notin Fetches /\ (c.at = c.asked.at \/ c.asked.switched)
  BY <1>2 DEF CmdOK
<1>4. Advance(c, "logged", c.at)
  BY DEF WriteEvent
<1>5. CmdsInv'
  BY <1>1, <1>3, <1>4, CmdAdvances
<1> QED BY <1>1, <1>5

\* The message with the result changes no field that a dialog rests on.
LEMMA ResultKeeps ==
  ASSUME UiInv, CmdsInv, NEW c \in cmds, Result(c)
  PROVE  UiInv' /\ CmdsInv'
<1>1. PICK ok \in BOOLEAN :
        CASE tab = "Docker" -> ui' = DockerResult(c, ok)
          [] tab = "Packages" -> ui' \in PackagesResult(c, ok)
          [] OTHER -> ui' = ui
  BY DEF Result
<1>2. UNCHANGED <<tab, snap, asked>> /\ cmds' = cmds \ {c}
  BY DEF Result
<1>3. UiInv' /\ SameEngine
  <2>1. CASE tab = "Docker"
    <3>1. DockerOK
      BY <2>1 DEF UiInv, TabOK
    <3>2. DOMAIN ui' = DOMAIN ui /\ ui'.cursor = ui.cursor /\ ui'.mode = ui.mode
      <4>1. CASE c.op = "logs"
        <5>1. PICK u : u = [ui EXCEPT !.logLoading = FALSE,
                                      !.logLines = IF ok THEN c.row.id ELSE "none"]
          OBVIOUS
        <5>2. ui' = DockerScroll(u)
          BY <1>1, <2>1, <4>1, <5>1 DEF DockerResult
        <5>3. DOMAIN u = DOMAIN ui /\ u.cursor = ui.cursor /\ u.mode = ui.mode
          BY <3>1, <5>1 DEF DockerOK, DockerInit
        <5> QED BY <5>2, <5>3, DockerScrolls
      <4>2. CASE c.op # "logs"
        BY <1>1, <2>1, <4>2 DEF DockerResult
      <4> QED BY <4>1, <4>2
    <3>3. DockerOK'
      BY <1>2, <3>1, <3>2 DEF DockerOK, Under, At, rows
    <3> QED BY <1>2, <2>1, <3>3 DEF UiInv, TabOK, AskOK, SameEngine, Switching
  <2>2. CASE tab = "Packages"
    <3>1. PackagesOK
      BY <2>2 DEF UiInv, TabOK
    <3>2. ui' \in PackagesResult(c, ok)
      BY <1>1, <2>2
    <3>3. /\ DOMAIN ui' = DOMAIN ui /\ ui'.cursor = ui.cursor /\ ui'.mode = ui.mode
          /\ ui'.active = ui.active /\ ui'.opTarget = ui.opTarget /\ ui'.opInput = ui.opInput
      BY <3>1, <3>2 DEF PackagesResult, PackagesOK, PackagesInit
    <3>4. PackagesOK'
      BY <1>2, <3>1, <3>3 DEF PackagesOK, At
    <3> QED BY <1>2, <2>2, <3>3, <3>4 DEF UiInv, TabOK, AskOK, SameEngine
  <2>3. CASE tab \notin {"Docker", "Packages"}
    <3>1. ui' = ui
      BY <1>1, <2>3
    <3> QED BY <1>2, <3>1, StandStill
  <2> QED BY <2>1, <2>2, <2>3
<1>4. CmdsInv'
  BY <1>2, <1>3, FewerCmds
<1> QED BY <1>3, <1>4

LEMMA ExecKeeps ==
  ASSUME TabsInv, Exec
  PROVE  TabsInv'
<1>1. UiInv' /\ SameEngine /\ cmds' = cmds /\ may' = may
  BY StandStill DEF TabsInv, Exec
<1>2. CmdsInv'
  BY <1>1, FewerCmds DEF TabsInv
<1>3. PICK i \in Mortal : world' = [world EXCEPT ![i] = 1 - @]
  BY DEF Exec
<1>4. world' \in [Ids -> {0, 1}]
  <2>1. world \in [Ids -> {0, 1}]
    BY DEF TabsInv, WorldOK
  <2>2. i \in Ids => 1 - world[i] \in {0, 1}
    BY <2>1
  <2> QED BY <1>3, <2>1, <2>2
<1>5. Ids' = Ids
  BY DEF Ids
<1> QED BY <1>1, <1>2, <1>4, <1>5 DEF TabsInv, WorldOK
-----------------------------------------------------------------------------
\* No step breaks the invariant.
LEMMA StepInv ==
  ASSUME TabsInv, [Next]_vars
  PROVE  TabsInv'
<1>0. UiInv /\ CmdsInv /\ WorldOK
  BY DEF TabsInv
<1>w. UNCHANGED <<world, may>> => WorldOK'
  BY <1>0 DEF WorldOK, Ids
<1>1. ASSUME NEW k \in Keys[tab], Key(k)
      PROVE  TabsInv'
  <2>1. UiInv' /\ CmdStep
    BY <1>0, <1>1, KeyKeeps
  <2>2. UNCHANGED <<world, may>>
    BY <1>1 DEF Key
  <2> QED BY <1>0, <1>w, <2>1, <2>2, CmdStepKeeps DEF TabsInv
<1>2. CASE Mouse
  <2>1. UiInv' /\ CmdStep
    BY <1>0, <1>2, MouseKeeps
  <2>2. UNCHANGED <<world, may>>
    BY <1>2 DEF Mouse
  <2> QED BY <1>0, <1>w, <2>1, <2>2, CmdStepKeeps DEF TabsInv
<1>3. CASE Arrive
  <2>1. UiInv' /\ SameEngine
    BY <1>0, <1>3, ArriveKeeps
  <2>2. UNCHANGED <<world, may, cmds>>
    BY <1>3 DEF Arrive
  <2> QED BY <1>0, <1>w, <2>1, <2>2, FewerCmds DEF TabsInv
<1>4. CASE Jump
  <2>1. UiInv' /\ CmdStep
    BY <1>0, <1>4, JumpStepKeeps
  <2>2. UNCHANGED <<world, may>>
    BY <1>4 DEF Jump
  <2> QED BY <1>0, <1>w, <2>1, <2>2, CmdStepKeeps DEF TabsInv
<1>5. CASE Exec
  BY <1>5, ExecKeeps
<1>6. ASSUME NEW c \in cmds, Run(c)
      PROVE  TabsInv'
  <2>1. UNCHANGED <<world, may>>
    BY <1>6 DEF Run
  <2> QED BY <1>0, <1>w, <1>6, <2>1, RunKeeps DEF TabsInv
<1>7. ASSUME NEW c \in cmds, WriteEvent(c)
      PROVE  TabsInv'
  <2>1. UNCHANGED <<world, may>>
    BY <1>7 DEF WriteEvent
  <2> QED BY <1>0, <1>w, <1>7, <2>1, WriteEventKeeps DEF TabsInv
<1>8. ASSUME NEW c \in cmds, Result(c)
      PROVE  TabsInv'
  <2>1. UNCHANGED <<world, may>>
    BY <1>8 DEF Result
  <2> QED BY <1>0, <1>w, <1>8, <2>1, ResultKeeps DEF TabsInv
<1>9. CASE UNCHANGED vars
  <2>1. UiInv' /\ SameEngine
    BY <1>0, <1>9, StandStill DEF vars
  <2>2. UNCHANGED <<world, may, cmds>>
    BY <1>9 DEF vars
  <2> QED BY <1>0, <1>w, <2>1, <2>2, FewerCmds DEF TabsInv
<1> QED BY <1>1, <1>2, <1>3, <1>4, <1>5, <1>6, <1>7, <1>8, <1>9 DEF Next, Command

LEMMA Invariant == Spec => []TabsInv
<1>1. TabsInv /\ [Next]_vars => TabsInv'
  BY StepInv
<1> QED BY InitInv, <1>1, PTL DEF Spec
-----------------------------------------------------------------------------
\* Whatever arrives, is typed or switched, in every order: the tab keeps its
\* fields, its listing is one it was sent, and no two commands share a slot.
THEOREM TabsTyped == Spec => []TypeOK
<1>1. TabsInv => TypeOK
  <2> SUFFICES ASSUME TabsInv PROVE TypeOK
    OBVIOUS
  <2>1. tab \in Tabs /\ snap.rows \in Listings[tab] \cup {<<>>} /\ AskOK(asked) /\ TabOK
    BY DEF TabsInv, UiInv
  <2>2. DOMAIN ui = DOMAIN TabInit[tab]
    BY <2>1, NineTabs DEF TabOK, TabInit, ProcessOK, DockerOK, PackagesOK, ServicesOK,
       FirewallOK, UsersOK, AdvancedOK, NetworkOK, DashboardOK
  <2>3. tab # "Dashboard" => ui.cursor \in Nat
    BY <2>1, NineTabs DEF TabOK, ProcessOK, DockerOK, PackagesOK, ServicesOK,
       FirewallOK, UsersOK, AdvancedOK, NetworkOK
  <2>4. world \in [Ids -> {0, 1}] /\ may \in BOOLEAN /\ {asked.moved, asked.switched} \subseteq BOOLEAN
    BY <2>1 DEF TabsInv, WorldOK, AskOK
  <2>5. \A c \in cmds : /\ c.slot \in Slots
                        /\ c.phase \in {"waiting", "verified", "ran", "logged"}
                        /\ \A d \in cmds : c.slot = d.slot => c = d
    BY DEF TabsInv, CmdsInv, SlotsApart, CmdOK, CmdShape
  <2> QED BY <2>1, <2>2, <2>3, <2>4, <2>5 DEF TypeOK
<1> QED BY <1>1, Invariant, PTL

\* A tab that keeps what its dialog was opened on (process.go, packages.go,
\* services.go) acts on that row and no other, whatever listings and keys came
\* between the question, the answer and the goroutine that acts, and a process
\* is acted on under the name the dialog was opened with, or not at all.  Where
\* a tab looks the row up again when y is pressed (docker.go, users.go,
\* firewall.go, advanced.go), another row has come there by a listing and by no
\* key.  The backend differs from the one on the screen only where it already
\* did when the dialog opened, or b came between y and the command.
THEOREM DoneAsAsked == Spec => []ActsAsAsked
<1>1. TabsInv => ActsAsAsked
  <2> SUFFICES ASSUME TabsInv, NEW c \in cmds, c.phase \in {"ran", "logged"}
               PROVE  /\ c.row \in {NoRow, c.asked.row} \/ (c.asked.moved /\ tab \notin Latching)
                      /\ c.at = c.asked.at \/ (c.asked.switched /\ tab \in Switching)
    BY DEF ActsAsAsked
  <2>1. CmdOK(c) /\ c.phase # "waiting"
    BY DEF TabsInv, CmdsInv
  <2>2. c.op \notin Fetches
    BY <2>1 DEF CmdOK
  <2> QED BY <2>1, <2>2 DEF CmdOK, CmdShape, AskOK, RowAsAsked
<1> QED BY <1>1, Invariant, PTL

\* SIGKILL was confirmed with its target's own pid, a system update with its
\* phrase, and a rule or an account is the text of the form (confirmKill,
\* handleDialogKey, handleWizardKey): typed since that very dialog opened.
THEOREM ConfirmedInFull == Spec => []TypedInFull
<1>1. TabsInv => TypedInFull
  <2> SUFFICES ASSUME TabsInv, NEW c \in cmds
               PROVE  TextAsAsked(c.op, c.row, c.text, c.asked)
    BY DEF TypedInFull, TextAsAsked
  <2> QED BY DEF TabsInv, CmdsInv, CmdOK
<1> QED BY <1>1, Invariant, PTL
-----------------------------------------------------------------------------
(* The part of a list that is drawn.                                       *)

\* Window is the arithmetic of renderTable, viewInstalled and the others: for
\* every length, cursor and room it is a part of the list, with the cursor in
\* it if the cursor is on a row.
LEMMA WindowIsPart ==
  ASSUME NEW n \in Nat, NEW c \in Nat, NEW view \in Int
  PROVE  LET w == Window(n, c, view)
         IN  /\ 0 <= w.from /\ w.from <= w.to /\ w.to <= n
             /\ c < n => w.from <= c /\ c < w.to
<1> DEFINE half == view \div 2
<1>1. view > 0 => half \in Nat /\ half <= view /\ (half < view)
  OBVIOUS
<1>2. CASE view > 0 /\ n > view
  <2>1. CASE c < half
    <3>1. Window(n, c, view) = IF 0 + view > n THEN [from |-> n - view, to |-> n]
                               ELSE [from |-> 0, to |-> 0 + view]
      BY <1>2, <2>1 DEF Window
    <3> HIDE DEF half
    <3> QED BY <1>1, <1>2, <2>1, <3>1
  <2>2. CASE ~(c < half)
    <3>1. Window(n, c, view) = IF c - half + view > n THEN [from |-> n - view, to |-> n]
                               ELSE [from |-> c - half, to |-> c - half + view]
      BY <1>2, <2>2 DEF Window
    <3> HIDE DEF half
    <3> QED BY <1>1, <1>2, <2>2, <3>1
  <2> QED BY <2>1, <2>2
<1>3. CASE ~(view > 0 /\ n > view)
  <2>1. Window(n, c, view) = [from |-> 0, to |-> n]
    BY <1>3 DEF Window
  <2> QED BY <2>1
<1> QED BY <1>2, <1>3

\* What a View draws of its list is cut out of it by Window, at the cursor.
CutFrom(v) == \E room \in Int : v.window = Window(v.size, v.cursor, room)

LEMMA ViewsCut ==
  ASSUME tab \in Tabs, tab # "Dashboard", NEW h \in Heights
  PROVE  View(h).cursor = ui.cursor /\ CutFrom(View(h))
<1>1. h \in Int
  BY TabAssumption
<1>2. CASE tab = "Process"
  <2>1. Len(Signals) \in Nat /\ SortItems \in Nat
    <3>1. Len(Columns) \in Nat
      BY ProcessAssumption, LenProperties
    <3> QED BY <3>1, SignalCount DEF SortItems
  <2> DEFINE filter == IF ui.filterMode \/ ui.filter > 0 THEN 2 ELSE 0
             dialog == CASE ui.mode = 3 -> Len(Signals) + 3 [] ui.mode = 2 -> 3 [] OTHER -> 0
             menu == IF ui.sortMenu THEN SortItems + 3 ELSE 0
             extra == 8 + filter + dialog + menu
             room == IF h - extra < 3 THEN 3 ELSE h - extra
  <2>2. View(h) = ProcessView(h)
    BY <1>2 DEF View
  <2>3. /\ ProcessView(h).window = Window(ProcessView(h).size, ProcessView(h).cursor, room)
        /\ ProcessView(h).cursor = ui.cursor
    <3> HIDE DEF room
    <3>1. ProcessView(h) =
            [panel |-> IF ui.detail THEN "detail" ELSE "table", size |-> Len(Procs),
             cursor |-> ui.cursor, window |-> Window(Len(Procs), ui.cursor, room),
             row |-> IF ui.cursor < Len(Procs) THEN At(Procs, ui.cursor) ELSE NoRow,
             dialog |-> ui.mode > 0 /\ ~ui.detail]
      BY DEF ProcessView, room
    <3> QED BY <3>1
  <2>4. room \in Int
    <3>1. filter \in Int
      OBVIOUS
    <3>2. dialog \in Int
      BY <2>1
    <3>3. menu \in Int
      BY <2>1
    <3> HIDE DEF filter, dialog, menu
    <3>4. extra \in Int
      BY <3>1, <3>2, <3>3
    <3> HIDE DEF extra
    <3> QED BY <1>1, <3>4
  <2> HIDE DEF room
  <2> QED BY <2>2, <2>3, <2>4 DEF CutFrom
<1>3. CASE tab = "Docker"
  BY <1>1, <1>3 DEF View, DockerView, CutFrom
<1>4. CASE tab = "Packages"
  BY <1>1, <1>4 DEF View, PackagesView, CutFrom
<1>5. CASE tab = "Services"
  BY <1>1, <1>5 DEF View, ServicesView, CutFrom
<1>6. CASE tab = "Firewall"
  BY <1>1, <1>6 DEF View, FirewallView, CutFrom
<1>7. CASE tab = "Users"
  BY <1>1, <1>7 DEF View, UsersView, CutFrom
<1>8. CASE tab = "Advanced"
  BY <1>1, <1>8 DEF View, AdvancedView, CutFrom
<1>9. CASE tab = "Network"
  BY <1>1, <1>9 DEF View, NetworkView, CutFrom
<1> QED BY <1>2, <1>3, <1>4, <1>5, <1>6, <1>7, <1>8, <1>9, NineTabs

\* A list of rows.
Rows == Seq([id : STRING, tag : IF tab = "Packages" THEN Nat ELSE {0, 1}])

\* Whatever is filtered, reversed or sorted out of a list is a list.
LEMMA FilteredLen ==
  ASSUME NEW S, NEW list \in Seq(S), NEW n PROVE Len(Filtered(list, n)) \in Nat
BY SelectedFacts DEF Filtered

\* A function on the numbers up to n is a list.
LEMMA ListOfAny ==
  ASSUME NEW n \in Nat, NEW f, f = [i \in 1 .. n |-> f[i]]
  PROVE  \E S : f \in Seq(S)
<1> DEFINE S == {f[i] : i \in 1 .. n}
<1>1. f \in [1 .. n -> S]
  OBVIOUS
<1> HIDE DEF S
<1>2. f \in Seq(S)
  BY <1>1, ListOf
<1> QED BY <1>2

\* The processes in any of their orders are a list.
LEMMA SortedList ==
  ASSUME NEW S, NEW list \in Seq(S), NEW u PROVE \E T : Sorted(list, u) \in Seq(T)
<1>1. Len(list) \in Nat /\ DOMAIN list = 1 .. Len(list)
  BY LenProperties
<1>2. PICK T : ByRank(list) \in Seq(T)
  <2>1. PICK f : f = ByRank(list)
    OBVIOUS
  <2> DEFINE place(i) == CHOOSE r \in ToSet(list) :
               Cardinality({q \in ToSet(list) : Rank[q.id] < Rank[r.id]}) = i - 1
  <2>3. f = [i \in DOMAIN list |-> place(i)]
    BY <2>1 DEF ByRank
  <2> HIDE DEF place
  <2>2. f = [i \in 1 .. Len(list) |-> f[i]]
    BY <1>1, <2>3
  <2> QED BY <1>1, <2>1, <2>2, ListOfAny
<1>3. Reverse(list) \in Seq(S) /\ Reverse(ByRank(list)) \in Seq(T)
  <2>1. \A R : \A s \in Seq(R) : Reverse(s) \in Seq(R)
    <3> SUFFICES ASSUME NEW R, NEW s \in Seq(R) PROVE Reverse(s) \in Seq(R)
      OBVIOUS
    <3>1. Len(s) \in Nat /\ \A i \in 1 .. Len(s) : s[i] \in R
      BY LenProperties, ElementOfSeq
    <3>2. Reverse(s) \in [1 .. Len(s) -> R]
      BY <3>1 DEF Reverse
    <3> QED BY <3>1, <3>2, ListOf
  <2> QED BY <1>2, <2>1
<1> QED BY <1>2, <1>3 DEF Sorted

\* The lists that the views draw have a length.
LEMMA ListsMeasured ==
  ASSUME tab \in Tabs, rows \in Rows
  PROVE  /\ Len(rows) \in Nat /\ Len(Procs) \in Nat /\ Len(Units) \in Nat
         /\ Len(Accounts) \in Nat /\ Len(Sockets) \in Nat /\ Len(Installed) \in Nat
<1> DEFINE R == [id : STRING, tag : IF tab = "Packages" THEN Nat ELSE {0, 1}]
<1>1. rows \in Seq(R) /\ Len(rows) \in Nat
  BY LenProperties DEF Rows
<1> HIDE DEF R
<1>2. Len(Procs) \in Nat
  <2>1. PICK T : Sorted(rows, ui) \in Seq(T)
    BY <1>1, SortedList
  <2> QED BY <2>1, FilteredLen DEF Procs
<1>3. \A P : Selected(rows, P) \in Seq(R)
  BY <1>1, SelectedFacts
<1>4. Len(Units) \in Nat
  BY <1>3, FilteredLen DEF Units
<1>5. Len(Accounts) \in Nat
  BY <1>3, FilteredLen DEF Accounts, Visible
<1>6. Len(Sockets) \in Nat
  BY <1>1, FilteredLen DEF Sockets
<1>7. Len(Installed) \in Nat
  BY <1>3, FilteredLen DEF Installed
<1> QED BY <1>1, <1>2, <1>4, <1>5, <1>6, <1>7

\* What a search found is a listing a search may bring.
FoundOK ==
  tab = "Packages" =>
    ui.searchResults \in Hits \cup {<<>>} /\ ui.searchSuggestions \in Hits \cup {<<>>}

SameFinds ==
  /\ ui'.searchResults = ui.searchResults
  /\ ui'.searchSuggestions = ui.searchSuggestions

\* No key changes what was found, and only a search that ends does.
LEMMA KeyKeepsFinds ==
  ASSUME PackagesOK, NEW k, PackagesKey(k) PROVE SameFinds
<1>0. DOMAIN ui = DOMAIN PackagesInit
  BY DEF PackagesOK
<1>1. \A u : DOMAIN u = DOMAIN PackagesInit /\ u.searchResults = ui.searchResults
             /\ u.searchSuggestions = ui.searchSuggestions /\ Search(u) => SameFinds
  BY DEF Search, SameFinds, PackagesInit
<1>2. CASE PackagesDialog(k)
  BY <1>0, <1>2 DEF PackagesDialog, PackagesConfirm, Become, PackagesInit, SameFinds
<1>3. CASE PackagesFilter(k)
  <2>1. CASE Search([ui EXCEPT !.filterMode = FALSE, !.searchQuery = ui.filter])
    BY <1>0, <1>1, <2>1 DEF PackagesInit
  <2>2. CASE ~Search([ui EXCEPT !.filterMode = FALSE, !.searchQuery = ui.filter])
    BY <1>0, <1>3, <2>2 DEF PackagesFilter, Become, PackagesInit, SameFinds
  <2> QED BY <2>1, <2>2
<1>4. CASE SwitchBackend
  <2> DEFINE u == [ui EXCEPT !.active = (@ + 1) % Len(Engines), !.cursor = 0]
  <2>1. /\ DOMAIN u = DOMAIN ui /\ u.searchResults = ui.searchResults
        /\ u.searchSuggestions = ui.searchSuggestions
    BY <1>0 DEF PackagesInit
  <2>2. ui' = u \/ ui' = [u EXCEPT !.searchLoading = TRUE]
    BY <1>4 DEF SwitchBackend
  <2> HIDE DEF u
  <2> QED BY <1>0, <2>1, <2>2 DEF SameFinds, PackagesInit
<1>5. CASE PackagesList(k) /\ ~SwitchBackend
  BY <1>0, <1>5 DEF PackagesList, Become, PackagesInit, SameFinds
<1>6. CASE Become([ui EXCEPT !.lastOp = FALSE])
  BY <1>0, <1>6 DEF Become, PackagesInit, SameFinds
<1> QED BY <1>2, <1>3, <1>4, <1>5, <1>6 DEF PackagesKey

LEMMA ResultKeepsFinds ==
  ASSUME PackagesOK, tab = "Packages", FoundOK, NEW c, NEW ok, ui' \in PackagesResult(c, ok)
  PROVE  /\ ui'.searchResults \in Hits \cup {<<>>}
         /\ ui'.searchSuggestions \in Hits \cup {<<>>}
<1>0. DOMAIN ui = DOMAIN PackagesInit
  BY DEF PackagesOK
<1> DEFINE u == [ui EXCEPT !.searchLoading = FALSE]
<1>1. /\ DOMAIN u = DOMAIN ui /\ u.searchResults = ui.searchResults
      /\ u.searchSuggestions = ui.searchSuggestions
  BY <1>0 DEF PackagesInit
<1> HIDE DEF u
<1>2. \/ \E hit \in Hits \X Hits :
           ui' = [u EXCEPT !.searchResults = hit[1], !.searchSuggestions = hit[2]]
      \/ ui' = u
      \/ ui' = [ui EXCEPT !.lastOp = TRUE]
  BY DEF PackagesResult, u
<1>3. CASE \E hit \in Hits \X Hits :
             ui' = [u EXCEPT !.searchResults = hit[1], !.searchSuggestions = hit[2]]
  BY <1>0, <1>1, <1>3 DEF PackagesInit
<1>4. CASE ui' = u \/ ui' = [ui EXCEPT !.lastOp = TRUE]
  BY <1>0, <1>1, <1>4 DEF PackagesInit, FoundOK
<1> QED BY <1>2, <1>3, <1>4

LEMMA FoundFromHits == Spec => []FoundOK
<1>1. Init => FoundOK
  <2> SUFFICES ASSUME Init, tab = "Packages" PROVE FoundOK
    BY DEF FoundOK
  <2>1. ui = PackagesInit
    BY DEF Init, TabInit
  <2> QED BY <2>1 DEF PackagesInit, FoundOK
<1>2. TabsInv /\ FoundOK /\ [Next]_vars => FoundOK'
  <2> SUFFICES ASSUME TabsInv, FoundOK, [Next]_vars, tab' = "Packages"
               PROVE  FoundOK'
    BY DEF FoundOK
  <2>0. tab' = tab
    BY DEF Next, Command, Key, Mouse, Arrive, Jump, Run, WriteEvent, Result, Exec, vars
  <2>1. tab = "Packages" /\ PackagesOK
    BY <2>0 DEF TabsInv, UiInv, TabOK
  <2>2. CASE \E k \in Keys[tab] : Key(k)
    BY <2>1, <2>2, KeyKeepsFinds DEF Key, FoundOK, SameFinds
  <2>3. CASE \E c \in cmds : Result(c)
    BY <2>1, <2>3, ResultKeepsFinds DEF Result, FoundOK
  <2>4. CASE ui' = ui
    BY <2>1, <2>4 DEF FoundOK
  <2>5. CASE Mouse \/ Arrive \/ Jump
    BY <2>1, <2>4, <2>5 DEF Mouse, Arrive, Jump, PackagesArrive
  <2>6. CASE Exec \/ (\E c \in cmds : Run(c) \/ WriteEvent(c)) \/ UNCHANGED vars
    BY <2>4, <2>6 DEF Exec, Run, WriteEvent, vars
  <2> QED BY <2>2, <2>3, <2>5, <2>6 DEF Next, Command
<1> QED BY <1>1, <1>2, Invariant, PTL DEF Spec

\* What is drawn of a list is a part of it with the cursor in it, at every
\* height, for every filter and order, and for a cursor that a shorter listing
\* or a longer filter left behind (renderTable, viewInstalled, renderUnits and
\* their like, which cut their rows out of the list without looking again).
THEOREM DrawnIsPart == Spec => []WindowSafe
<1>1. TabsInv /\ FoundOK => WindowSafe
  <2> SUFFICES ASSUME TabsInv, FoundOK, tab # "Dashboard", NEW h \in Heights
               PROVE  LET v == View(h)
                      IN  /\ 0 <= v.window.from /\ v.window.from <= v.window.to
                          /\ v.window.to <= v.size
                          /\ v.cursor < v.size =>
                               v.window.from <= v.cursor /\ v.cursor < v.window.to
    BY DEF WindowSafe
  <2>1. tab \in Tabs /\ snap.rows \in Listings[tab] \cup {<<>>} /\ TabOK
    BY DEF TabsInv, UiInv
  <2>2. ui.cursor \in Nat
    BY <2>1, NineTabs DEF TabOK, ProcessOK, DockerOK, PackagesOK, ServicesOK,
       FirewallOK, UsersOK, AdvancedOK, NetworkOK
  <2>3. View(h).cursor = ui.cursor /\ CutFrom(View(h))
    BY <2>1, ViewsCut
  <2>4. rows \in Rows
    <3>1. Listings[tab] \subseteq Rows
      BY <2>1, TabAssumption, Zenon DEF Rows
    <3>2. <<>> \in Rows
      BY DEF Rows
    <3> HIDE DEF Rows
    <3>3. snap.rows \in Rows
      BY <2>1, <3>1, <3>2
    <3> QED BY <3>3 DEF rows
  <2>5. View(h).size \in Nat
    <3>1. CASE tab = "Process"
      BY <2>1, <2>4, <3>1, ListsMeasured DEF View, ProcessView
    <3>2. CASE tab = "Docker"
      BY <2>1, <2>4, <3>2, ListsMeasured DEF View, DockerView
    <3>3. CASE tab = "Packages"
      <4>1. ui.searchResults \in Hits \cup {<<>>} /\ ui.searchSuggestions \in Hits \cup {<<>>}
        BY <3>3 DEF FoundOK
      <4>2. Len(Found) \in Nat
        <5> DEFINE R == [id : STRING, tag : Nat]
        <5>1. Hits \subseteq Seq(R)
          BY PackagesAssumption
        <5> HIDE DEF R
        <5>2. Found \in {ui.searchResults, ui.searchSuggestions}
          BY DEF Found
        <5>3. <<>> \in Seq(R)
          OBVIOUS
        <5>4. Found \in Seq(R)
          BY <4>1, <5>1, <5>2, <5>3
        <5> QED BY <5>4, LenProperties
      <4>3. PackagesView(h).size = Len(IF ui.panel = 0 THEN Installed ELSE Found)
        BY DEF PackagesView
      <4>4. Len(Installed) \in Nat
        BY <2>1, <2>4, ListsMeasured
      <4> QED BY <3>3, <4>2, <4>3, <4>4 DEF View
    <3>4. CASE tab = "Services"
      BY <2>1, <2>4, <3>4, ListsMeasured DEF View, ServicesView
    <3>5. CASE tab = "Firewall"
      BY <2>1, <2>4, <3>5, ListsMeasured DEF View, FirewallView
    <3>6. CASE tab = "Users"
      BY <2>1, <2>4, <3>6, ListsMeasured DEF View, UsersView
    <3>7. CASE tab = "Advanced"
      BY <2>1, <2>4, <3>7, ListsMeasured DEF View, AdvancedView
    <3>8. CASE tab = "Network"
      BY <2>1, <2>4, <3>8, ListsMeasured DEF View, NetworkView
    <3> QED BY <2>1, <3>1, <3>2, <3>3, <3>4, <3>5, <3>6, <3>7, <3>8, NineTabs
  <2>6. PICK v : v = View(h)
    OBVIOUS
  <2>7. PICK room \in Int : v.window = Window(v.size, v.cursor, room)
    BY <2>3, <2>6 DEF CutFrom
  <2>8. v.size \in Nat /\ v.cursor \in Nat
    BY <2>2, <2>3, <2>5, <2>6
  <2>9. /\ 0 <= v.window.from /\ v.window.from <= v.window.to /\ v.window.to <= v.size
        /\ v.cursor < v.size => v.window.from <= v.cursor /\ v.cursor < v.window.to
    BY <2>7, <2>8, WindowIsPart
  <2> QED BY <2>6, <2>9
<1> QED BY <1>1, Invariant, FoundFromHits, PTL
-----------------------------------------------------------------------------
(* The dashboard's layout.                                                 *)

\* A layout that has each of the panels Q in one place.
Arranged(layout, Q) ==
  /\ layout \in Seq(Seq(Q))
  /\ \A i \in DOMAIN layout : layout[i] # <<>> /\ Distinct(layout[i])
  /\ \A i, j \in DOMAIN layout : i # j => ToSet(layout[i]) \cap ToSet(layout[j]) = {}
  /\ Q = UNION {ToSet(layout[i]) : i \in DOMAIN layout}
\* A row without a panel has the others.
LEMMA LessFacts ==
  ASSUME NEW Q, NEW row \in Seq(Q), Distinct(row), NEW p
  PROVE  /\ Less(row, p) \in Seq(Q) /\ Distinct(Less(row, p))
         /\ ToSet(Less(row, p)) = ToSet(row) \ {p}
<1> DEFINE P == {i \in DOMAIN row : row[i] # p}
<1> DEFINE t == Selected(row, P)
<1>1. DOMAIN row = 1 .. Len(row) /\ Len(row) \in Nat
  BY ListFacts
<1>2. t \in Seq(Q) /\ DOMAIN t = 1 .. Len(t) /\ ToSet(t) = {row[i] : i \in P \cap DOMAIN row}
  BY SelectedFacts, ListFacts
<1>f. PICK from : Origins(t, row, P, from)
  <2> HIDE DEF P
  <2> QED BY SelectedFrom
<1>3. /\ from \in [1 .. Len(t) -> P \cap (1 .. Len(row))]
      /\ \A k \in 1 .. Len(t) : t[k] = row[from[k]]
      /\ \A k, l \in 1 .. Len(t) : from[k] = from[l] => k = l
  BY <1>f DEF Origins
<1>4. ToSet(t) = ToSet(row) \ {p}
  BY <1>2 DEF ToSet
<1> HIDE DEF t
<1>5. Distinct(t)
  <2> SUFFICES ASSUME NEW k \in 1 .. Len(t), NEW l \in 1 .. Len(t), t[k] = t[l] PROVE k = l
    BY <1>2 DEF Distinct
  <2>1. row[from[k]] = row[from[l]] /\ from[k] \in DOMAIN row /\ from[l] \in DOMAIN row
    BY <1>3
  <2> QED BY <1>3, <2>1 DEF Distinct
<1> QED BY <1>2, <1>4, <1>5 DEF t, Less

\* And so has a layout.
LEMMA WithoutArranged ==
  ASSUME NEW Q, NEW layout, Arranged(layout, Q), NEW p
  PROVE  Arranged(Without(layout, p), Q \ {p})
<1> DEFINE left == [i \in DOMAIN layout |-> Less(layout[i], p)]
<1> DEFINE n == Len(layout)
<1> DEFINE P == {i \in DOMAIN left : left[i] # <<>>}
<1> DEFINE t == Selected(left, P)
<1>1. n \in Nat /\ DOMAIN layout = 1 .. n /\ \A i \in 1 .. n : layout[i] \in Seq(Q) /\ Distinct(layout[i])
  BY ListFacts, ElementOfSeq DEF Arranged
<1>2. \A i \in 1 .. n : /\ left[i] \in Seq(Q \ {p}) /\ Distinct(left[i])
                        /\ ToSet(left[i]) = ToSet(layout[i]) \ {p}
  <2> SUFFICES ASSUME NEW i \in 1 .. n
               PROVE  /\ Less(layout[i], p) \in Seq(Q \ {p}) /\ Distinct(Less(layout[i], p))
                      /\ ToSet(Less(layout[i], p)) = ToSet(layout[i]) \ {p}
    BY <1>1
  <2>1. layout[i] \in Seq(Q) /\ Distinct(layout[i])
    BY <1>1
  <2>2. /\ Less(layout[i], p) \in Seq(Q) /\ Distinct(Less(layout[i], p))
        /\ ToSet(Less(layout[i], p)) = ToSet(layout[i]) \ {p}
    BY <2>1, LessFacts
  <2>3. ToSet(layout[i]) \subseteq Q
    BY <2>1, ListFacts
  <2> QED BY <2>2, <2>3, ListIn
<1>3. left \in Seq(Seq(Q \ {p})) /\ Len(left) = n /\ DOMAIN left = 1 .. n
  <2>1. left \in [1 .. n -> Seq(Q \ {p})]
    BY <1>1, <1>2
  <2> HIDE DEF left, n
  <2> QED BY <1>1, <2>1, ListOf
<1> HIDE DEF left, n
<1>4. t \in Seq(Seq(Q \ {p})) /\ DOMAIN t = 1 .. Len(t)
  <2> HIDE DEF P
  <2> QED BY <1>3, SelectedFacts, ListFacts
<1>f. PICK from : Origins(t, left, P, from)
  <2> HIDE DEF P
  <2> QED BY <1>3, SelectedFrom
<1>5. /\ from \in [1 .. Len(t) -> P \cap (1 .. n)]
      /\ \A k \in 1 .. Len(t) : t[k] = left[from[k]]
      /\ \A k, l \in 1 .. Len(t) : from[k] = from[l] => k = l
      /\ \A i \in P \cap (1 .. n) : \E k \in 1 .. Len(t) : from[k] = i
  BY <1>f, <1>3 DEF Origins
<1> HIDE DEF t
<1>6. \A k \in 1 .. Len(t) : from[k] \in 1 .. n /\ left[from[k]] # <<>>
  BY <1>5
<1>7. \A k \in 1 .. Len(t) : t[k] # <<>> /\ Distinct(t[k])
  BY <1>2, <1>5, <1>6
<1>8. \A k, l \in 1 .. Len(t) : k # l => ToSet(t[k]) \cap ToSet(t[l]) = {}
  <2> SUFFICES ASSUME NEW k \in 1 .. Len(t), NEW l \in 1 .. Len(t), k # l
               PROVE  ToSet(t[k]) \cap ToSet(t[l]) = {}
    OBVIOUS
  <2>1. from[k] # from[l] /\ from[k] \in 1 .. n /\ from[l] \in 1 .. n
    BY <1>5, <1>6
  <2>2. ToSet(layout[from[k]]) \cap ToSet(layout[from[l]]) = {}
    BY <1>1, <2>1 DEF Arranged
  <2>3. ToSet(t[k]) = ToSet(layout[from[k]]) \ {p} /\ ToSet(t[l]) = ToSet(layout[from[l]]) \ {p}
    BY <1>2, <1>5, <2>1
  <2> QED BY <2>2, <2>3
<1>9. \A q \in Q \ {p} : \E k \in 1 .. Len(t) : q \in ToSet(t[k])
  <2> SUFFICES ASSUME NEW q \in Q, q # p PROVE \E k \in 1 .. Len(t) : q \in ToSet(t[k])
    OBVIOUS
  <2>1. PICK i \in 1 .. n : q \in ToSet(layout[i])
    BY <1>1 DEF Arranged
  <2>2. q \in ToSet(left[i])
    BY <1>2, <2>1
  <2>3. left[i] # <<>>
    BY <1>2, <2>2, ListFacts
  <2>4. i \in P \cap (1 .. n)
    BY <1>3, <2>3
  <2>5. PICK k \in 1 .. Len(t) : from[k] = i
    BY <1>5, <2>4
  <2> QED BY <1>5, <2>2, <2>5
<1>10. \A k \in 1 .. Len(t) : ToSet(t[k]) \subseteq Q \ {p}
  <2> SUFFICES ASSUME NEW k \in 1 .. Len(t) PROVE ToSet(t[k]) \subseteq Q \ {p}
    OBVIOUS
  <2>1. t[k] \in Seq(Q \ {p})
    BY <1>4, ElementOfSeq
  <2> QED BY <2>1, ListFacts
<1>11. Q \ {p} = UNION {ToSet(t[k]) : k \in 1 .. Len(t)}
  BY <1>9, <1>10
<1>12. Without(layout, p) = t
  BY DEF Without, t, left
<1>13. \A i \in DOMAIN t : t[i] # <<>> /\ Distinct(t[i])
  BY <1>4, <1>7
<1>14. \A i, j \in DOMAIN t : i # j => ToSet(t[i]) \cap ToSet(t[j]) = {}
  BY <1>4, <1>8
<1>15. Q \ {p} = UNION {ToSet(t[i]) : i \in DOMAIN t}
  BY <1>4, <1>11
<1>16. Arranged(t, Q \ {p})
  BY <1>4, <1>13, <1>14, <1>15 DEF Arranged
<1> QED BY <1>12, <1>16

\* What makes a list of rows a layout.
LEMMA Arranging ==
  ASSUME NEW Q, NEW S, NEW m \in Nat, NEW t \in [1 .. m -> Seq(S)],
         \A i \in 1 .. m : t[i] # <<>> /\ Distinct(t[i]),
         \A i, j \in 1 .. m : i # j => ToSet(t[i]) \cap ToSet(t[j]) = {},
         \A i \in 1 .. m : ToSet(t[i]) \subseteq Q,
         \A q \in Q : \E i \in 1 .. m : q \in ToSet(t[i])
  PROVE  Arranged(t, Q)
<1>1. \A i \in 1 .. m : t[i] \in Seq(Q)
  BY ListIn
<1>2. t \in Seq(Seq(Q)) /\ DOMAIN t = 1 .. m
  <2>1. t \in [1 .. m -> Seq(Q)]
    BY <1>1
  <2> QED BY <2>1, ListOf
<1>3. Q = UNION {ToSet(t[i]) : i \in 1 .. m}
  OBVIOUS
<1>4. \A i \in DOMAIN t : t[i] # <<>> /\ Distinct(t[i])
  BY <1>2
<1>5. \A i, j \in DOMAIN t : i # j => ToSet(t[i]) \cap ToSet(t[j]) = {}
  BY <1>2
<1>6. Q = UNION {ToSet(t[i]) : i \in DOMAIN t}
  BY <1>2, <1>3
<1> QED BY <1>2, <1>4, <1>5, <1>6 DEF Arranged

\* A layout of one row.
LEMMA OneRow ==
  ASSUME NEW S, NEW row \in Seq(S), row # <<>>, Distinct(row)
  PROVE  Arranged(<<row>>, ToSet(row))
<1> DEFINE t == <<row>>
<1>1. t \in [1 .. 1 -> Seq(S)] /\ t[1] = row /\ \A i \in 1 .. 1 : i = 1
  OBVIOUS
<1>2. 1 \in 1 .. 1 /\ 1 \in Nat
  OBVIOUS
<1> HIDE DEF t
<1>3. \A i \in 1 .. 1 : t[i] # <<>> /\ Distinct(t[i])
  BY <1>1
<1>4. \A i, j \in 1 .. 1 : i # j => ToSet(t[i]) \cap ToSet(t[j]) = {}
  BY <1>1
<1>5. \A i \in 1 .. 1 : ToSet(t[i]) \subseteq ToSet(row)
  BY <1>1
<1>6. \A q \in ToSet(row) : \E i \in 1 .. 1 : q \in ToSet(t[i])
  BY <1>1, <1>2
<1>7. Arranged(t, ToSet(row))
  BY <1>1, <1>2, <1>3, <1>4, <1>5, <1>6, Arranging
<1> QED BY <1>7 DEF t
\* A row with one more panel, next to one that it has.
LEMMA WidenedArranged ==
  ASSUME NEW Q, NEW row \in Seq(Q), row # <<>>, Distinct(row), NEW src, src \notin ToSet(row),
         NEW dst \in ToSet(row), NEW two, two \in {<<dst, src>>, <<src, dst>>},
         NEW wide,
         wide = FlattenSeq([i \in DOMAIN row |-> IF row[i] = dst THEN two ELSE <<row[i]>>])
  PROVE  Arranged(<<wide>>, ToSet(row) \cup {src})
<1> DEFINE S == ToSet(row) \cup {src}
<1> DEFINE n == Len(row)
<1> DEFINE ss == [i \in DOMAIN row |-> IF row[i] = dst THEN two ELSE <<row[i]>>]
<1>1. n \in Nat /\ DOMAIN row = 1 .. n /\ \A i \in 1 .. n : row[i] \in ToSet(row)
  BY ListFacts DEF ToSet
<1>2. two \in Seq(S) /\ two # <<>> /\ Distinct(two) /\ ToSet(two) = {dst, src}
  <2>1. dst \in S /\ src \in S /\ dst # src
    OBVIOUS
  <2> HIDE DEF S
  <2>2. /\ <<dst, src>> \in Seq(S) /\ <<dst, src>> # <<>> /\ Distinct(<<dst, src>>)
        /\ ToSet(<<dst, src>>) = {dst, src}
    BY <2>1, TwoThings
  <2>3. /\ <<src, dst>> \in Seq(S) /\ <<src, dst>> # <<>> /\ Distinct(<<src, dst>>)
        /\ ToSet(<<src, dst>>) = {src, dst}
    BY <2>1, TwoThings
  <2>4. CASE two = <<dst, src>>
    BY <2>2, <2>4
  <2>5. CASE two = <<src, dst>>
    BY <2>3, <2>5
  <2> QED BY <2>4, <2>5
<1>3. \A i \in 1 .. n : row[i] # dst => /\ <<row[i]>> \in Seq(S) /\ Distinct(<<row[i]>>)
                                        /\ ToSet(<<row[i]>>) = {row[i]}
  BY <1>1, OneThing
<1>4. \A i \in 1 .. n : /\ ss[i] \in Seq(S) /\ Distinct(ss[i])
                        /\ ToSet(ss[i]) = IF row[i] = dst THEN {dst, src} ELSE {row[i]}
  BY <1>1, <1>2, <1>3
<1>5. ss \in [1 .. n -> Seq(S)]
  BY <1>1, <1>4
<1>6. \A i, j \in 1 .. n : i # j => row[i] # row[j]
  BY <1>1 DEF Distinct
<1> HIDE DEF ss
<1>7. \A i, j \in 1 .. n : i # j => ToSet(ss[i]) \cap ToSet(ss[j]) = {}
  <2> SUFFICES ASSUME NEW i \in 1 .. n, NEW j \in 1 .. n, i # j
               PROVE  ToSet(ss[i]) \cap ToSet(ss[j]) = {}
    OBVIOUS
  <2>1. row[i] # row[j] /\ row[i] # src /\ row[j] # src
    BY <1>1, <1>6
  <2> QED BY <1>4, <2>1
<1>8. /\ wide \in Seq(S) /\ Distinct(wide)
      /\ ToSet(wide) = UNION {ToSet(ss[i]) : i \in 1 .. n}
  <2> HIDE DEF S, n
  <2>1. \A i \in 1 .. n : Distinct(ss[i])
    BY <1>4
  <2>2. wide = FlattenSeq(ss)
    BY DEF ss
  <2>3. n \in Nat /\ ss \in [1 .. n -> Seq(S)]
    BY <1>1, <1>5
  <2>4. /\ FlattenSeq(ss) \in Seq(S) /\ Distinct(FlattenSeq(ss))
        /\ ToSet(FlattenSeq(ss)) = UNION {ToSet(ss[i]) : i \in 1 .. n}
    BY <1>7, <2>1, <2>3, FlattenDistinct
  <2> QED BY <2>2, <2>4
<1>9. ToSet(wide) = S
  <2>1. \A q \in ToSet(row) : \E i \in 1 .. n : row[i] = q
    BY <1>1 DEF ToSet
  <2>2. \A q \in S : \E i \in 1 .. n : q \in ToSet(ss[i])
    BY <1>4, <2>1
  <2>3. \A i \in 1 .. n : ToSet(ss[i]) \subseteq S
    BY <1>4, <1>1
  <2> QED BY <1>8, <2>2, <2>3
<1>10. wide # <<>>
  BY <1>8, <1>9, ListFacts
<1> HIDE DEF S
<1>12. Arranged(<<wide>>, S)
  BY <1>8, <1>9, <1>10, OneRow
<1> QED BY <1>12 DEF S

\* The rows that take the place of one.
LEMMA PlacedArranged ==
  ASSUME NEW Q, NEW row \in Seq(Q), row # <<>>, Distinct(row), NEW src, src \notin ToSet(row),
         NEW dst, NEW zone
  PROVE  Arranged(Placed(row, src, dst, zone),
                  ToSet(row) \cup (IF dst \in ToSet(row) THEN {src} ELSE {}))
<1>1. DOMAIN row = 1 .. Len(row) /\ Len(row) \in Nat /\ row \in Seq(ToSet(row))
  <2>1. ToSet(row) \subseteq ToSet(row)
    OBVIOUS
  <2> QED BY <2>1, ListFacts, ListIn
<1>2. (\A i \in DOMAIN row : row[i] # dst) <=> dst \notin ToSet(row)
  BY <1>1 DEF ToSet
<1>3. CASE dst \notin ToSet(row)
  <2>1. Placed(row, src, dst, zone) = <<row>>
    BY <1>2, <1>3 DEF Placed
  <2>2. Arranged(<<row>>, ToSet(row))
    BY OneRow
  <2> QED BY <1>3, <2>1, <2>2
<1>4. CASE dst \in ToSet(row)
  <2> DEFINE S == ToSet(row) \cup {src}
  <2>0. ~\A i \in DOMAIN row : row[i] # dst
    BY <1>2, <1>4
  <2>1. /\ <<src>> \in Seq(S) /\ row \in Seq(S) /\ <<src>> # <<>> /\ Distinct(<<src>>)
        /\ ToSet(<<src>>) = {src}
    <3>1. src \in S /\ ToSet(row) \subseteq S
      OBVIOUS
    <3> HIDE DEF S
    <3> QED BY <3>1, OneThing, ListIn
  <2>2. ASSUME NEW t, t \in {<<<<src>>, row>>, <<row, <<src>>>>} PROVE Arranged(t, S)
    <3>1. \/ t[1] = <<src>> /\ t[2] = row
          \/ t[1] = row /\ t[2] = <<src>>
      BY <2>2
    <3>2. t \in [1 .. 2 -> Seq(S)] /\ \A i \in 1 .. 2 : i = 1 \/ i = 2
      <4> HIDE DEF S
      <4>1. \A R : \A a, b \in R : <<a, b>> \in [1 .. 2 -> R]
        OBVIOUS
      <4>2. <<<<src>>, row>> \in [1 .. 2 -> Seq(S)] /\ <<row, <<src>>>> \in [1 .. 2 -> Seq(S)]
        BY <2>1, <4>1
      <4>3. \A i \in 1 .. 2 : i = 1 \/ i = 2
        OBVIOUS
      <4> QED BY <2>2, <4>2, <4>3
    <3>3. \A i \in 1 .. 2 : t[i] # <<>> /\ Distinct(t[i])
      BY <2>1, <3>1, <3>2
    <3>4. \A i, j \in 1 .. 2 : i # j => ToSet(t[i]) \cap ToSet(t[j]) = {}
      BY <2>1, <3>1, <3>2
    <3>5. \A i \in 1 .. 2 : ToSet(t[i]) \subseteq S
      BY <2>1, <3>1, <3>2
    <3>6. \A q \in S : \E i \in 1 .. 2 : q \in ToSet(t[i])
      <4>1. 1 \in 1 .. 2 /\ 2 \in 1 .. 2
        OBVIOUS
      <4> QED BY <2>1, <3>1, <4>1
    <3> HIDE DEF S
    <3> QED BY <3>2, <3>3, <3>4, <3>5, <3>6, Arranging
  <2>3. CASE zone = "top"
    <3>1. Placed(row, src, dst, zone) = <<<<src>>, row>>
      BY <2>0, <2>3 DEF Placed
    <3> QED BY <1>4, <2>2, <3>1
  <2>4. CASE zone = "bottom"
    <3>1. Placed(row, src, dst, zone) = <<row, <<src>>>>
      BY <2>0, <2>4 DEF Placed
    <3> QED BY <1>4, <2>2, <3>1
  <2>5. CASE zone \notin {"top", "bottom"}
    <3>1. \E two \in {<<dst, src>>, <<src, dst>>} :
            Placed(row, src, dst, zone) =
              <<FlattenSeq([i \in DOMAIN row |-> IF row[i] = dst THEN two ELSE <<row[i]>>])>>
      BY <2>0, <2>5 DEF Placed
    <3> HIDE DEF S
    <3>2. PICK two \in {<<dst, src>>, <<src, dst>>} :
            Placed(row, src, dst, zone) =
              <<FlattenSeq([i \in DOMAIN row |-> IF row[i] = dst THEN two ELSE <<row[i]>>])>>
      BY <3>1
    <3>3. PICK wide : wide = FlattenSeq([i \in DOMAIN row |->
                                           IF row[i] = dst THEN two ELSE <<row[i]>>])
      OBVIOUS
    <3>4. Arranged(<<wide>>, ToSet(row) \cup {src})
      BY <1>4, <3>3, WidenedArranged
    <3>5. Placed(row, src, dst, zone) = <<wide>>
      BY <3>2, <3>3
    <3> QED BY <1>4, <3>4, <3>5
  <2> QED BY <2>3, <2>4, <2>5
<1> QED BY <1>3, <1>4

\* Layouts that have no panel in common, one after another.
LEMMA JoinArranged ==
  ASSUME NEW n \in Nat, NEW parts, NEW of, parts = [i \in 1 .. n |-> parts[i]],
         \A i \in 1 .. n : Arranged(parts[i], of[i]),
         \A i, j \in 1 .. n : i # j => of[i] \cap of[j] = {}
  PROVE  Arranged(FlattenSeq(parts), UNION {of[i] : i \in 1 .. n})
<1> DEFINE Q == UNION {of[i] : i \in 1 .. n}
<1> DEFINE t == FlattenSeq(parts)
<1>1. \A i \in 1 .. n : /\ parts[i] \in Seq(Seq(Q)) /\ Len(parts[i]) \in Nat
                        /\ DOMAIN parts[i] = 1 .. Len(parts[i])
                        /\ \A x \in 1 .. Len(parts[i]) : /\ parts[i][x] # <<>> /\ Distinct(parts[i][x])
                                                         /\ ToSet(parts[i][x]) \subseteq of[i]
  <2> SUFFICES ASSUME NEW i \in 1 .. n
               PROVE  /\ parts[i] \in Seq(Seq(Q)) /\ Len(parts[i]) \in Nat
                      /\ DOMAIN parts[i] = 1 .. Len(parts[i])
                      /\ \A x \in 1 .. Len(parts[i]) :
                           /\ parts[i][x] # <<>> /\ Distinct(parts[i][x])
                           /\ ToSet(parts[i][x]) \subseteq of[i]
    OBVIOUS
  <2> DEFINE p == parts[i]
  <2>1. Arranged(p, of[i])
    OBVIOUS
  <2>2. p \in Seq(Seq(of[i]))
    BY <2>1 DEF Arranged
  <2>3. Len(p) \in Nat /\ DOMAIN p = 1 .. Len(p) /\ p \in [1 .. Len(p) -> Seq(of[i])]
    BY <2>2, ListFacts
  <2>4. \A x \in 1 .. Len(p) : p[x] # <<>> /\ Distinct(p[x]) /\ ToSet(p[x]) \subseteq of[i]
    BY <2>1, <2>3 DEF Arranged
  <2>5. of[i] \subseteq Q
    OBVIOUS
  <2> HIDE DEF Q, p
  <2>6. p \in [1 .. Len(p) -> Seq(Q)]
    <3>1. \A x \in 1 .. Len(p) : p[x] \in Seq(Q)
      <4> SUFFICES ASSUME NEW x \in 1 .. Len(p) PROVE p[x] \in Seq(Q)
        OBVIOUS
      <4>1. p[x] \in Seq(of[i]) /\ ToSet(p[x]) \subseteq Q
        BY <2>3, <2>4, <2>5
      <4> QED BY <4>1, ListIn
    <3> QED BY <2>3, <3>1
  <2>7. p \in Seq(Seq(Q))
    BY <2>3, <2>6, ListOf
  <2> QED BY <2>3, <2>4, <2>7 DEF p
<1>2. parts \in [1 .. n -> Seq(Seq(Q))]
  <2> HIDE DEF Q
  <2> QED BY <1>1
<1>3. t \in Seq(Seq(Q)) /\ \E off : Spread(parts, n, off)
  <2> HIDE DEF Q
  <2> QED BY <1>2, FlattenFacts
<1>4. PICK off : Spread(parts, n, off)
  BY <1>3
<1> HIDE DEF Q
<1>5. Len(t) \in Nat /\ DOMAIN t = 1 .. Len(t) /\ t \in [1 .. Len(t) -> Seq(Q)] /\ Len(t) = off[n]
  BY <1>3, <1>4, ListFacts DEF Spread
<1> HIDE DEF t
<1>6. /\ \A i \in 1 .. n : \A x \in 1 .. Len(parts[i]) :
           off[i - 1] + x \in 1 .. Len(t) /\ t[off[i - 1] + x] = parts[i][x]
      /\ \A k \in 1 .. Len(t) : \E i \in 1 .. n : \E x \in 1 .. Len(parts[i]) : k = off[i - 1] + x
  BY <1>4, <1>5 DEF Spread, t
<1>7. \A k \in 1 .. Len(t) : \E i \in 1 .. n : \E x \in 1 .. Len(parts[i]) :
        k = off[i - 1] + x /\ t[k] = parts[i][x]
  <2> SUFFICES ASSUME NEW k \in 1 .. Len(t)
               PROVE  \E i \in 1 .. n : \E x \in 1 .. Len(parts[i]) :
                        k = off[i - 1] + x /\ t[k] = parts[i][x]
    OBVIOUS
  <2>1. PICK i \in 1 .. n : \E x \in 1 .. Len(parts[i]) : k = off[i - 1] + x
    BY <1>6
  <2>2. PICK x \in 1 .. Len(parts[i]) : k = off[i - 1] + x
    BY <2>1
  <2>3. t[k] = parts[i][x]
    BY <1>6, <2>2
  <2> QED BY <2>2, <2>3
<1>8. \A k \in 1 .. Len(t) : t[k] # <<>> /\ Distinct(t[k])
  BY SMTT(30), <1>1, <1>7
<1>9. \A k \in 1 .. Len(t) : ToSet(t[k]) \subseteq Q
  <2> SUFFICES ASSUME NEW k \in 1 .. Len(t) PROVE ToSet(t[k]) \subseteq Q
    OBVIOUS
  <2>1. t[k] \in Seq(Q)
    BY <1>5
  <2> QED BY <2>1, ListFacts
<1>10. \A k, l \in 1 .. Len(t) : k # l => ToSet(t[k]) \cap ToSet(t[l]) = {}
  <2> SUFFICES ASSUME NEW k \in 1 .. Len(t), NEW l \in 1 .. Len(t), k # l
               PROVE  ToSet(t[k]) \cap ToSet(t[l]) = {}
    OBVIOUS
  <2>1. PICK i \in 1 .. n : \E x \in 1 .. Len(parts[i]) : k = off[i - 1] + x /\ t[k] = parts[i][x]
    BY <1>7
  <2>2. PICK x \in 1 .. Len(parts[i]) : k = off[i - 1] + x /\ t[k] = parts[i][x]
    BY <2>1
  <2>3. PICK j \in 1 .. n : \E y \in 1 .. Len(parts[j]) : l = off[j - 1] + y /\ t[l] = parts[j][y]
    BY <1>7
  <2>4. PICK y \in 1 .. Len(parts[j]) : l = off[j - 1] + y /\ t[l] = parts[j][y]
    BY <2>3
  <2>5. CASE i = j
    <3>1. x # y
      BY <2>2, <2>4, <2>5
    <3>2. Arranged(parts[i], of[i]) /\ x \in DOMAIN parts[i] /\ y \in DOMAIN parts[i]
      BY <1>1, <2>5
    <3>3. ToSet(parts[i][x]) \cap ToSet(parts[i][y]) = {}
      BY <3>1, <3>2 DEF Arranged
    <3> QED BY <2>2, <2>4, <2>5, <3>3
  <2>6. CASE i # j
    <3>1. of[i] \cap of[j] = {}
      BY <2>6
    <3>2. ToSet(t[k]) \subseteq of[i] /\ ToSet(t[l]) \subseteq of[j]
      BY <1>1, <2>2, <2>4
    <3> QED BY <3>1, <3>2
  <2> QED BY <2>5, <2>6
<1>11. \A q \in Q : \E k \in 1 .. Len(t) : q \in ToSet(t[k])
  <2> SUFFICES ASSUME NEW q \in Q PROVE \E k \in 1 .. Len(t) : q \in ToSet(t[k])
    OBVIOUS
  <2>1. PICK i \in 1 .. n : q \in of[i]
    BY DEF Q
  <2>2. Arranged(parts[i], of[i]) /\ DOMAIN parts[i] = 1 .. Len(parts[i])
    BY <1>1
  <2>3. PICK x \in 1 .. Len(parts[i]) : q \in ToSet(parts[i][x])
    BY <2>1, <2>2 DEF Arranged
  <2>4. off[i - 1] + x \in 1 .. Len(t) /\ t[off[i - 1] + x] = parts[i][x]
    BY <1>6
  <2> QED BY <2>3, <2>4
<1>12. Arranged(t, Q)
  BY <1>5, <1>8, <1>9, <1>10, <1>11, Arranging
<1> QED BY <1>12 DEF t, Q

\* handleDrop loses no panel and shows none twice.
LEMMA DroppedArranged ==
  ASSUME NEW Q, NEW layout, Arranged(layout, Q), NEW src \in Q, NEW dst \in Q, src # dst, NEW zone
  PROVE  Arranged(Dropped(layout, src, dst, zone), Q)
<1> DEFINE R == Q \ {src}
<1>1. PICK left : left = Without(layout, src)
  OBVIOUS
<1>2. Arranged(left, R)
  BY <1>1, WithoutArranged
<1> DEFINE n == Len(left)
<1>3. n \in Nat /\ DOMAIN left = 1 .. n /\ \A i \in 1 .. n : left[i] \in Seq(R)
  <2> HIDE DEF R
  <2>1. left \in Seq(Seq(R))
    BY <1>2 DEF Arranged
  <2>2. Len(left) \in Nat /\ DOMAIN left = 1 .. Len(left) /\ left \in [1 .. Len(left) -> Seq(R)]
    BY <2>1, ListFacts
  <2> QED BY <2>2
<1> HIDE DEF n
<1> DEFINE of == [i \in 1 .. n |-> ToSet(left[i]) \cup (IF dst \in ToSet(left[i]) THEN {src} ELSE {})]
<1> DEFINE parts == [i \in DOMAIN left |-> Placed(left[i], src, dst, zone)]
<1>4. \A i \in 1 .. n : ToSet(left[i]) \subseteq R /\ src \notin ToSet(left[i])
  <2>1. \A i \in 1 .. n : ToSet(left[i]) \subseteq R
    <3> HIDE DEF R
    <3> QED BY <1>3, ListFacts
  <2> QED BY <2>1
<1>5. \A i, j \in 1 .. n : i # j => ToSet(left[i]) \cap ToSet(left[j]) = {}
  BY <1>2, <1>3 DEF Arranged
<1>6. \A i \in 1 .. n : Arranged(parts[i], of[i])
  <2> SUFFICES ASSUME NEW i \in 1 .. n
               PROVE  Arranged(Placed(left[i], src, dst, zone),
                        ToSet(left[i]) \cup (IF dst \in ToSet(left[i]) THEN {src} ELSE {}))
    BY <1>3
  <2>1. left[i] # <<>> /\ Distinct(left[i]) /\ left[i] \in Seq(R)
    BY <1>2, <1>3 DEF Arranged
  <2> HIDE DEF R
  <2> QED BY <1>4, <2>1, PlacedArranged
<1>7. \A i, j \in 1 .. n : i # j => of[i] \cap of[j] = {}
  BY <1>4, <1>5
<1>8. parts = [i \in 1 .. n |-> parts[i]]
  BY <1>3
<1>9. UNION {of[i] : i \in 1 .. n} = Q
  <2>1. \A q \in R : \E i \in 1 .. n : q \in ToSet(left[i])
    BY <1>2, <1>3 DEF Arranged
  <2>2. \A q \in R : \E i \in 1 .. n : q \in of[i]
    BY <2>1
  <2>3. \E i \in 1 .. n : src \in of[i]
    <3>1. dst \in R
      OBVIOUS
    <3> QED BY <2>1, <3>1
  <2>4. \A i \in 1 .. n : of[i] \subseteq Q
    BY <1>4
  <2> QED BY <2>2, <2>3, <2>4
<1>10. Dropped(layout, src, dst, zone) = FlattenSeq(parts)
  BY <1>1 DEF Dropped
<1> HIDE DEF parts, of, R
<1>11. Arranged(FlattenSeq(parts), UNION {of[i] : i \in 1 .. n})
  <2>1. PICK p : p = parts
    OBVIOUS
  <2>2. PICK o : o = of
    OBVIOUS
  <2>3. p = [i \in 1 .. n |-> p[i]]
    BY <1>8, <2>1
  <2>4. \A i \in 1 .. n : Arranged(p[i], o[i])
    BY <1>6, <2>1, <2>2
  <2>5. \A i, j \in 1 .. n : i # j => o[i] \cap o[j] = {}
    BY <1>7, <2>2
  <2>6. n \in Nat
    BY <1>3
  <2>7. Arranged(FlattenSeq(p), UNION {o[i] : i \in 1 .. n})
    BY <2>3, <2>4, <2>5, <2>6, JoinArranged
  <2> QED BY <2>1, <2>2, <2>7
<1> QED BY <1>9, <1>10, <1>11

\* The layout, and the panel that is being dragged.
DashboardArranged ==
  tab = "Dashboard" =>
    /\ ui.dragTarget \in ToSet(Panels) \cup {"none"}
    /\ Arranged(ui.layout, ToSet(Panels))

\* Each panel in a row of its own, as the dashboard starts.
LEMMA StackedArranged ==
  Arranged([i \in DOMAIN Panels |-> <<Panels[i]>>], ToSet(Panels))
<1> DEFINE Q == ToSet(Panels)
<1> DEFINE n == Len(Panels)
<1> DEFINE t == [i \in DOMAIN Panels |-> <<Panels[i]>>]
<1>1. n \in Nat /\ DOMAIN Panels = 1 .. n
  <2>1. PICK S : Panels \in Seq(S)
    BY DashboardAssumption
  <2> QED BY <2>1, ListFacts
<1>2. \A i \in 1 .. n : Panels[i] \in Q
  BY <1>1 DEF ToSet
<1>3. \A q \in Q : \E i \in 1 .. n : Panels[i] = q
  BY <1>1 DEF ToSet
<1>4. \A i, j \in 1 .. n : i # j => Panels[i] # Panels[j]
  BY <1>1, DashboardAssumption
<1> HIDE DEF Q, n
<1>5. \A i \in 1 .. n : /\ t[i] \in Seq(Q) /\ t[i] # <<>> /\ Distinct(t[i])
                        /\ ToSet(t[i]) = {Panels[i]}
  BY <1>1, <1>2, OneThing
<1>6. t \in [1 .. n -> Seq(Q)]
  BY <1>1, <1>5
<1> HIDE DEF t
<1>7. \A i, j \in 1 .. n : i # j => ToSet(t[i]) \cap ToSet(t[j]) = {}
  BY <1>4, <1>5
<1>8. \A i \in 1 .. n : ToSet(t[i]) \subseteq Q
  BY <1>2, <1>5
<1>9. \A q \in Q : \E i \in 1 .. n : q \in ToSet(t[i])
  BY <1>3, <1>5
<1>10. \A i \in 1 .. n : t[i] # <<>> /\ Distinct(t[i])
  BY <1>5
<1>11. Arranged(t, Q)
  BY <1>1, <1>6, <1>7, <1>8, <1>9, <1>10, Arranging
<1> QED BY <1>11 DEF t, Q

\* The mouse moves panels, and keys only scroll.
LEMMA MouseArranges ==
  ASSUME tab = "Dashboard", DashboardOK, DashboardArranged, DashboardMouse, tab' = tab
  PROVE  DashboardArranged'
<1>0. DOMAIN ui = DOMAIN DashboardInit /\ Panels' = Panels
  BY DEF DashboardOK
<1>1. \A u : DOMAIN u = DOMAIN ui => /\ DashboardScroll(u).layout = u.layout
                                     /\ DashboardScroll(u).dragTarget = u.dragTarget
  BY <1>0 DEF DashboardScroll, DashboardInit
<1>2. CASE \E p \in ToSet(Panels) : Become([ui EXCEPT !.dragTarget = p])
  BY <1>0, <1>2 DEF Become, DashboardInit, DashboardArranged
<1>3. CASE Become([ui EXCEPT !.dragTarget = "none"])
  BY <1>0, <1>3 DEF Become, DashboardInit, DashboardArranged
<1>4. CASE /\ ui.dragTarget # "none"
           /\ \E p \in ToSet(Panels) \ {ui.dragTarget}, z \in Zones :
                Become(DashboardScroll(
                  [ui EXCEPT !.layout = Dropped(@, ui.dragTarget, p, z),
                             !.dragTarget = "none"]))
  <2>1. PICK p \in ToSet(Panels) \ {ui.dragTarget}, z \in Zones :
               Become(DashboardScroll(
                 [ui EXCEPT !.layout = Dropped(@, ui.dragTarget, p, z),
                            !.dragTarget = "none"]))
    BY <1>4
  <2>2. PICK l : l = Dropped(ui.layout, ui.dragTarget, p, z)
    OBVIOUS
  <2>3. PICK u : u = [ui EXCEPT !.layout = Dropped(@, ui.dragTarget, p, z),
                                !.dragTarget = "none"]
    OBVIOUS
  <2>4. DOMAIN u = DOMAIN ui /\ u.layout = l /\ u.dragTarget = "none"
    BY <1>0, <2>2, <2>3 DEF DashboardInit
  <2>5. ui'.layout = l /\ ui'.dragTarget = "none"
    BY <1>1, <2>1, <2>3, <2>4 DEF Become
  <2>6. Arranged(l, ToSet(Panels))
    BY <1>4, <2>2, DroppedArranged DEF DashboardArranged
  <2> QED BY <1>0, <2>5, <2>6 DEF DashboardArranged
<1> QED BY <1>2, <1>3, <1>4 DEF DashboardMouse

LEMMA KeysArrange ==
  ASSUME tab = "Dashboard", DashboardOK, DashboardArranged, NEW k, DashboardKey(k), tab' = tab
  PROVE  DashboardArranged'
<1>0. DOMAIN ui = DOMAIN DashboardInit /\ Panels' = Panels
  BY DEF DashboardOK
<1>1. \A u : DOMAIN u = DOMAIN ui => /\ DashboardScroll(u).layout = u.layout
                                     /\ DashboardScroll(u).dragTarget = u.dragTarget
  BY <1>0 DEF DashboardScroll, DashboardInit
<1>2. \A s : LET u == [ui EXCEPT !.scroll = s]
             IN  DOMAIN u = DOMAIN ui /\ u.layout = ui.layout /\ u.dragTarget = ui.dragTarget
  BY <1>0 DEF DashboardInit
<1>3. \E s : \/ ui' = DashboardScroll([ui EXCEPT !.scroll = s])
             \/ ui' = [ui EXCEPT !.scroll = s]
  BY DEF DashboardKey, Become
<1>4. ui'.layout = ui.layout /\ ui'.dragTarget = ui.dragTarget
  BY ZenonT(60), <1>1, <1>2, <1>3
<1> QED BY <1>0, <1>4 DEF DashboardArranged

\* Every layout the dashboard comes to has each panel in one place.
LEMMA PanelsStay == Spec => []DashboardArranged
<1>1. Init => DashboardArranged
  <2> SUFFICES ASSUME Init, tab = "Dashboard" PROVE DashboardArranged
    BY DEF DashboardArranged
  <2>1. ui = DashboardInit
    BY DEF Init, TabInit
  <2>2. ui.dragTarget = "none" /\ ui.layout = [i \in DOMAIN Panels |-> <<Panels[i]>>]
    BY <2>1 DEF DashboardInit
  <2> QED BY <2>2, StackedArranged DEF DashboardArranged
<1>2. TabsInv /\ DashboardArranged /\ [Next]_vars => DashboardArranged'
  <2> SUFFICES ASSUME TabsInv, DashboardArranged, [Next]_vars, tab' = "Dashboard"
               PROVE  DashboardArranged'
    BY DEF DashboardArranged
  <2>0. tab' = tab
    BY DEF Next, Command, Key, Mouse, Arrive, Jump, Run, WriteEvent, Result, Exec, vars
  <2>1. tab = "Dashboard" /\ DashboardOK
    BY <2>0 DEF TabsInv, UiInv, TabOK
  <2>2. CASE \E k \in Keys[tab] : Key(k)
    BY <2>1, <2>2, KeysArrange DEF Key
  <2>3. CASE Mouse
    BY <2>1, <2>3, MouseArranges DEF Mouse
  <2>4. CASE ui' = ui
    BY <2>1, <2>4 DEF DashboardArranged
  <2>5. CASE Arrive \/ Jump \/ Exec \/ UNCHANGED vars
    BY <2>1, <2>4, <2>5 DEF Arrive, Jump, Exec, vars
  <2>6. CASE \E c \in cmds : Run(c) \/ WriteEvent(c) \/ Result(c)
    BY <2>1, <2>4, <2>6 DEF Run, WriteEvent, Result
  <2> QED BY <2>2, <2>3, <2>5, <2>6 DEF Next, Command
<1> QED BY <1>1, <1>2, Invariant, PTL DEF Spec

\* Whatever is dragged where and how often, the dashboard shows each panel
\* once, has no row without panels, by whose number View divides, and gives
\* every panel a width (handleDrop, View).
THEOREM LayoutsWhole == Spec => []LayoutWhole
<1>1. DashboardArranged => LayoutWhole
  <2> SUFFICES ASSUME DashboardArranged, tab = "Dashboard" PROVE LayoutWhole
    BY DEF LayoutWhole
  <2> DEFINE Q == ToSet(Panels)
  <2>1. PICK layout : layout = ui.layout
    OBVIOUS
  <2>2. Arranged(layout, Q)
    BY <2>1 DEF DashboardArranged
  <2> DEFINE n == Len(layout)
  <2>3. n \in Nat /\ DOMAIN layout = 1 .. n /\ layout \in [1 .. n -> Seq(Q)]
    <3> HIDE DEF Q
    <3> QED BY <2>2, ListFacts DEF Arranged
  <2>4. \A i \in 1 .. n : layout[i] # <<>> /\ Distinct(layout[i])
    BY <2>2, <2>3 DEF Arranged
  <2>5. \A i \in 1 .. n : RowWidth(layout[i]) > 0
    <3> SUFFICES ASSUME NEW i \in 1 .. n PROVE RowWidth(layout[i]) > 0
      OBVIOUS
    <3>1. Len(layout[i]) \in Nat /\ Len(layout[i]) # 0
      <4>1. layout[i] \in Seq(Q) /\ layout[i] # <<>>
        BY <2>3, <2>4
      <4> HIDE DEF Q
      <4> QED BY <4>1, ListFacts
    <3>2. PICK m \in Nat : m = Len(layout[i])
      BY <3>1
    <3>3. 58 \div m \in Int
      BY <3>1, <3>2
    <3>4. RowWidth(layout[i]) = IF 58 \div m < 20 THEN 20 ELSE 58 \div m
      BY <3>2 DEF RowWidth, Width
    <3> QED BY <3>3, <3>4
  <2>6. /\ FlattenSeq(layout) \in Seq(Q) /\ Distinct(FlattenSeq(layout))
        /\ ToSet(FlattenSeq(layout)) = UNION {ToSet(layout[i]) : i \in 1 .. n}
    <3>1. \A i, j \in 1 .. n : i # j => ToSet(layout[i]) \cap ToSet(layout[j]) = {}
      BY <2>2, <2>3 DEF Arranged
    <3>2. \A i \in 1 .. n : Distinct(layout[i])
      BY <2>4
    <3> HIDE DEF n, Q
    <3> QED BY <2>3, <3>1, <3>2, FlattenDistinct
  <2>7. ToSet(FlattenSeq(layout)) = Q
    BY <2>2, <2>3, <2>6 DEF Arranged
  <2>8. Cardinality(Q) = Len(FlattenSeq(layout))
    BY <2>6, <2>7, DistinctCounts
  <2>9. Cardinality(Q) = Len(Panels)
    <3>1. PICK S : Panels \in Seq(S)
      BY DashboardAssumption
    <3>2. Distinct(Panels)
      BY DashboardAssumption DEF Distinct
    <3> QED BY <3>1, <3>2, DistinctCounts
  <2> QED BY <2>1, <2>3, <2>4, <2>5, <2>7, <2>8, <2>9 DEF LayoutWhole
<1> QED BY <1>1, PanelsStay, PTL
=============================================================================
