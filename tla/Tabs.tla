-------------------------------- MODULE Tabs --------------------------------
(***************************************************************************)
(* The tabs of internal/ui/tabs at work: keys, snapshots and the commands  *)
(* they have started, in every order bubbletea can deliver them.           *)
(***************************************************************************)
EXTENDS ProcessTab, DockerTab, PackagesTab, ServicesTab, FirewallTab, UsersTab,
        AdvancedTab, NetworkTab, DashboardTab

CONSTANT Keys   \* Keys[t]: the keys pressed in tab t

ASSUME TabsAssumption ==
  Tabs \subseteq {"Process", "Docker", "Packages", "Services", "Firewall", "Users",
                  "Advanced", "Network", "Dashboard"}

\* Tabs that work in the event loop itself, which waits for them.
Synchronous == {"Process", "Network"}
\* Tabs that keep what a dialog was opened on.
Latching == {"Process", "Packages", "Services"}
\* Tabs whose commands ask for the active backend when they run.
Switching == {"Packages", "Firewall"}
\* Commands that change nothing.
Fetches == {"logs", "search", "jump"}

View(h) ==
  CASE tab = "Process" -> ProcessView(h)   [] tab = "Docker" -> DockerView(h)
    [] tab = "Packages" -> PackagesView(h) [] tab = "Services" -> ServicesView(h)
    [] tab = "Firewall" -> FirewallView(h) [] tab = "Users" -> UsersView(h)
    [] tab = "Advanced" -> AdvancedView(h) [] tab = "Network" -> NetworkView(h)

Program(tag) == IF tag = 0 THEN "first" ELSE "second"

\* The question a tab is asking, 0 being none.
Dialog(u) == IF tab \in {"Firewall", "Users"} /\ u.add THEN 9 ELSE u.mode

\* What the screen says a dialog that opens now is about.
Shown ==
  LET row == View(CHOOSE h \in Heights : TRUE).row
      at == CASE tab = "Process" -> Program(row.tag)
              [] tab = "Packages" -> IF ui.panel = 1 THEN ActiveEngine ELSE snap.engine
              [] tab = "Firewall" -> snap.engine
              [] OTHER -> "none"
  IN  [row |-> row, at |-> at, typed |-> <<>>, moved |-> FALSE,
       switched |-> tab \in Switching /\ at # At(Engines, ui.active)]

\* The history of the question after key k.
Answering(k) ==
  asked' = IF tab = "Dashboard" \/ Dialog(ui') = 0 THEN NoAsk
           ELSE IF Dialog(ui) = 0 THEN Shown
           ELSE IF Dialog(ui') # Dialog(ui) THEN [asked EXCEPT !.typed = <<>>]
           ELSE [asked EXCEPT !.typed =
                   CASE k = "backspace" -> Erased(@) [] k \in Chars -> Typed(@, k)
                     [] OTHER -> @]

TabInit ==
  [t \in Tabs |->
    CASE t = "Process" -> ProcessInit   [] t = "Docker" -> DockerInit
      [] t = "Packages" -> PackagesInit [] t = "Services" -> ServicesInit
      [] t = "Firewall" -> FirewallInit [] t = "Users" -> UsersInit
      [] t = "Advanced" -> AdvancedInit [] t = "Network" -> NetworkInit
      [] t = "Dashboard" -> DashboardInit]

Init ==
  /\ tab \in Tabs
  /\ ui = TabInit[tab]
  /\ snap = NoSnap
  /\ world = [i \in Ids |-> 0]
  /\ cmds = {}
  /\ may \in (IF tab = "Dashboard" THEN {FALSE} ELSE BOOLEAN)
  /\ asked = NoAsk
-----------------------------------------------------------------------------
Busy == tab \in Synchronous /\ \E c \in cmds : c.op \notin Fetches

\* Update on a tea.KeyMsg.
Key(k) ==
  /\ ~Busy
  /\ CASE tab = "Process" -> ProcessKey(k)
       [] tab = "Docker" -> DockerKey(k)
       [] tab = "Packages" -> PackagesKey(k)
       [] tab = "Services" -> ServicesKey(k)
       [] tab = "Firewall" -> FirewallKey(k)
       [] tab = "Users" -> UsersKey(k)
       [] tab = "Advanced" -> AdvancedKey(k)
       [] tab = "Network" -> NetworkKey(k)
       [] tab = "Dashboard" -> DashboardKey(k)
  /\ Answering(k)
  /\ UNCHANGED <<tab, world, may>>

Mouse ==
  /\ tab = "Dashboard"
  /\ DashboardMouse
  /\ UNCHANGED <<tab, world, may, asked>>

\* Update on a busMsg.  The listing may be older than the one before it.
Arrive ==
  /\ ~Busy
  /\ tab # "Dashboard"
  /\ \E l \in Listings[tab] :
       LET s == [rows |-> l, engine |-> SvcEngine]
       IN  CASE tab = "Process" -> ProcessArrive(s)
             [] tab = "Docker" -> DockerArrive(s)
             [] tab = "Packages" -> PackagesArrive(s)
             [] tab = "Services" -> ServicesArrive(s)
             [] tab = "Firewall" -> FirewallArrive(s)
             [] tab = "Users" -> UsersArrive(s)
             [] tab = "Advanced" -> AdvancedArrive(s)
             [] tab = "Network" -> NetworkArrive(s)
  /\ asked' = IF Dialog(ui) = 0 \/ tab \in Latching THEN asked
              ELSE [asked EXCEPT !.moved = TRUE]
  /\ UNCHANGED <<tab, world, cmds, may>>

\* The jump another tab asked for brings a port, or none.
Jump ==
  /\ tab = "Firewall"
  /\ \E port \in {<<>>, <<"1">>} :
       /\ ReceivePayload(port)
       /\ asked' = IF ui.add /\ port = <<>> THEN asked
                   ELSE [(IF Dialog(ui) = 0 THEN Shown ELSE asked)
                           EXCEPT !.typed = port]
  /\ UNCHANGED <<tab, world, may>>

\* A pid is taken by another program.
Exec ==
  /\ tab = "Process"
  /\ \E i \in Mortal : world' = [world EXCEPT ![i] = 1 - @]
  /\ UNCHANGED <<tab, ui, snap, cmds, may, asked>>
-----------------------------------------------------------------------------
(* The commands.                                                           *)

\* process.VerifyProcessName; where it fails the error is all that happens.
Verify(c) ==
  IF world[c.row.id] = c.row.tag
    THEN Advance(c, "verified", Program(world[c.row.id]))
    ELSE cmds' = cmds \ {c}

\* The operation itself, on the backend that is active now.
Run(c) ==
  /\ \/ /\ tab = "Process"
        /\ \/ c.phase = "waiting" /\ Verify(c)
           \/ c.phase = "verified" /\ Advance(c, "ran", c.at)
     \/ /\ tab # "Process" /\ c.phase = "waiting" /\ c.op \notin Fetches
        /\ Advance(c, "ran", IF tab \in Switching THEN At(Engines, ui.active) ELSE "none")
  /\ UNCHANGED <<tab, ui, snap, world, may, asked>>

\* WriteEvent, for a success and for an error alike.
WriteEvent(c) ==
  /\ tab # "Network"
  /\ c.phase = "ran"
  /\ Advance(c, "logged", c.at)
  /\ UNCHANGED <<tab, ui, snap, world, may, asked>>

\* The command returns its message.
Answerable(c) ==
  \/ c.op \in Fetches
  \/ c.phase = (IF tab = "Network" THEN "ran" ELSE "logged")

\* Update on the message; it fails or not.
Result(c) ==
  /\ Answerable(c)
  /\ cmds' = cmds \ {c}
  /\ \E ok \in BOOLEAN :
       CASE tab = "Docker" -> ui' = DockerResult(c, ok)
         [] tab = "Packages" -> ui' \in PackagesResult(c, ok)
         [] OTHER -> ui' = ui
  /\ UNCHANGED <<tab, snap, world, may, asked>>

Command == \E c \in cmds : Run(c) \/ WriteEvent(c) \/ Result(c)

Next == (\E k \in Keys[tab] : Key(k)) \/ Mouse \/ Arrive \/ Jump \/ Exec \/ Command

Spec == Init /\ [][Next]_vars
-----------------------------------------------------------------------------
TypeOK ==
  /\ tab \in Tabs
  /\ DOMAIN ui = DOMAIN TabInit[tab]
  /\ snap.rows \in Listings[tab] \cup {<<>>}
  /\ world \in [Ids -> {0, 1}]
  /\ \A c \in cmds : /\ c.slot \in Slots
                     /\ c.phase \in {"waiting", "verified", "ran", "logged"}
                     /\ \A d \in cmds : c.slot = d.slot => c = d
  /\ tab # "Dashboard" => ui.cursor \in Nat
  /\ may \in BOOLEAN /\ {asked.moved, asked.switched} \subseteq BOOLEAN

\* What is done is what the dialog was opened on: the row that was under the
\* cursor then, on the backend the screen named, and for a process under the
\* name it was listed with, which nothing excuses.  Two things may differ.  The
\* row, where a tab looks it up again at y and a listing came in between
\* (RowAsConfirmed does not hold there); tabs that keep the row never act on
\* another.  The backend, where it was not the one on the screen when the dialog
\* opened, or b was pressed between y and the command: a listing that comes
\* while the dialog is open excuses nothing of it.
ActsAsAsked ==
  \A c \in cmds : c.phase \in {"ran", "logged"} =>
    /\ c.row \in {NoRow, c.asked.row} \/ (c.asked.moved /\ tab \notin Latching)
    /\ c.at = c.asked.at \/ (c.asked.switched /\ tab \in Switching)

\* README: operations come "with interactive confirmation dialogs".  What was
\* done to a row was confirmed for that row, whatever listing came between
\* question and answer.
RowAsConfirmed ==
  \A c \in cmds : c.phase \in {"ran", "logged"} => c.row \in {NoRow, c.asked.row}

\* SIGKILL needs the pid typed in full, a system update its phrase, and a new
\* rule or account is the one typed: counted from the opening of the dialog,
\* whatever was typed into an earlier one that was left.
TypedInFull ==
  \A c \in cmds :
    /\ c.op = "SIGKILL" => c.asked.typed = PidText[c.row.id]
    /\ c.op = "upgrade" => c.asked.typed = Phrase
    /\ c.op \in {"add user", "add rule"} => c.asked.typed = c.text

\* The part of a list that is drawn is a part of the list at every height, for
\* a cursor that a shorter listing or a longer filter left behind too, and it
\* has the cursor in it wherever the cursor is on a row.
WindowSafe ==
  tab # "Dashboard" =>
    \A h \in Heights :
      LET v == View(h)
      IN  /\ 0 <= v.window.from /\ v.window.from <= v.window.to
          /\ v.window.to <= v.size
          /\ v.cursor < v.size => v.window.from <= v.cursor /\ v.cursor < v.window.to

\* Whatever is dragged where, the dashboard shows each panel once, has no row
\* without panels (View divides by their number), and every panel has width.
LayoutWhole ==
  tab = "Dashboard" =>
    /\ \A i \in DOMAIN ui.layout : ui.layout[i] # <<>> /\ RowWidth(ui.layout[i]) > 0
    /\ Len(FlattenSeq(ui.layout)) = Len(Panels)
    /\ ToSet(FlattenSeq(ui.layout)) = ToSet(Panels)
=============================================================================
