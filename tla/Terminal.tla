------------------------------ MODULE Terminal ------------------------------
(***************************************************************************)
(* internal/ui/tabs/terminal.go: the life of the shell behind the terminal *)
(* tab.                                                                    *)
(*                                                                         *)
(* Update runs in the program's event loop, one message at a time.  The    *)
(* commands it returns run in goroutines of their own and come back as     *)
(* messages: startShell opens a pty and stores it in the tab, readPTY      *)
(* waits for output of the pty stored there when it is called.  Each call  *)
(* of startShell so begins a chain, command and message in turn, which     *)
(* only an exit message ends.                                              *)
(*                                                                         *)
(* startShell's goroutine stores ptmx and started under a mutex that the   *)
(* event loop does not take: the stores and the exit handler are two steps *)
(* each, so that they interleave.  Shell number i is the one chain i       *)
(* opened.  The screen emulation, scrolling and what is typed or printed   *)
(* are left out.  Closing a pty does not end a read that is under way, but  *)
(* fails one that begins later.                                            *)
(***************************************************************************)
EXTENDS Naturals, FiniteSets

CONSTANTS
  MaxStarts,    \* bound: calls to startShell in a behaviour
  MaxSizes      \* bound: size messages in a behaviour

ASSUME TerminalAssumption == MaxStarts \in Nat /\ MaxSizes \in Nat

VARIABLES
  started,      \* Terminal.started
  exited,       \* Terminal.exitMsg # "", the prompt to restart
  focused,      \* Terminal.focused
  ptmx,         \* Terminal.ptmx: the shell behind it, 0 for nil
  closing,      \* whether an exit is half handled, and it will set ptmx to nil
  closed,       \* the shells whose pty has been closed
  stage,        \* stage[i]: what chain i is
  looks,        \* looks[i]: the shell whose pty chain i is reading, or 0
  alive,        \* the shells running
  starts,       \* calls to startShell so far
  sizes,        \* size messages so far
  overlap       \* history: startShell was called while a chain was under way

tabVars == <<started, exited, focused, ptmx, closing, closed>>
chainVars == <<stage, looks>>
countVars == <<starts, sizes, overlap>>
vars == <<tabVars, chainVars, alive, countVars>>

Chains == 1 .. MaxStarts

\* launch, opened, stored: startShell before, after opening and after storing
\* the pty; output, exit: a message on its way; arm, read: readPTY before and
\* after it has looked at ptmx.
Under == {"launch", "opened", "stored", "output", "arm", "read", "exit"}

Init ==
  /\ started = FALSE /\ exited = FALSE /\ focused = FALSE
  /\ ptmx = 0
  /\ closing = "no"
  /\ closed = {}
  /\ stage = [i \in Chains |-> "none"]
  /\ looks = [i \in Chains |-> 0]
  /\ alive = {}
  /\ starts = 0
  /\ sizes = 0
  /\ overlap = FALSE
-----------------------------------------------------------------------------
(* Update: sizes and keys.                                                 *)

StartShell ==
  /\ starts < MaxStarts
  /\ starts' = starts + 1
  /\ stage' = [stage EXCEPT ![starts'] = "launch"]
  /\ overlap' = (overlap \/ \E i \in Chains : stage[i] \in Under)

\* Mutant of WindowSize: a size message restarts an ended shell as well.
WindowSizeRestarts ==
  /\ closing = "no"
  /\ sizes < MaxSizes
  /\ sizes' = sizes + 1
  /\ \/ ~started /\ StartShell
     \/ started /\ UNCHANGED <<starts, stage, overlap>>
  /\ UNCHANGED <<tabVars, looks, alive>>

\* tea.WindowSizeMsg: the first one is to start the shell.
WindowSize ==
  /\ closing = "no"
  /\ sizes < MaxSizes
  /\ sizes' = sizes + 1
  /\ \/ ~started /\ ~exited /\ StartShell
     \/ (started \/ exited) /\ UNCHANGED <<starts, stage, overlap>>
  /\ UNCHANGED <<tabVars, looks, alive>>

\* enter or i: focus, or a restart of the shell that has exited.
Enter ==
  /\ closing = "no"
  /\ ~focused
  /\ \/ /\ exited
        /\ exited' = FALSE
        /\ StartShell
        /\ UNCHANGED focused
     \/ /\ ~exited
        /\ focused' = TRUE
        /\ UNCHANGED <<exited, starts, stage, overlap>>
  /\ UNCHANGED <<started, ptmx, closing, closed, looks, alive, sizes>>

\* esc twice within 300 ms.
Leave ==
  /\ closing = "no"
  /\ focused
  /\ focused' = FALSE
  /\ UNCHANGED <<started, exited, ptmx, closing, closed, chainVars, alive, countVars>>
-----------------------------------------------------------------------------
(* startShell's goroutine.                                                 *)

OpenPTY(i) ==
  /\ stage[i] = "launch"
  /\ stage' = [stage EXCEPT ![i] = "opened"]
  /\ alive' = alive \cup {i}
  /\ UNCHANGED <<tabVars, looks, countVars>>

\* Mutant of OpenFails: the error is returned as no message at all.
OpenFailsSilently(i) ==
  /\ stage[i] = "launch"
  /\ stage' = [stage EXCEPT ![i] = "over"]
  /\ UNCHANGED <<tabVars, looks, alive, countVars>>

OpenFails(i) ==
  /\ stage[i] = "launch"
  /\ stage' = [stage EXCEPT ![i] = "exit"]
  /\ UNCHANGED <<tabVars, looks, alive, countVars>>

StorePTY(i) ==
  /\ stage[i] = "opened"
  /\ stage' = [stage EXCEPT ![i] = "stored"]
  /\ ptmx' = i
  /\ UNCHANGED <<started, exited, focused, closing, closed, looks, alive, countVars>>

\* Mutant of StoreStarted: it returns nothing that would begin the reading.
StoreStartedIdle(i) ==
  /\ stage[i] = "stored"
  /\ started' = TRUE
  /\ stage' = [stage EXCEPT ![i] = "over"]
  /\ UNCHANGED <<exited, focused, ptmx, closing, closed, looks, alive, countVars>>

\* started = true, and the empty output message that begins the reading.
StoreStarted(i) ==
  /\ stage[i] = "stored"
  /\ started' = TRUE
  /\ stage' = [stage EXCEPT ![i] = "output"]
  /\ UNCHANGED <<exited, focused, ptmx, closing, closed, looks, alive, countVars>>
-----------------------------------------------------------------------------
(* readPTY and its messages.                                               *)

\* termOutputMsg: the output is shown, and reading goes on.
Output(i) ==
  /\ closing = "no"
  /\ stage[i] = "output"
  /\ stage' = [stage EXCEPT ![i] = "arm"]
  /\ UNCHANGED <<tabVars, looks, alive, countVars>>

\* Mutant of Arm: without the nil check, a tab without a pty is read.
ArmUnchecked(i) ==
  /\ stage[i] = "arm"
  /\ stage' = [stage EXCEPT ![i] = "read"]
  /\ looks' = [looks EXCEPT ![i] = ptmx]
  /\ UNCHANGED <<tabVars, alive, countVars>>

\* readPTY looks at ptmx; a nil one is an exit.
Arm(i) ==
  /\ stage[i] = "arm"
  /\ stage' = [stage EXCEPT ![i] = IF ptmx = 0 THEN "exit" ELSE "read"]
  /\ looks' = [looks EXCEPT ![i] = ptmx]
  /\ UNCHANGED <<tabVars, alive, countVars>>

ReadOutput(i) ==
  /\ stage[i] = "read"
  /\ looks[i] \in alive
  /\ stage' = [stage EXCEPT ![i] = "output"]
  /\ looks' = [looks EXCEPT ![i] = 0]
  /\ UNCHANGED <<tabVars, alive, countVars>>

\* The read of a pty whose shell has ended, or that was closed before, fails.
ReadFails(i) ==
  /\ stage[i] = "read"
  /\ looks[i] \notin alive \/ looks[i] \in closed
  /\ stage' = [stage EXCEPT ![i] = "exit"]
  /\ looks' = [looks EXCEPT ![i] = 0]
  /\ UNCHANGED <<tabVars, alive, countVars>>

\* termExitMsg, its first half: focused = false, started = false, and a ptmx that
\* is not nil is closed.
Exit(i) ==
  /\ closing = "no"
  /\ stage[i] = "exit"
  /\ closing' = IF ptmx = 0 THEN "keep" ELSE "drop"
  /\ closed' = closed \cup ({ptmx} \ {0})
  /\ stage' = [stage EXCEPT ![i] = "over"]
  /\ focused' = FALSE
  /\ started' = FALSE
  /\ UNCHANGED <<exited, ptmx, looks, alive, countVars>>

\* Mutant of Close: a shell that ended without an error leaves no prompt.
CloseWithoutPrompt ==
  /\ closing # "no"
  /\ ptmx' = IF closing = "drop" THEN 0 ELSE ptmx
  /\ closing' = "no"
  /\ exited' \in BOOLEAN
  /\ UNCHANGED <<started, focused, closed, chainVars, alive, countVars>>

\* The second half: a closed ptmx, or what has been stored there since, is set to
\* nil, and the prompt to restart.
Close ==
  /\ closing # "no"
  /\ ptmx' = IF closing = "drop" THEN 0 ELSE ptmx
  /\ exited' = TRUE
  /\ closing' = "no"
  /\ UNCHANGED <<started, focused, closed, chainVars, alive, countVars>>

\* A shell ends: exit, a signal, or the hangup when its pty is closed.
ShellEnds(i) ==
  /\ alive' = alive \ {i}
  /\ i \in alive
  /\ UNCHANGED <<tabVars, chainVars, countVars>>
-----------------------------------------------------------------------------
Chain(i) ==
  \/ OpenPTY(i) \/ OpenFails(i) \/ StorePTY(i) \/ StoreStarted(i)
  \/ Output(i) \/ Arm(i) \/ ReadFails(i)

Next ==
  \/ WindowSize \/ Enter \/ Leave \/ Close
  \/ \E i \in Chains : Chain(i) \/ ReadOutput(i) \/ Exit(i) \/ ShellEnds(i)

Spec == Init /\ [][Next]_vars

\* Goroutines and the event loop run on.  Nothing makes a shell print or end.
FairSpec ==
  /\ Spec
  /\ \A i \in Chains : WF_vars(OpenPTY(i) \/ OpenFails(i)) /\ WF_vars(StorePTY(i))
  /\ WF_vars(Close \/ \E i \in Chains : Exit(i))
-----------------------------------------------------------------------------
TypeOK ==
  /\ started \in BOOLEAN /\ exited \in BOOLEAN /\ focused \in BOOLEAN /\ overlap \in BOOLEAN
  /\ ptmx \in 0 .. MaxStarts
  /\ closing \in {"no", "keep", "drop"}
  /\ closed \subseteq Chains
  /\ stage \in [Chains -> Under \cup {"none", "over"}]
  /\ looks \in [Chains -> 0 .. MaxStarts]
  /\ \A i \in Chains : looks[i] # 0 <=> stage[i] = "read"
  /\ alive \subseteq Chains
  /\ starts \in 0 .. MaxStarts
  /\ sizes \in 0 .. MaxSizes

\* The shell on the screen is read: as long as ptmx is set and counts as
\* started, some chain reads it or is about to, or an exit is on its way that
\* will say so.  No interleaving of two starts leaves a screen that freezes.
CurrentShellRead ==
  ptmx # 0 /\ started /\ closing = "no" =>
    \E i \in Chains :
      \/ stage[i] \in {"stored", "output", "arm", "exit"}
      \/ stage[i] = "read" /\ looks[i] = ptmx

\* A tab without a shell is never a dead end: a shell is being started, or the
\* prompt to restart is shown or about to be.
NeverDead ==
  sizes > 0 /\ ptmx = 0 /\ ~exited =>
    closing # "no" \/ \E i \in Chains : stage[i] \in {"launch", "opened", "exit"}

\* As long as no two starts overlapped, there is one shell at a time, the
\* prompt is shown only when it is gone, and no live shell's pty is closed.
OrderlyWithoutOverlap ==
  ~overlap =>
    /\ Cardinality(alive) <= 1
    /\ exited => ptmx = 0 /\ ~started
    /\ closing # "no" => ptmx \notin alive

\* A tab without a shell has one again, or the prompt to restart, in the end.
Recovers == sizes > 0 /\ ptmx = 0 ~> ptmx # 0 \/ exited

\* terminal.go: "Auto-start shell on first size message", not on a second one
\* that comes before the first shell is up.
OneShell == Cardinality(alive) <= 1
=============================================================================
