--------------------------- MODULE TerminalProofs ---------------------------
(***************************************************************************)
(* Proofs about the terminal tab for any number of starts and sizes: the   *)
(* shell on the screen is read, the tab is never a dead end, and without   *)
(* overlapping starts there is one shell at a time.                        *)
(*                                                                         *)
(* None of the three is inductive.  CountInv says which chains exist yet.  *)
(* ReadInv is CurrentShellRead without its condition on started, which a   *)
(* step may make true.  SoleInv is what holds of the one chain there is    *)
(* while no two overlap: where it stands determines ptmx, which shell can  *)
(* be alive, and that an exit that is handled is its own.                  *)
(***************************************************************************)
EXTENDS Terminal, FiniteSetTheorems, TLAPS

\* Chains are numbered as they start, none starts before the first size, and only
\* one that has started has opened a pty.
CountInv ==
  /\ \A i \in Chains : i > starts => stage[i] = "none"
  /\ ptmx # 0 => stage[ptmx] # "none"
  /\ sizes = 0 => starts = 0 /\ closing = "no" /\ ~started /\ ~exited

\* Some chain reads the current shell, or will look at it, or ends it.
ReadInv ==
  ptmx # 0 /\ closing # "drop" =>
    \E i \in Chains :
      \/ stage[i] \in {"stored", "output", "arm", "exit"}
      \/ stage[i] = "read" /\ looks[i] = ptmx

\* While no two starts have overlapped, the last chain is the only one.
SoleInv ==
  ~overlap =>
    /\ \A i \in Chains : stage[i] \in Under => i = starts /\ closing = "no" /\ ~exited
    /\ \A i \in alive :
         i = starts /\ stage[i] \in {"opened", "stored", "output", "arm", "read"}
    /\ \A i \in Chains : stage[i] \in {"launch", "opened"} => ptmx = 0
    /\ \A i \in Chains : stage[i] \in {"stored", "output", "arm", "read"} => ptmx = i
    /\ \A i \in Chains : stage[i] = "read" => looks[i] = i
    /\ \A i \in closed : stage[i] = "over"
    /\ closing # "no" \/ exited => ~started
    /\ closing = "keep" => ptmx = 0
    /\ exited => ptmx = 0

Inv == TypeOK /\ CountInv /\ ReadInv /\ NeverDead /\ SoleInv

\* Initially there is no chain.
LEMMA InitInv == Init => Inv
<1> SUFFICES ASSUME Init PROVE Inv
  OBVIOUS
<1> USE TerminalAssumption DEF Init, Chains, Under
<1>1. TypeOK
  <2>1. stage \in [Chains -> Under \cup {"none", "over"}] /\ looks \in [Chains -> 0 .. MaxStarts]
    OBVIOUS
  <2>2. \A i \in Chains : looks[i] # 0 <=> stage[i] = "read"
    OBVIOUS
  <2>3. started \in BOOLEAN /\ exited \in BOOLEAN /\ focused \in BOOLEAN /\ overlap \in BOOLEAN
    BY Zenon
  <2> QED BY <2>1, <2>2, <2>3 DEF TypeOK
<1>2. CountInv
  BY DEF CountInv
<1>3. ReadInv /\ NeverDead
  BY DEF ReadInv, NeverDead
<1>4. SoleInv
  BY DEF SoleInv
<1> QED BY <1>1, <1>2, <1>3, <1>4 DEF Inv

\* A call of startShell takes the next number, which no chain had.
LEMMA StartShellStep ==
  ASSUME TypeOK, CountInv, StartShell
  PROVE  /\ starts' \in Chains /\ starts' = starts + 1
         /\ stage[starts'] = "none"
         /\ stage' = [stage EXCEPT ![starts'] = "launch"]
         /\ overlap' \in BOOLEAN
         /\ ~overlap' => ~overlap /\ \A i \in Chains : stage[i] \notin Under
<1>1. /\ starts' \in Chains /\ starts' = starts + 1
      /\ stage' = [stage EXCEPT ![starts'] = "launch"]
  BY TerminalAssumption DEF TypeOK, StartShell, Chains
<1>2. stage[starts'] = "none"
  BY <1>1 DEF TypeOK, CountInv
<1>3. overlap' = (overlap \/ \E i \in Chains : stage[i] \in Under)
  BY DEF StartShell
<1>4. overlap \in BOOLEAN
  BY DEF TypeOK
<1>5. overlap' \in BOOLEAN
  BY <1>3, <1>4, Zenon
<1>6. ~overlap' => ~overlap /\ \A i \in Chains : stage[i] \notin Under
  BY <1>3, Zenon
<1> QED BY <1>1, <1>2, <1>5, <1>6

\* Every step keeps the invariant.
LEMMA StepInv == Inv /\ [Next]_vars => Inv'
<1> SUFFICES ASSUME Inv, [Next]_vars PROVE Inv'
  OBVIOUS
<1> USE TerminalAssumption
<1>0. TypeOK /\ CountInv /\ ReadInv /\ NeverDead /\ SoleInv
  BY DEF Inv
<1> USE <1>0
<1> USE DEF Chains, Under, tabVars, chainVars, countVars
<1>1. CASE WindowSize
  <2>1. CASE ~started /\ ~exited /\ StartShell
    <3>0. UNCHANGED <<started, exited, focused, ptmx, closing, closed, looks, alive>> /\ closing = "no"
          /\ sizes' = sizes + 1 /\ sizes < MaxSizes
      BY <1>1 DEF WindowSize
    <3>s. /\ starts' \in Chains /\ starts' = starts + 1 /\ stage[starts'] = "none"
          /\ stage' = [stage EXCEPT ![starts'] = "launch"] /\ overlap' \in BOOLEAN
          /\ ~overlap' => ~overlap /\ \A i \in Chains : stage[i] \notin Under
      BY <2>1, StartShellStep
    <3>1. TypeOK'
      BY <3>0, <3>s DEF TypeOK
    <3>2. CountInv'
      BY <3>0, <3>s DEF TypeOK, CountInv
    <3>3. ReadInv'
      BY <3>0, <3>s DEF TypeOK, ReadInv
    <3>4. NeverDead'
      BY <3>0, <3>s DEF TypeOK, NeverDead
    <3>5. SoleInv'
      BY <3>0, <3>s, <2>1 DEF TypeOK, SoleInv, ReadInv
    <3> QED BY <3>1, <3>2, <3>3, <3>4, <3>5 DEF Inv
  <2>2. CASE (started \/ exited) /\ UNCHANGED <<starts, stage, overlap>>
    <3>0. UNCHANGED <<started, exited, focused, ptmx, closing, closed, looks, alive>>
          /\ sizes' = sizes + 1 /\ sizes < MaxSizes
      BY <1>1 DEF WindowSize
    <3>1. TypeOK'
      BY <3>0, <2>2 DEF TypeOK
    <3>2. CountInv'
      BY <3>0, <2>2 DEF TypeOK, CountInv
    <3>3. ReadInv' /\ SoleInv'
      BY <3>0, <2>2 DEF ReadInv, SoleInv
    <3>4. NeverDead'
      BY <3>0, <2>2 DEF TypeOK, CountInv, ReadInv, NeverDead
    <3> QED BY <3>1, <3>2, <3>3, <3>4 DEF Inv
  <2> QED BY <1>1, <2>1, <2>2 DEF WindowSize
<1>2. CASE Enter
  <2>1. CASE exited /\ exited' = FALSE /\ StartShell /\ UNCHANGED focused
    <3>0. UNCHANGED <<started, ptmx, closing, closed, looks, alive, sizes>> /\ closing = "no"
      BY <1>2 DEF Enter
    <3>s. /\ starts' \in Chains /\ starts' = starts + 1 /\ stage[starts'] = "none"
          /\ stage' = [stage EXCEPT ![starts'] = "launch"] /\ overlap' \in BOOLEAN
          /\ ~overlap' => ~overlap /\ \A i \in Chains : stage[i] \notin Under
      BY <2>1, StartShellStep
    <3>z. sizes # 0
      BY <2>1 DEF CountInv
    <3>e. exited' \in BOOLEAN
      BY <2>1, Zenon
    <3>1. TypeOK'
      BY <3>0, <3>s, <3>e, <2>1 DEF TypeOK
    <3>2. CountInv'
      BY <3>0, <3>s, <3>z DEF TypeOK, CountInv
    <3>3. ReadInv'
      BY <3>0, <3>s DEF TypeOK, ReadInv
    <3>4. NeverDead'
      BY <3>0, <3>s DEF TypeOK, NeverDead
    <3>5. SoleInv'
      BY <3>0, <3>s, <2>1 DEF TypeOK, SoleInv
    <3> QED BY <3>1, <3>2, <3>3, <3>4, <3>5 DEF Inv
  <2>2. CASE ~exited /\ focused' = TRUE /\ UNCHANGED <<exited, starts, stage, overlap>>
    <3>1. UNCHANGED <<started, ptmx, closing, closed, looks, alive, sizes>>
      BY <1>2 DEF Enter
    <3> QED BY <3>1, <2>2 DEF Inv, TypeOK, CountInv, ReadInv, NeverDead, SoleInv
  <2> QED BY <1>2, <2>1, <2>2 DEF Enter
<1>3. CASE Leave
  BY <1>3 DEF Leave, Inv, TypeOK, CountInv, ReadInv, NeverDead, SoleInv
<1>4. CASE Close
  <2>1. TypeOK'
    BY <1>4 DEF Close, TypeOK
  <2>2. CountInv' /\ ReadInv' /\ NeverDead'
    BY <1>4 DEF Close, TypeOK, CountInv, ReadInv, NeverDead
  <2>3. SoleInv'
    BY <1>4 DEF Close, TypeOK, SoleInv
  <2> QED BY <2>1, <2>2, <2>3 DEF Inv
<1>5. ASSUME NEW i \in Chains, OpenPTY(i) PROVE Inv'
  <2>1. TypeOK'
    BY <1>5 DEF OpenPTY, TypeOK
  <2>2. CountInv'
    BY <1>5 DEF OpenPTY, TypeOK, CountInv
  <2>3. ReadInv'
    BY <1>5 DEF OpenPTY, TypeOK, ReadInv
  <2>4. NeverDead'
    BY <1>5 DEF OpenPTY, TypeOK, NeverDead
  <2>5. SoleInv'
    BY <1>5 DEF OpenPTY, TypeOK, SoleInv
  <2> QED BY <2>1, <2>2, <2>3, <2>4, <2>5 DEF Inv
<1>6. ASSUME NEW i \in Chains, OpenFails(i) PROVE Inv'
  <2>1. TypeOK'
    BY <1>6 DEF OpenFails, TypeOK
  <2>2. CountInv'
    BY <1>6 DEF OpenFails, TypeOK, CountInv
  <2>3. ReadInv'
    BY <1>6 DEF OpenFails, TypeOK, ReadInv
  <2>4. NeverDead'
    BY <1>6 DEF OpenFails, TypeOK, NeverDead
  <2>5. SoleInv'
    BY <1>6 DEF OpenFails, TypeOK, SoleInv
  <2> QED BY <2>1, <2>2, <2>3, <2>4, <2>5 DEF Inv
<1>7. ASSUME NEW i \in Chains, StorePTY(i) PROVE Inv'
  <2>1. TypeOK'
    BY <1>7 DEF StorePTY, TypeOK
  <2>2. CountInv'
    BY <1>7 DEF StorePTY, TypeOK, CountInv
  <2>3. ReadInv'
    BY <1>7 DEF StorePTY, TypeOK, ReadInv
  <2>4. NeverDead'
    BY <1>7 DEF StorePTY, TypeOK, NeverDead
  <2>5. SoleInv'
    BY <1>7 DEF StorePTY, TypeOK, SoleInv
  <2> QED BY <2>1, <2>2, <2>3, <2>4, <2>5 DEF Inv
<1>8. ASSUME NEW i \in Chains, StoreStarted(i) PROVE Inv'
  <2>1. TypeOK'
    BY <1>8 DEF StoreStarted, TypeOK
  <2>2. CountInv'
    BY <1>8 DEF StoreStarted, TypeOK, CountInv
  <2>3. ReadInv'
    BY <1>8 DEF StoreStarted, TypeOK, ReadInv
  <2>4. NeverDead'
    BY <1>8 DEF StoreStarted, TypeOK, NeverDead
  <2>5. SoleInv'
    BY <1>8 DEF StoreStarted, TypeOK, SoleInv
  <2> QED BY <2>1, <2>2, <2>3, <2>4, <2>5 DEF Inv
<1>9. ASSUME NEW i \in Chains, Output(i) PROVE Inv'
  <2>1. TypeOK'
    BY <1>9 DEF Output, TypeOK
  <2>2. CountInv'
    BY <1>9 DEF Output, TypeOK, CountInv
  <2>3. ReadInv'
    BY <1>9 DEF Output, TypeOK, ReadInv
  <2>4. NeverDead'
    BY <1>9 DEF Output, TypeOK, NeverDead
  <2>5. SoleInv'
    BY <1>9 DEF Output, TypeOK, SoleInv
  <2> QED BY <2>1, <2>2, <2>3, <2>4, <2>5 DEF Inv
<1>10. ASSUME NEW i \in Chains, Arm(i) PROVE Inv'
  <2>1. TypeOK'
    BY <1>10 DEF Arm, TypeOK
  <2>2. CountInv'
    BY <1>10 DEF Arm, TypeOK, CountInv
  <2>3. ReadInv'
    BY <1>10 DEF Arm, TypeOK, ReadInv
  <2>4. NeverDead'
    BY <1>10 DEF Arm, TypeOK, NeverDead
  <2>5. SoleInv'
    BY <1>10 DEF Arm, TypeOK, SoleInv
  <2> QED BY <2>1, <2>2, <2>3, <2>4, <2>5 DEF Inv
<1>11. ASSUME NEW i \in Chains, ReadFails(i) PROVE Inv'
  <2>1. TypeOK'
    BY <1>11 DEF ReadFails, TypeOK
  <2>2. CountInv'
    BY <1>11 DEF ReadFails, TypeOK, CountInv
  <2>3. ReadInv'
    BY <1>11 DEF ReadFails, TypeOK, ReadInv
  <2>4. NeverDead'
    BY <1>11 DEF ReadFails, TypeOK, NeverDead
  <2>5. SoleInv'
    BY <1>11 DEF ReadFails, TypeOK, SoleInv
  <2> QED BY <2>1, <2>2, <2>3, <2>4, <2>5 DEF Inv
<1>12. ASSUME NEW i \in Chains, ReadOutput(i) PROVE Inv'
  <2>1. TypeOK'
    BY <1>12 DEF ReadOutput, TypeOK
  <2>2. CountInv'
    BY <1>12 DEF ReadOutput, TypeOK, CountInv
  <2>3. ReadInv'
    BY <1>12 DEF ReadOutput, TypeOK, ReadInv
  <2>4. NeverDead'
    BY <1>12 DEF ReadOutput, TypeOK, NeverDead
  <2>5. SoleInv'
    BY <1>12 DEF ReadOutput, TypeOK, SoleInv
  <2> QED BY <2>1, <2>2, <2>3, <2>4, <2>5 DEF Inv
<1>13. ASSUME NEW i \in Chains, Exit(i) PROVE Inv'
  <2>1. TypeOK'
    <3>1. focused' \in BOOLEAN /\ started' \in BOOLEAN
      BY <1>13, Zenon DEF Exit
    <3>2. stage' \in [Chains -> Under \cup {"none", "over"}]
      BY <1>13 DEF Exit, TypeOK
    <3>3. \A j \in Chains : looks'[j] # 0 <=> stage'[j] = "read"
      BY <1>13 DEF Exit, TypeOK
    <3> QED BY <3>1, <3>2, <3>3, <1>13 DEF Exit, TypeOK
  <2>2. CountInv'
    BY <1>13 DEF Exit, TypeOK, CountInv
  <2>3. ReadInv'
    BY <1>13 DEF Exit, TypeOK, ReadInv
  <2>4. NeverDead'
    BY <1>13 DEF Exit, TypeOK, NeverDead
  <2>5. SoleInv'
    <3>1. ~overlap => \A j \in closed' : stage'[j] = "over"
      BY <1>13 DEF Exit, TypeOK, CountInv, SoleInv
    <3> QED BY <3>1, <1>13 DEF Exit, TypeOK, SoleInv
  <2> QED BY <2>1, <2>2, <2>3, <2>4, <2>5 DEF Inv
<1>14. ASSUME NEW i \in Chains, ShellEnds(i) PROVE Inv'
  <2>1. TypeOK'
    BY <1>14 DEF ShellEnds, TypeOK
  <2>2. CountInv'
    BY <1>14 DEF ShellEnds, TypeOK, CountInv
  <2>3. ReadInv'
    BY <1>14 DEF ShellEnds, TypeOK, ReadInv
  <2>4. NeverDead'
    BY <1>14 DEF ShellEnds, TypeOK, NeverDead
  <2>5. SoleInv'
    BY <1>14 DEF ShellEnds, TypeOK, SoleInv
  <2> QED BY <2>1, <2>2, <2>3, <2>4, <2>5 DEF Inv
<1>15. CASE UNCHANGED vars
  BY <1>15 DEF vars, Inv, TypeOK, CountInv, ReadInv, NeverDead, SoleInv
<1> QED
  BY <1>1, <1>2, <1>3, <1>4, <1>5, <1>6, <1>7, <1>8, <1>9, <1>10, <1>11, <1>12, <1>13,
     <1>14, <1>15 DEF Next, Chain

\* The conjunction of the parts, which the theorems below take apart, always
\* holds of the terminal tab.
THEOREM TerminalInvariant == Spec => []Inv
<1>1. Init => Inv
  BY InitInv
<1>2. Inv /\ [Next]_vars => Inv'
  BY StepInv
<1> QED BY <1>1, <1>2, PTL DEF Spec

\* Every reachable state of the tab is well typed.
THEOREM TerminalTypeCorrect == Spec => []TypeOK
<1>1. Inv => TypeOK
  BY DEF Inv
<1> QED BY <1>1, TerminalInvariant, PTL

\* The shell on the screen is read, whatever starts and exits interleave.
THEOREM CurrentShellReadHolds == Spec => []CurrentShellRead
<1>1. Inv => CurrentShellRead
  BY DEF Inv, ReadInv, CurrentShellRead
<1> QED BY <1>1, TerminalInvariant, PTL

\* A tab without a shell starts one, or shows the prompt, or is about to.
THEOREM NeverDeadHolds == Spec => []NeverDead
<1>1. Inv => NeverDead
  BY DEF Inv
<1> QED BY <1>1, TerminalInvariant, PTL

\* Without overlapping starts there is one shell at a time, and only the pty of
\* an ended one is closed.
THEOREM OrderlyWithoutOverlapHolds == Spec => []OrderlyWithoutOverlap
<1>1. Inv => OrderlyWithoutOverlap
  <2> SUFFICES ASSUME Inv, ~overlap PROVE
        /\ Cardinality(alive) <= 1
        /\ exited => ptmx = 0 /\ ~started
        /\ closing # "no" => ptmx \notin alive
    BY DEF OrderlyWithoutOverlap
  <2>1. alive \subseteq {starts}
    BY DEF Inv, SoleInv
  <2>2. IsFiniteSet({starts}) /\ Cardinality({starts}) = 1
    BY FS_Singleton
  <2>3. Cardinality(alive) \in Nat /\ Cardinality(alive) <= 1
    BY <2>1, <2>2, FS_Subset, FS_CardinalityType
  <2>4. exited => ptmx = 0 /\ ~started
    BY DEF Inv, SoleInv
  <2>5. closing # "no" => alive = {}
    BY DEF Inv, TypeOK, SoleInv, Under, Chains
  <2> QED BY <2>3, <2>4, <2>5
<1> QED BY <1>1, TerminalInvariant, PTL
=============================================================================
