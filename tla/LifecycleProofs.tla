--------------------------- MODULE LifecycleProofs --------------------------
(***************************************************************************)
(* Lifecycle for every finite set of services, of any kind and capacity:   *)
(* when the bus is closed no collector and no bridge runs, and what stands *)
(* between a reading and the screen stands in the order it was read.       *)
(*                                                                         *)
(* QuietAfterStop rests on the WaitGroup counting exactly the goroutines   *)
(* that are Live, so that wg = 0 means that there is none, and on both     *)
(* goroutines of every service having been started when main goes on       *)
(* (SpawnInv).  BudgetInv is what keeps the readings within their bound.   *)
(*                                                                         *)
(* InOrder rests on OrderInv: numbers that cut the readings into the parts *)
(* that the screen and the seven places before it hold.                    *)
(***************************************************************************)
EXTENDS Lifecycle, SequenceTheorems, FiniteSetTheorems, TLAPS

\* The goroutines the registry has started and that have not returned.
Collecting == {s \in Services : at[s] \notin {"unborn", "ended"}} \X {"collector"}
Bridging == {s \in Services : bridge[s] \notin {"unborn", "ended"}} \X {"bridge"}
Live == Collecting \cup Bridging

WgInv == IsFiniteSet(Live) /\ wg = Cardinality(Live)

SpawnInv ==
  /\ \A s \in Services : at[s] = "unborn" <=> bridge[s] = "unborn"
  /\ main # "starting" => \A s \in Services : at[s] # "unborn"

\* The readings that the collector and docker's helper still make fit.
BudgetAt(s) ==
  /\ at[s] \in {"unborn", "born", "seed"} => taken[s] = 0 /\ helper[s] = "none"
  /\ kind[s] = "stream" => at[s] # "collect"
  /\ helper[s] # "none" => kind[s] \in {"background", "stream"}
  /\ at[s] = "collect" => taken[s] < MaxReadings
  /\ helper[s] = "read" /\ kind[s] = "background" => taken[s] < MaxReadings
  /\ at[s] = "collect" /\ helper[s] = "read" => taken[s] + 1 < MaxReadings

BudgetInv == \A s \in Services : BudgetAt(s)

Inv == TypeOK /\ WgInv /\ SpawnInv /\ BudgetInv /\ QuietAfterStop

\* A collector that returns leaves the other goroutines running.
LEMMA CollectorEnds ==
  ASSUME TypeOK, WgInv, NEW s \in Services, at[s] \notin {"unborn", "ended"},
         at' = [at EXCEPT ![s] = "ended"], bridge' = bridge, wg' = wg - 1
  PROVE  WgInv' /\ wg' \in Nat
<1>1. Live' = Live \ {<<s, "collector">>}
  BY DEF Live, Collecting, Bridging, TypeOK
<1>2. <<s, "collector">> \in Live
  BY DEF Live, Collecting
<1>3. IsFiniteSet(Live') /\ Cardinality(Live') = Cardinality(Live) - 1
  BY <1>1, <1>2, FS_RemoveElement DEF WgInv
<1>4. wg' = Cardinality(Live')
  BY <1>3 DEF WgInv
<1>5. wg' \in Nat
  BY <1>3, <1>4, FS_CardinalityType
<1> QED BY <1>3, <1>4, <1>5 DEF WgInv

\* So does a bridge.
LEMMA BridgeEnds ==
  ASSUME TypeOK, WgInv, NEW s \in Services, bridge[s] \notin {"unborn", "ended"},
         bridge' = [bridge EXCEPT ![s] = "ended"], at' = at, wg' = wg - 1
  PROVE  WgInv' /\ wg' \in Nat
<1>1. Live' = Live \ {<<s, "bridge">>}
  BY DEF Live, Collecting, Bridging, TypeOK
<1>2. <<s, "bridge">> \in Live
  BY DEF Live, Bridging
<1>3. IsFiniteSet(Live') /\ Cardinality(Live') = Cardinality(Live) - 1
  BY <1>1, <1>2, FS_RemoveElement DEF WgInv
<1>4. wg' = Cardinality(Live')
  BY <1>3 DEF WgInv
<1>5. wg' \in Nat
  BY <1>3, <1>4, FS_CardinalityType
<1> QED BY <1>3, <1>4, <1>5 DEF WgInv

\* A turn of StartAll's loop starts two goroutines and counts two.
LEMMA SpawnCounts ==
  ASSUME TypeOK, WgInv, SpawnInv, NEW s \in Services, Spawn(s)
  PROVE  WgInv' /\ wg' \in Nat
<1> DEFINE c == <<s, "collector">>
<1> DEFINE b == <<s, "bridge">>
<1>1. at[s] = "unborn" /\ bridge[s] = "unborn"
  BY DEF Spawn, SpawnInv
<1>2. Live' = (Live \cup {c}) \cup {b}
  BY DEF Spawn, Live, Collecting, Bridging, TypeOK
<1>3. c \notin Live /\ b \notin Live \cup {c}
  BY <1>1 DEF Live, Collecting, Bridging
<1>4. IsFiniteSet(Live \cup {c}) /\ Cardinality(Live \cup {c}) = Cardinality(Live) + 1
  BY <1>3, FS_AddElement DEF WgInv
<1>5. IsFiniteSet(Live') /\ Cardinality(Live') = Cardinality(Live \cup {c}) + 1
  BY <1>2, <1>3, <1>4, FS_AddElement
<1>6. Cardinality(Live) \in Nat
  BY FS_CardinalityType DEF WgInv
<1>7. wg' = Cardinality(Live') /\ wg' \in Nat
  BY <1>4, <1>5, <1>6 DEF Spawn, WgInv
<1> QED BY <1>5, <1>7 DEF WgInv

\* Any other step keeps the count: it moves a goroutine on without ending it.
LEMMA SameCount ==
  ASSUME TypeOK, WgInv, wg' = wg,
         \A s \in Services : at'[s] \in {"unborn", "ended"} <=> at[s] \in {"unborn", "ended"},
         \A s \in Services :
           bridge'[s] \in {"unborn", "ended"} <=> bridge[s] \in {"unborn", "ended"}
  PROVE  WgInv' /\ wg' \in Nat
<1>1. Live' = Live
  BY DEF Live, Collecting, Bridging
<1> QED BY <1>1 DEF WgInv, TypeOK

\* Appending within a capacity, and dropping the head, keep a buffer typed.
LEMMA AppendTyped ==
  ASSUME NEW q \in Seq(Reading), NEW n \in Reading, NEW cap \in Nat \ {0}, Len(q) < cap
  PROVE  Append(q, n) \in Seq(Reading) /\ Len(Append(q, n)) <= cap
<1>1. Append(q, n) \in Seq(Reading) /\ Len(Append(q, n)) = Len(q) + 1
  BY AppendProperties
<1>2. Len(q) \in Nat
  BY LenProperties
<1> QED BY <1>1, <1>2

LEMMA TailTyped ==
  ASSUME NEW q \in Seq(Reading), NEW cap \in Nat \ {0}, Len(q) <= cap, q # <<>>
  PROVE  Head(q) \in Reading /\ Tail(q) \in Seq(Reading) /\ Len(Tail(q)) <= cap
<1>1. Head(q) \in Reading /\ Tail(q) \in Seq(Reading) /\ Len(Tail(q)) = Len(q) - 1
  BY HeadTailProperties
<1>2. Len(q) \in Nat
  BY LenProperties
<1> QED BY <1>1, <1>2

\* The bounds, one by one.
LEMMA Bounds ==
  /\ OutCap \in Nat \ {0} /\ BusCap \in Nat \ {0} /\ LineCap \in Nat \ {0}
  /\ MaxReadings \in Nat /\ 0 < MaxReadings
BY LifecycleAssumption

\* Initially nothing is started.
LEMMA InitInv == Init => Inv
<1> SUFFICES ASSUME Init PROVE Inv
  OBVIOUS
<1> USE Bounds
<1>0. 0 \in Reading
  BY DEF Reading
<1>e. <<>> \in Seq(Reading) /\ Len(<<>>) = 0
  BY EmptySeq
<1>k. kind \in [Services -> Kinds] /\ stopped \subseteq armed /\ armed \subseteq Services
  BY DEF Init
<1>b. \A s \in Services :
        Len(lines[s]) <= LineCap /\ Len(out[s]) <= OutCap /\ Len(inbox[s]) <= BusCap
  BY <1>e DEF Init
<1>q. /\ lines \in [Services -> Seq(Reading)]
      /\ out \in [Services -> Seq(Reading)]
      /\ inbox \in [Services -> Seq(Reading)]
  BY <1>e DEF Init
<1>r. /\ hand \in [Services -> Reading] /\ carry \in [Services -> Reading]
      /\ batch \in [Services -> Reading] /\ relay \in [Services -> Reading]
      /\ shown \in [Services -> Reading] /\ taken \in [Services -> Reading]
  BY <1>0 DEF Init
<1>f. /\ at = [s \in Services |-> "unborn"] /\ bridge = [s \in Services |-> "unborn"]
      /\ helper = [s \in Services |-> "none"] /\ health = [s \in Services |-> "OK"]
      /\ main = "starting" /\ failed = FALSE /\ cancelled = FALSE /\ toStop = {} /\ wg = 0
  BY DEF Init
<1>1. TypeOK
  BY <1>k, <1>b, <1>q, <1>r, <1>f DEF TypeOK
<1>2. Live = {}
  BY DEF Init, Live, Collecting, Bridging
<1>3. WgInv
  BY <1>2, FS_EmptySet DEF Init, WgInv
<1>4. SpawnInv /\ QuietAfterStop
  BY DEF Init, SpawnInv, QuietAfterStop
<1>5. BudgetInv
  BY DEF Init, BudgetInv, BudgetAt
<1> QED BY <1>1, <1>3, <1>4, <1>5 DEF Inv

\* Every step keeps the invariant: one step of the proof per action.
LEMMA StepInv == Inv /\ [Next]_vars => Inv'
<1> SUFFICES ASSUME Inv, [Next]_vars PROVE Inv'
  OBVIOUS
<1> USE Bounds
<1>0. TypeOK /\ WgInv /\ SpawnInv /\ BudgetInv /\ QuietAfterStop
  BY DEF Inv
<1> USE <1>0
<1>zero. 0 \in Reading
  BY DEF Reading
<1> USE <1>zero
<1>1. ASSUME Subscribe PROVE Inv'
  <2>1. WgInv' /\ wg' \in Nat
    BY <1>1, SameCount DEF Subscribe, TypeOK, mainVars, ctxVars, collectorVars, helperVars, bridgeVars, screenVars
  <2>2. TypeOK'
    BY <1>1, <2>1 DEF Subscribe, mainVars, ctxVars, collectorVars, helperVars, bridgeVars, screenVars, TypeOK
  <2>3. SpawnInv'
    BY <1>1 DEF Subscribe, mainVars, ctxVars, collectorVars, helperVars, bridgeVars, screenVars, TypeOK, SpawnInv
  <2>4. BudgetInv'
    BY <1>1 DEF Subscribe, mainVars, ctxVars, collectorVars, helperVars, bridgeVars, screenVars, TypeOK, BudgetInv, BudgetAt, Reading
  <2>5. QuietAfterStop'
    BY <1>1 DEF Subscribe, mainVars, ctxVars, collectorVars, helperVars, bridgeVars, screenVars, TypeOK, QuietAfterStop
  <2> QED BY <2>1, <2>2, <2>3, <2>4, <2>5 DEF Inv
<1>2. ASSUME NEW s \in Services, Show(s) PROVE Inv'
  <2>1. WgInv' /\ wg' \in Nat
    BY <1>2, SameCount DEF Show, TypeOK, mainVars, ctxVars, collectorVars, helperVars, bridgeVars, screenVars
  <2>2. Head(inbox[s]) \in Reading /\ Tail(inbox[s]) \in Seq(Reading) /\ Len(Tail(inbox[s])) <= BusCap
    BY <1>2, TailTyped DEF TypeOK, Show
  <2>3. TypeOK'
    BY <1>2, <2>1, <2>2 DEF Show, mainVars, ctxVars, collectorVars, helperVars, bridgeVars, screenVars, TypeOK
  <2>4. SpawnInv'
    BY <1>2 DEF Show, mainVars, ctxVars, collectorVars, helperVars, bridgeVars, screenVars, TypeOK, SpawnInv
  <2>5. BudgetInv'
    BY <1>2 DEF Show, mainVars, ctxVars, collectorVars, helperVars, bridgeVars, screenVars, TypeOK, BudgetInv, BudgetAt, Reading
  <2>6. QuietAfterStop'
    BY <1>2 DEF Show, mainVars, ctxVars, collectorVars, helperVars, bridgeVars, screenVars, TypeOK, QuietAfterStop
  <2> QED BY <2>1, <2>3, <2>4, <2>5, <2>6 DEF Inv
<1>3. ASSUME Quit PROVE Inv'
  <2>1. WgInv' /\ wg' \in Nat
    BY <1>3, SameCount DEF Quit, TypeOK, mainVars, ctxVars, collectorVars, helperVars, bridgeVars, screenVars
  <2>2. TypeOK'
    BY <1>3, <2>1 DEF Quit, mainVars, ctxVars, collectorVars, helperVars, bridgeVars, screenVars, TypeOK
  <2>3. SpawnInv'
    BY <1>3 DEF Quit, mainVars, ctxVars, collectorVars, helperVars, bridgeVars, screenVars, TypeOK, SpawnInv
  <2>4. BudgetInv'
    BY <1>3 DEF Quit, mainVars, ctxVars, collectorVars, helperVars, bridgeVars, screenVars, TypeOK, BudgetInv, BudgetAt, Reading
  <2>5. QuietAfterStop'
    BY <1>3 DEF Quit, mainVars, ctxVars, collectorVars, helperVars, bridgeVars, screenVars, TypeOK, QuietAfterStop
  <2> QED BY <2>1, <2>2, <2>3, <2>4, <2>5 DEF Inv
<1>4. ASSUME Cancel PROVE Inv'
  <2>1. WgInv' /\ wg' \in Nat
    BY <1>4, SameCount DEF Cancel, TypeOK, mainVars, ctxVars, collectorVars, helperVars, bridgeVars, screenVars
  <2>2. TypeOK'
    BY <1>4, <2>1 DEF Cancel, mainVars, ctxVars, collectorVars, helperVars, bridgeVars, screenVars, TypeOK
  <2>3. SpawnInv'
    BY <1>4 DEF Cancel, mainVars, ctxVars, collectorVars, helperVars, bridgeVars, screenVars, TypeOK, SpawnInv
  <2>4. BudgetInv'
    BY <1>4 DEF Cancel, mainVars, ctxVars, collectorVars, helperVars, bridgeVars, screenVars, TypeOK, BudgetInv, BudgetAt, Reading
  <2>5. QuietAfterStop'
    BY <1>4 DEF Cancel, mainVars, ctxVars, collectorVars, helperVars, bridgeVars, screenVars, TypeOK, QuietAfterStop
  <2> QED BY <2>1, <2>2, <2>3, <2>4, <2>5 DEF Inv
<1>5. ASSUME NEW s \in Services, Stop(s) PROVE Inv'
  <2>1. WgInv' /\ wg' \in Nat
    BY <1>5, SameCount DEF Stop, TypeOK, mainVars, ctxVars, collectorVars, helperVars, bridgeVars, screenVars
  <2>2. TypeOK'
    BY <1>5, <2>1 DEF Stop, mainVars, ctxVars, collectorVars, helperVars, bridgeVars, screenVars, TypeOK
  <2>3. SpawnInv'
    BY <1>5 DEF Stop, mainVars, ctxVars, collectorVars, helperVars, bridgeVars, screenVars, TypeOK, SpawnInv
  <2>4. BudgetInv'
    BY <1>5 DEF Stop, mainVars, ctxVars, collectorVars, helperVars, bridgeVars, screenVars, TypeOK, BudgetInv, BudgetAt, Reading
  <2>5. QuietAfterStop'
    BY <1>5 DEF Stop, mainVars, ctxVars, collectorVars, helperVars, bridgeVars, screenVars, TypeOK, QuietAfterStop
  <2> QED BY <2>1, <2>2, <2>3, <2>4, <2>5 DEF Inv
<1>6. ASSUME Wait PROVE Inv'
  <2>1. WgInv' /\ wg' \in Nat
    BY <1>6, SameCount DEF Wait, TypeOK, mainVars, ctxVars, collectorVars, helperVars, bridgeVars, screenVars
  <2>2. TypeOK'
    BY <1>6, <2>1 DEF Wait, mainVars, ctxVars, collectorVars, helperVars, bridgeVars, screenVars, TypeOK
  <2>3. SpawnInv'
    BY <1>6 DEF Wait, mainVars, ctxVars, collectorVars, helperVars, bridgeVars, screenVars, TypeOK, SpawnInv
  <2>4. BudgetInv'
    BY <1>6 DEF Wait, mainVars, ctxVars, collectorVars, helperVars, bridgeVars, screenVars, TypeOK, BudgetInv, BudgetAt, Reading
  <2>5. QuietAfterStop'
    <3>1. Live = {}
      BY <1>6, FS_EmptySet DEF Wait, WgInv
    <3>2. ASSUME NEW s \in Services
         PROVE  at[s] \in {"unborn", "ended"} /\ bridge[s] \in {"unborn", "ended"}
      <4>1. <<s, "collector">> \notin Collecting /\ <<s, "bridge">> \notin Bridging
        BY <3>1 DEF Live
      <4> QED BY <4>1 DEF Collecting, Bridging
    <3> QED BY <1>6, <3>2 DEF Wait, mainVars, ctxVars, collectorVars, helperVars, bridgeVars, screenVars, SpawnInv, QuietAfterStop
  <2> QED BY <2>1, <2>2, <2>3, <2>4, <2>5 DEF Inv
<1>7. ASSUME CloseBus PROVE Inv'
  <2>1. WgInv' /\ wg' \in Nat
    BY <1>7, SameCount DEF CloseBus, TypeOK, mainVars, ctxVars, collectorVars, helperVars, bridgeVars, screenVars
  <2>2. TypeOK'
    BY <1>7, <2>1 DEF CloseBus, mainVars, ctxVars, collectorVars, helperVars, bridgeVars, screenVars, TypeOK
  <2>3. SpawnInv'
    BY <1>7 DEF CloseBus, mainVars, ctxVars, collectorVars, helperVars, bridgeVars, screenVars, TypeOK, SpawnInv
  <2>4. BudgetInv'
    BY <1>7 DEF CloseBus, mainVars, ctxVars, collectorVars, helperVars, bridgeVars, screenVars, TypeOK, BudgetInv, BudgetAt, Reading
  <2>5. QuietAfterStop'
    BY <1>7 DEF CloseBus, mainVars, ctxVars, collectorVars, helperVars, bridgeVars, screenVars, TypeOK, QuietAfterStop
  <2> QED BY <2>1, <2>2, <2>3, <2>4, <2>5 DEF Inv
<1>8. ASSUME NEW s \in Services, Spawn(s) PROVE Inv'
  <2>1. WgInv' /\ wg' \in Nat
    BY <1>8, SpawnCounts
  <2>2. TypeOK'
    BY <1>8, <2>1 DEF Spawn, mainVars, ctxVars, collectorVars, helperVars, bridgeVars, screenVars, TypeOK
  <2>3. SpawnInv'
    BY <1>8 DEF Spawn, mainVars, ctxVars, collectorVars, helperVars, bridgeVars, screenVars, TypeOK, SpawnInv
  <2>4. BudgetInv'
    BY <1>8 DEF Spawn, mainVars, ctxVars, collectorVars, helperVars, bridgeVars, screenVars, TypeOK, BudgetInv, BudgetAt, Reading
  <2>5. QuietAfterStop'
    BY <1>8 DEF Spawn, mainVars, ctxVars, collectorVars, helperVars, bridgeVars, screenVars, TypeOK, QuietAfterStop
  <2> QED BY <2>1, <2>2, <2>3, <2>4, <2>5 DEF Inv
<1>9. ASSUME NEW s \in Services, Begin(s) PROVE Inv'
  <2>1. WgInv' /\ wg' \in Nat
    BY <1>9, SameCount DEF Begin, TypeOK, mainVars, ctxVars, collectorVars, helperVars, bridgeVars, screenVars
  <2>2. taken[s] = 0 /\ helper[s] = "none" /\ taken[s] + 1 \in Reading
    BY <1>9 DEF Begin, BudgetInv, BudgetAt, Reading
  <2>3. /\ taken' \in [Services -> Reading] /\ hand' \in [Services -> Reading]
        /\ taken' = taken \/ taken' = [taken EXCEPT ![s] = 1]
    <3>1. CASE taken' = taken /\ hand' = hand
      BY <3>1 DEF TypeOK
    <3>2. CASE taken' = [taken EXCEPT ![s] = @ + 1] /\ hand' = [hand EXCEPT ![s] = taken'[s]]
      <4>1. taken'[s] = taken[s] + 1
        BY <3>2 DEF TypeOK
      <4> QED BY <2>2, <3>2, <4>1 DEF TypeOK
    <3> QED BY <1>9, <3>1, <3>2 DEF Begin
  <2>4. TypeOK'
    <3>1. /\ at' \in [Services -> {"unborn", "born", "seed", "loop", "collect", "send",
                                  "report", "await", "ended"}]
          /\ helper' \in [Services -> {"none", "read", "give", "over", "closed"}]
          /\ health' \in [Services -> {"OK", "Degraded", "Down"}]
      BY <1>9 DEF Begin, TypeOK
    <3>2. /\ armed' = armed \cup {s}
          /\ UNCHANGED <<mainVars, kind, stopped, carry, lines, batch, out, bridgeVars, screenVars>>
      BY <1>9 DEF Begin
    <3> QED BY <2>1, <2>3, <3>1, <3>2 DEF mainVars, ctxVars, bridgeVars, screenVars, TypeOK
  <2>5. SpawnInv'
    BY <1>9, SMTT(30) DEF Begin, mainVars, ctxVars, collectorVars, helperVars, bridgeVars, screenVars, TypeOK, SpawnInv
  <2>6. kind' = kind /\ \A r \in Services \ {s} :
          at'[r] = at[r] /\ helper'[r] = helper[r] /\ taken'[r] = taken[r]
    BY <1>9, <2>3 DEF Begin, TypeOK
  <2>7. /\ at'[s] = "collect" => helper'[s] = "none" /\ taken'[s] = 0
        /\ at'[s] \notin {"unborn", "born"}
        /\ at'[s] = "seed" => helper'[s] = "none" /\ taken'[s] = 0
        /\ helper'[s] # "none" => kind[s] \in {"background", "stream"} /\ taken'[s] = 0
        /\ kind[s] = "stream" => at'[s] # "collect"
    BY <1>9, <2>2 DEF Begin, TypeOK
  <2>8. BudgetInv'
    <3> SUFFICES ASSUME NEW r \in Services
        PROVE  BudgetAt(r)'
      BY DEF BudgetInv
    <3>1. CASE r = s
      BY <2>6, <2>7, <3>1 DEF BudgetAt
    <3>2. CASE r # s
      BY <2>6, <3>2 DEF BudgetInv, BudgetAt
    <3> QED BY <3>1, <3>2
  <2>9. QuietAfterStop'
    BY <1>9 DEF Begin, mainVars, ctxVars, collectorVars, helperVars, bridgeVars, screenVars, TypeOK, QuietAfterStop
  <2> QED BY <2>1, <2>4, <2>5, <2>8, <2>9 DEF Inv
<1>10. ASSUME NEW s \in Services, SeedOk(s) PROVE Inv'
  <2>1. WgInv' /\ wg' \in Nat
    BY <1>10, SameCount DEF SeedOk, TypeOK, mainVars, ctxVars, collectorVars, helperVars, bridgeVars, screenVars
  <2>2. TypeOK'
    BY <1>10, <2>1 DEF SeedOk, mainVars, ctxVars, collectorVars, helperVars, bridgeVars, screenVars, TypeOK
  <2>3. SpawnInv'
    BY <1>10 DEF SeedOk, mainVars, ctxVars, collectorVars, helperVars, bridgeVars, screenVars, TypeOK, SpawnInv
  <2>4. BudgetInv'
    BY <1>10 DEF SeedOk, mainVars, ctxVars, collectorVars, helperVars, bridgeVars, screenVars, TypeOK, BudgetInv, BudgetAt, Reading
  <2>5. QuietAfterStop'
    BY <1>10 DEF SeedOk, mainVars, ctxVars, collectorVars, helperVars, bridgeVars, screenVars, TypeOK, QuietAfterStop
  <2> QED BY <2>1, <2>2, <2>3, <2>4, <2>5 DEF Inv
<1>11. ASSUME NEW s \in Services, SeedFails(s) PROVE Inv'
  <2>1. WgInv' /\ wg' \in Nat
    BY <1>11, CollectorEnds DEF SeedFails, mainVars, ctxVars, collectorVars, helperVars, bridgeVars, screenVars
  <2>2. TypeOK'
    BY <1>11, <2>1 DEF SeedFails, mainVars, ctxVars, collectorVars, helperVars, bridgeVars, screenVars, TypeOK
  <2>3. SpawnInv'
    BY <1>11 DEF SeedFails, mainVars, ctxVars, collectorVars, helperVars, bridgeVars, screenVars, TypeOK, SpawnInv
  <2>4. BudgetInv'
    BY <1>11 DEF SeedFails, mainVars, ctxVars, collectorVars, helperVars, bridgeVars, screenVars, TypeOK, BudgetInv, BudgetAt, Reading
  <2>5. QuietAfterStop'
    BY <1>11 DEF SeedFails, mainVars, ctxVars, collectorVars, helperVars, bridgeVars, screenVars, TypeOK, QuietAfterStop
  <2> QED BY <2>1, <2>2, <2>3, <2>4, <2>5 DEF Inv
<1>12. ASSUME NEW s \in Services, Tick(s) PROVE Inv'
  <2>1. WgInv' /\ wg' \in Nat
    BY <1>12, SameCount DEF Tick, TypeOK, mainVars, ctxVars, collectorVars, helperVars, bridgeVars, screenVars
  <2>2. TypeOK'
    BY <1>12, <2>1 DEF Tick, mainVars, ctxVars, collectorVars, helperVars, bridgeVars, screenVars, TypeOK
  <2>3. SpawnInv'
    BY <1>12 DEF Tick, mainVars, ctxVars, collectorVars, helperVars, bridgeVars, screenVars, TypeOK, SpawnInv
  <2>4. BudgetInv'
    <3>1. kind[s] # "stream" /\ at' = [at EXCEPT ![s] = "collect"]
          /\ UNCHANGED <<kind, helper, taken>>
      BY <1>12 DEF Tick, mainVars, ctxVars, collectorVars, helperVars, bridgeVars, screenVars
    <3>2. taken[s] < MaxReadings /\ (helper[s] = "read" => taken[s] + 1 < MaxReadings)
      BY <1>12 DEF Tick, TypeOK, Reading
    <3> QED BY <3>1, <3>2 DEF BudgetInv, BudgetAt, TypeOK
  <2>5. QuietAfterStop'
    BY <1>12 DEF Tick, mainVars, ctxVars, collectorVars, helperVars, bridgeVars, screenVars, TypeOK, QuietAfterStop
  <2> QED BY <2>1, <2>2, <2>3, <2>4, <2>5 DEF Inv
<1>13. ASSUME NEW s \in Services, Collect(s) PROVE Inv'
  <2>1. WgInv' /\ wg' \in Nat
    BY <1>13, SameCount DEF Collect, TypeOK, mainVars, ctxVars, collectorVars, helperVars, bridgeVars, screenVars
  <2>2. taken'[s] \in Reading /\ taken' \in [Services -> Reading]
    BY <1>13, SMTT(30) DEF Collect, TypeOK, BudgetInv, BudgetAt, Reading, mainVars, ctxVars, collectorVars, helperVars, bridgeVars, screenVars
  <2>3. TypeOK'
    BY <1>13, <2>1, <2>2 DEF Collect, mainVars, ctxVars, collectorVars, helperVars, bridgeVars, screenVars, TypeOK
  <2>4. SpawnInv'
    BY <1>13 DEF Collect, mainVars, ctxVars, collectorVars, helperVars, bridgeVars, screenVars, TypeOK, SpawnInv
  <2>5. BudgetInv'
    <3>1. /\ at[s] = "collect" /\ taken' = [taken EXCEPT ![s] = @ + 1]
          /\ at' = [at EXCEPT ![s] = "send"] /\ UNCHANGED <<kind, helper>>
      BY <1>13 DEF Collect, mainVars, helperVars, ctxVars
    <3>2. BudgetAt(s)'
      <4>1. at'[s] = "send" /\ taken'[s] = taken[s] + 1 /\ taken[s] \in Nat /\ MaxReadings \in Nat
        BY <3>1, LifecycleAssumption DEF TypeOK, Reading
      <4>2. BudgetAt(s) /\ kind' = kind /\ helper' = helper /\ at[s] = "collect"
        BY <3>1 DEF BudgetInv
      <4>3. helper[s] = "read" => taken[s] + 1 < MaxReadings
        BY <4>2 DEF BudgetAt
      <4> QED BY <4>1, <4>2, <4>3 DEF BudgetAt
    <3>3. \A r \in Services \ {s} : BudgetAt(r)'
      <4> SUFFICES ASSUME NEW r \in Services \ {s} PROVE BudgetAt(r)'
        OBVIOUS
      <4>1. at'[r] = at[r] /\ taken'[r] = taken[r] /\ kind' = kind /\ helper' = helper
        BY <3>1 DEF TypeOK
      <4> QED BY <4>1 DEF BudgetInv, BudgetAt
    <3> QED BY <3>2, <3>3 DEF BudgetInv
  <2>6. QuietAfterStop'
    BY <1>13 DEF Collect, mainVars, ctxVars, collectorVars, helperVars, bridgeVars, screenVars, TypeOK, QuietAfterStop
  <2> QED BY <2>1, <2>3, <2>4, <2>5, <2>6 DEF Inv
<1>14. ASSUME NEW s \in Services, CollectFails(s) PROVE Inv'
  <2>1. WgInv' /\ wg' \in Nat
    BY <1>14, SameCount DEF CollectFails, TypeOK, mainVars, ctxVars, collectorVars, helperVars, bridgeVars, screenVars
  <2>2. TypeOK'
    BY <1>14, <2>1 DEF CollectFails, mainVars, ctxVars, collectorVars, helperVars, bridgeVars, screenVars, TypeOK
  <2>3. SpawnInv'
    BY <1>14 DEF CollectFails, mainVars, ctxVars, collectorVars, helperVars, bridgeVars, screenVars, TypeOK, SpawnInv
  <2>4. BudgetInv'
    BY <1>14 DEF CollectFails, mainVars, ctxVars, collectorVars, helperVars, bridgeVars, screenVars, TypeOK, BudgetInv, BudgetAt, Reading
  <2>5. QuietAfterStop'
    BY <1>14 DEF CollectFails, mainVars, ctxVars, collectorVars, helperVars, bridgeVars, screenVars, TypeOK, QuietAfterStop
  <2> QED BY <2>1, <2>2, <2>3, <2>4, <2>5 DEF Inv
<1>15. ASSUME NEW s \in Services, CollectPanics(s) PROVE Inv'
  <2>1. WgInv' /\ wg' \in Nat
    BY <1>15, CollectorEnds DEF CollectPanics, mainVars, ctxVars, collectorVars, helperVars, bridgeVars, screenVars
  <2>2. TypeOK'
    BY <1>15, <2>1 DEF CollectPanics, mainVars, ctxVars, collectorVars, helperVars, bridgeVars, screenVars, TypeOK
  <2>3. SpawnInv'
    BY <1>15 DEF CollectPanics, mainVars, ctxVars, collectorVars, helperVars, bridgeVars, screenVars, TypeOK, SpawnInv
  <2>4. BudgetInv'
    BY <1>15 DEF CollectPanics, mainVars, ctxVars, collectorVars, helperVars, bridgeVars, screenVars, TypeOK, BudgetInv, BudgetAt, Reading
  <2>5. QuietAfterStop'
    BY <1>15 DEF CollectPanics, mainVars, ctxVars, collectorVars, helperVars, bridgeVars, screenVars, TypeOK, QuietAfterStop
  <2> QED BY <2>1, <2>2, <2>3, <2>4, <2>5 DEF Inv
<1>16. ASSUME NEW s \in Services, Send(s) PROVE Inv'
  <2>1. WgInv' /\ wg' \in Nat
    BY <1>16, SameCount DEF Send, TypeOK, mainVars, ctxVars, collectorVars, helperVars, bridgeVars, screenVars
  <2>2. Room(s) => Append(out[s], hand[s]) \in Seq(Reading) /\ Len(Append(out[s], hand[s])) <= OutCap
    BY <1>16, AppendTyped DEF TypeOK, Room
  <2>3. TypeOK'
    BY <1>16, <2>1, <2>2 DEF Send, mainVars, ctxVars, collectorVars, helperVars, bridgeVars, screenVars, TypeOK
  <2>4. SpawnInv'
    BY <1>16 DEF Send, mainVars, ctxVars, collectorVars, helperVars, bridgeVars, screenVars, TypeOK, SpawnInv
  <2>5. BudgetInv'
    BY <1>16 DEF Send, mainVars, ctxVars, collectorVars, helperVars, bridgeVars, screenVars, TypeOK, BudgetInv, BudgetAt, Reading
  <2>6. QuietAfterStop'
    BY <1>16 DEF Send, mainVars, ctxVars, collectorVars, helperVars, bridgeVars, screenVars, TypeOK, QuietAfterStop
  <2> QED BY <2>1, <2>3, <2>4, <2>5, <2>6 DEF Inv
<1>17. ASSUME NEW s \in Services, TakeLine(s) PROVE Inv'
  <2>1. WgInv' /\ wg' \in Nat
    BY <1>17, SameCount DEF TakeLine, TypeOK, mainVars, ctxVars, collectorVars, helperVars, bridgeVars, screenVars
  <2>2. Head(lines[s]) \in Reading /\ Tail(lines[s]) \in Seq(Reading) /\ Len(Tail(lines[s])) <= LineCap
    BY <1>17, TailTyped DEF TypeOK, TakeLine
  <2>3. TypeOK'
    <3>1. batch' \in [Services -> Reading]
      BY <1>17, <2>2 DEF TakeLine, TypeOK
    <3>2. lines' \in [Services -> Seq(Reading)] /\ \A r \in Services : Len(lines'[r]) <= LineCap
      BY <1>17, <2>2 DEF TakeLine, TypeOK
    <3> QED BY <1>17, <2>1, <3>1, <3>2 DEF TakeLine, mainVars, ctxVars, collectorVars, helperVars, bridgeVars, screenVars, TypeOK
  <2>4. SpawnInv'
    BY <1>17 DEF TakeLine, mainVars, ctxVars, collectorVars, helperVars, bridgeVars, screenVars, TypeOK, SpawnInv
  <2>5. BudgetInv'
    BY <1>17 DEF TakeLine, mainVars, ctxVars, collectorVars, helperVars, bridgeVars, screenVars, TypeOK, BudgetInv, BudgetAt, Reading
  <2>6. QuietAfterStop'
    BY <1>17 DEF TakeLine, mainVars, ctxVars, collectorVars, helperVars, bridgeVars, screenVars, TypeOK, QuietAfterStop
  <2> QED BY <2>1, <2>3, <2>4, <2>5, <2>6 DEF Inv
<1>18. ASSUME NEW s \in Services, LinesEnd(s) PROVE Inv'
  <2>1. WgInv' /\ wg' \in Nat
    BY <1>18, CollectorEnds DEF LinesEnd, mainVars, ctxVars, collectorVars, helperVars, bridgeVars, screenVars
  <2>2. TypeOK'
    BY <1>18, <2>1 DEF LinesEnd, mainVars, ctxVars, collectorVars, helperVars, bridgeVars, screenVars, TypeOK
  <2>3. SpawnInv'
    BY <1>18 DEF LinesEnd, mainVars, ctxVars, collectorVars, helperVars, bridgeVars, screenVars, TypeOK, SpawnInv
  <2>4. BudgetInv'
    BY <1>18 DEF LinesEnd, mainVars, ctxVars, collectorVars, helperVars, bridgeVars, screenVars, TypeOK, BudgetInv, BudgetAt, Reading
  <2>5. QuietAfterStop'
    BY <1>18 DEF LinesEnd, mainVars, ctxVars, collectorVars, helperVars, bridgeVars, screenVars, TypeOK, QuietAfterStop
  <2> QED BY <2>1, <2>2, <2>3, <2>4, <2>5 DEF Inv
<1>19. ASSUME NEW s \in Services, Flush(s) PROVE Inv'
  <2>1. WgInv' /\ wg' \in Nat
    BY <1>19, SameCount DEF Flush, TypeOK, mainVars, ctxVars, collectorVars, helperVars, bridgeVars, screenVars
  <2>2. TypeOK'
    BY <1>19, <2>1 DEF Flush, mainVars, ctxVars, collectorVars, helperVars, bridgeVars, screenVars, TypeOK
  <2>3. SpawnInv'
    BY <1>19 DEF Flush, mainVars, ctxVars, collectorVars, helperVars, bridgeVars, screenVars, TypeOK, SpawnInv
  <2>4. BudgetInv'
    BY <1>19 DEF Flush, mainVars, ctxVars, collectorVars, helperVars, bridgeVars, screenVars, TypeOK, BudgetInv, BudgetAt, Reading
  <2>5. QuietAfterStop'
    BY <1>19 DEF Flush, mainVars, ctxVars, collectorVars, helperVars, bridgeVars, screenVars, TypeOK, QuietAfterStop
  <2> QED BY <2>1, <2>2, <2>3, <2>4, <2>5 DEF Inv
<1>20. ASSUME NEW s \in Services, Return(s) PROVE Inv'
  <2>1. WgInv' /\ wg' \in Nat
    BY <1>20, CollectorEnds DEF Return, mainVars, ctxVars, collectorVars, helperVars, bridgeVars, screenVars
  <2>2. TypeOK'
    BY <1>20, <2>1 DEF Return, mainVars, ctxVars, collectorVars, helperVars, bridgeVars, screenVars, TypeOK
  <2>3. SpawnInv'
    BY <1>20 DEF Return, mainVars, ctxVars, collectorVars, helperVars, bridgeVars, screenVars, TypeOK, SpawnInv
  <2>4. BudgetInv'
    BY <1>20 DEF Return, mainVars, ctxVars, collectorVars, helperVars, bridgeVars, screenVars, TypeOK, BudgetInv, BudgetAt, Reading
  <2>5. QuietAfterStop'
    BY <1>20 DEF Return, mainVars, ctxVars, collectorVars, helperVars, bridgeVars, screenVars, TypeOK, QuietAfterStop
  <2> QED BY <2>1, <2>2, <2>3, <2>4, <2>5 DEF Inv
<1>21. ASSUME NEW s \in Services, Read(s) PROVE Inv'
  <2>1. WgInv' /\ wg' \in Nat
    BY <1>21, SameCount DEF Read, TypeOK, mainVars, ctxVars, collectorVars, helperVars, bridgeVars, screenVars
  <2>2. taken'[s] \in Reading /\ taken' \in [Services -> Reading]
    BY <1>21, SMTT(30) DEF Read, TypeOK, BudgetInv, BudgetAt, Reading, mainVars, ctxVars, collectorVars, helperVars, bridgeVars, screenVars
  <2>health. health' \in [Services -> {"OK", "Degraded", "Down"}]
    <3>1. CASE health' = health
      BY <3>1 DEF TypeOK
    <3>2. CASE \E state \in {"OK", "Down"} : health' = [health EXCEPT ![s] = state]
      BY <3>2 DEF TypeOK
    <3> QED BY <1>21, <3>1, <3>2 DEF Read
  <2>3. TypeOK'
    BY <1>21, <2>1, <2>2, <2>health DEF Read, mainVars, ctxVars, bridgeVars, screenVars, TypeOK
  <2>4. SpawnInv'
    BY <1>21 DEF Read, mainVars, ctxVars, collectorVars, helperVars, bridgeVars, screenVars, TypeOK, SpawnInv
  <2>5. BudgetInv'
    BY <1>21 DEF Read, mainVars, ctxVars, collectorVars, helperVars, bridgeVars, screenVars, TypeOK, BudgetInv, BudgetAt, Reading
  <2>6. QuietAfterStop'
    BY <1>21 DEF Read, mainVars, ctxVars, collectorVars, helperVars, bridgeVars, screenVars, TypeOK, QuietAfterStop
  <2> QED BY <2>1, <2>3, <2>4, <2>5, <2>6 DEF Inv
<1>22. ASSUME NEW s \in Services, Give(s) PROVE Inv'
  <2>1. WgInv' /\ wg' \in Nat
    BY <1>22, SameCount DEF Give, TypeOK, mainVars, ctxVars, collectorVars, helperVars, bridgeVars, screenVars
  <2>2. Room(s) => Append(out[s], carry[s]) \in Seq(Reading) /\ Len(Append(out[s], carry[s])) <= OutCap
    BY <1>22, AppendTyped DEF TypeOK, Room
  <2>3. TypeOK'
    BY <1>22, <2>1, <2>2 DEF Give, mainVars, ctxVars, collectorVars, helperVars, bridgeVars, screenVars, TypeOK
  <2>4. SpawnInv'
    BY <1>22 DEF Give, mainVars, ctxVars, collectorVars, helperVars, bridgeVars, screenVars, TypeOK, SpawnInv
  <2>5. BudgetInv'
    BY <1>22 DEF Give, mainVars, ctxVars, collectorVars, helperVars, bridgeVars, screenVars, TypeOK, BudgetInv, BudgetAt, Reading
  <2>6. QuietAfterStop'
    BY <1>22 DEF Give, mainVars, ctxVars, collectorVars, helperVars, bridgeVars, screenVars, TypeOK, QuietAfterStop
  <2> QED BY <2>1, <2>3, <2>4, <2>5, <2>6 DEF Inv
<1>23. ASSUME NEW s \in Services, GiveLine(s) PROVE Inv'
  <2>1. WgInv' /\ wg' \in Nat
    BY <1>23, SameCount DEF GiveLine, TypeOK, mainVars, ctxVars, collectorVars, helperVars, bridgeVars, screenVars
  <2>2. Append(lines[s], carry[s]) \in Seq(Reading) /\ Len(Append(lines[s], carry[s])) <= LineCap
    BY <1>23, AppendTyped DEF TypeOK, GiveLine
  <2>3. TypeOK'
    BY <1>23, <2>1, <2>2 DEF GiveLine, mainVars, ctxVars, collectorVars, helperVars, bridgeVars, screenVars, TypeOK
  <2>4. SpawnInv'
    BY <1>23 DEF GiveLine, mainVars, ctxVars, collectorVars, helperVars, bridgeVars, screenVars, TypeOK, SpawnInv
  <2>5. BudgetInv'
    BY <1>23 DEF GiveLine, mainVars, ctxVars, collectorVars, helperVars, bridgeVars, screenVars, TypeOK, BudgetInv, BudgetAt, Reading
  <2>6. QuietAfterStop'
    BY <1>23 DEF GiveLine, mainVars, ctxVars, collectorVars, helperVars, bridgeVars, screenVars, TypeOK, QuietAfterStop
  <2> QED BY <2>1, <2>3, <2>4, <2>5, <2>6 DEF Inv
<1>24. ASSUME NEW s \in Services, AbandonLine(s) PROVE Inv'
  <2>1. WgInv' /\ wg' \in Nat
    BY <1>24, SameCount DEF AbandonLine, TypeOK, mainVars, ctxVars, collectorVars, helperVars, bridgeVars, screenVars
  <2>2. TypeOK'
    BY <1>24, <2>1 DEF AbandonLine, mainVars, ctxVars, collectorVars, helperVars, bridgeVars, screenVars, TypeOK
  <2>3. SpawnInv'
    BY <1>24 DEF AbandonLine, mainVars, ctxVars, collectorVars, helperVars, bridgeVars, screenVars, TypeOK, SpawnInv
  <2>4. BudgetInv'
    BY <1>24 DEF AbandonLine, mainVars, ctxVars, collectorVars, helperVars, bridgeVars, screenVars, TypeOK, BudgetInv, BudgetAt, Reading
  <2>5. QuietAfterStop'
    BY <1>24 DEF AbandonLine, mainVars, ctxVars, collectorVars, helperVars, bridgeVars, screenVars, TypeOK, QuietAfterStop
  <2> QED BY <2>1, <2>2, <2>3, <2>4, <2>5 DEF Inv
<1>25. ASSUME NEW s \in Services, EndOfLines(s) PROVE Inv'
  <2>1. WgInv' /\ wg' \in Nat
    BY <1>25, SameCount DEF EndOfLines, TypeOK, mainVars, ctxVars, collectorVars, helperVars, bridgeVars, screenVars
  <2>2. TypeOK'
    BY <1>25, <2>1 DEF EndOfLines, mainVars, ctxVars, collectorVars, helperVars, bridgeVars, screenVars, TypeOK
  <2>3. SpawnInv'
    BY <1>25 DEF EndOfLines, mainVars, ctxVars, collectorVars, helperVars, bridgeVars, screenVars, TypeOK, SpawnInv
  <2>4. BudgetInv'
    BY <1>25 DEF EndOfLines, mainVars, ctxVars, collectorVars, helperVars, bridgeVars, screenVars, TypeOK, BudgetInv, BudgetAt, Reading
  <2>5. QuietAfterStop'
    BY <1>25 DEF EndOfLines, mainVars, ctxVars, collectorVars, helperVars, bridgeVars, screenVars, TypeOK, QuietAfterStop
  <2> QED BY <2>1, <2>2, <2>3, <2>4, <2>5 DEF Inv
<1>26. ASSUME NEW s \in Services, Relay(s) PROVE Inv'
  <2>1. WgInv' /\ wg' \in Nat
    BY <1>26, SameCount DEF Relay, TypeOK, mainVars, ctxVars, collectorVars, helperVars, bridgeVars, screenVars
  <2>2. Head(out[s]) \in Reading /\ Tail(out[s]) \in Seq(Reading) /\ Len(Tail(out[s])) <= OutCap
    BY <1>26, TailTyped DEF TypeOK, Relay
  <2>3. TypeOK'
    BY <1>26, <2>1, <2>2 DEF Relay, mainVars, ctxVars, collectorVars, helperVars, bridgeVars, screenVars, TypeOK
  <2>4. SpawnInv'
    BY <1>26 DEF Relay, mainVars, ctxVars, collectorVars, helperVars, bridgeVars, screenVars, TypeOK, SpawnInv
  <2>5. BudgetInv'
    BY <1>26 DEF Relay, mainVars, ctxVars, collectorVars, helperVars, bridgeVars, screenVars, TypeOK, BudgetInv, BudgetAt, Reading
  <2>6. QuietAfterStop'
    BY <1>26 DEF Relay, mainVars, ctxVars, collectorVars, helperVars, bridgeVars, screenVars, TypeOK, QuietAfterStop
  <2> QED BY <2>1, <2>3, <2>4, <2>5, <2>6 DEF Inv
<1>27. ASSUME NEW s \in Services, Publish(s) PROVE Inv'
  <2>1. WgInv' /\ wg' \in Nat
    BY <1>27, SameCount DEF Publish, TypeOK, mainVars, ctxVars, collectorVars, helperVars, bridgeVars, screenVars
  <2>2. Len(inbox[s]) < BusCap => Append(inbox[s], relay[s]) \in Seq(Reading) /\ Len(Append(inbox[s], relay[s])) <= BusCap
    BY <1>27, AppendTyped DEF TypeOK
  <2>3. TypeOK'
    BY <1>27, <2>1, <2>2 DEF Publish, mainVars, ctxVars, collectorVars, helperVars, bridgeVars, screenVars, TypeOK
  <2>4. SpawnInv'
    BY <1>27 DEF Publish, mainVars, ctxVars, collectorVars, helperVars, bridgeVars, screenVars, TypeOK, SpawnInv
  <2>5. BudgetInv'
    BY <1>27 DEF Publish, mainVars, ctxVars, collectorVars, helperVars, bridgeVars, screenVars, TypeOK, BudgetInv, BudgetAt, Reading
  <2>6. QuietAfterStop'
    BY <1>27 DEF Publish, mainVars, ctxVars, collectorVars, helperVars, bridgeVars, screenVars, TypeOK, QuietAfterStop
  <2> QED BY <2>1, <2>3, <2>4, <2>5, <2>6 DEF Inv
<1>28. ASSUME NEW s \in Services, BridgeReturn(s) PROVE Inv'
  <2>1. WgInv' /\ wg' \in Nat
    BY <1>28, BridgeEnds DEF BridgeReturn, mainVars, ctxVars, collectorVars, helperVars, bridgeVars, screenVars
  <2>2. TypeOK'
    BY <1>28, <2>1 DEF BridgeReturn, mainVars, ctxVars, collectorVars, helperVars, bridgeVars, screenVars, TypeOK
  <2>3. SpawnInv'
    BY <1>28 DEF BridgeReturn, mainVars, ctxVars, collectorVars, helperVars, bridgeVars, screenVars, TypeOK, SpawnInv
  <2>4. BudgetInv'
    BY <1>28 DEF BridgeReturn, mainVars, ctxVars, collectorVars, helperVars, bridgeVars, screenVars, TypeOK, BudgetInv, BudgetAt, Reading
  <2>5. QuietAfterStop'
    BY <1>28 DEF BridgeReturn, mainVars, ctxVars, collectorVars, helperVars, bridgeVars, screenVars, TypeOK, QuietAfterStop
  <2> QED BY <2>1, <2>2, <2>3, <2>4, <2>5 DEF Inv
<1>29. ASSUME UNCHANGED vars PROVE Inv'
  <2>1. Live' = Live
    BY <1>29 DEF vars, Live, Collecting, Bridging, mainVars, ctxVars, collectorVars, helperVars, bridgeVars, screenVars
  <2>2. WgInv'
    BY <1>29, <2>1 DEF vars, WgInv
  <2>3. TypeOK' /\ SpawnInv' /\ BudgetInv' /\ QuietAfterStop'
    BY <1>29 DEF vars, TypeOK, SpawnInv, BudgetInv, BudgetAt, QuietAfterStop, mainVars, ctxVars, collectorVars, helperVars, bridgeVars, screenVars
  <2> QED BY <2>2, <2>3 DEF Inv
<1> QED BY <1>1, <1>2, <1>3, <1>4, <1>5, <1>6, <1>7, <1>8, <1>9, <1>10, <1>11, <1>12, <1>13, <1>14, <1>15, <1>16, <1>17, <1>18, <1>19, <1>20, <1>21, <1>22, <1>23, <1>24, <1>25, <1>26, <1>27, <1>28, <1>29 DEF Next, Main, Collector, Helper, Bridge

\* The registry's lifecycle keeps its invariant.
THEOREM LifecycleInvariant == Spec => []Inv
<1>1. Init => Inv
  BY InitInv
<1>2. Inv /\ [Next]_vars => Inv'
  BY StepInv
<1> QED BY <1>1, <1>2, PTL DEF Spec

\* Types, and the capacities of all buffers.
THEOREM LifecycleTypeCorrect == Spec => []TypeOK
<1>1. Inv => TypeOK
  BY DEF Inv
<1> QED BY <1>1, LifecycleInvariant, PTL

\* main closes the bus, and exits, only when every collector and every bridge
\* that StartAll started has returned.
THEOREM QuietAfterStopHolds == Spec => []QuietAfterStop
<1>1. Inv => QuietAfterStop
  BY DEF Inv
<1> QED BY <1>1, LifecycleInvariant, PTL
-----------------------------------------------------------------------------
(* The order of the readings.  A service's buffers and goroutines hold its  *)
(* readings in eight places, from the screen back to the helper's hand.     *)
(* There are cuts such that what place i holds lies above cut i - 1 and up  *)
(* to cut i: a step that hands a reading on moves one cut, and a new        *)
(* reading lies above them all.                                             *)

\* A sequence increases and lies above lo, up to hi.
Within(q, lo, hi) ==
  /\ q \in Seq(Nat)
  /\ lo <= hi
  /\ Increasing(q)
  /\ \A k \in DOMAIN q : lo < q[k] /\ q[k] <= hi

LEMMA WithinConcat ==
  ASSUME NEW lo \in Nat, NEW mid \in Nat, NEW hi \in Nat, NEW a, NEW b,
         Within(a, lo, mid), Within(b, mid, hi)
  PROVE  Within(a \o b, lo, hi)
<1> DEFINE q == a \o b
<1>1. /\ a \in Seq(Nat) /\ b \in Seq(Nat) /\ lo <= mid /\ mid <= hi
      /\ Increasing(a) /\ Increasing(b)
      /\ \A k \in DOMAIN a : lo < a[k] /\ a[k] <= mid
      /\ \A k \in DOMAIN b : mid < b[k] /\ b[k] <= hi
  BY DEF Within
<1>2. /\ Len(a) \in Nat /\ DOMAIN a = 1..Len(a) /\ \A k \in 1..Len(a) : a[k] \in Nat
      /\ Len(b) \in Nat /\ DOMAIN b = 1..Len(b) /\ \A k \in 1..Len(b) : b[k] \in Nat
  BY <1>1, LenProperties, ElementOfSeq
<1>3. /\ q \in Seq(Nat) /\ Len(q) = Len(a) + Len(b)
      /\ \A k \in 1..(Len(a) + Len(b)) : q[k] = IF k <= Len(a) THEN a[k] ELSE b[k - Len(a)]
  BY <1>1, ConcatProperties
<1>4. DOMAIN q = 1..(Len(a) + Len(b))
  BY <1>3, LenProperties
<1> HIDE DEF q
<1>5. \A k \in 1..Len(a) : q[k] = a[k] /\ lo < q[k] /\ q[k] <= mid /\ q[k] \in Nat
  <2> SUFFICES ASSUME NEW k \in 1..Len(a)
               PROVE  q[k] = a[k] /\ lo < q[k] /\ q[k] <= mid /\ q[k] \in Nat
    OBVIOUS
  <2>1. k \in 1..(Len(a) + Len(b)) /\ k <= Len(a)
    BY <1>2
  <2>2. q[k] = a[k]
    BY <1>3, <2>1
  <2> QED BY <1>1, <1>2, <2>2
<1>6. ASSUME NEW k \in DOMAIN q, ~(k <= Len(a))
      PROVE  /\ k - Len(a) \in 1..Len(b) /\ q[k] = b[k - Len(a)]
             /\ mid < q[k] /\ q[k] <= hi /\ q[k] \in Nat
  <2>1. k \in 1..(Len(a) + Len(b))
    BY <1>4
  <2>2. k - Len(a) \in 1..Len(b)
    BY <1>2, <1>6, <2>1
  <2>3. q[k] = b[k - Len(a)]
    BY <1>3, <1>6, <2>1
  <2> QED BY <1>1, <1>2, <2>2, <2>3
<1>7. \A k \in DOMAIN q : lo < q[k] /\ q[k] <= hi
  <2> SUFFICES ASSUME NEW k \in DOMAIN q PROVE lo < q[k] /\ q[k] <= hi
    OBVIOUS
  <2>1. CASE k <= Len(a)
    <3>1. k \in 1..Len(a)
      BY <1>2, <1>4, <2>1
    <3> QED BY <1>1, <1>5, <3>1
  <2>2. CASE ~(k <= Len(a))
    BY <1>1, <1>6, <2>2
  <2> QED BY <2>1, <2>2
<1>8. Increasing(q)
  <2> SUFFICES ASSUME NEW i \in DOMAIN q, NEW j \in DOMAIN q, i < j PROVE q[i] < q[j]
    BY DEF Increasing
  <2>0. i \in Nat /\ j \in Nat /\ i >= 1 /\ j >= 1
    BY <1>2, <1>4
  <2>1. CASE j <= Len(a)
    <3>1. i \in 1..Len(a) /\ j \in 1..Len(a)
      BY <1>2, <2>0, <2>1
    <3>2. a[i] < a[j]
      BY <1>1, <1>2, <3>1 DEF Increasing
    <3> QED BY <1>5, <3>1, <3>2
  <2>2. CASE ~(j <= Len(a)) /\ i <= Len(a)
    <3>1. i \in 1..Len(a)
      BY <1>2, <2>0, <2>2
    <3>2. q[i] <= mid /\ q[i] \in Nat
      BY <1>5, <3>1
    <3>3. mid < q[j] /\ q[j] \in Nat
      BY <1>6, <2>2
    <3> QED BY <3>2, <3>3
  <2>3. CASE ~(j <= Len(a)) /\ ~(i <= Len(a))
    <3>1. i - Len(a) \in 1..Len(b) /\ q[i] = b[i - Len(a)]
      BY <1>6, <2>3
    <3>2. j - Len(a) \in 1..Len(b) /\ q[j] = b[j - Len(a)]
      BY <1>6, <2>3
    <3>3. i - Len(a) < j - Len(a)
      BY <1>2, <2>0
    <3> QED BY <1>1, <1>2, <3>1, <3>2, <3>3 DEF Increasing
  <2> QED BY <2>1, <2>2, <2>3
<1>9. lo <= hi
  BY <1>1
<1> QED BY <1>3, <1>7, <1>8, <1>9 DEF Within, q

\* An empty place has room for a reading above all before it.
LEMMA WithinHeld ==
  ASSUME NEW n \in Nat, NEW lo \in Nat, NEW hi \in Nat, lo <= hi, n = 0 \/ (lo < n /\ n <= hi)
  PROVE  Within(Held(n), lo, hi)
<1>1. CASE n = 0
  BY <1>1 DEF Held, Within, Increasing
<1>2. CASE n # 0
  <2>1. Held(n) = <<n>> /\ Len(<<n>>) = 1 /\ <<n>>[1] = n /\ <<n>> \in Seq(Nat) /\ DOMAIN <<n>> = 1..1
    BY <1>2 DEF Held
  <2> QED BY <1>2, <2>1 DEF Within, Increasing
<1> QED BY <1>1, <1>2

LEMMA HeldWithin ==
  ASSUME NEW n \in Nat, n # 0, NEW lo, NEW hi, Within(Held(n), lo, hi)
  PROVE  lo < n /\ n <= hi
<1>1. Held(n) = <<n>> /\ 1 \in DOMAIN <<n>> /\ <<n>>[1] = n
  BY DEF Held
<1> QED BY <1>1 DEF Within

LEMMA WithinAppend ==
  ASSUME NEW q, NEW lo \in Nat, NEW mid \in Nat, NEW n \in Nat,
         Within(q, lo, mid), mid < n
  PROVE  Within(Append(q, n), lo, n)
<1>1. Within(Held(n), mid, n) /\ Held(n) = <<n>>
  BY WithinHeld DEF Held
<1>2. Within(q \o <<n>>, lo, n)
  BY <1>1, WithinConcat
<1>3. Append(q, n) = q \o <<n>>
  BY AppendIsConcat DEF Within
<1> QED BY <1>2, <1>3

LEMMA WithinTail ==
  ASSUME NEW q, NEW lo \in Nat, NEW hi \in Nat, Within(q, lo, hi), q # <<>>
  PROVE  /\ Head(q) \in Nat /\ lo < Head(q) /\ Head(q) <= hi
         /\ Within(Tail(q), Head(q), hi) /\ Within(Tail(q), lo, hi)
<1>1. /\ q \in Seq(Nat) /\ lo <= hi /\ Increasing(q)
      /\ \A k \in DOMAIN q : lo < q[k] /\ q[k] <= hi
  BY DEF Within
<1>2. Len(q) \in Nat \ {0} /\ DOMAIN q = 1..Len(q) /\ \A k \in 1..Len(q) : q[k] \in Nat
  BY <1>1, LenProperties, EmptySeq, ElementOfSeq
<1> DEFINE t == Tail(q)
<1>3. /\ t \in Seq(Nat) /\ Len(t) = Len(q) - 1 /\ Head(q) = q[1]
      /\ \A k \in 1..Len(t) : t[k] = q[k + 1]
  BY <1>1, HeadTailProperties
<1>4. DOMAIN t = 1..Len(t)
  BY <1>3, LenProperties
<1> HIDE DEF t
<1>5. 1 \in 1..Len(q) /\ q[1] \in Nat /\ lo < q[1] /\ q[1] <= hi
  BY <1>1, <1>2
<1>6. \A k \in DOMAIN t : /\ k + 1 \in 1..Len(q) /\ t[k] = q[k + 1] /\ q[1] < t[k]
                          /\ lo < t[k] /\ t[k] <= hi
  <2> SUFFICES ASSUME NEW k \in DOMAIN t
               PROVE  /\ k + 1 \in 1..Len(q) /\ t[k] = q[k + 1] /\ q[1] < t[k]
                      /\ lo < t[k] /\ t[k] <= hi
    OBVIOUS
  <2>1. k + 1 \in 1..Len(q) /\ 1 < k + 1
    BY <1>2, <1>3, <1>4
  <2>2. t[k] = q[k + 1]
    BY <1>3, <1>4
  <2>3. q[1] < q[k + 1]
    BY <1>1, <1>2, <1>5, <2>1 DEF Increasing
  <2> QED BY <1>1, <1>2, <2>1, <2>2, <2>3
<1>7. Increasing(t)
  <2> SUFFICES ASSUME NEW i \in DOMAIN t, NEW j \in DOMAIN t, i < j PROVE t[i] < t[j]
    BY DEF Increasing
  <2>1. i + 1 < j + 1
    BY <1>4
  <2>2. q[i + 1] < q[j + 1]
    BY <1>1, <1>2, <1>6, <2>1 DEF Increasing
  <2> QED BY <1>6, <2>2
<1>8. Within(t, q[1], hi) /\ Within(t, lo, hi)
  BY <1>1, <1>3, <1>5, <1>6, <1>7 DEF Within
<1> QED BY <1>3, <1>5, <1>8 DEF t

LEMMA WithinNothing ==
  ASSUME NEW lo \in Nat, NEW hi \in Nat, lo <= hi
  PROVE  Within(<<>>, lo, hi)
BY DEF Within, Increasing

-----------------------------------------------------------------------------
Cuts == [0..8 -> Nat]

\* What the eight places of service s hold.
Places(s) ==
  <<Held(shown[s]), inbox[s], Held(relay[s]), out[s], Held(hand[s]), Held(batch[s]),
    lines[s], Held(carry[s])>>

Cut(t, places, last) ==
  /\ \A i \in 0..8 : t[i] <= last
  /\ \A i \in 1..8 : Within(places[i], t[i - 1], t[i])

\* A step that changes two places at most, and the cut between them.
LEMMA Shift ==
  ASSUME NEW t \in Cuts, NEW p, NEW q, NEW last \in Nat, Cut(t, p, last),
         NEW i \in 1..7, NEW v \in Nat, Within(q[i], t[i - 1], v), Within(q[i + 1], v, t[i + 1]),
         \A j \in 1..8 \ {i, i + 1} : q[j] = p[j]
  PROVE  \E u \in Cuts : Cut(u, q, last)
<1> DEFINE u == [t EXCEPT ![i] = v]
<1>1. u \in Cuts /\ u[i] = v /\ \A j \in 0..8 \ {i} : u[j] = t[j]
  BY DEF Cuts
<1>2. \A j \in 0..8 : u[j] <= last
  <2>1. \A j \in 0..8 : t[j] <= last /\ t[j] \in Nat
    BY DEF Cut, Cuts
  <2>2. v <= t[i + 1] /\ i + 1 \in 0..8
    BY DEF Within
  <2>3. v <= last
    BY <2>1, <2>2
  <2> QED BY <1>1, <2>1, <2>3
<1> HIDE DEF u
<1>3. \A j \in 1..8 : Within(q[j], u[j - 1], u[j])
  <2> SUFFICES ASSUME NEW j \in 1..8 PROVE Within(q[j], u[j - 1], u[j])
    OBVIOUS
  <2>1. CASE j = i
    <3>1. u[j - 1] = t[i - 1] /\ u[j] = v
      BY <1>1, <2>1
    <3> QED BY <2>1, <3>1
  <2>2. CASE j = i + 1
    <3>1. u[j - 1] = v /\ u[j] = t[i + 1]
      BY <1>1, <2>2
    <3> QED BY <2>2, <3>1
  <2>3. CASE j \notin {i, i + 1}
    <3>1. u[j - 1] = t[j - 1] /\ u[j] = t[j]
      BY <1>1, <2>3
    <3>2. q[j] = p[j]
      BY <2>3
    <3> QED BY <3>1, <3>2 DEF Cut
  <2> QED BY <2>1, <2>2, <2>3
<1> QED BY <1>1, <1>2, <1>3 DEF Cut

\* A step that empties a place, or takes its first reading away.
LEMMA Drop ==
  ASSUME NEW t \in Cuts, NEW p, NEW q, NEW last \in Nat, Cut(t, p, last),
         NEW i \in 1..8, Within(q[i], t[i - 1], t[i]), \A j \in 1..8 \ {i} : q[j] = p[j]
  PROVE  \E u \in Cuts : Cut(u, q, last)
<1>1. \A j \in 1..8 : Within(q[j], t[j - 1], t[j])
  BY DEF Cut
<1> QED BY <1>1 DEF Cut

\* A new reading, with nothing behind it.
LEMMA New ==
  ASSUME NEW t \in Cuts, NEW p, NEW q, NEW last \in Nat, Cut(t, p, last),
         NEW i \in 1..8, q[i] = Held(last + 1), \A j \in 1..8 : j < i => q[j] = p[j],
         \A j \in 1..8 : j > i => q[j] = <<>>
  PROVE  \E u \in Cuts : Cut(u, q, last + 1)
<1> DEFINE u == [j \in 0..8 |-> IF j < i THEN t[j] ELSE last + 1]
<1>1. u \in Cuts
  BY DEF Cuts
<1>2. \A j \in 0..8 : t[j] \in Nat /\ t[j] <= last
  BY DEF Cut, Cuts
<1>3. \A j \in 1..8 : Within(p[j], t[j - 1], t[j])
  BY DEF Cut
<1>4. t[i - 1] <= last /\ t[i - 1] \in Nat
  <2>1. i - 1 \in 0..8
    OBVIOUS
  <2> QED BY <1>2, <2>1
<1>5. \A j \in 0..8 : u[j] = IF j < i THEN t[j] ELSE last + 1
  OBVIOUS
<1> HIDE DEF u
<1>l. last + 1 \in Nat /\ last <= last + 1
  OBVIOUS
<1>6. \A j \in 1..8 : Within(q[j], u[j - 1], u[j])
  <2> SUFFICES ASSUME NEW j \in 1..8 PROVE Within(q[j], u[j - 1], u[j])
    OBVIOUS
  <2>1. CASE j < i
    <3>1. u[j - 1] = t[j - 1] /\ u[j] = t[j]
      BY <1>5, <2>1
    <3> QED BY <1>3, <2>1, <3>1
  <2>2. CASE j = i
    <3>1. u[j - 1] = t[i - 1] /\ u[j] = last + 1 /\ t[i - 1] \in Nat
      BY <1>4, <1>5, <2>2
    <3> QED BY <1>4, <2>2, <3>1, WithinHeld
  <2>3. CASE j > i
    <3>1. u[j - 1] = last + 1 /\ u[j] = last + 1
      BY <1>5, <2>3
    <3>2. q[j] = <<>>
      BY <2>3
    <3>3. Within(<<>>, last + 1, last + 1)
      BY <1>l, WithinNothing
    <3> QED BY <3>1, <3>2, <3>3
  <2> QED BY <2>1, <2>2, <2>3
<1>7. \A j \in 0..8 : u[j] <= last + 1
  <2> SUFFICES ASSUME NEW j \in 0..8 PROVE u[j] <= last + 1
    OBVIOUS
  <2>1. CASE j < i
    <3>1. u[j] = t[j] /\ t[j] \in Nat /\ t[j] <= last
      BY <1>2, <1>5, <2>1
    <3> QED BY <1>l, <3>1
  <2>2. CASE ~(j < i)
    <3>1. u[j] = last + 1
      BY <1>5, <2>2
    <3> QED BY <1>l, <3>1
  <2> QED BY <2>1, <2>2
<1> QED BY <1>1, <1>6, <1>7 DEF Cut

-----------------------------------------------------------------------------
(* The invariant: a goroutine holds a reading exactly where it is about to  *)
(* hand it on, only dmesg has lines, and the cuts are there.                *)

OrderAt(s) ==
  kind[s] # "background" =>
    /\ bridge[s] = "publish" <=> relay[s] # 0
    /\ at[s] \in {"send", "report"} <=> hand[s] # 0
    /\ helper[s] = "give" <=> carry[s] # 0
    /\ kind[s] # "stream" => batch[s] = 0 /\ lines[s] = <<>>
    /\ \E t \in Cuts : Cut(t, Places(s), taken[s])

OrderInv == \A s \in Services : OrderAt(s)

\* A step that moves no reading of s.
Calm(s) ==
  /\ kind'[s] = kind[s] /\ shown'[s] = shown[s] /\ inbox'[s] = inbox[s]
  /\ relay'[s] = relay[s] /\ out'[s] = out[s] /\ hand'[s] = hand[s]
  /\ batch'[s] = batch[s] /\ lines'[s] = lines[s] /\ carry'[s] = carry[s]
  /\ taken'[s] = taken[s]
  /\ bridge'[s] = "publish" <=> bridge[s] = "publish"
  /\ at'[s] \in {"send", "report"} <=> at[s] \in {"send", "report"}
  /\ helper'[s] = "give" <=> helper[s] = "give"

LEMMA CalmKeeps ==
  ASSUME NEW s, OrderAt(s), Calm(s) PROVE OrderAt(s)'
<1>1. Places(s)' = Places(s)
  BY DEF Calm, Places
<1> QED BY <1>1 DEF Calm, OrderAt

\* The cuts of s, place by place.
CutAt(t, s) ==
  /\ Cut(t, Places(s), taken[s])
  /\ Within(Held(shown[s]), t[0], t[1]) /\ Within(inbox[s], t[1], t[2])
  /\ Within(Held(relay[s]), t[2], t[3]) /\ Within(out[s], t[3], t[4])
  /\ Within(Held(hand[s]), t[4], t[5]) /\ Within(Held(batch[s]), t[5], t[6])
  /\ Within(lines[s], t[6], t[7]) /\ Within(Held(carry[s]), t[7], t[8])
  /\ /\ t[0] \in Nat /\ t[1] \in Nat /\ t[2] \in Nat /\ t[3] \in Nat /\ t[4] \in Nat
     /\ t[5] \in Nat /\ t[6] \in Nat /\ t[7] \in Nat /\ t[8] \in Nat
  /\ /\ t[0] <= t[1] /\ t[1] <= t[2] /\ t[2] <= t[3] /\ t[3] <= t[4] /\ t[4] <= t[5]
     /\ t[5] <= t[6] /\ t[6] <= t[7] /\ t[7] <= t[8]

LEMMA OrderFacts ==
  ASSUME TypeOK, NEW s \in Services, OrderAt(s), kind[s] # "background"
  PROVE  \E t \in Cuts : CutAt(t, s)
<1>1. PICK t \in Cuts : Cut(t, Places(s), taken[s])
  BY DEF OrderAt
<1> DEFINE p == Places(s)
<1>2. /\ p[1] = Held(shown[s]) /\ p[2] = inbox[s] /\ p[3] = Held(relay[s]) /\ p[4] = out[s]
      /\ p[5] = Held(hand[s]) /\ p[6] = Held(batch[s]) /\ p[7] = lines[s] /\ p[8] = Held(carry[s])
  BY DEF Places
<1> HIDE DEF p
<1>3. \A i \in 1..8 : Within(p[i], t[i - 1], t[i])
  BY <1>1 DEF Cut, p
<1>4. /\ Within(p[1], t[0], t[1]) /\ Within(p[2], t[1], t[2]) /\ Within(p[3], t[2], t[3])
      /\ Within(p[4], t[3], t[4]) /\ Within(p[5], t[4], t[5]) /\ Within(p[6], t[5], t[6])
      /\ Within(p[7], t[6], t[7]) /\ Within(p[8], t[7], t[8])
  <2>1. /\ Within(p[1], t[1 - 1], t[1]) /\ Within(p[2], t[2 - 1], t[2]) /\ Within(p[3], t[3 - 1], t[3])
        /\ Within(p[4], t[4 - 1], t[4]) /\ Within(p[5], t[5 - 1], t[5]) /\ Within(p[6], t[6 - 1], t[6])
        /\ Within(p[7], t[7 - 1], t[7]) /\ Within(p[8], t[8 - 1], t[8])
    BY <1>3
  <2> QED BY <2>1
<1>5. \A i \in 0..8 : t[i] \in Nat
  BY DEF Cuts
<1>6. /\ t[0] <= t[1] /\ t[1] <= t[2] /\ t[2] <= t[3] /\ t[3] <= t[4] /\ t[4] <= t[5]
      /\ t[5] <= t[6] /\ t[6] <= t[7] /\ t[7] <= t[8]
  BY <1>4 DEF Within
<1> QED BY <1>1, <1>2, <1>4, <1>5, <1>6 DEF CutAt

\* A service whose places are cut shows and holds everything in order.
LEMMA CutsOrder ==
  ASSUME TypeOK, NEW s \in Services, OrderAt(s), kind[s] # "background"
  PROVE  Increasing(Line(s))
<1>1. PICK t \in Cuts : CutAt(t, s)
  BY OrderFacts
<1> DEFINE q2 == Held(shown[s]) \o inbox[s]
<1> DEFINE q3 == q2 \o Held(relay[s])
<1> DEFINE q4 == q3 \o out[s]
<1> DEFINE q5 == q4 \o Held(hand[s])
<1> DEFINE q6 == q5 \o Held(batch[s])
<1> DEFINE q7 == q6 \o lines[s]
<1> DEFINE q8 == q7 \o Held(carry[s])
<1>2. Within(q2, t[0], t[2])
  BY <1>1, WithinConcat DEF CutAt
<1> HIDE DEF q2
<1>3. Within(q3, t[0], t[3])
  BY <1>1, <1>2, WithinConcat DEF CutAt
<1> HIDE DEF q3
<1>4. Within(q4, t[0], t[4])
  BY <1>1, <1>3, WithinConcat DEF CutAt
<1> HIDE DEF q4
<1>5. Within(q5, t[0], t[5])
  BY <1>1, <1>4, WithinConcat DEF CutAt
<1> HIDE DEF q5
<1>6. Within(q6, t[0], t[6])
  BY <1>1, <1>5, WithinConcat DEF CutAt
<1> HIDE DEF q6
<1>7. Within(q7, t[0], t[7])
  BY <1>1, <1>6, WithinConcat DEF CutAt
<1> HIDE DEF q7
<1>8. Within(q8, t[0], t[8])
  BY <1>1, <1>7, WithinConcat DEF CutAt
<1>9. Increasing(q8)
  BY <1>8 DEF Within
<1>10. Line(s) = q8
  BY DEF Line, q8, q7, q6, q5, q4, q3, q2
<1> QED BY <1>9, <1>10

-----------------------------------------------------------------------------
(* The steps that hand a reading on.                                        *)

LEMMA PlacesAre ==
  ASSUME NEW s
  PROVE  LET p == Places(s)
             q == Places(s)'
         IN  /\ p[1] = Held(shown[s]) /\ p[2] = inbox[s] /\ p[3] = Held(relay[s])
             /\ p[4] = out[s] /\ p[5] = Held(hand[s]) /\ p[6] = Held(batch[s])
             /\ p[7] = lines[s] /\ p[8] = Held(carry[s])
             /\ q[1] = Held(shown'[s]) /\ q[2] = inbox'[s] /\ q[3] = Held(relay'[s])
             /\ q[4] = out'[s] /\ q[5] = Held(hand'[s]) /\ q[6] = Held(batch'[s])
             /\ q[7] = lines'[s] /\ q[8] = Held(carry'[s])
BY DEF Places

\* The readings are numbers.
LEMMA ReadingsAreNumbers ==
  ASSUME TypeOK, NEW s \in Services
  PROVE  /\ shown[s] \in Nat /\ relay[s] \in Nat /\ hand[s] \in Nat /\ batch[s] \in Nat
         /\ carry[s] \in Nat /\ taken[s] \in Nat
BY DEF TypeOK, Reading

\* A step at places i and i + 1: what is left at the two, and a cut between.
LEMMA ShiftAt ==
  ASSUME TypeOK, NEW s \in Services, NEW t \in Cuts, CutAt(t, s), taken'[s] = taken[s],
         NEW i \in 1..7, NEW v \in Nat,
         Within(Places(s)'[i], t[i - 1], v), Within(Places(s)'[i + 1], v, t[i + 1]),
         \A j \in 1..8 \ {i, i + 1} : Places(s)'[j] = Places(s)[j]
  PROVE  \E u \in Cuts : Cut(u, Places(s)', taken'[s])
<1> DEFINE p == Places(s)
<1> DEFINE q == Places(s)'
<1>1. Cut(t, p, taken[s]) /\ taken[s] \in Nat
  BY ReadingsAreNumbers DEF CutAt
<1>2. /\ Within(q[i], t[i - 1], v) /\ Within(q[i + 1], v, t[i + 1])
      /\ \A j \in 1..8 \ {i, i + 1} : q[j] = p[j]
  OBVIOUS
<1> HIDE DEF p, q
<1>3. \E u \in Cuts : Cut(u, q, taken[s])
  BY <1>1, <1>2, Shift
<1> QED BY <1>3 DEF q

LEMMA DropAt ==
  ASSUME TypeOK, NEW s \in Services, NEW t \in Cuts, CutAt(t, s), taken'[s] = taken[s],
         NEW i \in 1..8, Within(Places(s)'[i], t[i - 1], t[i]),
         \A j \in 1..8 \ {i} : Places(s)'[j] = Places(s)[j]
  PROVE  \E u \in Cuts : Cut(u, Places(s)', taken'[s])
<1> DEFINE p == Places(s)
<1> DEFINE q == Places(s)'
<1>1. Cut(t, p, taken[s]) /\ taken[s] \in Nat
  BY ReadingsAreNumbers DEF CutAt
<1>2. Within(q[i], t[i - 1], t[i]) /\ \A j \in 1..8 \ {i} : q[j] = p[j]
  OBVIOUS
<1> HIDE DEF p, q
<1>3. \E u \in Cuts : Cut(u, q, taken[s])
  BY <1>1, <1>2, Drop
<1> QED BY <1>3 DEF q

LEMMA ShowOrder ==
  ASSUME TypeOK, NEW s \in Services, OrderAt(s), Show(s) PROVE OrderAt(s)'
<1> DEFINE h == Head(inbox[s])
<1>1. /\ inbox[s] # <<>> /\ shown'[s] = h /\ inbox'[s] = Tail(inbox[s])
      /\ kind'[s] = kind[s] /\ relay'[s] = relay[s] /\ out'[s] = out[s] /\ hand'[s] = hand[s]
      /\ batch'[s] = batch[s] /\ lines'[s] = lines[s] /\ carry'[s] = carry[s]
      /\ taken'[s] = taken[s] /\ UNCHANGED <<at, bridge, helper>>
  BY DEF Show, TypeOK, mainVars, ctxVars, collectorVars, helperVars, bridgeVars
<1>2. SUFFICES ASSUME kind[s] # "background"
               PROVE  \E u \in Cuts : Cut(u, Places(s)', taken'[s])
  BY <1>1 DEF OrderAt
<1>3. PICK t \in Cuts : CutAt(t, s)
  BY <1>2, OrderFacts
<1>4. /\ h \in Nat /\ t[1] < h /\ h <= t[2] /\ Within(Tail(inbox[s]), h, t[2])
      /\ t[0] \in Nat /\ t[1] \in Nat /\ t[0] <= t[1]
  BY <1>1, <1>3, WithinTail DEF CutAt
<1> HIDE DEF h
<1>5. Within(Held(h), t[0], h)
  <2>1. t[0] < h /\ t[0] <= h /\ h <= h
    BY <1>4
  <2> QED BY <1>4, <2>1, WithinHeld
<1>6. Within(Places(s)'[1], t[1 - 1], h) /\ Within(Places(s)'[1 + 1], h, t[1 + 1])
  BY <1>1, <1>4, <1>5, PlacesAre
<1>7. \A j \in 1..8 \ {1, 1 + 1} : Places(s)'[j] = Places(s)[j]
  BY <1>1, PlacesAre
<1> QED BY <1>1, <1>3, <1>4, <1>6, <1>7, ShiftAt

LEMMA PublishOrder ==
  ASSUME TypeOK, NEW s \in Services, OrderAt(s), Publish(s) PROVE OrderAt(s)'
<1>1. /\ bridge[s] = "publish" /\ bridge'[s] = "select" /\ relay'[s] = 0 /\ UNCHANGED <<at, helper>>
      /\ inbox'[s] \in {Append(inbox[s], relay[s]), inbox[s]}
      /\ kind'[s] = kind[s] /\ shown'[s] = shown[s] /\ out'[s] = out[s]
      /\ hand'[s] = hand[s] /\ batch'[s] = batch[s] /\ lines'[s] = lines[s]
      /\ carry'[s] = carry[s] /\ taken'[s] = taken[s]
  BY DEF Publish, TypeOK, mainVars, ctxVars, collectorVars, helperVars, bridgeVars, screenVars
<1>2. SUFFICES ASSUME kind[s] # "background"
               PROVE  \E u \in Cuts : Cut(u, Places(s)', taken'[s])
  BY <1>1 DEF OrderAt
<1>3. PICK t \in Cuts : CutAt(t, s)
  BY <1>2, OrderFacts
<1>4. relay[s] \in Nat /\ relay[s] # 0
  BY <1>1, <1>2, ReadingsAreNumbers DEF OrderAt
<1>5. /\ t[2] < relay[s] /\ relay[s] <= t[3] /\ Within(inbox[s], t[1], t[2])
      /\ t[1] \in Nat /\ t[2] \in Nat /\ t[3] \in Nat /\ t[2] <= t[3]
  BY <1>3, <1>4, HeldWithin DEF CutAt
<1>6. Within(Held(0), relay[s], t[3]) /\ Within(Held(0), t[2], t[3])
  BY <1>4, <1>5, WithinHeld
<1>7. CASE inbox'[s] = Append(inbox[s], relay[s])
  <2>1. Within(Append(inbox[s], relay[s]), t[1], relay[s])
    BY <1>4, <1>5, WithinAppend
  <2>2. Within(Places(s)'[2], t[2 - 1], relay[s]) /\ Within(Places(s)'[2 + 1], relay[s], t[2 + 1])
    <3>1. Places(s)'[2] = Append(inbox[s], relay[s]) /\ Places(s)'[3] = Held(0)
      BY <1>1, <1>7, PlacesAre
    <3> QED BY <1>6, <2>1, <3>1
  <2>3. \A j \in 1..8 \ {2, 2 + 1} : Places(s)'[j] = Places(s)[j]
    BY <1>1, PlacesAre
  <2> QED BY <1>1, <1>3, <1>4, <2>2, <2>3, ShiftAt
<1>8. CASE inbox'[s] = inbox[s]
  <2>1. Within(Places(s)'[3], t[3 - 1], t[3])
    BY <1>1, <1>6, PlacesAre
  <2>2. \A j \in 1..8 \ {3} : Places(s)'[j] = Places(s)[j]
    BY <1>1, <1>8, PlacesAre
  <2> QED BY <1>1, <1>3, <2>1, <2>2, DropAt
<1> QED BY <1>1, <1>7, <1>8

LEMMA SendOrder ==
  ASSUME TypeOK, NEW s \in Services, OrderAt(s), Send(s) PROVE OrderAt(s)'
<1>1. /\ at[s] \in {"send", "report"} /\ at'[s] \in {"loop", "await"} /\ hand'[s] = 0
      /\ UNCHANGED <<bridge, helper>> /\ out'[s] \in {Append(out[s], hand[s]), out[s]}
      /\ kind'[s] = kind[s] /\ shown'[s] = shown[s] /\ inbox'[s] = inbox[s]
      /\ relay'[s] = relay[s] /\ batch'[s] = batch[s] /\ lines'[s] = lines[s]
      /\ carry'[s] = carry[s] /\ taken'[s] = taken[s]
  BY DEF Send, TypeOK, mainVars, ctxVars, collectorVars, helperVars, bridgeVars, screenVars
<1>2. SUFFICES ASSUME kind[s] # "background"
               PROVE  \E u \in Cuts : Cut(u, Places(s)', taken'[s])
  BY <1>1 DEF OrderAt
<1>3. PICK t \in Cuts : CutAt(t, s)
  BY <1>2, OrderFacts
<1>4. hand[s] \in Nat /\ hand[s] # 0
  BY <1>1, <1>2, ReadingsAreNumbers DEF OrderAt
<1>5. /\ t[4] < hand[s] /\ hand[s] <= t[5] /\ Within(out[s], t[3], t[4])
      /\ t[3] \in Nat /\ t[4] \in Nat /\ t[5] \in Nat /\ t[4] <= t[5]
  BY <1>3, <1>4, HeldWithin DEF CutAt
<1>6. Within(Held(0), hand[s], t[5]) /\ Within(Held(0), t[4], t[5])
  BY <1>4, <1>5, WithinHeld
<1>7. CASE out'[s] = Append(out[s], hand[s])
  <2>1. Within(Append(out[s], hand[s]), t[3], hand[s])
    BY <1>4, <1>5, WithinAppend
  <2>2. Within(Places(s)'[4], t[4 - 1], hand[s]) /\ Within(Places(s)'[4 + 1], hand[s], t[4 + 1])
    <3>1. Places(s)'[4] = Append(out[s], hand[s]) /\ Places(s)'[5] = Held(0)
      BY <1>1, <1>7, PlacesAre
    <3> QED BY <1>6, <2>1, <3>1
  <2>3. \A j \in 1..8 \ {4, 4 + 1} : Places(s)'[j] = Places(s)[j]
    BY <1>1, PlacesAre
  <2> QED BY <1>1, <1>3, <1>4, <2>2, <2>3, ShiftAt
<1>8. CASE out'[s] = out[s]
  <2>1. Within(Places(s)'[5], t[5 - 1], t[5])
    BY <1>1, <1>6, PlacesAre
  <2>2. \A j \in 1..8 \ {5} : Places(s)'[j] = Places(s)[j]
    BY <1>1, <1>8, PlacesAre
  <2> QED BY <1>1, <1>3, <2>1, <2>2, DropAt
<1> QED BY <1>1, <1>7, <1>8

LEMMA GiveLineOrder ==
  ASSUME TypeOK, NEW s \in Services, OrderAt(s), GiveLine(s) PROVE OrderAt(s)'
<1>1. /\ helper[s] = "give" /\ helper'[s] = "read" /\ carry'[s] = 0 /\ kind[s] = "stream"
      /\ UNCHANGED <<at, bridge>> /\ lines'[s] \in {Append(lines[s], carry[s]), lines[s]}
      /\ kind'[s] = kind[s] /\ shown'[s] = shown[s] /\ inbox'[s] = inbox[s]
      /\ relay'[s] = relay[s] /\ out'[s] = out[s] /\ hand'[s] = hand[s]
      /\ batch'[s] = batch[s] /\ taken'[s] = taken[s]
  BY DEF GiveLine, TypeOK, mainVars, ctxVars, collectorVars, helperVars, bridgeVars, screenVars
<1>2. SUFFICES ASSUME kind[s] # "background"
               PROVE  \E u \in Cuts : Cut(u, Places(s)', taken'[s])
  BY <1>1 DEF OrderAt
<1>3. PICK t \in Cuts : CutAt(t, s)
  BY <1>2, OrderFacts
<1>4. carry[s] \in Nat /\ carry[s] # 0
  BY <1>1, <1>2, ReadingsAreNumbers DEF OrderAt
<1>5. /\ t[7] < carry[s] /\ carry[s] <= t[8] /\ Within(lines[s], t[6], t[7])
      /\ t[6] \in Nat /\ t[7] \in Nat /\ t[8] \in Nat /\ t[7] <= t[8]
  BY <1>3, <1>4, HeldWithin DEF CutAt
<1>6. Within(Held(0), carry[s], t[8]) /\ Within(Held(0), t[7], t[8])
  BY <1>4, <1>5, WithinHeld
<1>7. CASE lines'[s] = Append(lines[s], carry[s])
  <2>1. Within(Append(lines[s], carry[s]), t[6], carry[s])
    BY <1>4, <1>5, WithinAppend
  <2>2. Within(Places(s)'[7], t[7 - 1], carry[s]) /\ Within(Places(s)'[7 + 1], carry[s], t[7 + 1])
    <3>1. Places(s)'[7] = Append(lines[s], carry[s]) /\ Places(s)'[8] = Held(0)
      BY <1>1, <1>7, PlacesAre
    <3> QED BY <1>6, <2>1, <3>1
  <2>3. \A j \in 1..8 \ {7, 7 + 1} : Places(s)'[j] = Places(s)[j]
    BY <1>1, PlacesAre
  <2> QED BY <1>1, <1>3, <1>4, <2>2, <2>3, ShiftAt
<1>8. CASE lines'[s] = lines[s]
  <2>1. Within(Places(s)'[8], t[8 - 1], t[8])
    BY <1>1, <1>6, PlacesAre
  <2>2. \A j \in 1..8 \ {8} : Places(s)'[j] = Places(s)[j]
    BY <1>1, <1>8, PlacesAre
  <2> QED BY <1>1, <1>3, <2>1, <2>2, DropAt
<1> QED BY <1>1, <1>7, <1>8

LEMMA RelayOrder ==
  ASSUME TypeOK, NEW s \in Services, OrderAt(s), Relay(s) PROVE OrderAt(s)'
<1>1. /\ bridge[s] = "select" /\ bridge'[s] = "publish" /\ out[s] # <<>>
      /\ relay'[s] = Head(out[s]) /\ out'[s] = Tail(out[s]) /\ UNCHANGED <<at, helper>>
      /\ kind'[s] = kind[s] /\ shown'[s] = shown[s] /\ inbox'[s] = inbox[s]
      /\ hand'[s] = hand[s] /\ batch'[s] = batch[s] /\ lines'[s] = lines[s]
      /\ carry'[s] = carry[s] /\ taken'[s] = taken[s]
  BY DEF Relay, TypeOK, mainVars, ctxVars, collectorVars, helperVars, bridgeVars, screenVars
<1> DEFINE h == Head(out[s])
<1>2. SUFFICES ASSUME kind[s] # "background"
               PROVE  relay'[s] # 0 /\ \E u \in Cuts : Cut(u, Places(s)', taken'[s])
  BY <1>1 DEF OrderAt
<1>3. PICK t \in Cuts : CutAt(t, s)
  BY <1>2, OrderFacts
<1>4. /\ h \in Nat /\ t[3] < h /\ h <= t[4] /\ Within(Tail(out[s]), h, t[4])
      /\ t[2] \in Nat /\ t[3] \in Nat /\ t[2] <= t[3]
  BY <1>1, <1>3, WithinTail DEF CutAt
<1> HIDE DEF h
<1>5. Within(Held(h), t[2], h)
  <2>1. t[2] < h /\ t[2] <= h /\ h <= h
    BY <1>4
  <2> QED BY <1>4, <2>1, WithinHeld
<1>6. Within(Places(s)'[3], t[3 - 1], h) /\ Within(Places(s)'[3 + 1], h, t[3 + 1])
  BY <1>1, <1>4, <1>5, PlacesAre DEF h
<1>7. \A j \in 1..8 \ {3, 3 + 1} : Places(s)'[j] = Places(s)[j]
  BY <1>1, PlacesAre
<1>8. \E u \in Cuts : Cut(u, Places(s)', taken'[s])
  BY <1>1, <1>3, <1>4, <1>6, <1>7, ShiftAt
<1>9. relay'[s] # 0
  <2>1. h # 0
    BY <1>4
  <2> QED BY <1>1, <2>1 DEF h
<1> QED BY <1>8, <1>9

LEMMA FlushOrder ==
  ASSUME TypeOK, NEW s \in Services, OrderAt(s), Flush(s) PROVE OrderAt(s)'
<1>1. /\ at[s] = "loop" /\ at'[s] = "send" /\ batch[s] # 0
      /\ hand'[s] = batch[s] /\ batch'[s] = 0 /\ UNCHANGED <<bridge, helper>>
      /\ kind'[s] = kind[s] /\ shown'[s] = shown[s] /\ inbox'[s] = inbox[s]
      /\ relay'[s] = relay[s] /\ out'[s] = out[s] /\ lines'[s] = lines[s]
      /\ carry'[s] = carry[s] /\ taken'[s] = taken[s]
  BY DEF Flush, TypeOK, mainVars, ctxVars, collectorVars, helperVars, bridgeVars, screenVars
<1>2. SUFFICES ASSUME kind[s] # "background"
               PROVE  \E u \in Cuts : Cut(u, Places(s)', taken'[s])
  BY <1>1 DEF OrderAt
<1>3. PICK t \in Cuts : CutAt(t, s)
  BY <1>2, OrderFacts
<1>4. /\ batch[s] \in Nat /\ t[5] < batch[s] /\ batch[s] <= t[6]
      /\ t[4] \in Nat /\ t[5] \in Nat /\ t[6] \in Nat /\ t[4] <= t[5]
  BY <1>1, <1>3, HeldWithin, ReadingsAreNumbers DEF CutAt
<1>5. Within(Held(batch[s]), t[4], batch[s]) /\ Within(Held(0), batch[s], t[6])
  <2>1. t[4] < batch[s] /\ t[4] <= batch[s] /\ batch[s] <= batch[s]
    BY <1>4
  <2> QED BY <1>4, <2>1, WithinHeld
<1>6. Within(Places(s)'[5], t[5 - 1], batch[s]) /\ Within(Places(s)'[5 + 1], batch[s], t[5 + 1])
  BY <1>1, <1>5, PlacesAre
<1>7. \A j \in 1..8 \ {5, 5 + 1} : Places(s)'[j] = Places(s)[j]
  BY <1>1, PlacesAre
<1> QED BY <1>1, <1>3, <1>4, <1>6, <1>7, ShiftAt

LEMMA TakeLineOrder ==
  ASSUME TypeOK, NEW s \in Services, OrderAt(s), TakeLine(s) PROVE OrderAt(s)'
<1>1. /\ lines[s] # <<>> /\ lines'[s] = Tail(lines[s]) /\ batch'[s] \in {batch[s], Head(lines[s])}
      /\ UNCHANGED <<at, bridge, helper>>
      /\ kind'[s] = kind[s] /\ shown'[s] = shown[s] /\ inbox'[s] = inbox[s]
      /\ relay'[s] = relay[s] /\ out'[s] = out[s] /\ hand'[s] = hand[s]
      /\ carry'[s] = carry[s] /\ taken'[s] = taken[s]
  BY DEF TakeLine, TypeOK, mainVars, ctxVars, collectorVars, helperVars, bridgeVars, screenVars
<1> DEFINE h == Head(lines[s])
<1>2. SUFFICES ASSUME kind[s] # "background"
               PROVE  \E u \in Cuts : Cut(u, Places(s)', taken'[s])
  BY <1>1 DEF OrderAt
<1>3. PICK t \in Cuts : CutAt(t, s)
  BY <1>2, OrderFacts
<1>4. /\ h \in Nat /\ t[6] < h /\ h <= t[7]
      /\ Within(Tail(lines[s]), h, t[7]) /\ Within(Tail(lines[s]), t[6], t[7])
      /\ t[5] \in Nat /\ t[6] \in Nat /\ t[5] <= t[6]
  BY <1>1, <1>3, WithinTail DEF CutAt
<1>5. CASE batch'[s] = h
  <2> HIDE DEF h
  <2>1. Within(Held(h), t[5], h)
    <3>1. t[5] < h /\ t[5] <= h /\ h <= h
      BY <1>4
    <3> QED BY <1>4, <3>1, WithinHeld
  <2>2. Within(Places(s)'[6], t[6 - 1], h) /\ Within(Places(s)'[6 + 1], h, t[6 + 1])
    BY <1>1, <1>4, <1>5, <2>1, PlacesAre
  <2>3. \A j \in 1..8 \ {6, 6 + 1} : Places(s)'[j] = Places(s)[j]
    BY <1>1, PlacesAre
  <2> QED BY <1>1, <1>3, <1>4, <2>2, <2>3, ShiftAt
<1>6. CASE batch'[s] = batch[s]
  <2>1. Within(Places(s)'[7], t[7 - 1], t[7])
    BY <1>1, <1>4, PlacesAre
  <2>2. \A j \in 1..8 \ {7} : Places(s)'[j] = Places(s)[j]
    BY <1>1, <1>6, PlacesAre
  <2> QED BY <1>1, <1>3, <2>1, <2>2, DropAt
<1> QED BY <1>1, <1>5, <1>6

LEMMA AbandonLineOrder ==
  ASSUME TypeOK, NEW s \in Services, OrderAt(s), AbandonLine(s) PROVE OrderAt(s)'
<1>1. /\ helper'[s] = "over" /\ carry'[s] = 0 /\ UNCHANGED <<at, bridge>>
      /\ kind'[s] = kind[s] /\ shown'[s] = shown[s] /\ inbox'[s] = inbox[s]
      /\ relay'[s] = relay[s] /\ out'[s] = out[s] /\ hand'[s] = hand[s]
      /\ batch'[s] = batch[s] /\ lines'[s] = lines[s] /\ taken'[s] = taken[s]
  BY DEF AbandonLine, TypeOK, mainVars, ctxVars, collectorVars, helperVars, bridgeVars, screenVars
<1>2. SUFFICES ASSUME kind[s] # "background"
               PROVE  \E u \in Cuts : Cut(u, Places(s)', taken'[s])
  BY <1>1 DEF OrderAt
<1>3. PICK t \in Cuts : CutAt(t, s)
  BY <1>2, OrderFacts
<1>4. Within(Held(0), t[7], t[8])
  BY <1>3, WithinHeld DEF CutAt
<1>5. Within(Places(s)'[8], t[8 - 1], t[8])
  BY <1>1, <1>4, PlacesAre
<1>6. \A j \in 1..8 \ {8} : Places(s)'[j] = Places(s)[j]
  BY <1>1, PlacesAre
<1> QED BY <1>1, <1>3, <1>5, <1>6, DropAt

\* A new reading in the hand of a goroutine, with nothing behind it.
LEMMA NewAt ==
  ASSUME TypeOK, NEW s \in Services, NEW t \in Cuts, CutAt(t, s), taken'[s] = taken[s] + 1,
         NEW i \in 1..8, Places(s)'[i] = Held(taken[s] + 1),
         \A j \in 1..8 : j < i => Places(s)'[j] = Places(s)[j],
         \A j \in 1..8 : j > i => Places(s)'[j] = <<>>
  PROVE  \E u \in Cuts : Cut(u, Places(s)', taken'[s])
<1> DEFINE p == Places(s)
<1> DEFINE q == Places(s)'
<1>1. Cut(t, p, taken[s]) /\ taken[s] \in Nat
  BY ReadingsAreNumbers DEF CutAt
<1>2. /\ q[i] = Held(taken[s] + 1)
      /\ \A j \in 1..8 : j < i => q[j] = p[j]
      /\ \A j \in 1..8 : j > i => q[j] = <<>>
  OBVIOUS
<1> HIDE DEF p, q
<1>3. \E u \in Cuts : Cut(u, q, taken[s] + 1)
  BY <1>1, <1>2, New
<1> QED BY <1>3 DEF q

LEMMA ReadOrder ==
  ASSUME TypeOK, NEW s \in Services, OrderAt(s), Read(s) PROVE OrderAt(s)'
<1>1. /\ helper[s] = "read" /\ helper'[s] = "give" /\ taken'[s] = taken[s] + 1
      /\ carry'[s] = taken[s] + 1 /\ UNCHANGED <<at, bridge>>
      /\ kind'[s] = kind[s] /\ shown'[s] = shown[s] /\ inbox'[s] = inbox[s]
      /\ relay'[s] = relay[s] /\ out'[s] = out[s] /\ hand'[s] = hand[s]
      /\ batch'[s] = batch[s] /\ lines'[s] = lines[s]
  BY DEF Read, TypeOK, mainVars, ctxVars, collectorVars, helperVars, bridgeVars, screenVars
<1>2. SUFFICES ASSUME kind[s] # "background"
               PROVE  carry'[s] # 0 /\ \E u \in Cuts : Cut(u, Places(s)', taken'[s])
  BY <1>1 DEF OrderAt
<1>3. PICK t \in Cuts : CutAt(t, s)
  BY <1>2, OrderFacts
<1>4. taken[s] + 1 # 0
  BY ReadingsAreNumbers
<1>5. Places(s)'[8] = Held(taken[s] + 1)
  BY <1>1, PlacesAre
<1>6. \A j \in 1..8 : j < 8 => Places(s)'[j] = Places(s)[j]
  BY <1>1, PlacesAre
<1>7. \A j \in 1..8 : j > 8 => Places(s)'[j] = <<>>
  OBVIOUS
<1>8. \E u \in Cuts : Cut(u, Places(s)', taken'[s])
  BY <1>1, <1>3, <1>5, <1>6, <1>7, NewAt
<1> QED BY <1>1, <1>4, <1>8

LEMMA CollectOrder ==
  ASSUME TypeOK, NEW s \in Services, BudgetAt(s), OrderAt(s), Collect(s) PROVE OrderAt(s)'
<1>1. /\ at[s] = "collect" /\ at'[s] = "send" /\ taken'[s] = taken[s] + 1
      /\ hand'[s] = taken[s] + 1 /\ UNCHANGED <<bridge, helper>>
      /\ kind'[s] = kind[s] /\ shown'[s] = shown[s] /\ inbox'[s] = inbox[s]
      /\ relay'[s] = relay[s] /\ out'[s] = out[s] /\ batch'[s] = batch[s]
      /\ lines'[s] = lines[s] /\ carry'[s] = carry[s]
  BY DEF Collect, TypeOK, mainVars, ctxVars, collectorVars, helperVars, bridgeVars, screenVars
<1>2. SUFFICES ASSUME kind[s] # "background"
               PROVE  hand'[s] # 0 /\ \E u \in Cuts : Cut(u, Places(s)', taken'[s])
  BY <1>1 DEF OrderAt
<1>3. PICK t \in Cuts : CutAt(t, s)
  BY <1>2, OrderFacts
<1>4. taken[s] + 1 # 0
  BY ReadingsAreNumbers
<1>5. Places(s)'[5] = Held(taken[s] + 1)
  BY <1>1, PlacesAre
<1>6. \A j \in 1..8 : j < 5 => Places(s)'[j] = Places(s)[j]
  BY <1>1, PlacesAre
<1>7. batch[s] = 0 /\ lines[s] = <<>> /\ carry[s] = 0
  <2>1. kind[s] # "stream" /\ helper[s] # "give"
    BY <1>1, <1>2 DEF BudgetAt
  <2> QED BY <1>2, <2>1 DEF OrderAt
<1>8. \A j \in 1..8 : j > 5 => Places(s)'[j] = <<>>
  <2>1. Held(0) = <<>>
    BY DEF Held
  <2>2. /\ Places(s)'[6] = <<>> /\ Places(s)'[7] = <<>> /\ Places(s)'[8] = <<>>
    BY <1>1, <1>7, <2>1, PlacesAre
  <2> QED BY <2>2
<1>9. \E u \in Cuts : Cut(u, Places(s)', taken'[s])
  BY <1>1, <1>3, <1>5, <1>6, <1>8, NewAt
<1> QED BY <1>1, <1>4, <1>9

-----------------------------------------------------------------------------
\* Initially there are no readings.
LEMMA OrderInitially == Init => OrderInv
<1> SUFFICES ASSUME Init, NEW s \in Services PROVE OrderAt(s)
  BY DEF OrderInv
<1> DEFINE t == [i \in 0..8 |-> 0]
<1>1. t \in Cuts /\ \A i \in 0..8 : t[i] = 0
  BY DEF Cuts
<1> HIDE DEF t
<1>2. /\ shown[s] = 0 /\ inbox[s] = <<>> /\ relay[s] = 0 /\ out[s] = <<>> /\ hand[s] = 0
      /\ batch[s] = 0 /\ lines[s] = <<>> /\ carry[s] = 0 /\ taken[s] = 0
      /\ bridge[s] = "unborn" /\ at[s] = "unborn" /\ helper[s] = "none"
  BY DEF Init
<1>3. Places(s) = << <<>>, <<>>, <<>>, <<>>, <<>>, <<>>, <<>>, <<>> >>
  BY <1>2 DEF Places, Held
<1>4. \A i \in 1..8 : Places(s)[i] = <<>>
  BY <1>3
<1>5. \A i \in 1..8 : Within(Places(s)[i], t[i - 1], t[i])
  <2> SUFFICES ASSUME NEW i \in 1..8 PROVE Within(Places(s)[i], t[i - 1], t[i])
    OBVIOUS
  <2>1. t[i - 1] = 0 /\ t[i] = 0
    BY <1>1
  <2> QED BY <1>4, <2>1, WithinNothing
<1>6. Cut(t, Places(s), taken[s])
  BY <1>1, <1>2, <1>5 DEF Cut
<1> QED BY <1>1, <1>2, <1>6 DEF OrderAt

LEMMA OrderSteps == Inv /\ OrderInv /\ [Next]_vars => OrderInv'
<1> SUFFICES ASSUME Inv, OrderInv, [Next]_vars, NEW r \in Services PROVE OrderAt(r)'
  BY DEF OrderInv
<1>0. /\ TypeOK /\ BudgetAt(r) /\ OrderAt(r)
      /\ \A s \in Services : at[s] = "unborn" <=> bridge[s] = "unborn"
  BY DEF Inv, SpawnInv, BudgetInv, OrderInv
<1>1. Calm(r) => OrderAt(r)'
  BY <1>0, CalmKeeps
<1>2. ASSUME NEW s \in Services, Show(s) PROVE OrderAt(r)'
  <2>1. CASE s = r
    BY <1>0, <1>2, <2>1, ShowOrder
  <2>2. s # r => Calm(r)
    BY <1>0, <1>2 DEF Show, Calm, TypeOK, mainVars, ctxVars, collectorVars, helperVars, bridgeVars, screenVars
  <2> QED BY <1>1, <2>1, <2>2
<1>3. ASSUME NEW s \in Services, Publish(s) PROVE OrderAt(r)'
  <2>1. CASE s = r
    BY <1>0, <1>3, <2>1, PublishOrder
  <2>2. s # r => Calm(r)
    BY <1>0, <1>3 DEF Publish, Calm, TypeOK, mainVars, ctxVars, collectorVars, helperVars, bridgeVars, screenVars
  <2> QED BY <1>1, <2>1, <2>2
<1>4. ASSUME NEW s \in Services, Send(s) PROVE OrderAt(r)'
  <2>1. CASE s = r
    BY <1>0, <1>4, <2>1, SendOrder
  <2>2. s # r => Calm(r)
    BY <1>0, <1>4 DEF Send, Calm, TypeOK, mainVars, ctxVars, collectorVars, helperVars, bridgeVars, screenVars
  <2> QED BY <1>1, <2>1, <2>2
<1>5. ASSUME NEW s \in Services, GiveLine(s) PROVE OrderAt(r)'
  <2>1. CASE s = r
    BY <1>0, <1>5, <2>1, GiveLineOrder
  <2>2. s # r => Calm(r)
    BY <1>0, <1>5 DEF GiveLine, Calm, TypeOK, mainVars, ctxVars, collectorVars, helperVars, bridgeVars, screenVars
  <2> QED BY <1>1, <2>1, <2>2
<1>6. ASSUME NEW s \in Services, Relay(s) PROVE OrderAt(r)'
  <2>1. CASE s = r
    BY <1>0, <1>6, <2>1, RelayOrder
  <2>2. s # r => Calm(r)
    BY <1>0, <1>6 DEF Relay, Calm, TypeOK, mainVars, ctxVars, collectorVars, helperVars, bridgeVars, screenVars
  <2> QED BY <1>1, <2>1, <2>2
<1>7. ASSUME NEW s \in Services, Flush(s) PROVE OrderAt(r)'
  <2>1. CASE s = r
    BY <1>0, <1>7, <2>1, FlushOrder
  <2>2. s # r => Calm(r)
    BY <1>0, <1>7 DEF Flush, Calm, TypeOK, mainVars, ctxVars, collectorVars, helperVars, bridgeVars, screenVars
  <2> QED BY <1>1, <2>1, <2>2
<1>8. ASSUME NEW s \in Services, TakeLine(s) PROVE OrderAt(r)'
  <2>1. CASE s = r
    BY <1>0, <1>8, <2>1, TakeLineOrder
  <2>2. s # r => Calm(r)
    BY <1>0, <1>8 DEF TakeLine, Calm, TypeOK, mainVars, ctxVars, collectorVars, helperVars, bridgeVars, screenVars
  <2> QED BY <1>1, <2>1, <2>2
<1>9. ASSUME NEW s \in Services, AbandonLine(s) PROVE OrderAt(r)'
  <2>1. CASE s = r
    BY <1>0, <1>9, <2>1, AbandonLineOrder
  <2>2. s # r => Calm(r)
    BY <1>0, <1>9 DEF AbandonLine, Calm, TypeOK, mainVars, ctxVars, collectorVars, helperVars, bridgeVars, screenVars
  <2> QED BY <1>1, <2>1, <2>2
<1>10. ASSUME NEW s \in Services, Read(s) PROVE OrderAt(r)'
  <2>1. CASE s = r
    BY <1>0, <1>10, <2>1, ReadOrder
  <2>2. s # r => Calm(r)
    BY <1>0, <1>10 DEF Read, Calm, TypeOK, mainVars, ctxVars, collectorVars, helperVars, bridgeVars, screenVars
  <2> QED BY <1>1, <2>1, <2>2
<1>11. ASSUME NEW s \in Services, Collect(s) PROVE OrderAt(r)'
  <2>1. CASE s = r
    BY <1>0, <1>11, <2>1, CollectOrder
  <2>2. s # r => Calm(r)
    BY <1>0, <1>11 DEF Collect, Calm, TypeOK, mainVars, ctxVars, collectorVars, helperVars, bridgeVars, screenVars
  <2> QED BY <1>1, <2>1, <2>2
<1>12. ASSUME NEW s \in Services, Spawn(s) PROVE OrderAt(r)'
  <2>1. at[s] = "unborn" /\ bridge[s] = "unborn"
    BY <1>0, <1>12 DEF Spawn
  <2>2. at' = [at EXCEPT ![s] = "born"] /\ bridge' = [bridge EXCEPT ![s] = "select"]
    BY <1>12 DEF Spawn
  <2>3. /\ at'[r] = IF r = s THEN "born" ELSE at[r]
        /\ bridge'[r] = IF r = s THEN "select" ELSE bridge[r]
    BY <1>0, <2>2 DEF TypeOK
  <2>4. /\ bridge'[r] = "publish" <=> bridge[r] = "publish"
        /\ at'[r] \in {"send", "report"} <=> at[r] \in {"send", "report"}
    BY <2>1, <2>3
  <2>5. /\ kind' = kind /\ shown' = shown /\ inbox' = inbox /\ relay' = relay /\ out' = out
        /\ hand' = hand /\ batch' = batch /\ lines' = lines /\ carry' = carry
        /\ taken' = taken /\ helper' = helper
    BY <1>12 DEF Spawn, mainVars, ctxVars, collectorVars, helperVars, bridgeVars, screenVars
  <2>6. Calm(r)
    BY <2>4, <2>5 DEF Calm
  <2> QED BY <1>1, <2>6
<1>13. ASSUME NEW s \in Services, Stop(s) PROVE OrderAt(r)'
  <2>1. Calm(r)
    BY <1>0, <1>13 DEF Stop, Calm, TypeOK, mainVars, ctxVars, collectorVars, helperVars, bridgeVars, screenVars
  <2> QED BY <1>1, <2>1
<1>14. ASSUME NEW s \in Services, SeedOk(s) PROVE OrderAt(r)'
  <2>1. Calm(r)
    BY <1>0, <1>14 DEF SeedOk, Calm, TypeOK, mainVars, ctxVars, collectorVars, helperVars, bridgeVars, screenVars
  <2> QED BY <1>1, <2>1
<1>15. ASSUME NEW s \in Services, SeedFails(s) PROVE OrderAt(r)'
  <2>1. Calm(r)
    BY <1>0, <1>15 DEF SeedFails, Calm, TypeOK, mainVars, ctxVars, collectorVars, helperVars, bridgeVars, screenVars
  <2> QED BY <1>1, <2>1
<1>16. ASSUME NEW s \in Services, Tick(s) PROVE OrderAt(r)'
  <2>1. Calm(r)
    BY <1>0, <1>16 DEF Tick, Calm, TypeOK, mainVars, ctxVars, collectorVars, helperVars, bridgeVars, screenVars
  <2> QED BY <1>1, <2>1
<1>17. ASSUME NEW s \in Services, CollectFails(s) PROVE OrderAt(r)'
  <2>1. Calm(r)
    BY <1>0, <1>17 DEF CollectFails, Calm, TypeOK, mainVars, ctxVars, collectorVars, helperVars, bridgeVars, screenVars
  <2> QED BY <1>1, <2>1
<1>18. ASSUME NEW s \in Services, CollectPanics(s) PROVE OrderAt(r)'
  <2>1. Calm(r)
    BY <1>0, <1>18 DEF CollectPanics, Calm, TypeOK, mainVars, ctxVars, collectorVars, helperVars, bridgeVars, screenVars
  <2> QED BY <1>1, <2>1
<1>19. ASSUME NEW s \in Services, LinesEnd(s) PROVE OrderAt(r)'
  <2>1. Calm(r)
    BY <1>0, <1>19 DEF LinesEnd, Calm, TypeOK, mainVars, ctxVars, collectorVars, helperVars, bridgeVars, screenVars
  <2> QED BY <1>1, <2>1
<1>20. ASSUME NEW s \in Services, Return(s) PROVE OrderAt(r)'
  <2>1. Calm(r)
    BY <1>0, <1>20 DEF Return, Calm, TypeOK, mainVars, ctxVars, collectorVars, helperVars, bridgeVars, screenVars
  <2> QED BY <1>1, <2>1
<1>21. ASSUME NEW s \in Services, EndOfLines(s) PROVE OrderAt(r)'
  <2>1. Calm(r)
    BY <1>0, <1>21 DEF EndOfLines, Calm, TypeOK, mainVars, ctxVars, collectorVars, helperVars, bridgeVars, screenVars
  <2> QED BY <1>1, <2>1
<1>22. ASSUME NEW s \in Services, BridgeReturn(s) PROVE OrderAt(r)'
  <2>1. Calm(r)
    BY <1>0, <1>22 DEF BridgeReturn, Calm, TypeOK, mainVars, ctxVars, collectorVars, helperVars, bridgeVars, screenVars
  <2> QED BY <1>1, <2>1
<1>23. ASSUME NEW s \in Services, Begin(s) PROVE OrderAt(r)'
  <2>a. /\ kind' = kind /\ shown' = shown /\ inbox' = inbox /\ relay' = relay /\ out' = out
        /\ batch' = batch /\ lines' = lines /\ carry' = carry /\ bridge' = bridge
    BY <1>23 DEF Begin, mainVars, ctxVars, collectorVars, helperVars, bridgeVars, screenVars
  <2>b. s = r => at[r] = "born" /\ helper[r] = "none"
    BY <1>0, <1>23 DEF Begin, BudgetAt
  <2>c. ASSUME kind[r] # "background"
        PROVE  /\ hand'[r] = hand[r] /\ taken'[r] = taken[r]
               /\ at'[r] = at[r] \/ (s = r /\ at'[r] \in {"loop", "collect", "seed", "await"})
               /\ helper'[r] = helper[r] \/ (s = r /\ helper'[r] = "read")
    BY <1>0, <1>23, <2>c DEF Begin, TypeOK
  <2>1. ASSUME kind[r] # "background" PROVE Calm(r)
    BY <2>a, <2>b, <2>c, <2>1 DEF Calm
  <2>2. kind' = kind
    BY <1>23 DEF Begin, mainVars, ctxVars, collectorVars, helperVars, bridgeVars, screenVars
  <2> QED BY <1>1, <2>1, <2>2 DEF OrderAt
<1>24. ASSUME NEW s \in Services, Give(s) PROVE OrderAt(r)'
  <2>1. kind[r] # "background" => Calm(r)
    BY <1>0, <1>24 DEF Give, Calm, TypeOK, mainVars, ctxVars, collectorVars, helperVars, bridgeVars, screenVars
  <2>2. kind' = kind
    BY <1>24 DEF Give, mainVars, ctxVars, collectorVars, helperVars, bridgeVars, screenVars
  <2> QED BY <1>1, <2>1, <2>2 DEF OrderAt
<1>25. CASE Subscribe \/ Quit \/ Cancel \/ Wait \/ CloseBus \/ UNCHANGED vars
  <2>1. Calm(r)
    BY <1>25 DEF Subscribe, Quit, Cancel, Wait, CloseBus, vars, Calm, mainVars, ctxVars, collectorVars, helperVars, bridgeVars, screenVars
  <2> QED BY <1>1, <2>1
<1> QED BY <1>2, <1>3, <1>4, <1>5, <1>6, <1>7, <1>8, <1>9, <1>10, <1>11, <1>12, <1>13, <1>14, <1>15, <1>16, <1>17, <1>18, <1>19, <1>20, <1>21, <1>22, <1>23, <1>24, <1>25
        DEF Next, Main, Collector, Helper, Bridge

\* The invariant holds of the specification.
LEMMA OrderInvariant == Spec => []OrderInv
<1>1. Init => OrderInv
  BY OrderInitially
<1>2. Inv /\ OrderInv /\ [Next]_vars => OrderInv'
  BY OrderSteps
<1> QED BY <1>1, <1>2, LifecycleInvariant, PTL DEF Spec

\* Between its readings and the screen nothing overtakes: a screen never goes
\* back to an older reading of a service nor shows one twice, for every service
\* whose Start is the only sender on its channel (every one but docker).
THEOREM ReadingsInOrder == Spec => []InOrder
<1>1. Inv /\ OrderInv => InOrder
  <2> SUFFICES ASSUME TypeOK, OrderInv, NEW s \in Services, kind[s] # "background"
               PROVE  Increasing(Line(s))
    BY DEF Inv, InOrder
  <2>1. OrderAt(s)
    BY DEF OrderInv
  <2> QED BY <2>1, CutsOrder
<1> QED BY <1>1, LifecycleInvariant, OrderInvariant, PTL
=============================================================================
