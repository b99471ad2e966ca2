---------------------------- MODULE AlertsProofs -----------------------------
(***************************************************************************)
(* The alert monitor for any metrics, parts, configurations and channels,  *)
(* and that it implements AlertBoard.                                      *)
(*                                                                         *)
(* RecentHistory and ActiveExplained are inductive with the types, but for *)
(* one thing: where the history is cut, an alert is pushed out by newer    *)
(* ones only because the numbers of the history fall by one from the       *)
(* number of the alerts raised, and because no bound is 0.                 *)
(***************************************************************************)
EXTENDS Alerts, ListsProofs

\* No key has two alerts.
OnePerKey == \A a, b \in active : a.key = b.key => a = b

AlertsInv ==
  /\ TypeOK /\ DOMAIN sub = Metrics
  /\ RecentHistory
  /\ ActiveExplained

Levels == {"none", "warning", "critical"}
Call == [key : Keys, level : Levels]
-----------------------------------------------------------------------------
(* Sequences.                                                              *)

\* A function on the first n numbers is a sequence.
LEMMA FunctionIsSeq ==
  ASSUME NEW S, NEW n \in Nat, NEW f \in [1..n -> S]
  PROVE  f \in Seq(S) /\ Len(f) = n /\ DOMAIN f = 1..n
OBVIOUS

\* An element is put before a sequence.
LEMMA ConsFacts ==
  ASSUME NEW S, NEW x \in S, NEW h \in Seq(S)
  PROVE  /\ <<x>> \o h \in Seq(S) /\ Len(<<x>> \o h) = Len(h) + 1
         /\ (<<x>> \o h)[1] = x
         /\ \A i \in 1..Len(h) : (<<x>> \o h)[i + 1] = h[i]
OBVIOUS

\* A bound is positive, and one of those the configurations ask for.
LEMMA BoundFacts ==
  ASSUME cfg \in Configs PROVE MaxHistory \in Nat \ {0} /\ MaxHistory \in Bounds
BY AlertsAssumption DEF MaxHistory, Bounds

\* Trimming keeps a beginning, of as many alerts as the bound at most.
LEMMA TrimmedFacts ==
  ASSUME NEW S, NEW h \in Seq(S), MaxHistory \in Nat \ {0}
  PROVE  /\ Trimmed(h) \in Seq(S)
         /\ Len(Trimmed(h)) = IF Len(h) > MaxHistory THEN MaxHistory ELSE Len(h)
         /\ \A i \in 1..Len(Trimmed(h)) : Trimmed(h)[i] = h[i]
<1> DEFINE n == MaxHistory
<1>1. n \in Nat \ {0} /\ Trimmed(h) = IF Len(h) > n THEN SubSeq(h, 1, n) ELSE h
  BY DEF Trimmed
<1> HIDE DEF n
<1>2. CASE Len(h) > n
  <2>1. n \in 1..Len(h) /\ Len(h) \in Nat
    BY <1>1, <1>2, LenProperties
  <2>2. /\ SubSeq(h, 1, n) \in Seq(S) /\ Len(SubSeq(h, 1, n)) = n
        /\ \A i \in 1..n : SubSeq(h, 1, n)[i] = h[i]
    BY <1>1, <2>1, SubSeqProperties
  <2> QED BY <1>1, <1>2, <2>2 DEF n
<1>3. CASE ~(Len(h) > n)
  BY <1>1, <1>3, LenProperties DEF n
<1> QED BY <1>2, <1>3

\* There is a last one among the positions of a sequence.
LEMMA LastPosition ==
  ASSUME NEW n \in Nat, NEW P \in SUBSET (1..n), P # {}
  PROVE  /\ Max(P) \in P /\ \A i \in P : i <= Max(P)
         /\ \E i \in P : \A j \in P : j <= i
<1> DEFINE Q == {n - i : i \in P}
<1>0. \A i \in P : i \in 1..n /\ n - i \in Nat
  OBVIOUS
<1>1. Q \in SUBSET Nat /\ Q # {}
  BY <1>0
<1>2. PICK q \in Q : \A r \in Q : <<r, q>> \notin OpToRel(<, Nat)
  BY <1>1, WFMin, NatLessThanWellFounded, Zenon
<1>3. \A r \in Q : ~(r < q)
  BY <1>1, <1>2, Zenon DEF OpToRel
<1>4. PICK i \in P : q = n - i
  BY <1>2
<1>5. \A j \in P : j <= i
  <2> SUFFICES ASSUME NEW j \in P PROVE j <= i
    OBVIOUS
  <2>1. ~(n - j < q)
    BY <1>3
  <2> QED BY <1>0, <1>4, <2>1
<1>6. \A j \in P : i >= j
  BY <1>5
<1>7. Max(P) \in P /\ \A j \in P : Max(P) >= j
  BY <1>6, Zenon DEF Max
<1> QED BY <1>5, <1>7
-----------------------------------------------------------------------------
(* What a check has to call.                                               *)

\* The calls of a check are typed, and go through the snapshot and through the
\* rules for the CPU in order, leaving none out.
LEMMA CallsFacts ==
  ASSUME cfg \in Configs, NEW m \in Metrics, NEW snap \in Snapshots[m]
  PROVE  /\ Calls(m, snap) \in Seq(Call) /\ Len(Calls(m, snap)) = Len(snap)
         /\ \A i \in 1..Len(snap) : /\ Calls(m, snap)[i].key = <<m, snap[i][1]>>
                                    /\ Calls(m, snap)[i].level = Verdict(cfg, m, snap[i][2])
<1>1. snap \in Seq(Parts \X Int)
  BY AlertsAssumption
<1>2. Len(snap) \in Nat /\ DOMAIN snap = 1..Len(snap)
  BY <1>1, LenProperties
<1>3. \A i \in 1..Len(snap) : snap[i] \in Parts \X Int
  BY <1>1, ElementOfSeq
<1>4. \A i \in 1..Len(snap) : <<m, snap[i][1]>> \in Keys
  BY <1>3 DEF Keys
<1>5. \A i \in 1..Len(snap) : Verdict(cfg, m, snap[i][2]) \in Levels
  BY DEF Verdict, Levels
<1>6. Calls(m, snap) \in [1..Len(snap) -> Call]
  BY <1>2, <1>4, <1>5 DEF Calls, Call
<1>7. Calls(m, snap) \in Seq(Call)
  BY <1>2, <1>6, FunctionIsSeq
<1>8. Len(Calls(m, snap)) = Len(snap)
  BY <1>2, <1>6, FunctionIsSeq
<1> QED BY <1>2, <1>7, <1>8 DEF Calls

CpuRules == {i \in DOMAIN cfg.rules : cfg.rules[i].metric = "cpu"}

CallsFollowRules(m, snap, calls) ==
  /\ m # "cpu" => calls = <<>>
  /\ m = "cpu" =>
       /\ Len(calls) \in Nat
       /\ Ascending(CpuRules) \in [1..Len(calls) -> CpuRules]
       /\ \A i, j \in 1..Len(calls) : i < j => Ascending(CpuRules)[i] < Ascending(CpuRules)[j]
       /\ \A r \in CpuRules : \E i \in 1..Len(calls) : Ascending(CpuRules)[i] = r
       /\ \A i \in 1..Len(calls) :
            LET r == cfg.rules[Ascending(CpuRules)[i]]
            IN  /\ calls[i].key = <<"rule", r.label>>
                /\ calls[i].level = IF EvaluateCustomRule(r, snap[1][2]) THEN r.severity ELSE "none"

LEMMA RuleCallsFacts ==
  ASSUME cfg \in Configs, NEW m \in Metrics, NEW snap
  PROVE  RuleCalls(m, snap) \in Seq(Call) /\ CallsFollowRules(m, snap, RuleCalls(m, snap))
<1> DEFINE rules == CpuRules
<1> DEFINE calls == RuleCalls(m, snap)
<1> DEFINE at == Ascending(CpuRules)
<1>1. CASE m # "cpu"
  <2>1. calls = <<>>
    BY <1>1 DEF RuleCalls
  <2>2. <<>> \in Seq(Call)
    OBVIOUS
  <2> QED BY <1>1, <2>1, <2>2 DEF CallsFollowRules
<1>2. CASE m = "cpu"
  <2>1. cfg.rules \in Seq(RuleType)
    BY AlertsAssumption
  <2>2. Len(cfg.rules) \in Nat /\ DOMAIN cfg.rules = 1..Len(cfg.rules)
    BY <2>1, LenProperties
  <2>3. rules \in SUBSET (1..Len(cfg.rules))
    BY <2>2 DEF CpuRules
  <2> DEFINE c == Cardinality(rules)
  <2>4. /\ c \in Nat
        /\ at \in [1..c -> rules]
        /\ \A i, j \in 1..c : i < j => at[i] < at[j]
        /\ \A r \in rules : \E i \in 1..c : at[i] = r
    <3>1. IsFiniteSet(1..Len(cfg.rules)) /\ rules \in SUBSET Nat
      BY <2>2, <2>3, FS_Interval
    <3>2. IsFiniteSet(rules)
      BY <2>3, <3>1, FS_Subset
    <3> QED BY <3>1, <3>2, AscendingExists
  <2> DEFINE call(r) == [key |-> <<"rule", cfg.rules[r].label>>,
                         level |-> IF EvaluateCustomRule(cfg.rules[r], snap[1][2])
                                     THEN cfg.rules[r].severity ELSE "none"]
  <2>5. calls = [n \in DOMAIN at |-> call(at[n])]
    BY <1>2 DEF RuleCalls, CpuRules
  <2>6. \A r \in rules : call(r) \in Call
    <3> SUFFICES ASSUME NEW r \in rules PROVE call(r) \in Call
      OBVIOUS
    <3>1. cfg.rules[r] \in RuleType
      BY <2>1, <2>2, ElementOfSeq DEF CpuRules
    <3>2. cfg.rules[r].label \in Labels /\ cfg.rules[r].severity \in Levels
      BY <3>1 DEF RuleType, Levels
    <3>3. <<"rule", cfg.rules[r].label>> \in Keys
      BY <3>2 DEF Keys
    <3> QED BY <3>2, <3>3 DEF Call, Levels
  <2>7. /\ \A r : call(r).key = <<"rule", cfg.rules[r].label>>
        /\ \A r : call(r).level = IF EvaluateCustomRule(cfg.rules[r], snap[1][2])
                                    THEN cfg.rules[r].severity ELSE "none"
    OBVIOUS
  <2> HIDE DEF rules, at, calls, call, c
  <2>8. calls \in [1..c -> Call] /\ \A n \in 1..c : calls[n] = call(at[n])
    BY <2>4, <2>5, <2>6
  <2>9. calls \in Seq(Call) /\ Len(calls) = c
    BY <2>4, <2>8, FunctionIsSeq
  <2> QED BY <1>2, <2>4, <2>7, <2>8, <2>9 DEF CallsFollowRules, rules, at, calls
<1> QED BY <1>1, <1>2
-----------------------------------------------------------------------------
(* The invariant.                                                          *)

Snap == [active : SUBSET Alert, history : Seq(Alert)]

\* A snapshot shows alerts that its history explains, one for a key.
Whole(snap) ==
  /\ Explained(snap.active, snap.history)
  /\ \A a, b \in snap.active : a.key = b.key => a = b

LEMMA WholeSnapshots ==
  ActiveExplained <=> /\ Explained(active, history) /\ OnePerKey
                      /\ \A i \in DOMAIN out : Whole(out[i])
<1> DEFINE now == [active |-> active, history |-> history]
<1>1. now.active = active /\ now.history = history
  OBVIOUS
<1>2. Whole(now) <=> Explained(active, history) /\ OnePerKey
  <2> HIDE DEF now
  <2> QED BY <1>1 DEF Whole, OnePerKey
<1>3. ActiveExplained <=> \A snap \in {now} \cup {out[i] : i \in DOMAIN out} : Whole(snap)
  BY DEF ActiveExplained, Whole
<1> HIDE DEF now
<1> QED BY <1>2, <1>3

\* Alerts stay alerts while more are raised.
LEMMA AlertsGrow ==
  ASSUME raised \in Nat, raised' \in Nat, raised <= raised'
  PROVE  /\ Alert \subseteq Alert' /\ Seq(Alert) \subseteq Seq(Alert')
         /\ Snap \subseteq Snap' /\ Seq(Snap) \subseteq Seq(Snap')
<1>1. Alert \subseteq Alert'
  BY DEF Alert
<1>2. Seq(Alert) \subseteq Seq(Alert')
  <2> HIDE DEF Alert
  <2> QED BY <1>1, SeqMonotonic
<1>3. Snap \subseteq Snap'
  BY <1>1, <1>2 DEF Snap
<1>4. Seq(Snap) \subseteq Seq(Snap')
  BY <1>3, SeqMonotonic
<1> QED BY <1>1, <1>2, <1>3, <1>4

\* Publishing adds one snapshot at most, and none over the capacity.
LEMMA PublishedFacts ==
  ASSUME NEW S, out \in Seq(S), Len(out) <= OutCap, NEW acts, NEW hist,
         [active |-> acts, history |-> hist] \in S
  PROVE  /\ Published(acts, hist) \in Seq(S) /\ Len(Published(acts, hist)) <= OutCap
         /\ \A i \in DOMAIN Published(acts, hist) :
              \/ i \in DOMAIN out /\ Published(acts, hist)[i] = out[i]
              \/ Published(acts, hist)[i] = [active |-> acts, history |-> hist]
<1> DEFINE snap == [active |-> acts, history |-> hist]
<1>1. Published(acts, hist) = IF Len(out) < OutCap THEN Append(out, snap) ELSE out
  BY DEF Published
<1>2. OutCap \in Nat /\ Len(out) \in Nat
  BY AlertsAssumption, LenProperties
<1> HIDE DEF snap
<1>3. snap \in S
  BY DEF snap
<1>4. /\ Append(out, snap) \in Seq(S) /\ Len(Append(out, snap)) = Len(out) + 1
      /\ \A i \in DOMAIN Append(out, snap) :
           (i \in DOMAIN out /\ Append(out, snap)[i] = out[i]) \/ Append(out, snap)[i] = snap
  BY <1>3, AppendProperties
<1> QED BY <1>1, <1>2, <1>4 DEF snap

LEMMA AlertsInitially == Init => AlertsInv
<1> SUFFICES ASSUME Init PROVE AlertsInv
  OBVIOUS
<1>1. \A S : <<>> \in Seq(S) /\ Len(<<>>) = 0
  BY EmptySeq
<1>2. TypeOK
  BY <1>1, AlertsAssumption DEF Init, TypeOK
<1>3. RecentHistory
  BY <1>1 DEF Init, RecentHistory
<1>4. ActiveExplained
  BY WholeSnapshots DEF Init, Explained, OnePerKey
<1> QED BY <1>2, <1>3, <1>4 DEF Init, AlertsInv

\* The new history: the alert comes first, the others follow as they were.
LEMMA NewHistory ==
  ASSUME AlertsInv, SetAlert
  PROVE  LET new == NewAlert
         IN  /\ new \in Alert' /\ new.number = raised + 1 /\ new.level # "none"
             /\ new.key = Head(work).key /\ new.level = Head(work).level
             /\ history' \in Seq(Alert') /\ Len(history') \in Nat \ {0}
             /\ Len(history') = IF Len(history) + 1 > MaxHistory THEN MaxHistory
                                ELSE Len(history) + 1
             /\ Len(history) \in Nat
             /\ history'[1] = new
             /\ \A i \in 2..Len(history') : history'[i] = history[i - 1] /\ i - 1 \in 1..Len(history)
<1> DEFINE new == NewAlert
<1> DEFINE h == <<new>> \o history
<1>1. /\ work \in Seq(Call) /\ work # <<>> /\ Head(work).level # "none"
      /\ raised \in Nat /\ raised' = raised + 1 /\ history \in Seq(Alert)
      /\ history' = Trimmed(h) /\ cfg \in Configs
  BY DEF AlertsInv, TypeOK, SetAlert, Call, Levels
<1>2. Head(work) \in Call
  BY <1>1
<1>3. /\ new \in Alert' /\ new.number = raised + 1 /\ new.level # "none"
      /\ new.key = Head(work).key /\ new.level = Head(work).level
  BY <1>1, <1>2 DEF NewAlert, Alert, Call, Levels
<1>4. history \in Seq(Alert')
  BY <1>1, AlertsGrow
<1>5. MaxHistory \in Nat \ {0}
  BY <1>1, BoundFacts
<1> HIDE DEF new
<1>6. /\ h \in Seq(Alert') /\ Len(h) = Len(history) + 1 /\ h[1] = new /\ Len(history) \in Nat
      /\ \A i \in 1..Len(history) : h[i + 1] = history[i]
  BY <1>3, <1>4, ConsFacts, LenProperties
<1> HIDE DEF h
<1>7. /\ history' \in Seq(Alert')
      /\ Len(history') = IF Len(h) > MaxHistory THEN MaxHistory ELSE Len(h)
      /\ \A i \in 1..Len(history') : history'[i] = h[i]
  BY <1>1, <1>5, <1>6, TrimmedFacts
<1>8. /\ Len(history') \in Nat \ {0} /\ Len(history') <= Len(history) + 1
      /\ Len(history') = IF Len(history) + 1 > MaxHistory THEN MaxHistory ELSE Len(history) + 1
  BY <1>5, <1>6, <1>7
<1>9. \A i \in 2..Len(history') : history'[i] = history[i - 1] /\ i - 1 \in 1..Len(history)
  <2> SUFFICES ASSUME NEW i \in 2..Len(history')
               PROVE  history'[i] = history[i - 1] /\ i - 1 \in 1..Len(history)
    OBVIOUS
  <2>1. i - 1 \in 1..Len(history) /\ (i - 1) + 1 = i /\ i \in 1..Len(history')
    BY <1>6, <1>8
  <2> QED BY <1>6, <1>7, <2>1
<1> QED BY <1>3, <1>6, <1>7, <1>8, <1>9 DEF new

LEMMA HistoryStep == AlertsInv /\ SetAlert => RecentHistory'
<1> SUFFICES ASSUME AlertsInv, SetAlert PROVE RecentHistory'
  OBVIOUS
<1> DEFINE n == Len(history)
<1> DEFINE k == Len(history')
<1> DEFINE b == MaxHistory
<1>1. /\ history'[1].number = raised + 1
      /\ k = (IF n + 1 > b THEN b ELSE n + 1) /\ k \in Nat \ {0} /\ n \in Nat
      /\ \A i \in 2..k : history'[i] = history[i - 1] /\ i - 1 \in 1..n
      /\ DOMAIN history' = 1..k
  <2>1. history' \in Seq(Alert')
    BY NewHistory
  <2>2. DOMAIN history' = 1..k
    BY <2>1, LenProperties
  <2> QED BY <2>2, NewHistory
<1>2. /\ raised \in Nat /\ raised' = raised + 1 /\ cfg' = cfg
      /\ DOMAIN history = 1..n
      /\ \A i \in 1..n : history[i].number = raised - i + 1
  <2>1. history \in Seq(Alert)
    BY DEF AlertsInv, TypeOK
  <2>2. DOMAIN history = 1..n
    BY <2>1, LenProperties
  <2> QED BY <2>2 DEF AlertsInv, TypeOK, RecentHistory, SetAlert, inVars
<1>3. b \in Bounds /\ b \in Nat \ {0}
  BY BoundFacts DEF AlertsInv, TypeOK
<1>4. \A c \in Bounds : c \in Int
  BY AlertsAssumption DEF Bounds
<1>5. n = raised \/ \E c \in Bounds : n >= c
  BY DEF AlertsInv, RecentHistory
<1> HIDE DEF n, k, b
<1>6. \A i \in 1..k : history'[i].number = raised' - i + 1
  <2> SUFFICES ASSUME NEW i \in 1..k PROVE history'[i].number = raised' - i + 1
    OBVIOUS
  <2>1. CASE i = 1
    BY <1>1, <1>2, <2>1
  <2>2. CASE i # 1
    <3>1. i \in 2..k /\ i \in Nat
      BY <1>1, <2>2
    <3>2. history'[i].number = raised - (i - 1) + 1
      BY <1>1, <1>2, <3>1
    <3> QED BY <1>2, <3>1, <3>2
  <2> QED BY <2>1, <2>2
<1>7. k <= b
  BY <1>1, <1>3
<1>8. k = raised' \/ \E c \in Bounds : k >= c
  <2>1. CASE n + 1 > b
    BY <1>1, <1>3, <2>1
  <2>2. CASE ~(n + 1 > b)
    <3>1. k = n + 1
      BY <1>1, <2>2
    <3> QED BY <1>1, <1>2, <1>4, <1>5, <3>1
  <2> QED BY <2>1, <2>2
<1> QED BY <1>1, <1>3, <1>6, <1>7, <1>8 DEF RecentHistory, Bounds, k

\* An alert is explained as before, or has just been pushed out.
LEMMA ExplainedStep == AlertsInv /\ SetAlert => Explained(active', history') /\ OnePerKey'
<1> SUFFICES ASSUME AlertsInv, SetAlert PROVE Explained(active', history') /\ OnePerKey'
  OBVIOUS
<1> DEFINE n == Len(history)
<1> DEFINE k == Len(history')
<1>1. /\ NewAlert.key = Head(work).key /\ NewAlert.number = raised + 1
      /\ k \in Nat \ {0} /\ n \in Nat
      /\ history'[1] = NewAlert
      /\ \A i \in 2..k : history'[i] = history[i - 1] /\ i - 1 \in 1..n
      /\ DOMAIN history' = 1..k
  <2>1. history' \in Seq(Alert')
    BY NewHistory
  <2>2. DOMAIN history' = 1..k
    BY <2>1, LenProperties
  <2> QED BY <2>2, NewHistory
<1>2. /\ active' = {a \in active : a.key # Head(work).key} \cup {NewAlert}
      /\ raised \in Nat /\ raised' = raised + 1
      /\ \A a \in active : a.number \in 1..raised
      /\ DOMAIN history = 1..n
      /\ \A i \in 1..n : history[i].number = raised - i + 1
  <2>1. history \in Seq(Alert)
    BY DEF AlertsInv, TypeOK
  <2>2. DOMAIN history = 1..n
    BY <2>1, LenProperties
  <2>3. active \subseteq Alert
    BY DEF AlertsInv, TypeOK
  <2>4. \A a \in active : a.number \in 1..raised
    BY <2>3 DEF Alert
  <2> QED BY <2>2, <2>4 DEF AlertsInv, TypeOK, RecentHistory, SetAlert, WithAlert
<1>3. Explained(active, history) /\ OnePerKey
  BY WholeSnapshots DEF AlertsInv
<1>4. OnePerKey'
  BY <1>1, <1>2, <1>3 DEF OnePerKey
<1> HIDE DEF n, k
<1>5. ASSUME NEW a \in active'
      PROVE  \/ \E i \in 1..k : history'[i] = a
             \/ \A i \in 1..k : history'[i].number > a.number
  <2>1. CASE a = NewAlert
    <3>1. 1 \in 1..k
      BY <1>1
    <3> QED BY <1>1, <2>1, <3>1
  <2>2. CASE a # NewAlert
    <3>1. a \in active /\ a.number \in 1..raised
      BY <1>2, <2>2
    <3>2. CASE \E i \in 1..n : history[i] = a
      <4>1. PICK i \in 1..n : history[i] = a
        BY <3>2
      <4>2. i \in Nat /\ i # 0 /\ a.number = raised - i + 1
        BY <1>1, <1>2, <4>1
      <4>3. CASE i + 1 <= k
        <5>1. i + 1 \in 2..k /\ (i + 1) - 1 = i /\ i + 1 \in 1..k
          BY <1>1, <4>2, <4>3
        <5>2. history'[i + 1] = history[(i + 1) - 1]
          BY <1>1, <5>1
        <5> QED BY <4>1, <5>1, <5>2
      <4>4. CASE ~(i + 1 <= k)
        <5> SUFFICES ASSUME NEW j \in 1..k PROVE history'[j].number > a.number
          OBVIOUS
        <5>1. j \in Nat /\ j <= i /\ raised \in Nat
          BY <1>1, <1>2, <4>2, <4>4
        <5>2. history'[j].number = raised' - j + 1
          <6>1. RecentHistory'
            BY HistoryStep
          <6> QED BY <1>1, <6>1 DEF RecentHistory
        <5> QED BY <1>2, <4>2, <5>1, <5>2
      <4> QED BY <4>3, <4>4
    <3>3. CASE \A i \in 1..n : history[i].number > a.number
      <4> SUFFICES ASSUME NEW j \in 1..k PROVE history'[j].number > a.number
        OBVIOUS
      <4>1. CASE j = 1
        <5>1. history'[j].number = raised + 1
          BY <1>1, <4>1
        <5> QED BY <1>2, <3>1, <5>1
      <4>2. CASE j # 1
        <5>1. j \in 2..k
          BY <1>1, <4>2
        <5> QED BY <1>1, <3>3, <5>1
      <4> QED BY <4>1, <4>2
    <3> QED BY <1>2, <1>3, <3>1, <3>2, <3>3 DEF Explained
  <2> QED BY <2>1, <2>2
<1>6. history' # <<>>
  BY <1>1 DEF k
<1> QED BY <1>1, <1>4, <1>5, <1>6 DEF Explained
\* Publishing what is whole leaves all that is published whole.
LEMMA PublishStep ==
  ASSUME AlertsInv, raised' \in Nat, raised <= raised',
         active' \subseteq Alert', history' \in Seq(Alert'),
         Explained(active', history') /\ OnePerKey',
         out' \in {out, Published(active', history')}
  PROVE  /\ out' \in Seq(Snap') /\ Len(out') <= OutCap
         /\ ActiveExplained'
<1> DEFINE snap == [active |-> active', history |-> history']
<1>1. out \in Seq(Snap') /\ Len(out) <= OutCap /\ \A i \in DOMAIN out : Whole(out[i])
  BY AlertsGrow, WholeSnapshots DEF AlertsInv, TypeOK, Snap
<1>2. snap \in Snap' /\ Whole(snap)
  BY DEF Snap, Whole, OnePerKey
<1>3. /\ out' \in Seq(Snap') /\ Len(out') <= OutCap
      /\ \A i \in DOMAIN out' : (i \in DOMAIN out /\ out'[i] = out[i]) \/ out'[i] = snap
  BY <1>1, <1>2, PublishedFacts
<1>4. \A i \in DOMAIN out' : Whole(out'[i])
  BY <1>1, <1>2, <1>3
<1>5. Explained(active', history') /\ OnePerKey' /\ \A i \in DOMAIN out' : Whole(out'[i])
  BY <1>4
<1>6. ActiveExplained'
  <2>1. (Explained(active, history) /\ OnePerKey /\ \A i \in DOMAIN out : Whole(out[i]))'
    BY <1>5 DEF Explained, Whole
  <2> QED BY <2>1, WholeSnapshots, PTL
<1> QED BY <1>3, <1>6

LEMMA SetAlertKeeps == AlertsInv /\ SetAlert => AlertsInv'
<1> SUFFICES ASSUME AlertsInv, SetAlert PROVE AlertsInv'
  OBVIOUS
<1>1. /\ work \in Seq(Call) /\ work # <<>> /\ raised \in Nat /\ raised' = raised + 1
      /\ active' = {a \in active : a.key # Head(work).key} \cup {NewAlert}
      /\ active \subseteq Alert /\ out' = Published(active', history') /\ work' = Tail(work)
      /\ UNCHANGED inVars
  BY DEF AlertsInv, TypeOK, SetAlert, WithAlert, Call, Levels
<1>2. raised' \in Nat /\ raised <= raised' /\ Alert \subseteq Alert'
  BY <1>1, AlertsGrow
<1>3. NewAlert \in Alert' /\ history' \in Seq(Alert')
  BY NewHistory
<1>4. active' \subseteq Alert'
  BY <1>1, <1>2, <1>3
<1>5. out' \in Seq(Snap') /\ Len(out') <= OutCap /\ ActiveExplained'
  BY <1>1, <1>2, <1>3, <1>4, ExplainedStep, PublishStep
<1>6. work' \in Seq(Call)
  BY <1>1, HeadTailProperties
<1>7. TypeOK'
  BY <1>1, <1>2, <1>3, <1>4, <1>5, <1>6 DEF AlertsInv, TypeOK, Snap, Call, Levels, inVars
<1>8. RecentHistory'
  BY HistoryStep
<1> QED BY <1>1, <1>5, <1>7, <1>8 DEF AlertsInv, inVars

LEMMA ClearAlertKeeps == AlertsInv /\ ClearAlert => AlertsInv'
<1> SUFFICES ASSUME AlertsInv, ClearAlert PROVE AlertsInv'
  OBVIOUS
<1>1. /\ work \in Seq(Call) /\ work # <<>>
      /\ active' = {a \in active : a.key # Head(work).key} /\ active \subseteq Alert
      /\ out' = (IF active' # active THEN Published(active', history) ELSE out)
      /\ work' = Tail(work) /\ UNCHANGED <<inVars, history, raised>>
      /\ raised \in Nat /\ history \in Seq(Alert)
  BY DEF AlertsInv, TypeOK, ClearAlert, Call, Levels
<1>2. raised' \in Nat /\ raised <= raised' /\ Alert' = Alert
  BY <1>1 DEF Alert
<1>3. Explained(active', history') /\ OnePerKey'
  BY <1>1, WholeSnapshots DEF AlertsInv, Explained, OnePerKey
<1>4. out' \in {out, Published(active', history')}
  BY <1>1
<1>5. out' \in Seq(Snap') /\ Len(out') <= OutCap /\ ActiveExplained'
  BY <1>1, <1>2, <1>3, <1>4, PublishStep
<1>6. work' \in Seq(Call)
  BY <1>1, HeadTailProperties
<1>7. TypeOK'
  BY <1>1, <1>2, <1>5, <1>6 DEF AlertsInv, TypeOK, Snap, Call, Levels, inVars
<1> QED BY <1>1, <1>5, <1>7 DEF AlertsInv, RecentHistory, inVars

\* The steps that raise, clear and publish nothing keep all but the types.
LEMMA QuietKeeps ==
  ASSUME AlertsInv, UNCHANGED <<active, history, raised, out>>, TypeOK', DOMAIN sub' = Metrics
  PROVE  AlertsInv'
BY DEF AlertsInv, RecentHistory, ActiveExplained, Explained

LEMMA ArriveKeeps ==
  ASSUME AlertsInv, NEW m \in Metrics, Arrive(m) PROVE AlertsInv'
<1>1. PICK snap \in Snapshots[m] :
        sub' = [sub EXCEPT ![m] = IF Len(@) < SubCap THEN Append(@, snap) ELSE @]
  BY DEF Arrive
<1>2. /\ DOMAIN sub = Metrics /\ \A n \in Metrics : sub[n] \in Seq(Snapshots[n]) /\ Len(sub[n]) <= SubCap
      /\ seen \in 0..MaxSnapshots /\ seen < MaxSnapshots /\ seen' = seen + 1
      /\ UNCHANGED <<cfg, running, work, active, history, raised, out>>
  BY DEF AlertsInv, TypeOK, Arrive
<1> DEFINE s == IF Len(sub[m]) < SubCap THEN Append(sub[m], snap) ELSE sub[m]
<1>3. s \in Seq(Snapshots[m]) /\ Len(s) <= SubCap
  <2>1. sub[m] \in Seq(Snapshots[m]) /\ Len(sub[m]) \in Nat
    BY <1>2, LenProperties
  <2>2. \A q \in Seq(Snapshots[m]) :
          Append(q, snap) \in Seq(Snapshots[m]) /\ Len(Append(q, snap)) = Len(q) + 1
    OBVIOUS
  <2>3. SubCap \in Nat
    BY AlertsAssumption
  <2>4. CASE Len(sub[m]) < SubCap
    <3>1. s = Append(sub[m], snap)
      BY <2>4
    <3> HIDE DEF s
    <3>2. s \in Seq(Snapshots[m]) /\ Len(s) = Len(sub[m]) + 1
      BY <2>1, <2>2, <3>1
    <3>3. Len(sub[m]) + 1 <= SubCap
      BY <2>1, <2>3, <2>4
    <3> QED BY <3>2, <3>3
  <2>5. CASE ~(Len(sub[m]) < SubCap)
    BY <1>2, <2>1, <2>5
  <2> QED BY <2>4, <2>5
<1>4. sub' = [sub EXCEPT ![m] = s]
  BY <1>1
<1> HIDE DEF s
<1>5. /\ DOMAIN sub' = Metrics
      /\ \A n \in Metrics : Len(sub'[n]) <= SubCap /\ sub'[n] \in Seq(Snapshots[n])
  BY <1>2, <1>3, <1>4
<1>6. seen' \in 0..MaxSnapshots
  BY <1>2, AlertsAssumption
<1>7. TypeOK'
  BY <1>2, <1>5, <1>6 DEF AlertsInv, TypeOK, Alert
<1> QED BY <1>2, <1>5, <1>7, QuietKeeps

LEMMA CheckKeeps ==
  ASSUME AlertsInv, NEW m \in Metrics, Check(m) PROVE AlertsInv'
<1> DEFINE snap == Head(sub[m])
<1>1. /\ sub[m] \in Seq(Snapshots[m]) /\ sub[m] # <<>> /\ Len(sub[m]) <= SubCap
      /\ DOMAIN sub = Metrics /\ \A n \in Metrics : sub[n] \in Seq(Snapshots[n]) /\ Len(sub[n]) <= SubCap
      /\ sub' = [sub EXCEPT ![m] = Tail(@)] /\ cfg \in Configs
      /\ work' = Calls(m, snap) \o RuleCalls(m, snap)
      /\ UNCHANGED <<cfg, seen, running, active, history, raised, out>>
  BY DEF AlertsInv, TypeOK, Check
<1>2. /\ snap \in Snapshots[m] /\ Tail(sub[m]) \in Seq(Snapshots[m])
      /\ Len(Tail(sub[m])) <= Len(sub[m]) /\ Len(sub[m]) \in Nat /\ Len(Tail(sub[m])) \in Nat
  BY <1>1, HeadTailProperties, LenProperties
<1>3. /\ DOMAIN sub' = Metrics
      /\ \A n \in Metrics : Len(sub'[n]) <= SubCap /\ sub'[n] \in Seq(Snapshots[n])
  <2>1. SubCap \in Nat
    BY AlertsAssumption
  <2>2. Len(Tail(sub[m])) <= SubCap
    BY <1>1, <1>2, <2>1
  <2> QED BY <1>1, <1>2, <2>2
<1> HIDE DEF snap
<1>4. work' \in Seq(Call)
  <2>1. Calls(m, snap) \in Seq(Call) /\ RuleCalls(m, snap) \in Seq(Call)
    BY <1>1, <1>2, CallsFacts, RuleCallsFacts
  <2> QED BY <1>1, <2>1, ConcatProperties
<1>5. TypeOK'
  BY <1>1, <1>3, <1>4 DEF AlertsInv, TypeOK, Alert, Call, Levels
<1> QED BY <1>1, <1>3, <1>5, QuietKeeps

LEMMA AlertsSteps == AlertsInv /\ [Next]_vars => AlertsInv'
<1> SUFFICES ASSUME AlertsInv, [Next]_vars PROVE AlertsInv'
  OBVIOUS
<1>1. CASE Reload
  BY <1>1, QuietKeeps DEF Reload, AlertsInv, TypeOK, Alert
<1>2. CASE Stop
  BY <1>2, QuietKeeps DEF Stop, AlertsInv, TypeOK, Alert
<1>3. CASE UNCHANGED vars
  BY <1>3, QuietKeeps DEF vars, inVars, AlertsInv, TypeOK, Alert
<1> QED BY <1>1, <1>2, <1>3, SetAlertKeeps, ClearAlertKeeps, CheckKeeps, ArriveKeeps
        DEF Next, Monitor

LEMMA AlertsInvariant == Spec => []AlertsInv
BY AlertsInitially, AlertsSteps, PTL DEF Spec

-----------------------------------------------------------------------------
(* The monitor is the board.                                               *)

\* Standing, of any calls and any alerts.
StandingIn(w, acts, k) ==
  LET todo == {i \in DOMAIN w : w[i].key = k}
  IN  IF todo # {} THEN w[Max(todo)].level
      ELSE IF \E a \in acts : a.key = k THEN (CHOOSE a \in acts : a.key = k).level
      ELSE "none"

LEMMA StandingBoth ==
  \A k : /\ Standing(k) = StandingIn(work, active, k)
         /\ Standing(k)' = StandingIn(work', active', k)
BY DEF Standing, StandingIn

\* The latest call for a key decides, and without one the alert there is.
LEMMA StandingLast ==
  ASSUME NEW S, NEW w \in Seq(S), NEW acts, NEW k, NEW i \in DOMAIN w, w[i].key = k,
         \A j \in DOMAIN w : w[j].key = k => j <= i
  PROVE  StandingIn(w, acts, k) = w[i].level
<1> DEFINE P == {j \in DOMAIN w : w[j].key = k}
<1>1. Len(w) \in Nat /\ DOMAIN w = 1..Len(w)
  BY LenProperties
<1>2. P \in SUBSET (1..Len(w)) /\ i \in P /\ P # {}
  BY <1>1
<1>3. \A j \in P : j <= i
  BY <1>1
<1> HIDE DEF P
<1>4. Max(P) \in P /\ i <= Max(P)
  BY <1>1, <1>2, LastPosition
<1>5. Max(P) <= i /\ Max(P) \in 1..Len(w)
  BY <1>2, <1>3, <1>4
<1>6. Max(P) = i
  BY <1>1, <1>4, <1>5
<1> QED BY <1>2, <1>6 DEF StandingIn, P

LEMMA StandingWithoutCalls ==
  ASSUME NEW w, NEW acts, NEW k, \A i \in DOMAIN w : w[i].key # k
  PROVE  StandingIn(w, acts, k) = IF \E a \in acts : a.key = k
                                    THEN (CHOOSE a \in acts : a.key = k).level ELSE "none"
<1>1. {i \in DOMAIN w : w[i].key = k} = {}
  OBVIOUS
<1> QED BY <1>1 DEF StandingIn

LEMMA StandingOfAlerts ==
  ASSUME NEW w, NEW acts, NEW k, \A i \in DOMAIN w : w[i].key # k,
         \A a, b \in acts : a.key = b.key => a = b
  PROVE  /\ \A a \in acts : a.key = k => StandingIn(w, acts, k) = a.level
         /\ (\A a \in acts : a.key # k) => StandingIn(w, acts, k) = "none"
BY StandingWithoutCalls

LEMMA InvOnePerKey == AlertsInv => OnePerKey
BY WholeSnapshots DEF AlertsInv

\* The first call matters only to the key that has no other.
LEMMA StandingTail ==
  ASSUME NEW S, NEW w \in Seq(S), w # <<>>, NEW acts, NEW acts2, NEW k
  PROVE  \/ StandingIn(w, acts, k) = StandingIn(Tail(w), acts2, k)
         \/ /\ \A i \in DOMAIN Tail(w) : Tail(w)[i].key # k
            /\ \A i \in DOMAIN w : i # 1 => w[i].key # k
<1> DEFINE n == Len(w)
<1> DEFINE t == Tail(w)
<1>1. /\ n \in Nat \ {0} /\ DOMAIN w = 1..n
      /\ t \in Seq(S) /\ Len(t) = n - 1 /\ DOMAIN t = 1..(n - 1)
      /\ \A i \in 1..(n - 1) : t[i] = w[i + 1]
  <2>1. n \in Nat /\ DOMAIN w = 1..n
    BY LenProperties
  <2>2. /\ n # 0 /\ t \in Seq(S) /\ Len(t) = n - 1
        /\ \A i \in 1..(n - 1) : t[i] = w[i + 1]
    BY <2>1, HeadTailProperties, EmptySeq
  <2>3. DOMAIN t = 1..(n - 1)
    BY <2>2, LenProperties
  <2> QED BY <2>1, <2>2, <2>3
<1> HIDE DEF n, t
<1>2. CASE \E i \in 1..(n - 1) : t[i].key = k
  <2> DEFINE P == {i \in 1..(n - 1) : t[i].key = k}
  <2>1. n - 1 \in Nat /\ P \in SUBSET (1..(n - 1)) /\ P # {}
    BY <1>1, <1>2
  <2>2. PICK i \in P : \A j \in P : j <= i
    <3> HIDE DEF P
    <3> QED BY <2>1, LastPosition
  <2>3. StandingIn(t, acts2, k) = t[i].level
    <3>1. i \in DOMAIN t /\ t[i].key = k /\ \A j \in DOMAIN t : t[j].key = k => j <= i
      BY <1>1, <2>2
    <3>2. t \in Seq(S)
      BY <1>1
    <3>3. \A q \in Seq(S) : \A l \in DOMAIN q :
            q[l].key = k /\ (\A j \in DOMAIN q : q[j].key = k => j <= l)
              => StandingIn(q, acts2, k) = q[l].level
      BY StandingLast
    <3> HIDE DEF P
    <3> QED BY <3>1, <3>2, <3>3
  <2>4. i + 1 \in 1..n /\ w[i + 1] = t[i]
    BY <1>1, <2>2
  <2>5. \A j \in 1..n : w[j].key = k => j <= i + 1
    <3> SUFFICES ASSUME NEW j \in 1..n, w[j].key = k, ~(j <= i + 1) PROVE FALSE
      OBVIOUS
    <3>1. j - 1 \in 1..(n - 1) /\ (j - 1) + 1 = j
      BY <1>1, <2>2
    <3>2. t[j - 1] = w[j]
      BY <1>1, <3>1
    <3>3. j - 1 <= i
      BY <2>2, <3>1, <3>2
    <3> QED BY <1>1, <2>2, <3>3
  <2>6. StandingIn(w, acts, k) = w[i + 1].level
    <3>1. /\ i + 1 \in DOMAIN w /\ w[i + 1].key = k
          /\ \A j \in DOMAIN w : w[j].key = k => j <= i + 1
      BY <1>1, <2>2, <2>4, <2>5
    <3> HIDE DEF P
    <3> QED BY <3>1, StandingLast
  <2> QED BY <2>3, <2>4, <2>6 DEF t
<1>3. CASE \A i \in 1..(n - 1) : t[i].key # k
  <2>1. ASSUME NEW i \in 1..n, i # 1 PROVE w[i].key # k
    <3>1. i - 1 \in 1..(n - 1) /\ (i - 1) + 1 = i
      BY <1>1, <2>1
    <3> QED BY <1>1, <1>3, <3>1
  <2> QED BY <1>1, <1>3, <2>1 DEF t
<1> QED BY <1>2, <1>3

\* What setting and clearing change had been decided by the check.
LEMMA SettledAlready ==
  ASSUME AlertsInv, AlertsInv', SetAlert \/ ClearAlert
  PROVE  \A k : Standing(k)' = Standing(k)
<1> SUFFICES ASSUME NEW k
             PROVE  StandingIn(work', active', k) = StandingIn(work, active, k)
  BY StandingBoth
<1> DEFINE h == Head(work)
<1>1. /\ work \in Seq(Call) /\ work # <<>> /\ work' = Tail(work) /\ h = work[1]
      /\ 1 \in 1..Len(work) /\ DOMAIN work = 1..Len(work) /\ Len(work) \in Nat
  <2>1. work \in Seq(Call) /\ work # <<>> /\ work' = Tail(work)
    BY DEF AlertsInv, TypeOK, SetAlert, ClearAlert, Call, Levels
  <2>2. Len(work) \in Nat /\ Len(work) # 0 /\ DOMAIN work = 1..Len(work)
    BY <2>1, EmptySeq, LenProperties
  <2> QED BY <2>1, <2>2
<1>2. /\ \A a, b \in active : a.key = b.key => a = b
      /\ \A a, b \in active' : a.key = b.key => a = b
  <2>1. OnePerKey
    BY WholeSnapshots DEF AlertsInv
  <2>3. OnePerKey'
    BY InvOnePerKey, PTL
  <2> QED BY <2>1, <2>3 DEF OnePerKey
<1>3. /\ h.level # "none" => active' = {a \in active : a.key # h.key} \cup {NewAlert}
      /\ h.level = "none" => active' = {a \in active : a.key # h.key}
      /\ NewAlert.key = h.key /\ NewAlert.level = h.level
  BY DEF SetAlert, ClearAlert, WithAlert, NewAlert
<1> HIDE DEF h
<1>4. CASE /\ \A i \in DOMAIN Tail(work) : Tail(work)[i].key # k
           /\ \A i \in DOMAIN work : i # 1 => work[i].key # k
  <2>1. /\ \A a \in active' : a.key = k => StandingIn(work', active', k) = a.level
        /\ (\A a \in active' : a.key # k) => StandingIn(work', active', k) = "none"
    <3>1. \A i \in DOMAIN work' : work'[i].key # k
      BY <1>1, <1>4
    <3> QED BY <1>2, <3>1, StandingOfAlerts
  <2>2. CASE h.key = k
    <3>1. StandingIn(work, active, k) = h.level
      <4>1. \A j \in DOMAIN work : work[j].key = k => j <= 1
        BY <1>1, <1>4
      <4>2. work \in Seq(Call) /\ 1 \in DOMAIN work /\ work[1].key = k /\ work[1].level = h.level
        BY <1>1, <2>2
      <4>3. StandingIn(work, active, k) = work[1].level
        <5>1. PICK w : w = work
          OBVIOUS
        <5>2. PICK acts : acts = active
          OBVIOUS
        <5>3. /\ w \in Seq(Call) /\ 1 \in DOMAIN w /\ w[1].key = k
              /\ \A j \in DOMAIN w : w[j].key = k => j <= 1
          BY <4>1, <4>2, <5>1
        <5>4. StandingIn(w, acts, k) = w[1].level
          BY <5>3, StandingLast
        <5> QED BY <5>1, <5>2, <5>4
      <4> QED BY <4>2, <4>3
    <3>2. StandingIn(work', active', k) = h.level
      BY <1>3, <2>1, <2>2
    <3> QED BY <3>1, <3>2
  <2>3. CASE h.key # k
    <3>1. /\ \A a \in active : a.key = k => StandingIn(work, active, k) = a.level
          /\ (\A a \in active : a.key # k) => StandingIn(work, active, k) = "none"
      <4>1. \A i \in DOMAIN work : work[i].key # k
        BY <1>1, <1>4, <2>3
      <4> QED BY <1>2, <4>1, StandingOfAlerts
    <3>2. \A a : a.key = k => (a \in active <=> a \in active')
      BY <1>3, <2>3
    <3> QED BY <2>1, <3>1, <3>2
  <2> QED BY <2>2, <2>3
<1>5. CASE StandingIn(work, active, k) = StandingIn(Tail(work), active', k)
  BY <1>1, <1>5
<1> QED BY <1>1, <1>4, <1>5, StandingTail
\* The calls of a check: the c of the snapshot, then the r of the rules.
CheckMade(w, m, snap, c, r) ==
  /\ w \in Seq(Call) /\ DOMAIN w = 1..(c + r) /\ DOMAIN snap = 1..c
  /\ \A i \in 1..c : /\ w[i].key = <<m, snap[i][1]>>
                     /\ w[i].level = Verdict(cfg, m, snap[i][2])
  /\ CallsFollowRules(m, snap, RuleCalls(m, snap)) /\ r = Len(RuleCalls(m, snap))
  /\ \A i \in 1..r : w[c + i] = RuleCalls(m, snap)[i]

LEMMA CheckCalls ==
  ASSUME cfg \in Configs, NEW m \in Metrics, NEW snap \in Snapshots[m], NEW w,
         w = Calls(m, snap) \o RuleCalls(m, snap)
  PROVE  \E c, r \in Nat : CheckMade(w, m, snap, c, r)
<1> DEFINE a == Calls(m, snap)
<1> DEFINE b == RuleCalls(m, snap)
<1>1. /\ a \in Seq(Call) /\ Len(a) = Len(snap)
      /\ \A i \in 1..Len(snap) : /\ a[i].key = <<m, snap[i][1]>>
                                 /\ a[i].level = Verdict(cfg, m, snap[i][2])
  BY CallsFacts
<1>2. b \in Seq(Call) /\ CallsFollowRules(m, snap, b)
  BY RuleCallsFacts
<1>3. w = a \o b
  OBVIOUS
<1>4. Len(snap) \in Nat /\ DOMAIN snap = 1..Len(snap)
  <2>1. snap \in Seq(Parts \X Int)
    BY AlertsAssumption
  <2> QED BY <2>1, LenProperties
<1> HIDE DEF a, b
<1>5. /\ w \in Seq(Call) /\ Len(w) = Len(a) + Len(b)
      /\ \A i \in 1..Len(a) : w[i] = a[i]
  <2>1. /\ w \in Seq(Call) /\ Len(w) = Len(a) + Len(b)
        /\ \A i \in 1..(Len(a) + Len(b)) : w[i] = IF i <= Len(a) THEN a[i] ELSE b[i - Len(a)]
    <3>1. a \in Seq(Call) /\ b \in Seq(Call)
      BY <1>1, <1>2
    <3> QED BY <1>3, <3>1, ConcatProperties
  <2>2. Len(a) \in Nat /\ Len(b) \in Nat
    BY <1>1, <1>2, LenProperties
  <2>3. \A i \in 1..Len(a) : i \in 1..(Len(a) + Len(b)) /\ i <= Len(a)
    BY <2>2
  <2> QED BY <2>1, <2>3
<1>6. Len(b) \in Nat /\ DOMAIN w = 1..Len(w)
  BY <1>2, <1>5, LenProperties
<1>7. \A i \in 1..Len(b) : w[Len(a) + i] = b[i]
  <2> SUFFICES ASSUME NEW i \in 1..Len(b) PROVE w[Len(a) + i] = b[i]
    OBVIOUS
  <2>1. /\ Len(a) + i \in 1..(Len(a) + Len(b)) /\ Len(a) + i > Len(a)
        /\ (Len(a) + i) - Len(a) = i
    BY <1>1, <1>4, <1>6
  <2> QED BY <1>1, <1>2, <1>3, <2>1, ConcatProperties
<1> DEFINE c == Len(snap)
<1> DEFINE r == Len(b)
<1>8. c \in Nat /\ r \in Nat /\ CheckMade(w, m, snap, c, r)
  BY <1>1, <1>2, <1>4, <1>5, <1>6, <1>7 DEF CheckMade, b
<1> QED BY <1>8

\* The calls one check makes, and the keys its snapshot names.
CheckWork(m, snap) == Calls(m, snap) \o RuleCalls(m, snap)
Named(m, snap, k) == \E i \in DOMAIN snap : k = <<m, snap[i][1]>>

\* What the snapshot names is settled by the last value it has for it.
LEMMA PartsSettled ==
  ASSUME cfg \in Configs, NEW m \in Metrics, NEW snap \in Snapshots[m], NEW w, NEW acts, NEW k,
         w = CheckWork(m, snap), Named(m, snap, k)
  PROVE  StandingIn(w, acts, k) = Board!PartLevel(cfg, m, snap, k)
<1>n. \E i \in DOMAIN snap : k = <<m, snap[i][1]>>
  BY DEF Named
<1>w. w = Calls(m, snap) \o RuleCalls(m, snap)
  BY DEF CheckWork
<1>0. PICK c \in Nat, r \in Nat : CheckMade(w, m, snap, c, r)
  BY <1>w, CheckCalls, Zenon
<1>1. /\ w \in Seq(Call) /\ DOMAIN w = 1..(c + r) /\ DOMAIN snap = 1..c
      /\ \A i \in 1..c : /\ w[i].key = <<m, snap[i][1]>>
                         /\ w[i].level = Verdict(cfg, m, snap[i][2])
      /\ CallsFollowRules(m, snap, RuleCalls(m, snap)) /\ r = Len(RuleCalls(m, snap))
      /\ \A i \in 1..r : w[c + i] = RuleCalls(m, snap)[i]
  BY <1>0 DEF CheckMade
<1> DEFINE P == {i \in 1..c : k = <<m, snap[i][1]>>}
<1>2. P \in SUBSET (1..c) /\ P # {}
  BY <1>n, <1>1
<1>3. PICK l \in P : \A j \in P : j <= l
  <2> HIDE DEF P
  <2> QED BY <1>2, LastPosition
<1>4. l \in 1..c /\ k = <<m, snap[l][1]>> /\ \A j \in 1..c : k = <<m, snap[j][1]>> => j <= l
  BY <1>3
<1> HIDE DEF P
<1>5. \A i \in 1..r : w[c + i].key[1] = "rule"
  <2>1. CASE m # "cpu"
    <3>1. r = Len(<<>>) /\ Len(<<>>) = 0
      BY <1>1, <2>1 DEF CallsFollowRules
    <3> QED BY <3>1
  <2>2. CASE m = "cpu"
    <3> DEFINE calls == RuleCalls(m, snap)
    <3>1. \A i \in 1..r : calls[i].key = <<"rule", cfg.rules[Ascending(CpuRules)[i]].label>>
      BY <1>1, <2>2 DEF CallsFollowRules
    <3>2. \A i \in 1..r : w[c + i] = calls[i]
      BY <1>1
    <3> HIDE DEF calls
    <3> SUFFICES ASSUME NEW i \in 1..r PROVE w[c + i].key[1] = "rule"
      OBVIOUS
    <3>3. w[c + i].key = <<"rule", cfg.rules[Ascending(CpuRules)[i]].label>>
      BY <3>1, <3>2
    <3> QED BY <3>3
  <2> QED BY <2>1, <2>2
<1>6. m # "rule"
  BY AlertsAssumption
<1>7. \A j \in DOMAIN w : w[j].key = k => j <= l
  <2> SUFFICES ASSUME NEW j \in DOMAIN w, w[j].key = k PROVE j <= l
    OBVIOUS
  <2>1. CASE j \in 1..c
    BY <1>1, <1>4, <2>1
  <2>2. CASE j \notin 1..c
    <3>1. j - c \in 1..r /\ c + (j - c) = j
      <4>1. j \in 1..(c + r)
        BY <1>1
      <4> QED BY <2>2, <4>1
    <3>2. w[j].key[1] = "rule"
      BY <1>5, <3>1
    <3> QED BY <1>4, <1>6, <3>2
  <2> QED BY <2>1, <2>2
<1>8. l \in DOMAIN w /\ w[l].key = k /\ w[l].level = Verdict(cfg, m, snap[l][2])
  BY <1>1, <1>4
<1>9. StandingIn(w, acts, k) = Verdict(cfg, m, snap[l][2])
  <2>1. w \in Seq(Call)
    BY <1>1
  <2> QED BY <1>7, <1>8, <2>1, StandingLast
<1>10. Board!PartLevel(cfg, m, snap, k) = Board!Level(cfg, m, snap[l][2])
  <2> DEFINE Latest(i) == k = <<m, snap[i][1]>> /\ \A j \in DOMAIN snap : k = <<m, snap[j][1]>> => j <= i
  <2>1. l \in DOMAIN snap /\ Latest(l)
    BY <1>1, <1>4
  <2>2. \A i \in DOMAIN snap : Latest(i) => i = l
    <3> SUFFICES ASSUME NEW i \in DOMAIN snap, Latest(i) PROVE i = l
      OBVIOUS
    <3>1. i \in Nat /\ l \in Nat
      BY <1>1, <2>1
    <3>2. k = <<m, snap[i][1]>> /\ k = <<m, snap[l][1]>>
      BY <2>1
    <3>3. i <= l
      BY <2>1, <3>2
    <3>4. l <= i
      BY <2>1, <3>2
    <3> QED BY <3>1, <3>3, <3>4
  <2>3. (CHOOSE i \in DOMAIN snap : Latest(i)) = l
    <3> HIDE DEF Latest
    <3> QED BY <2>1, <2>2
  <2> QED BY <2>3 DEF Board!PartLevel
<1> QED BY <1>9, <1>10 DEF Verdict, Board!Level

\* A label is settled by the last rule for the CPU that has it.
LEMMA RulesSettled ==
  ASSUME cfg \in Configs, "cpu" \in Metrics, NEW snap \in Snapshots["cpu"], NEW w, NEW acts,
         NEW label, w = Calls("cpu", snap) \o RuleCalls("cpu", snap),
         \E i \in DOMAIN cfg.rules : Board!Judges(cfg, i, label)
  PROVE  StandingIn(w, acts, <<"rule", label>>) = Board!RuleLevel(cfg, label, snap[1][2])
<1> DEFINE m == "cpu"
<1> DEFINE k == <<"rule", label>>
<1> DEFINE at == Ascending(CpuRules)
<1> DEFINE calls == RuleCalls(m, snap)
<1>0. PICK c \in Nat, r \in Nat : CheckMade(w, m, snap, c, r)
  BY CheckCalls, Zenon
<1>1. /\ w \in Seq(Call) /\ DOMAIN w = 1..(c + r) /\ DOMAIN snap = 1..c
      /\ \A i \in 1..c : /\ w[i].key = <<m, snap[i][1]>>
                         /\ w[i].level = Verdict(cfg, m, snap[i][2])
      /\ CallsFollowRules(m, snap, calls) /\ r = Len(calls)
      /\ \A i \in 1..r : w[c + i] = calls[i]
  BY <1>0 DEF CheckMade
<1>2. /\ at \in [1..r -> CpuRules]
      /\ \A i, j \in 1..r : i < j => at[i] < at[j]
      /\ \A n \in CpuRules : \E i \in 1..r : at[i] = n
      /\ \A i \in 1..r :
           /\ calls[i].key = <<"rule", cfg.rules[at[i]].label>>
           /\ calls[i].level = IF EvaluateCustomRule(cfg.rules[at[i]], snap[1][2])
                                 THEN cfg.rules[at[i]].severity ELSE "none"
  BY <1>1 DEF CallsFollowRules
<1> DEFINE n == Len(cfg.rules)
<1> DEFINE J == {i \in 1..n : Board!Judges(cfg, i, label)}
<1>3. n \in Nat /\ DOMAIN cfg.rules = 1..n
  <2>1. cfg.rules \in Seq(RuleType)
    BY AlertsAssumption
  <2> QED BY <2>1, LenProperties
<1> HIDE DEF n, at, calls
<1>4. J \in SUBSET (1..n) /\ J # {}
  BY <1>3
<1>5. PICK l \in J : \A j \in J : j <= l
  <2> HIDE DEF J
  <2> QED BY <1>3, <1>4, LastPosition
<1>6. l \in CpuRules /\ cfg.rules[l].label = label
      /\ \A j \in CpuRules : cfg.rules[j].label = label => j <= l
  BY <1>3, <1>5 DEF CpuRules, Board!Judges
<1>7. PICK i \in 1..r : at[i] = l
  BY <1>2, <1>6
<1>8. \A p \in CpuRules : p \in Nat
  BY <1>3 DEF CpuRules
<1>9. \A j \in DOMAIN w : w[j].key = k => j <= c + i
  <2> SUFFICES ASSUME NEW j \in DOMAIN w, w[j].key = k, ~(j <= c + i) PROVE FALSE
    OBVIOUS
  <2> DEFINE q == j - c
  <2>1. q \in 1..r /\ j = c + q /\ i < q
    BY <1>1, <1>7
  <2> HIDE DEF q
  <2>2. w[j] = calls[q]
    BY <1>1, <2>1
  <2>3. cfg.rules[at[q]].label = label /\ at[q] \in CpuRules
    BY <1>2, <2>1, <2>2
  <2>4. at[q] <= l
    BY <1>6, <2>3
  <2>5. at[i] < at[q]
    BY <1>2, <2>1
  <2>6. at[q] \in Nat /\ l \in Nat
    BY <1>6, <1>8, <2>3
  <2> QED BY <1>7, <2>4, <2>5, <2>6
<1>10. /\ c + i \in DOMAIN w /\ w[c + i].key = k
       /\ w[c + i].level = IF EvaluateCustomRule(cfg.rules[l], snap[1][2])
                             THEN cfg.rules[l].severity ELSE "none"
  <2>1. w[c + i] = calls[i]
    BY <1>1
  <2>2. c + i \in 1..(c + r)
    BY <1>1
  <2> QED BY <1>1, <1>2, <1>6, <1>7, <2>1, <2>2
<1>11. StandingIn(w, acts, k) = IF EvaluateCustomRule(cfg.rules[l], snap[1][2])
                                  THEN cfg.rules[l].severity ELSE "none"
  <2>1. w \in Seq(Call)
    BY <1>1
  <2> HIDE DEF k
  <2> QED BY <1>9, <1>10, <2>1, StandingLast
<1>12. Board!RuleLevel(cfg, label, snap[1][2])
         = IF Board!Holds(cfg.rules[l], snap[1][2]) THEN cfg.rules[l].severity ELSE "none"
  <2> DEFINE Latest(p) == Board!Judges(cfg, p, label)
                        /\ \A j \in DOMAIN cfg.rules : Board!Judges(cfg, j, label) => j <= p
  <2>1. l \in DOMAIN cfg.rules /\ Latest(l)
    BY <1>3, <1>5
  <2>2. \A p \in DOMAIN cfg.rules : Latest(p) => p = l
    <3> SUFFICES ASSUME NEW p \in DOMAIN cfg.rules, Latest(p) PROVE p = l
      OBVIOUS
    <3>1. p <= l /\ l <= p /\ p \in Nat /\ l \in Nat
      BY <1>3, <1>5, <2>1
    <3> QED BY <3>1
  <2>3. (CHOOSE p \in DOMAIN cfg.rules : Latest(p)) = l
    <3> HIDE DEF Latest
    <3> QED BY <2>1, <2>2
  <2>4. \A v : Board!RuleLevel(cfg, label, v)
                = IF Board!Holds(cfg.rules[CHOOSE p \in DOMAIN cfg.rules : Latest(p)], v)
                    THEN cfg.rules[CHOOSE p \in DOMAIN cfg.rules : Latest(p)].severity ELSE "none"
    BY Zenon DEF Board!RuleLevel
  <2> HIDE DEF Latest
  <2> QED BY <2>3, <2>4
<1> QED BY <1>11, <1>12 DEF EvaluateCustomRule, Board!Holds

\* What neither the snapshot nor a rule names is not called for.
Unnamed(m, snap, k) ==
  /\ \A i \in DOMAIN snap : k # <<m, snap[i][1]>>
  /\ ~(m = "cpu" /\ k[1] = "rule" /\ \E i \in DOMAIN cfg.rules : Board!Judges(cfg, i, k[2]))

LEMMA OthersUncalled ==
  ASSUME cfg \in Configs, NEW m \in Metrics, NEW snap \in Snapshots[m], NEW w, NEW k,
         w = Calls(m, snap) \o RuleCalls(m, snap), Unnamed(m, snap, k)
  PROVE  \A j \in DOMAIN w : w[j].key # k
<1>0. PICK c \in Nat, r \in Nat : CheckMade(w, m, snap, c, r)
  BY CheckCalls, Zenon
<1>1. /\ w \in Seq(Call) /\ DOMAIN w = 1..(c + r) /\ DOMAIN snap = 1..c
      /\ \A i \in 1..c : /\ w[i].key = <<m, snap[i][1]>>
                         /\ w[i].level = Verdict(cfg, m, snap[i][2])
      /\ CallsFollowRules(m, snap, RuleCalls(m, snap)) /\ r = Len(RuleCalls(m, snap))
      /\ \A i \in 1..r : w[c + i] = RuleCalls(m, snap)[i]
  BY <1>0 DEF CheckMade
<1>2. \A i \in 1..r : m = "cpu" /\ \E p \in CpuRules : w[c + i].key = <<"rule", cfg.rules[p].label>>
  <2> SUFFICES ASSUME NEW i \in 1..r
               PROVE  m = "cpu" /\ \E p \in CpuRules : w[c + i].key = <<"rule", cfg.rules[p].label>>
    OBVIOUS
  <2>1. m = "cpu"
    <3>1. m # "cpu" => RuleCalls(m, snap) = <<>>
      BY DEF RuleCalls
    <3>2. RuleCalls(m, snap) = <<>> => r = 0
      BY <1>1
    <3> QED BY <3>1, <3>2
  <2>2. Ascending(CpuRules)[i] \in CpuRules
    BY <1>1, <2>1 DEF CallsFollowRules
  <2>3. w[c + i].key = <<"rule", cfg.rules[Ascending(CpuRules)[i]].label>>
    BY <1>1, <2>1 DEF CallsFollowRules
  <2> QED BY <2>1, <2>2, <2>3
<1>3. \A j \in DOMAIN w : w[j].key # k
  <2> SUFFICES ASSUME NEW j \in DOMAIN w, w[j].key = k PROVE FALSE
    OBVIOUS
  <2>1. CASE j \in 1..c
    BY <1>1, <2>1 DEF Unnamed
  <2>2. CASE j \notin 1..c
    <3>1. j - c \in 1..r /\ c + (j - c) = j
      <4>1. j \in 1..(c + r)
        BY <1>1
      <4> QED BY <2>2, <4>1
    <3>2. PICK p \in CpuRules : w[j].key = <<"rule", cfg.rules[p].label>>
      BY <1>2, <3>1
    <3>3. m = "cpu"
      BY <1>2, <3>1
    <3>4. k[1] = "rule" /\ k[2] = cfg.rules[p].label
      BY <3>2
    <3> QED BY <3>3, <3>4 DEF CpuRules, Board!Judges, Unnamed
  <2> QED BY <2>1, <2>2
<1> QED BY <1>3

\* Between the checks, and while a check's calls are made, the board stands.
LEMMA CheckExamines ==
  ASSUME AlertsInv, NEW m \in Metrics, Check(m)
  PROVE  \E snap \in Snapshots[m] : Board!Examine(m, snap)
<1> DEFINE snap == Head(sub[m])
<1>1. /\ cfg \in Configs /\ work = <<>> /\ work' = Calls(m, snap) \o RuleCalls(m, snap)
      /\ UNCHANGED <<cfg, active>> /\ snap \in Snapshots[m]
  <2>1. sub[m] \in Seq(Snapshots[m]) /\ sub[m] # <<>>
    BY DEF AlertsInv, TypeOK, Check
  <2>2. Head(sub[m]) \in Snapshots[m]
    BY <2>1, HeadTailProperties
  <2> QED BY <2>2 DEF AlertsInv, TypeOK, Check
<1> HIDE DEF snap
<1>2. \A k \in Keys : Standing(k)' = Board!Settled(cfg, m, snap, k)
  <2> SUFFICES ASSUME NEW k \in Keys
               PROVE  StandingIn(work', active, k) = Board!Settled(cfg, m, snap, k)
    BY <1>1, StandingBoth
  <2>1. CASE \E i \in DOMAIN snap : k = <<m, snap[i][1]>>
    <3>1. StandingIn(work', active, k) = Board!PartLevel(cfg, m, snap, k)
      <4>1. PICK w : w = work'
        OBVIOUS
      <4>2. PICK acts : acts = active
        OBVIOUS
      <4>3. w = CheckWork(m, snap) /\ Named(m, snap, k)
        BY <1>1, <2>1, <4>1 DEF CheckWork, Named
      <4>4. StandingIn(w, acts, k) = Board!PartLevel(cfg, m, snap, k)
        <5>1. cfg \in Configs /\ snap \in Snapshots[m]
          BY <1>1
        <5> QED BY <4>3, <5>1, PartsSettled
      <4> QED BY <4>1, <4>2, <4>4
    <3> QED BY <2>1, <3>1 DEF Board!Settled
  <2>2. CASE /\ ~ \E i \in DOMAIN snap : k = <<m, snap[i][1]>>
             /\ m = "cpu" /\ k[1] = "rule"
             /\ \E i \in DOMAIN cfg.rules : Board!Judges(cfg, i, k[2])
    <3>1. k = <<"rule", k[2]>>
      BY <2>2, AlertsAssumption DEF Keys
    <3>2. StandingIn(work', active, <<"rule", k[2]>>) = Board!RuleLevel(cfg, k[2], snap[1][2])
      BY <1>1, <2>2, RulesSettled
    <3> QED BY <2>2, <3>1, <3>2 DEF Board!Settled
  <2>3. CASE /\ ~ \E i \in DOMAIN snap : k = <<m, snap[i][1]>>
             /\ ~(/\ m = "cpu" /\ k[1] = "rule"
                  /\ \E i \in DOMAIN cfg.rules : Board!Judges(cfg, i, k[2]))
    <3>1. StandingIn(work', active, k) = StandingIn(work, active, k)
      <4>1. Unnamed(m, snap, k)
        BY <2>3 DEF Unnamed
      <4>2. \A j \in DOMAIN work' : work'[j].key # k
        BY <1>1, <4>1, OthersUncalled
      <4>3. \A j \in DOMAIN work : work[j].key # k
        BY <1>1
      <4> QED BY <4>2, <4>3, StandingWithoutCalls
    <3>2. StandingIn(work, active, k) = Standing(k)
      BY <1>1, StandingBoth
    <3>3. [q \in Keys |-> Standing(q)][k] = Standing(k)
      OBVIOUS
    <3>4. Board!Settled(cfg, m, snap, k) = [q \in Keys |-> Standing(q)][k]
      BY <2>3 DEF Board!Settled
    <3> QED BY <3>1, <3>2, <3>3, <3>4
  <2> QED BY <2>1, <2>2, <2>3
<1>3. Keys = Board!Keys
  BY DEF Keys, Board!Keys
<1>4. [k \in Keys |-> Standing(k)'] = [k \in Keys |-> Board!Settled(cfg, m, snap, k)]
  BY <1>2
<1> QED BY <1>1, <1>3, <1>4 DEF Board!Examine

LEMMA BoardInitially == Init => Board!Init
<1> SUFFICES ASSUME Init PROVE Board!Init
  OBVIOUS
<1>1. \A k \in Keys : Standing(k) = "none"
  BY DEF Init, Standing
<1> QED BY <1>1 DEF Init, Board!Init, Board!Keys, Keys

LEMMA BoardSteps ==
  AlertsInv /\ AlertsInv' /\ [Next]_vars
    => [Board!Next]_<<cfg, [k \in Keys |-> Standing(k)]>>
<1> SUFFICES ASSUME AlertsInv, AlertsInv', [Next]_vars
             PROVE  [Board!Next]_<<cfg, [k \in Keys |-> Standing(k)]>>
  OBVIOUS
<1> DEFINE Same == \A k : Standing(k)' = Standing(k)
<1>1. CASE SetAlert \/ ClearAlert
  <2>1. Same
    BY <1>1, SettledAlready
  <2>2. cfg' = cfg
    BY <1>1 DEF SetAlert, ClearAlert, inVars
  <2> QED BY <2>1, <2>2
<1>2. ASSUME NEW m \in Metrics, Check(m)
      PROVE  Board!Next
  BY <1>2, CheckExamines DEF Board!Next
<1>3. UNCHANGED <<work, active>> => Same
  BY StandingBoth
<1>4. CASE Reload
  <2>1. Same /\ cfg' \in Configs
    BY <1>3, <1>4 DEF Reload
  <2> QED BY <2>1 DEF Board!Next, Board!Reload
<1>5. CASE Stop \/ UNCHANGED vars \/ \E m \in Metrics : Arrive(m)
  <2>1. Same /\ cfg' = cfg
    BY <1>3, <1>5 DEF Stop, Arrive, vars, inVars
  <2> QED BY <2>1
<1> QED BY <1>1, <1>2, <1>4, <1>5 DEF Next, Monitor

-----------------------------------------------------------------------------
(* The theorems.                                                           *)

\* For any metrics, parts, rules, bounds and capacities the monitor keeps its
\* state, and what it publishes, of their types, and sends no more than out
\* has room for (alerts.go:316).
THEOREM AlertsTyped == Spec => []TypeOK
<1>1. AlertsInv => TypeOK
  BY DEF AlertsInv
<1> QED BY <1>1, AlertsInvariant, PTL

\* However the bound changes with Reload, in both directions and through zero:
\* the history is the newest alerts, newest first, none missing and none twice,
\* no more than some configuration asks for (alerts.go:286).
THEOREM HistoryIsRecent == Spec => []RecentHistory
<1>1. AlertsInv => RecentHistory
  BY DEF AlertsInv
<1> QED BY <1>1, AlertsInvariant, PTL

\* In the state and in every snapshot that waits to be read, an active alert is
\* in the history or has been pushed out of it by newer ones, and no key has
\* two alerts (alerts.go:293).
THEOREM AlertsExplained == Spec => []ActiveExplained
<1>1. AlertsInv => ActiveExplained
  BY DEF AlertsInv
<1> QED BY <1>1, AlertsInvariant, PTL

\* The monitor is the board: however the steps of a check and Reload fall,
\* each snapshot settles, as a whole and with the configuration its check took
\* a copy of, all that it and the custom rules name, and nothing else moves
\* (alerts.go:133).
THEOREM MonitorIsBoard == Spec => ImplementsBoard
<1>1. Spec => []AlertsInv
  BY AlertsInvariant
<1> QED BY <1>1, BoardInitially, BoardSteps, PTL DEF Spec, ImplementsBoard, Board!Spec
=============================================================================
