---------------------------- MODULE MachineProofs ----------------------------
(***************************************************************************)
(* Properties of the parts of Machine, for every value of the constants.   *)
(*                                                                         *)
(* Each part has an invariant of its own, which its initial states have    *)
(* and its steps keep (XInductive, or XInitially and XSteps); a step of    *)
(* Machine is one of each part, or leaves that part alone (PartSteps).     *)
(***************************************************************************)
EXTENDS Machine, ListsProofs

LEMMA PartStarts ==
  Init => /\ EnginesInit /\ CountersInit /\ TreeInit /\ AuditInit
          /\ InitBackendsInit /\ HostInit /\ ScreenInit
BY DEF Init

LEMMA PartSteps ==
  [Next]_vars => /\ [EnginesNext]_engineVars
                 /\ [CountersNext]_countersVars
                 /\ [TreeNext]_treeVars
                 /\ [AuditNext]_auditVars
                 /\ [InitBackendsNext]_initVars
                 /\ [HostNext]_hostVars
                 /\ [ScreenNext]_screenVars
BY DEF Next, vars, Firewall, Counting, Processes, Auditing, InitSystems, Detecting, Displaying
-----------------------------------------------------------------------------
(* Counters for words of any width and any finite sets of objects.         *)
(*                                                                         *)
(* RateIsGrowth is not inductive: it speaks of the objects there are now,  *)
(* and the keys of prev are those of the objects there were at the latest  *)
(* sample.  SinceSample says that there was such a set of objects, and how *)
(* each object of it that is still counted has grown.  For cpu, where an   *)
(* object's key is its place among the others, an object keeps its key     *)
(* only if the set is the same.                                            *)

\* The key of o where the objects are those of S.
KeyIn(S, o) == IF kind = "cpu" THEN Cardinality({p \in S : p <= o}) ELSE o

GrownSince(S) ==
  /\ DOMAIN grown \subseteq S
  /\ DOMAIN prev = {KeyIn(S, o) : o \in S}
  /\ \A o \in DOMAIN grown :
       /\ grown[o] \in [first : 0 .. MaxGrowth, second : 0 .. MaxGrowth]
       /\ world[o].first = Plus(prev[KeyIn(S, o)].first, grown[o].first)
       /\ world[o].second = Plus(prev[KeyIn(S, o)].second, grown[o].second)

SinceSample == \E S \in SUBSET Objects[kind] : GrownSince(S)

CountersInv == CountersTypeOK /\ SinceSample
-----------------------------------------------------------------------------
(* Words.                                                                  *)

LEMMA WordFacts ==
  /\ Modulus \in Nat \ {0}
  /\ MaxGrowth \in Nat /\ 2 * MaxGrowth < Modulus
BY CountersAssumption

\* Adding a word, and taking it away again, wrap at most once.
LEMMA PlusWraps ==
  ASSUME NEW a \in Words, NEW b \in Words
  PROVE  Plus(a, b) = (IF a + b < Modulus THEN a + b ELSE a + b - Modulus)
BY WordFacts DEF Plus, Words

LEMMA LessWraps ==
  ASSUME NEW a \in Words, NEW b \in Words
  PROVE  Less(a, b) = (IF a < b THEN a - b + Modulus ELSE a - b)
BY WordFacts DEF Less, Words

LEMMA WordTypes ==
  ASSUME NEW a \in Words, NEW b \in Words
  PROVE  Plus(a, b) \in Words /\ Less(a, b) \in Words
<1>1. Plus(a, b) \in Words
  BY PlusWraps, WordFacts DEF Words
<1>2. Less(a, b) \in Words
  BY LessWraps, WordFacts DEF Words
<1> QED BY <1>1, <1>2

\* A difference of words is the growth, also across a wrap.
LEMMA LessOfPlus ==
  ASSUME NEW a \in Words, NEW d \in Words
  PROVE  Less(Plus(a, d), a) = d
<1>1. Plus(a, d) \in Words
  BY WordTypes
<1>2. Less(Plus(a, d), a) =
        (IF Plus(a, d) < a THEN Plus(a, d) - a + Modulus ELSE Plus(a, d) - a)
  BY <1>1, LessWraps
<1> QED BY <1>2, PlusWraps, WordFacts DEF Words

\* One more in the growth is one more in the counter.
LEMMA PlusOnce ==
  ASSUME NEW a \in Words, NEW n \in Words, NEW d \in {0, 1}, n + d \in Words
  PROVE  Plus(Plus(a, n), d) = Plus(a, n + d)
<1>1. CASE d \in Words
  <2>1. Plus(a, n) \in Words
    BY WordTypes
  <2>2. /\ Plus(Plus(a, n), d) =
             (IF Plus(a, n) + d < Modulus THEN Plus(a, n) + d ELSE Plus(a, n) + d - Modulus)
        /\ Plus(a, n) = (IF a + n < Modulus THEN a + n ELSE a + n - Modulus)
        /\ Plus(a, n + d) =
             (IF a + (n + d) < Modulus THEN a + (n + d) ELSE a + (n + d) - Modulus)
    BY <1>1, <2>1, PlusWraps
  <2> QED BY <2>2, WordFacts DEF Words
<1>2. d \in Words
  BY WordFacts DEF Words
<1> QED BY <1>1, <1>2

\* What two counters grow together is the growth of their sum.
LEMMA SumGrowth ==
  ASSUME NEW a \in Words, NEW b \in Words, NEW m \in Words, NEW n \in Words,
         m + n \in Words
  PROVE  Less(Plus(Plus(a, m), Plus(b, n)), Plus(a, b)) = m + n
<1>1. /\ Plus(a, m) \in Words /\ Plus(b, n) \in Words /\ Plus(a, b) \in Words
  BY WordTypes
<1>2. Plus(Plus(a, m), Plus(b, n)) = Plus(Plus(a, b), m + n)
  <2>1. Plus(a, m) = (IF a + m < Modulus THEN a + m ELSE a + m - Modulus)
    BY PlusWraps
  <2>2. Plus(b, n) = (IF b + n < Modulus THEN b + n ELSE b + n - Modulus)
    BY PlusWraps
  <2>3. Plus(a, b) = (IF a + b < Modulus THEN a + b ELSE a + b - Modulus)
    BY PlusWraps
  <2>4. Plus(Plus(a, m), Plus(b, n)) =
          (IF Plus(a, m) + Plus(b, n) < Modulus THEN Plus(a, m) + Plus(b, n)
           ELSE Plus(a, m) + Plus(b, n) - Modulus)
    BY <1>1, PlusWraps
  <2>5. Plus(Plus(a, b), m + n) =
          (IF Plus(a, b) + (m + n) < Modulus THEN Plus(a, b) + (m + n)
           ELSE Plus(a, b) + (m + n) - Modulus)
    BY <1>1, PlusWraps
  <2> QED BY <2>1, <2>2, <2>3, <2>4, <2>5, WordFacts DEF Words
<1> QED BY <1>1, <1>2, LessOfPlus
-----------------------------------------------------------------------------
(* Keys.                                                                   *)

LEMMA ObjectsFinite ==
  ASSUME kind \in Kinds, NEW S \in SUBSET Objects[kind]
  PROVE  IsFiniteSet(S) /\ S \subseteq Nat
<1>1. Objects[kind] \subseteq Nat /\ IsFiniteSet(Objects[kind])
  BY CountersAssumption
<1> QED BY <1>1, FS_Subset

\* No two objects of a set have one key in it.
LEMMA KeyInjective ==
  ASSUME NEW S \in SUBSET Nat, IsFiniteSet(S), NEW o \in S, NEW p \in S,
         KeyIn(S, o) = KeyIn(S, p)
  PROVE  o = p
<1>1. CASE kind = "cpu"
  <2>1. ASSUME NEW a \in S, NEW b \in S, a < b PROVE KeyIn(S, a) # KeyIn(S, b)
    <3> DEFINE A == {q \in S : q <= a}
    <3> DEFINE B == {q \in S : q <= b}
    <3>0. a \in Nat /\ b \in Nat /\ \A q \in S : q \in Nat
      OBVIOUS
    <3>1. A \in SUBSET B /\ b \in B /\ b \notin A
      <4>1. \A q \in S : q <= a => q <= b
        BY <2>1, <3>0
      <4>2. b <= b /\ ~(b <= a)
        BY <2>1, <3>0
      <4> QED BY <4>1, <4>2
    <3>2. IsFiniteSet(B)
      BY FS_Subset
    <3>3. Cardinality(B) # Cardinality(A)
      <4> HIDE DEF A, B
      <4> QED BY <3>1, <3>2, FS_Subset
    <3> QED BY <1>1, <3>3 DEF KeyIn
  <2> QED BY <2>1
<1>2. CASE kind # "cpu"
  BY <1>2 DEF KeyIn
<1> QED BY <1>1, <1>2

\* Sets with the same keys have the same number of objects.
LEMMA SameKeysSameSize ==
  ASSUME NEW S \in SUBSET Nat, IsFiniteSet(S),
         NEW T \in SUBSET Nat, IsFiniteSet(T),
         {KeyIn(S, o) : o \in S} = {KeyIn(T, o) : o \in T}
  PROVE  Cardinality(S) = Cardinality(T)
<1>1. ASSUME NEW U \in SUBSET Nat, IsFiniteSet(U)
      PROVE  Cardinality({KeyIn(U, o) : o \in U}) = Cardinality(U)
  <2> DEFINE V == {KeyIn(U, o) : o \in U}
  <2> DEFINE f == [o \in U |-> KeyIn(U, o)]
  <2>1. f \in [U -> V] /\ \A v \in V : \E o \in U : f[o] = v
    OBVIOUS
  <2>2. \A o, p \in U : f[o] = f[p] => o = p
    BY <1>1, KeyInjective
  <2>3. f \in Bijection(U, V)
    BY <2>1, <2>2 DEF Bijection, Injection, Surjection, IsInjective
  <2>4. ExistsBijection(U, V)
    BY <2>3 DEF ExistsBijection
  <2> QED BY <1>1, <2>4, FS_Bijection
<1> QED BY <1>1

\* A key of the present is that of one object, whose reading it has.
LEMMA KeyOfPresent ==
  /\ \A o : Key(o) = KeyIn(DOMAIN world, o)
  /\ CountersTypeOK =>
       /\ Keys = {KeyIn(DOMAIN world, o) : o \in DOMAIN world}
       /\ \A o \in DOMAIN world : Key(o) \in Keys /\ Reading[Key(o)] = world[o]
<1>1. \A o : Key(o) = KeyIn(DOMAIN world, o)
  BY DEF Key, KeyIn
<1>2. ASSUME CountersTypeOK, NEW o \in DOMAIN world
      PROVE  Key(o) \in Keys /\ Reading[Key(o)] = world[o]
  <2> DEFINE p == CHOOSE q \in DOMAIN world : Key(q) = Key(o)
  <2>1. p \in DOMAIN world /\ Key(p) = Key(o)
    OBVIOUS
  <2>2. IsFiniteSet(DOMAIN world) /\ DOMAIN world \in SUBSET Nat
    BY <1>2, ObjectsFinite DEF CountersTypeOK
  <2>3. p = o
    <3> HIDE DEF p
    <3> QED BY <1>1, <2>1, <2>2, KeyInjective
  <2>4. Key(o) \in Keys
    BY DEF Keys
  <2> QED BY <2>3, <2>4 DEF Reading
<1> QED BY <1>1, <1>2 DEF Keys

\* An object that has stayed is kept under the key it had at the sample.
LEMMA StayedKey ==
  ASSUME CountersTypeOK, NEW S \in SUBSET Objects[kind], GrownSince(S), NEW o \in Stayed
  PROVE  o \in DOMAIN grown /\ Key(o) = KeyIn(S, o)
<1>1. CASE kind # "cpu"
  BY <1>1 DEF Stayed, Key, KeyIn
<1>2. CASE kind = "cpu"
  <2>1. DOMAIN grown = DOMAIN world /\ DOMAIN prev = Keys /\ o \in DOMAIN world
    BY <1>2 DEF Stayed
  <2>2. /\ IsFiniteSet(S) /\ S \in SUBSET Nat
        /\ IsFiniteSet(DOMAIN world) /\ DOMAIN world \in SUBSET Nat
    BY ObjectsFinite DEF CountersTypeOK
  <2>3. {KeyIn(S, p) : p \in S} = {KeyIn(DOMAIN world, p) : p \in DOMAIN world}
    BY <2>1, KeyOfPresent DEF GrownSince
  <2>4. Cardinality(S) = Cardinality(DOMAIN world)
    BY <2>2, <2>3, SameKeysSameSize
  <2>5. DOMAIN world \in SUBSET S
    BY <2>1 DEF GrownSince
  <2>6. S = DOMAIN world
    BY <2>2, <2>4, <2>5, FS_Subset
  <2> QED BY <2>1, <2>6, KeyOfPresent
<1> QED BY <1>1, <1>2
-----------------------------------------------------------------------------
(* The properties from the invariant.                                      *)

LEMMA GrowthFromInv == CountersInv => RateIsGrowth
<1> SUFFICES ASSUME CountersInv, NEW o \in Stayed
    PROVE LET was == prev[Key(o)]
              done == grown[o].first + grown[o].second
          IN  CASE kind = "cpu" ->
                     Percent(was, world[o]) =
                       IF done = 0 THEN 0 ELSE (100 * grown[o].first) \div done
                [] kind = "process io" ->
                     Guarded(was, world[o]) \in {grown[o], [first |-> 0, second |-> 0]}
                [] OTHER -> Difference(was, world[o]) = grown[o]
  BY Zenon DEF RateIsGrowth
<1> DEFINE was == prev[Key(o)]
<1> DEFINE is == world[o]
<1> DEFINE d == grown[o]
<1>1. PICK S \in SUBSET Objects[kind] : GrownSince(S)
  BY DEF CountersInv, SinceSample
<1>2. o \in DOMAIN grown /\ Key(o) = KeyIn(S, o)
  BY <1>1, StayedKey DEF CountersInv
<1>3. /\ d \in [first : 0 .. MaxGrowth, second : 0 .. MaxGrowth]
      /\ is.first = Plus(was.first, d.first) /\ is.second = Plus(was.second, d.second)
      /\ was \in Readings /\ is \in Readings
  BY <1>1, <1>2 DEF GrownSince, CountersInv, CountersTypeOK
<1> HIDE DEF was, is, d
<1>4. /\ was.first \in Words /\ was.second \in Words
      /\ d.first \in Words /\ d.second \in Words /\ d.first + d.second \in Words
      /\ d.first \in Nat /\ d.second \in Nat
  BY <1>3, WordFacts DEF Readings, Words
<1>5. Less(is.first, was.first) = d.first /\ Less(is.second, was.second) = d.second
  BY <1>3, <1>4, LessOfPlus
<1>6. d = [first |-> d.first, second |-> d.second]
  BY <1>3
<1>7. Difference(was, is) = d
  BY <1>5, <1>6 DEF Difference
<1>8. Guarded(was, is) \in {d, [first |-> 0, second |-> 0]}
  BY <1>7 DEF Guarded
<1>9. Less(Plus(is.first, is.second), Plus(was.first, was.second)) = d.first + d.second
  BY <1>3, <1>4, SumGrowth
<1>10. Percent(was, is) = IF d.first + d.second = 0 THEN 0
                          ELSE (100 * d.first) \div (d.first + d.second)
  <2> DEFINE done == d.first + d.second
  <2>1. CASE done = 0
    BY <1>9, <2>1 DEF Percent
  <2>2. CASE done # 0
    <3>1. (100 * d.first) \div done <= 100 /\ (100 * d.first) \div done \in Nat
      BY <1>4, <2>2
    <3>2. Percent(was, is) = IF (100 * d.first) \div done > 100 THEN 100
                             ELSE (100 * d.first) \div done
      BY <1>5, <1>9, <2>2 DEF Percent
    <3> QED BY <2>2, <3>1, <3>2
  <2> QED BY <2>1, <2>2
<1> QED BY <1>7, <1>8, <1>10 DEF was, is, d
-----------------------------------------------------------------------------
(* The invariant.                                                          *)

LEMMA CountersInitially == CountersInit => CountersInv
<1> SUFFICES ASSUME CountersInit PROVE CountersInv
  OBVIOUS
<1>1. CountersTypeOK
  BY DEF CountersInit, CountersTypeOK, NoReadings
<1>2. GrownSince({})
  BY DEF CountersInit, GrownSince, NoReadings
<1> QED BY <1>1, <1>2 DEF CountersInv, SinceSample

\* A step that changes no kept object keeps the history, or takes some of it away.
LEMMA HistoryShrinks ==
  ASSUME NEW S, GrownSince(S), kind' = kind, prev' = prev,
         DOMAIN grown' \subseteq DOMAIN grown,
         \A o \in DOMAIN grown' : grown'[o] = grown[o] /\ world'[o] = world[o]
  PROVE  GrownSince(S)'
<1>1. \A o : KeyIn(S, o)' = KeyIn(S, o)
  BY DEF KeyIn
<1> QED BY <1>1 DEF GrownSince

LEMMA GrowKeeps == CountersInv /\ Grow => CountersInv'
<1> SUFFICES ASSUME CountersInv, Grow PROVE CountersInv'
  OBVIOUS
<1>1. PICK o \in DOMAIN world \cap DOMAIN grown, d \in Readings :
        /\ d \in {[first |-> 1, second |-> 0], [first |-> 0, second |-> 1]}
        /\ grown[o].first + d.first <= MaxGrowth /\ grown[o].second + d.second <= MaxGrowth
        /\ world' = [world EXCEPT ![o] = [first |-> Plus(@.first, d.first),
                                          second |-> Plus(@.second, d.second)]]
        /\ grown' = [grown EXCEPT ![o] = [first |-> @.first + d.first,
                                          second |-> @.second + d.second]]
        /\ UNCHANGED <<kind, prev>>
  BY DEF Grow
<1>2. /\ world'[o] = [first |-> Plus(world[o].first, d.first),
                      second |-> Plus(world[o].second, d.second)]
      /\ grown'[o] = [first |-> grown[o].first + d.first,
                      second |-> grown[o].second + d.second]
      /\ DOMAIN world' = DOMAIN world /\ DOMAIN grown' = DOMAIN grown
      /\ \A p \in DOMAIN world \ {o} : world'[p] = world[p]
      /\ \A p \in DOMAIN grown \ {o} : grown'[p] = grown[p]
  BY <1>1
<1>3. CountersTypeOK'
  <2>1. world'[o] \in Readings
    BY <1>1, <1>2, WordTypes DEF CountersInv, CountersTypeOK, Readings
  <2> QED BY <1>1, <1>2, <2>1 DEF CountersInv, CountersTypeOK
<1>4. PICK S \in SUBSET Objects[kind] : GrownSince(S)
  BY DEF CountersInv, SinceSample
<1> DEFINE k == KeyIn(S, o)
<1>5. /\ grown[o] \in [first : 0 .. MaxGrowth, second : 0 .. MaxGrowth]
      /\ world[o].first = Plus(prev[k].first, grown[o].first)
      /\ world[o].second = Plus(prev[k].second, grown[o].second)
      /\ prev[k] \in Readings
  BY <1>4 DEF GrownSince, CountersInv, CountersTypeOK
<1>6. /\ d.first \in {0, 1} /\ d.second \in {0, 1}
      /\ grown[o].first + d.first \in 0 .. MaxGrowth
      /\ grown[o].second + d.second \in 0 .. MaxGrowth
  BY <1>1, <1>5, WordFacts
<1>7. /\ grown'[o] \in [first : 0 .. MaxGrowth, second : 0 .. MaxGrowth]
      /\ world'[o].first = Plus(prev[k].first, grown'[o].first)
      /\ world'[o].second = Plus(prev[k].second, grown'[o].second)
  <2>1. /\ grown[o].first \in Words /\ grown[o].second \in Words
        /\ grown[o].first + d.first \in Words /\ grown[o].second + d.second \in Words
        /\ prev[k].first \in Words /\ prev[k].second \in Words
    BY <1>5, <1>6, WordFacts DEF Words, Readings
  <2>2. /\ Plus(world[o].first, d.first) = Plus(prev[k].first, grown[o].first + d.first)
        /\ Plus(world[o].second, d.second) = Plus(prev[k].second, grown[o].second + d.second)
    BY <1>5, <1>6, <2>1, PlusOnce
  <2> QED BY <1>2, <1>6, <2>2
<1>8. GrownSince(S)'
  <2>1. \A p : KeyIn(S, p)' = KeyIn(S, p)
    BY <1>1 DEF KeyIn
  <2>2. \A p \in DOMAIN grown \ {o} : p \in DOMAIN world
    BY DEF CountersInv, CountersTypeOK
  <2> QED BY <1>1, <1>2, <1>4, <1>7, <2>1, <2>2 DEF GrownSince
<1> QED BY <1>1, <1>3, <1>4, <1>8 DEF CountersInv, SinceSample

LEMMA VanishKeeps == CountersInv /\ Vanish => CountersInv'
<1> SUFFICES ASSUME CountersInv, Vanish PROVE CountersInv'
  OBVIOUS
<1>1. PICK o \in DOMAIN world :
        /\ world' = Restrict(world, DOMAIN world \ {o})
        /\ grown' = Restrict(grown, DOMAIN grown \ {o})
        /\ UNCHANGED <<kind, prev>>
  BY DEF Vanish
<1>2. CountersTypeOK'
  BY <1>1 DEF CountersInv, CountersTypeOK, Restrict
<1>3. PICK S \in SUBSET Objects[kind] : GrownSince(S)
  BY DEF CountersInv, SinceSample
<1>4. /\ DOMAIN grown' \subseteq DOMAIN grown
      /\ \A p \in DOMAIN grown' : grown'[p] = grown[p] /\ world'[p] = world[p]
  BY <1>1 DEF CountersInv, CountersTypeOK, Restrict
<1>5. GrownSince(S)'
  BY <1>1, <1>3, <1>4, HistoryShrinks
<1> QED BY <1>1, <1>2, <1>3, <1>5 DEF CountersInv, SinceSample

LEMMA AppearKeeps == CountersInv /\ Appear => CountersInv'
<1> SUFFICES ASSUME CountersInv, Appear PROVE CountersInv'
  OBVIOUS
<1>1. PICK o \in Objects[kind] \ DOMAIN world, r \in Readings :
        /\ world' = [p \in DOMAIN world \union {o} |-> IF p = o THEN r ELSE world[p]]
        /\ UNCHANGED <<kind, prev, grown>>
  BY DEF Appear
<1>2. CountersTypeOK'
  BY <1>1 DEF CountersInv, CountersTypeOK
<1>3. PICK S \in SUBSET Objects[kind] : GrownSince(S)
  BY DEF CountersInv, SinceSample
<1>4. /\ DOMAIN grown' \subseteq DOMAIN grown
      /\ \A p \in DOMAIN grown' : grown'[p] = grown[p] /\ world'[p] = world[p]
  BY <1>1 DEF CountersInv, CountersTypeOK, Restrict
<1>5. GrownSince(S)'
  BY <1>1, <1>3, <1>4, HistoryShrinks
<1> QED BY <1>1, <1>2, <1>3, <1>5 DEF CountersInv, SinceSample

LEMMA GoBackKeeps == CountersInv /\ GoBack => CountersInv'
<1> SUFFICES ASSUME CountersInv, GoBack PROVE CountersInv'
  OBVIOUS
<1>1. PICK o \in DOMAIN world :
        /\ world[o].second > 0
        /\ world' = [world EXCEPT ![o].second = @ - 1]
        /\ grown' = Restrict(grown, DOMAIN grown \ {o})
        /\ UNCHANGED <<kind, prev>>
  BY DEF GoBack
<1>2. CountersTypeOK'
  <2>1. world[o] \in Readings
    BY DEF CountersInv, CountersTypeOK
  <2>2. world[o].second - 1 \in Words
    BY <1>1, <2>1, WordFacts DEF Readings, Words
  <2>3. world'[o] = [world[o] EXCEPT !.second = @ - 1]
    BY <1>1
  <2>4. world'[o] \in Readings
    BY <2>1, <2>2, <2>3 DEF Readings
  <2> QED BY <1>1, <2>4 DEF CountersInv, CountersTypeOK, Restrict
<1>3. PICK S \in SUBSET Objects[kind] : GrownSince(S)
  BY DEF CountersInv, SinceSample
<1>4. /\ DOMAIN grown' \subseteq DOMAIN grown
      /\ \A p \in DOMAIN grown' : grown'[p] = grown[p] /\ world'[p] = world[p]
  BY <1>1 DEF CountersInv, CountersTypeOK, Restrict
<1>5. GrownSince(S)'
  BY <1>1, <1>3, <1>4, HistoryShrinks
<1> QED BY <1>1, <1>2, <1>3, <1>5 DEF CountersInv, SinceSample

\* A collect starts a new history, of the objects there are.
LEMMA SampleKeepsInv == CountersInv /\ Sample => CountersInv'
<1> SUFFICES ASSUME CountersInv, Sample PROVE CountersInv'
  OBVIOUS
<1> DEFINE S == DOMAIN world
<1>1. /\ prev' = Reading /\ world' = world /\ kind' = kind
      /\ grown' = [o \in S |-> [first |-> 0, second |-> 0]]
  BY DEF Sample
<1>2. /\ S \in SUBSET Objects[kind] /\ \A o \in S : world[o] \in Readings
      /\ DOMAIN Reading = {KeyIn(S, o) : o \in S}
      /\ \A o \in S : Reading[KeyIn(S, o)] = world[o]
  BY KeyOfPresent DEF CountersInv, CountersTypeOK, Reading
<1>3. CountersTypeOK'
  BY <1>1, <1>2 DEF CountersInv, CountersTypeOK
<1>4. GrownSince(S)'
  <2>1. \A o : KeyIn(S, o)' = KeyIn(S, o)
    BY <1>1 DEF KeyIn
  <2>2. \A w \in Words : Plus(w, 0) = w
    BY WordFacts DEF Plus, Words
  <2>3. \A o \in S : world[o].first \in Words /\ world[o].second \in Words
    BY <1>2 DEF Readings
  <2> QED BY <1>1, <1>2, <2>1, <2>2, <2>3, WordFacts DEF GrownSince
<1> QED BY <1>1, <1>2, <1>3, <1>4 DEF CountersInv, SinceSample

\* Initially, and in every step of CountersNext.
LEMMA CountersInductive ==
  /\ CountersInit => CountersInv
  /\ CountersInv /\ [CountersNext]_countersVars => CountersInv'
<1>1. ASSUME CountersInv, UNCHANGED countersVars PROVE CountersInv'
  <2>1. /\ kind' = kind /\ world' = world /\ prev' = prev /\ grown' = grown
    BY <1>1 DEF countersVars
  <2>2. PICK S \in SUBSET Objects[kind] : GrownSince(S)
    BY <1>1 DEF CountersInv, SinceSample
  <2>3. GrownSince(S)'
    BY <2>1, <2>2, HistoryShrinks
  <2>4. CountersTypeOK'
    BY <1>1, <2>1 DEF CountersInv, CountersTypeOK
  <2> QED BY <2>1, <2>2, <2>3, <2>4 DEF CountersInv, SinceSample
<1> QED BY <1>1, CountersInitially, GrowKeeps, VanishKeeps, AppearKeeps, GoBackKeeps,
           SampleKeepsInv DEF CountersNext
-----------------------------------------------------------------------------
(* The process tree.  That no parents form a circle is a property of the   *)
(* processes there are and of what was read of them together: a process    *)
(* read before its parent exited has a parent that is gone, but none of    *)
(* its descendants, since whoever is listed was there when the scan began. *)

Listed == entries \union DOMAIN procs

TreeInv ==
  /\ TreeTypeOK
  /\ alive[1] = 0
  /\ \A p \in DOMAIN alive : alive[p] \in DOMAIN alive \union {0}
  /\ \A C \in SUBSET DOMAIN alive : C # {} => \E p \in C : alive[p] \notin C
  /\ ~reused =>
       /\ 1 \in Listed /\ (1 \in DOMAIN procs => procs[1] = 0)
       /\ \A p \in Listed \cap DOMAIN alive : alive[p] \in Listed \union {0}
       /\ \A C \in SUBSET Listed : C # {} =>
            \E p \in C : /\ p \in DOMAIN alive => alive[p] \notin C
                         /\ p \in DOMAIN procs => procs[p] \notin C

LEMMA TreeInitially == TreeInit => TreeInv
<1> SUFFICES ASSUME TreeInit PROVE TreeInv
  OBVIOUS
<1> USE TreeAssumption
<1>1. DOMAIN alive = {1} /\ alive[1] = 0 /\ entries = {} /\ procs = alive /\ 0 \notin Pids /\ 0 # 1
  BY DEF TreeInit
<1>2. Listed = {1}
  BY <1>1 DEF Listed
<1>3. \A C \in SUBSET {1} : C # {} => 1 \in C /\ 0 \notin C
  OBVIOUS
<1> QED BY <1>1, <1>2, <1>3 DEF TreeInv, TreeTypeOK

LEMMA ForkKeeps == TreeInv /\ Fork => TreeInv'
<1> SUFFICES ASSUME TreeInv, Fork PROVE TreeInv'
  OBVIOUS
<1> USE TreeAssumption
<1>1. PICK p \in DOMAIN alive : \E child \in Pids \ DOMAIN alive :
        /\ alive' = [q \in DOMAIN alive \union {child} |-> IF q = child THEN p ELSE alive[q]]
        /\ reused' = (reused \/ child \in entries \union DOMAIN procs)
        /\ UNCHANGED <<entries, procs>>
  BY DEF Fork
<1>2. PICK child \in Pids \ DOMAIN alive :
        /\ alive' = [q \in DOMAIN alive \union {child} |-> IF q = child THEN p ELSE alive[q]]
        /\ reused' = (reused \/ child \in entries \union DOMAIN procs)
        /\ UNCHANGED <<entries, procs>>
  BY <1>1
<1>3. DOMAIN alive' = DOMAIN alive \union {child} /\ alive'[child] = p
      /\ (\A q \in DOMAIN alive : alive'[q] = alive[q])
      /\ entries' = entries /\ procs' = procs
  BY <1>2
<1>4. 1 \in DOMAIN alive /\ child # 1 /\ child # 0 /\ p # child /\ child \notin DOMAIN alive
  BY <1>2 DEF TreeInv, TreeTypeOK
<1>5. TreeTypeOK'
  BY <1>2, <1>3 DEF TreeInv, TreeTypeOK
<1>6. alive'[1] = 0 /\ \A q \in DOMAIN alive' : alive'[q] \in DOMAIN alive' \union {0}
  BY <1>3, <1>4 DEF TreeInv
<1>7. ASSUME NEW C \in SUBSET DOMAIN alive', C # {} PROVE \E q \in C : alive'[q] \notin C
  <2> DEFINE B == C \ {child}
  <2>1. CASE B = {}
    BY <1>3, <1>4, <1>7, <2>1
  <2>2. CASE B # {}
    <3>1. B \in SUBSET DOMAIN alive
      BY <1>3
    <3>2. PICK q \in B : alive[q] \notin B
      BY <2>2, <3>1 DEF TreeInv
    <3>3. alive[q] # child
      BY <1>4, <3>1 DEF TreeInv
    <3> QED BY <1>3, <3>1, <3>2, <3>3
  <2> QED BY <2>1, <2>2
<1>8. Listed' = Listed
  BY <1>3 DEF Listed
<1>9. ASSUME ~reused'
      PROVE  ~reused /\ child \notin Listed
  BY <1>2, <1>9 DEF Listed
<1>10. ASSUME ~reused'
       PROVE  \A q \in Listed' \cap DOMAIN alive' : q \in Listed \cap DOMAIN alive /\ alive'[q] = alive[q]
  BY <1>3, <1>8, <1>9, <1>10
<1>11. ASSUME ~reused'
       PROVE  /\ 1 \in Listed' /\ (1 \in DOMAIN procs' => procs'[1] = 0)
              /\ \A q \in Listed' \cap DOMAIN alive' : alive'[q] \in Listed' \union {0}
  BY <1>3, <1>8, <1>9, <1>10, <1>11 DEF TreeInv
<1>12. ASSUME ~reused', NEW C \in SUBSET Listed', C # {}
       PROVE  \E q \in C : /\ q \in DOMAIN alive' => alive'[q] \notin C
                           /\ q \in DOMAIN procs' => procs'[q] \notin C
  <2>1. PICK q \in C : /\ q \in DOMAIN alive => alive[q] \notin C
                       /\ q \in DOMAIN procs => procs[q] \notin C
    BY <1>8, <1>9, <1>12 DEF TreeInv
  <2> QED BY <1>3, <1>10, <1>12, <2>1
<1> QED BY <1>5, <1>6, <1>7, <1>11, <1>12 DEF TreeInv

LEMMA LeaveKeeps == TreeInv /\ Leave => TreeInv'
<1> SUFFICES ASSUME TreeInv, Leave PROVE TreeInv'
  OBVIOUS
<1> USE TreeAssumption
<1>1. PICK p \in DOMAIN alive \ {1} :
        /\ alive' = [q \in DOMAIN alive \ {p} |-> IF alive[q] = p THEN 1 ELSE alive[q]]
        /\ UNCHANGED <<entries, procs, reused>>
  BY DEF Leave
<1>2. /\ DOMAIN alive' = DOMAIN alive \ {p}
      /\ \A q \in DOMAIN alive' : /\ q \in DOMAIN alive
                                  /\ alive'[q] = IF alive[q] = p THEN 1 ELSE alive[q]
      /\ entries' = entries /\ procs' = procs /\ reused' = reused
  BY <1>1
<1>3. p # 0 /\ p # 1 /\ 1 \in DOMAIN alive /\ 1 \in DOMAIN alive'
  BY <1>1, <1>2 DEF TreeInv, TreeTypeOK
<1>4. TreeTypeOK'
  BY <1>2, <1>3 DEF TreeInv, TreeTypeOK
<1>5. alive'[1] = 0 /\ \A q \in DOMAIN alive' : alive'[q] \in DOMAIN alive' \union {0}
  BY <1>2, <1>3 DEF TreeInv
<1>6. ASSUME NEW C \in SUBSET DOMAIN alive', C # {} PROVE \E q \in C : alive'[q] \notin C
  <2>1. CASE 1 \in C
    <3>1. 0 \notin C
      BY <1>4 DEF TreeTypeOK
    <3> QED BY <1>5, <2>1, <3>1
  <2>2. CASE 1 \notin C
    <3>1. PICK q \in C : alive[q] \notin C
      BY <1>2, <1>6 DEF TreeInv
    <3> QED BY <1>2, <2>2, <3>1
  <2> QED BY <2>1, <2>2
<1>7. Listed' = Listed
  BY <1>2 DEF Listed
<1>8. ASSUME ~reused'
      PROVE  /\ 1 \in Listed' /\ (1 \in DOMAIN procs' => procs'[1] = 0)
             /\ \A q \in Listed' \cap DOMAIN alive' : alive'[q] \in Listed' \union {0}
  BY <1>2, <1>7, <1>8 DEF TreeInv
<1>9. ASSUME ~reused', NEW C \in SUBSET Listed', C # {}
      PROVE  \E q \in C : /\ q \in DOMAIN alive' => alive'[q] \notin C
                          /\ q \in DOMAIN procs' => procs'[q] \notin C
  <2>1. CASE 1 \in C
    <3>1. 0 \notin C
      BY <1>4, <1>9 DEF TreeTypeOK, Listed
    <3> QED BY <1>5, <1>8, <1>9, <2>1, <3>1
  <2>2. CASE 1 \notin C
    <3>1. PICK q \in C : /\ q \in DOMAIN alive => alive[q] \notin C
                         /\ q \in DOMAIN procs => procs[q] \notin C
      BY <1>2, <1>7, <1>9 DEF TreeInv
    <3> QED BY <1>2, <2>2, <3>1
  <2> QED BY <2>1, <2>2
<1> QED BY <1>4, <1>5, <1>6, <1>8, <1>9 DEF TreeInv

LEMMA ReadDirKeeps == TreeInv /\ ReadDir => TreeInv'
<1> SUFFICES ASSUME TreeInv, ReadDir PROVE TreeInv'
  OBVIOUS
<1> USE TreeAssumption
<1>1. entries' = DOMAIN alive /\ DOMAIN procs' = {} /\ alive' = alive /\ ~reused'
  BY DEF ReadDir, Restrict
<1>2. Listed' = DOMAIN alive
  BY <1>1 DEF Listed
<1> QED BY <1>1, <1>2 DEF TreeInv, TreeTypeOK

LEMMA ReadProcessKeeps == TreeInv /\ ReadProcess => TreeInv'
<1> SUFFICES ASSUME TreeInv, ReadProcess PROVE TreeInv'
  OBVIOUS
<1> USE TreeAssumption
<1>1. PICK pid \in entries :
        /\ entries' = entries \ {pid}
        /\ procs' = IF pid \notin DOMAIN alive THEN procs
                    ELSE [q \in DOMAIN procs \union {pid} |->
                            IF q = pid THEN alive[pid] ELSE procs[q]]
  BY DEF ReadProcess
<1>2. alive' = alive /\ reused' = reused
  BY DEF ReadProcess
<1>3. pid # 0 /\ 1 \in DOMAIN alive /\ 0 \notin DOMAIN alive
  BY DEF TreeInv, TreeTypeOK
<1>4. CASE pid \notin DOMAIN alive
  <2>1. procs' = procs /\ pid # 1
    BY <1>1, <1>3, <1>4
  <2>2. Listed' \subseteq Listed /\ Listed \ {pid} \subseteq Listed'
    BY <1>1, <2>1 DEF Listed
  <2>3. TreeTypeOK'
    BY <1>1, <1>2, <2>1 DEF TreeInv, TreeTypeOK
  <2>4. ASSUME ~reused'
        PROVE  /\ 1 \in Listed' /\ (1 \in DOMAIN procs' => procs'[1] = 0)
               /\ \A q \in Listed' \cap DOMAIN alive' : alive'[q] \in Listed' \union {0}
    BY <1>2, <1>3, <1>4, <2>1, <2>2, <2>4 DEF TreeInv
  <2>5. ASSUME ~reused', NEW C \in SUBSET Listed', C # {}
        PROVE  \E q \in C : /\ q \in DOMAIN alive' => alive'[q] \notin C
                            /\ q \in DOMAIN procs' => procs'[q] \notin C
    BY <1>2, <2>1, <2>2, <2>5 DEF TreeInv
  <2> QED BY <1>2, <2>3, <2>4, <2>5 DEF TreeInv
<1>5. CASE pid \in DOMAIN alive
  <2>1. /\ DOMAIN procs' = DOMAIN procs \union {pid}
        /\ procs'[pid] = alive[pid]
        /\ \A q \in DOMAIN procs : q # pid => procs'[q] = procs[q]
    BY <1>1, <1>5
  <2>2. Listed' = Listed
    BY <1>1, <2>1 DEF Listed
  <2>3. TreeTypeOK'
    <3>1. alive[pid] \in Pids \union {0}
      BY <1>5 DEF TreeInv, TreeTypeOK
    <3>2. \A q \in DOMAIN procs' : procs'[q] \in Pids \union {0}
      BY <2>1, <3>1 DEF TreeInv, TreeTypeOK
    <3>3. DOMAIN procs' \subseteq Pids /\ entries' \subseteq Pids
      BY <1>1, <2>1 DEF TreeInv, TreeTypeOK
    <3> QED BY <1>2, <3>2, <3>3 DEF TreeInv, TreeTypeOK
  <2>4. ASSUME ~reused'
        PROVE  /\ 1 \in Listed' /\ (1 \in DOMAIN procs' => procs'[1] = 0)
               /\ \A q \in Listed' \cap DOMAIN alive' : alive'[q] \in Listed' \union {0}
    BY <1>2, <2>1, <2>2, <2>4 DEF TreeInv
  <2>5. ASSUME ~reused', NEW C \in SUBSET Listed', C # {}
        PROVE  \E q \in C : /\ q \in DOMAIN alive' => alive'[q] \notin C
                            /\ q \in DOMAIN procs' => procs'[q] \notin C
    <3>1. PICK q \in C : /\ q \in DOMAIN alive => alive[q] \notin C
                         /\ q \in DOMAIN procs => procs[q] \notin C
      BY <1>2, <2>2, <2>5 DEF TreeInv
    <3> QED BY <1>2, <1>5, <2>1, <3>1
  <2> QED BY <1>2, <2>3, <2>4, <2>5 DEF TreeInv
<1> QED BY <1>4, <1>5

LEMMA TreeSteps == TreeInv /\ [TreeNext]_treeVars => TreeInv'
<1> SUFFICES ASSUME TreeInv, [TreeNext]_treeVars PROVE TreeInv'
  OBVIOUS
<1>1. CASE UNCHANGED treeVars
  BY <1>1 DEF TreeInv, TreeTypeOK, Listed, treeVars
<1> QED BY <1>1, ForkKeeps, LeaveKeeps, ReadDirKeeps, ReadProcessKeeps DEF TreeNext
-----------------------------------------------------------------------------
(* Flattening a tree.                                                      *)

\* No element comes twice.
Once(t) == \A i, j \in 1..Len(t) : t[i] = t[j] => i = j

\* Every process but those of tops comes below its parent.
Hung(t, tops) ==
  \A i \in 1..Len(t) : t[i] \in tops \/ \E j \in 1..Len(t) : j < i /\ t[j] = procs[t[i]]

LEMMA InList ==
  ASSUME NEW S, NEW t \in Seq(S)
  PROVE  \A x : x \in ToSet(t) <=> \E i \in 1..Len(t) : x = t[i]
<1>1. DOMAIN t = 1..Len(t)
  BY LenProperties
<1> QED BY <1>1 DEF ToSet

\* Lists of different things, each once, make one of that kind.
LEMMA TurnsOnce ==
  ASSUME NEW S, NEW Q \in SUBSET Nat, IsFiniteSet(Q), NEW g,
         \A q \in Q : g[q] \in Seq(S) /\ Once(g[q]) /\ Hung(g[q], {q}),
         \A q, r \in Q : q # r => ToSet(g[q]) \cap ToSet(g[r]) = {}
  PROVE  /\ InTurn(Q, g) \in Seq(S)
         /\ ToSet(InTurn(Q, g)) = UNION {ToSet(g[q]) : q \in Q}
         /\ Once(InTurn(Q, g)) /\ Hung(InTurn(Q, g), Q)
<1> DEFINE t == InTurn(Q, g)
<1>1. t \in Seq(S) /\ Len(t) \in Nat /\ \E who, num : Threaded(t, Q, g, who, num)
  BY InTurnFacts
<1> HIDE DEF t
<1>2. PICK who, num : Threaded(t, Q, g, who, num)
  BY <1>1
<1>3. /\ who \in [1..Len(t) -> Q] /\ num \in [1..Len(t) -> Nat \ {0}]
      /\ \A m \in 1..Len(t) : num[m] \in 1..Len(g[who[m]]) /\ t[m] = g[who[m]][num[m]]
      /\ \A q \in Q : \A j \in 1..Len(g[q]) : \E m \in 1..Len(t) : who[m] = q /\ num[m] = j
      /\ \A m, l \in 1..Len(t) : who[m] = who[l] /\ num[m] < num[l] => m < l
      /\ \A m, l \in 1..Len(t) : who[m] = who[l] /\ num[m] = num[l] => m = l
  BY <1>2 DEF Threaded
<1>4. \A q \in Q : \A x : x \in ToSet(g[q]) <=> \E j \in 1..Len(g[q]) : x = g[q][j]
  BY InList
<1>5. \A x : x \in ToSet(t) <=> \E m \in 1..Len(t) : x = t[m]
  BY <1>1, InList
<1>6. \A m \in 1..Len(t) : who[m] \in Q /\ t[m] \in ToSet(g[who[m]])
  BY <1>3, <1>4
<1>7. ToSet(t) = UNION {ToSet(g[q]) : q \in Q}
  <2>1. ASSUME NEW x \in ToSet(t) PROVE \E q \in Q : x \in ToSet(g[q])
    <3>1. PICK m \in 1..Len(t) : x = t[m]
      BY <1>5
    <3> QED BY <1>6, <3>1
  <2>2. ASSUME NEW q \in Q, NEW x \in ToSet(g[q]) PROVE x \in ToSet(t)
    <3>1. PICK j \in 1..Len(g[q]) : x = g[q][j]
      BY <1>4
    <3>2. PICK m \in 1..Len(t) : who[m] = q /\ num[m] = j
      BY <1>3
    <3> QED BY <1>3, <1>5, <3>1, <3>2
  <2> QED BY <2>1, <2>2
<1>8. Once(t)
  <2> SUFFICES ASSUME NEW m \in 1..Len(t), NEW l \in 1..Len(t), t[m] = t[l] PROVE m = l
    BY DEF Once
  <2>1. who[m] = who[l]
    BY <1>6
  <2>2. num[m] = num[l]
    <3>1. num[m] \in 1..Len(g[who[m]]) /\ num[l] \in 1..Len(g[who[m]])
          /\ g[who[m]][num[m]] = g[who[m]][num[l]] /\ Once(g[who[m]])
      BY <1>3, <2>1
    <3> QED BY <3>1 DEF Once
  <2> QED BY <1>3, <2>1, <2>2
<1>9. Hung(t, Q)
  <2> SUFFICES ASSUME NEW m \in 1..Len(t), t[m] \notin Q
               PROVE  \E l \in 1..Len(t) : l < m /\ t[l] = procs[t[m]]
    BY DEF Hung
  <2> DEFINE q == who[m]
  <2>1. q \in Q /\ num[m] \in 1..Len(g[q]) /\ t[m] = g[q][num[m]] /\ Hung(g[q], {q})
    BY <1>3
  <2>2. PICK j \in 1..Len(g[q]) : j < num[m] /\ g[q][j] = procs[t[m]]
    BY <2>1 DEF Hung
  <2>3. PICK l \in 1..Len(t) : who[l] = q /\ num[l] = j
    BY <1>3, <2>1
  <2>4. l < m
    BY <1>3, <2>2, <2>3
  <2> QED BY <1>3, <2>2, <2>3, <2>4
<1> QED BY <1>1, <1>7, <1>8, <1>9 DEF t

\* A process in front of what hangs below it.
LEMMA HeadOnce ==
  ASSUME NEW S, NEW p \in S, NEW t \in Seq(S), NEW Q, p \notin ToSet(t), Once(t), Hung(t, Q),
         \A q \in Q : procs[q] = p
  PROVE  /\ <<p>> \o t \in Seq(S) /\ ToSet(<<p>> \o t) = {p} \union ToSet(t)
         /\ Once(<<p>> \o t) /\ Hung(<<p>> \o t, {p})
<1> DEFINE u == <<p>> \o t
<1>1. /\ u \in Seq(S) /\ Len(t) \in Nat /\ Len(u) = Len(t) + 1 /\ u[1] = p
      /\ \A i \in 1..Len(t) : u[i + 1] = t[i]
  <2>1. <<p>> \in Seq(S) /\ Len(<<p>>) = 1 /\ <<p>>[1] = p
    OBVIOUS
  <2>2. Len(t) \in Nat
    BY LenProperties
  <2>3. /\ u \in Seq(S) /\ Len(u) = Len(<<p>>) + Len(t)
        /\ \A i \in 1 .. Len(<<p>>) + Len(t) : u[i] = IF i <= Len(<<p>>) THEN <<p>>[i]
                                                      ELSE t[i - Len(<<p>>)]
    <3> HIDE DEF u
    <3> QED BY <2>1, ConcatProperties DEF u
  <2> HIDE DEF u
  <2>4. \A i \in 1..Len(t) : /\ i + 1 \in 1..(1 + Len(t)) /\ ~(i + 1 <= 1)
                             /\ (i + 1) - 1 = i
    BY <2>2
  <2>5. 1 \in 1..(1 + Len(t)) /\ 1 <= 1
    BY <2>2
  <2> QED BY <2>1, <2>2, <2>3, <2>4, <2>5
<1> HIDE DEF u
<1>2. \A i \in 1..Len(u) : i = 1 \/ (i - 1 \in 1..Len(t) /\ (i - 1) + 1 = i)
  BY <1>1
<1>3. \A i \in 1..Len(t) : i + 1 \in 1..Len(u) /\ i + 1 # 1 /\ 1 < i + 1
  BY <1>1
<1>4. /\ \A x : x \in ToSet(t) <=> \E i \in 1..Len(t) : x = t[i]
      /\ \A x : x \in ToSet(u) <=> \E i \in 1..Len(u) : x = u[i]
      /\ 1 \in 1..Len(u)
  BY <1>1, InList
<1>5. \A i \in 1..Len(u) : i # 1 => u[i] = t[i - 1]
  BY <1>1, <1>2
<1>6. ToSet(u) = {p} \union ToSet(t)
  <2>1. ASSUME NEW i \in 1..Len(u) PROVE u[i] \in {p} \union ToSet(t)
    BY <1>1, <1>2, <1>4, <1>5
  <2>2. ASSUME NEW i \in 1..Len(t) PROVE t[i] \in ToSet(u)
    BY <1>1, <1>3, <1>4
  <2> QED BY <1>1, <1>4, <2>1, <2>2
<1>7. Once(u)
  <2> SUFFICES ASSUME NEW i \in 1..Len(u), NEW j \in 1..Len(u), u[i] = u[j] PROVE i = j
    BY DEF Once
  <2>1. CASE i = 1 /\ j # 1
    BY <1>1, <1>2, <1>4, <1>5, <2>1
  <2>2. CASE i # 1 /\ j = 1
    BY <1>1, <1>2, <1>4, <1>5, <2>2
  <2>3. CASE i # 1 /\ j # 1
    <3>1. i - 1 = j - 1
      BY <1>2, <1>5, <2>3 DEF Once
    <3> QED BY <1>2, <2>3, <3>1
  <2> QED BY <2>1, <2>2, <2>3
<1>8. Hung(u, {p})
  <2> SUFFICES ASSUME NEW i \in 1..Len(u), u[i] # p
               PROVE  \E j \in 1..Len(u) : j < i /\ u[j] = procs[u[i]]
    BY DEF Hung
  <2>1. i # 1 /\ i - 1 \in 1..Len(t) /\ u[i] = t[i - 1] /\ i \in Nat /\ 1 < i
    BY <1>1, <1>2, <1>5
  <2>2. CASE t[i - 1] \in Q
    BY <1>1, <1>4, <2>1, <2>2
  <2>3. CASE t[i - 1] \notin Q
    <3>1. PICK j \in 1..Len(t) : j < i - 1 /\ t[j] = procs[t[i - 1]]
      BY <2>1, <2>3 DEF Hung
    <3>2. j + 1 \in 1..Len(u) /\ j + 1 < i /\ u[j + 1] = t[j]
      <4>1. j \in Nat
        OBVIOUS
      <4>2. j + 1 < i
        BY <2>1, <3>1, <4>1
      <4> QED BY <1>1, <1>3, <4>2
    <3> QED BY <2>1, <3>1, <3>2
  <2> QED BY <2>2, <2>3
<1> QED BY <1>1, <1>6, <1>7, <1>8 DEF u

\* What was read has no circles.
Rooted == \A C \in SUBSET DOMAIN procs : C # {} => \E p \in C : procs[p] \notin C

\* f[n][p]: process p and what hangs below it, n levels deep.
Levels(f) ==
  /\ f \in [Nat -> [DOMAIN procs -> Seq(DOMAIN procs)]]
  /\ \A p \in DOMAIN procs : f[0][p] = <<>>
  /\ \A n \in Nat : \A p \in DOMAIN procs : f[n + 1][p] = <<p>> \o InTurn(Children(p), f[n])

LEMMA TreeFinite ==
  ASSUME TreeTypeOK
  PROVE  /\ IsFiniteSet(DOMAIN procs) /\ Cardinality(DOMAIN procs) \in Nat
         /\ DOMAIN procs \in SUBSET Nat /\ Roots \in SUBSET DOMAIN procs
         /\ \A p \in DOMAIN procs : Children(p) \in SUBSET DOMAIN procs
<1>1. DOMAIN procs \in SUBSET Pids
  BY DEF TreeTypeOK
<1>2. IsFiniteSet(DOMAIN procs)
  BY <1>1, TreeAssumption, FS_Subset
<1> QED BY <1>1, <1>2, TreeAssumption, FS_CardinalityType DEF Roots, Children

LEMMA LevelsExist ==
  ASSUME TreeTypeOK PROVE \E f : Levels(f)
<1> DEFINE D == DOMAIN procs
<1> DEFINE A == [D -> Seq(D)]
<1> DEFINE base == [p \in D |-> <<>>]
<1> DEFINE next(g) == [p \in D |-> <<p>> \o InTurn(Children(p), g)]
<1> DEFINE step == [k \in Nat \X A |-> next(k[2])]
<1>1. base \in A
  OBVIOUS
<1>2. ASSUME NEW g \in A PROVE next(g) \in A
  <2>1. ASSUME NEW p \in D PROVE <<p>> \o InTurn(Children(p), g) \in Seq(D)
    <3>1. Children(p) \in SUBSET Nat /\ Children(p) \in SUBSET D /\ IsFiniteSet(Children(p))
      BY TreeFinite, FS_Subset
    <3>2. \A q \in Children(p) : g[q] \in Seq(D)
      BY <3>1
    <3>3. InTurn(Children(p), g) \in Seq(D)
      BY <3>1, <3>2, InTurnFacts
    <3>4. <<p>> \in Seq(D)
      OBVIOUS
    <3> QED BY <3>3, <3>4, ConcatProperties
  <2> QED BY <2>1
<1>3. step \in [Nat \X A -> A]
  <2> HIDE DEF A, next
  <2> QED BY <1>2
<1>4. PICK f : Iterates(f, A, base, step)
  <2> HIDE DEF A, step, base
  <2> QED BY <1>1, <1>3, NatRec
<1>5. f \in [Nat -> A] /\ f[0] = base /\ \A n \in Nat : f[n + 1] = step[<<n, f[n]>>]
  BY <1>4 DEF Iterates
<1>6. \A n \in Nat : f[n + 1] = next(f[n])
  <2> HIDE DEF A, next
  <2> QED BY <1>5
<1>7. \A n \in Nat : \A p \in D : f[n + 1][p] = <<p>> \o InTurn(Children(p), f[n])
  BY <1>6
<1>8. f \in [Nat -> A] /\ \A p \in D : f[0][p] = <<>>
  BY <1>5
<1> QED BY <1>7, <1>8 DEF Levels

LEMMA BranchLevel ==
  ASSUME TreeTypeOK, NEW f, Levels(f) PROVE Branch = f[Cardinality(DOMAIN procs)]
<1> DEFINE D == DOMAIN procs
<1> DEFINE c == Cardinality(D)
<1> DEFINE Is(g) == g = [n \in 0..c |-> [p \in D |-> IF n = 0 THEN <<>>
                                           ELSE <<p>> \o InTurn(Children(p), g[n - 1])]]
<1> DEFINE G == CHOOSE g : Is(g)
<1>1. c \in Nat
  BY TreeFinite
<1>2. /\ f \in [Nat -> [D -> Seq(D)]]
      /\ \A p \in D : f[0][p] = <<>>
      /\ \A n \in Nat : \A p \in D : f[n + 1][p] = <<p>> \o InTurn(Children(p), f[n])
  BY DEF Levels
<1>3. Branch = G[c]
  BY DEF Branch
<1> HIDE DEF c
<1>4. \E g : Is(g)
  <2> DEFINE F == [n \in 0..c |-> f[n]]
  <2> DEFINE row(n) == [p \in D |-> IF n = 0 THEN <<>> ELSE <<p>> \o InTurn(Children(p), F[n - 1])]
  <2>1. ASSUME NEW n \in 0..c PROVE f[n] = row(n)
    <3>1. CASE n = 0
      <4>1. \A p \in D : f[n][p] = row(n)[p]
        BY <1>2, <3>1
      <4>2. f[n] \in [D -> Seq(D)]
        BY <1>2, <3>1
      <4> QED BY <4>1, <4>2
    <3>2. CASE n # 0
      <4>1. n - 1 \in Nat /\ n - 1 \in 0..c /\ (n - 1) + 1 = n
        BY <1>1, <3>2
      <4>2. F[n - 1] = f[n - 1]
        BY <4>1
      <4>3. \A p \in D : row(n)[p] = <<p>> \o InTurn(Children(p), f[n - 1])
        BY <3>2, <4>2
      <4>4. \A p \in D : f[n][p] = <<p>> \o InTurn(Children(p), f[n - 1])
        BY <1>2, <4>1
      <4>5. f[n] \in [D -> Seq(D)]
        BY <1>2, <4>1
      <4>6. row(n) = [p \in D |-> row(n)[p]] /\ f[n] = [p \in D |-> f[n][p]]
        BY <4>5
      <4> HIDE DEF row
      <4> QED BY <4>3, <4>4, <4>6
    <3> QED BY <3>1, <3>2
  <2>2. F = [n \in 0..c |-> row(n)]
    <3> HIDE DEF row
    <3> QED BY <2>1
  <2>3. Is(F)
    <3> HIDE DEF F
    <3> QED BY <2>2
  <2> HIDE DEF F
  <2> QED BY <2>3
<1>5. Is(G)
  <2> HIDE DEF Is
  <2> QED BY <1>4
<1> HIDE DEF G
<1> DEFINE E == {n \in 0..c : G[n] = f[n]}
<1>6. 0 \in E
  <2>1. G[0] = [p \in D |-> <<>>]
    BY <1>1, <1>5
  <2>2. f[0] = [p \in D |-> f[0][p]]
    BY <1>2
  <2> QED BY <1>1, <1>2, <2>1, <2>2
<1>7. ASSUME NEW n \in 0..c, n \in E, n < c PROVE n + 1 \in E
  <2>1. n + 1 \in 0..c /\ n + 1 # 0 /\ (n + 1) - 1 = n /\ n \in Nat /\ n + 1 \in Nat
    BY <1>1, <1>7
  <2> DEFINE row(k) == [p \in D |-> IF k = 0 THEN <<>> ELSE <<p>> \o InTurn(Children(p), G[k - 1])]
  <2>2. G[n + 1] = row(n + 1)
    BY <1>5, <2>1
  <2>3. row(n + 1) = [p \in D |-> <<p>> \o InTurn(Children(p), G[n])]
    BY <2>1
  <2>4. f[n + 1] = [p \in D |-> <<p>> \o InTurn(Children(p), f[n])]
    <3>1. f[n + 1] = [p \in D |-> f[n + 1][p]]
      BY <1>2, <2>1
    <3> QED BY <1>2, <2>1, <3>1
  <2>5. G[n] = f[n]
    BY <1>7
  <2> HIDE DEF row
  <2> QED BY <2>1, <2>2, <2>3, <2>4, <2>5
<1>8. 0..c \subseteq E
  <2> HIDE DEF E
  <2> QED BY <1>1, <1>6, <1>7, UpTo
<1>9. c \in 0..c
  BY <1>1
<1> QED BY <1>3, <1>8, <1>9 DEF c

\* From any process of A its ancestors up to q are in A.
UpTill(A, q) == A \subseteq DOMAIN procs /\ \A x \in A : x = q \/ procs[x] \in A

LEMMA ParentNotBelow ==
  ASSUME Rooted, NEW A, NEW q, UpTill(A, q) PROVE procs[q] \notin A
<1> SUFFICES ASSUME procs[q] \in A PROVE FALSE
  OBVIOUS
<1>1. A \in SUBSET DOMAIN procs /\ A # {} /\ \A x \in A : procs[x] \in A
  BY DEF UpTill
<1> QED BY <1>1 DEF Rooted

LEMMA SiblingsApart ==
  ASSUME Rooted, NEW A, NEW B, NEW q, NEW r, q # r, UpTill(A, q), UpTill(B, r),
         procs[q] \notin B, procs[r] \notin A
  PROVE  A \cap B = {}
<1> SUFFICES ASSUME A \cap B # {} PROVE FALSE
  OBVIOUS
<1>1. A \cap B \in SUBSET DOMAIN procs
  BY DEF UpTill
<1>2. PICK x \in A \cap B : procs[x] \notin A \cap B
  BY <1>1 DEF Rooted
<1> QED BY <1>2 DEF UpTill

\* What the list of a process is, n levels deep.
Neat(f, n) ==
  \A p \in DOMAIN procs :
    /\ f[n][p] \in Seq(DOMAIN procs) /\ Once(f[n][p]) /\ Hung(f[n][p], {p})
    /\ UpTill(ToSet(f[n][p]), p)

Layer(f, n) ==
  \A p \in DOMAIN procs :
    ToSet(f[n + 1][p]) = {p} \union UNION {ToSet(f[n][q]) : q \in Children(p)}

LEMMA ChildrenOf ==
  ASSUME NEW p PROVE \A q \in Children(p) : q \in DOMAIN procs /\ procs[q] = p /\ q # p
BY DEF Children

LEMMA NextLevel ==
  ASSUME TreeTypeOK, Rooted, NEW f, Levels(f), NEW n \in Nat, Neat(f, n)
  PROVE  Neat(f, n + 1) /\ Layer(f, n)
<1> DEFINE D == DOMAIN procs
<1> SUFFICES ASSUME NEW p \in D
             PROVE  /\ f[n + 1][p] \in Seq(D) /\ Once(f[n + 1][p]) /\ Hung(f[n + 1][p], {p})
                    /\ UpTill(ToSet(f[n + 1][p]), p)
                    /\ ToSet(f[n + 1][p]) = {p} \union UNION {ToSet(f[n][q]) : q \in Children(p)}
  BY DEF Neat, Layer
<1> DEFINE K == Children(p)
<1> DEFINE t == InTurn(K, f[n])
<1> DEFINE T == ToSet(t)
<1>1. K \in SUBSET D /\ K \in SUBSET Nat /\ IsFiniteSet(K)
  BY TreeFinite, FS_Subset
<1>2. \A q \in K : procs[q] = p /\ q # p
  BY ChildrenOf
<1> HIDE DEF K
<1>3. \A q \in K : /\ f[n][q] \in Seq(D) /\ Once(f[n][q]) /\ Hung(f[n][q], {q})
                   /\ UpTill(ToSet(f[n][q]), q)
  BY <1>1 DEF Neat
<1>4. \A q \in K : p \notin ToSet(f[n][q])
  BY <1>2, <1>3, ParentNotBelow
<1>5. \A q, r \in K : q # r => ToSet(f[n][q]) \cap ToSet(f[n][r]) = {}
  <2> SUFFICES ASSUME NEW q \in K, NEW r \in K, q # r
               PROVE  ToSet(f[n][q]) \cap ToSet(f[n][r]) = {}
    OBVIOUS
  <2>1. UpTill(ToSet(f[n][q]), q) /\ UpTill(ToSet(f[n][r]), r)
    BY <1>3
  <2>2. procs[q] \notin ToSet(f[n][r]) /\ procs[r] \notin ToSet(f[n][q])
    BY <1>2, <1>4
  <2> QED BY <2>1, <2>2, SiblingsApart
<1>6. t \in Seq(D) /\ T = UNION {ToSet(f[n][q]) : q \in K} /\ Once(t) /\ Hung(t, K)
  BY <1>1, <1>3, <1>5, TurnsOnce
<1>7. f[n + 1][p] = <<p>> \o t
  BY DEF Levels, K
<1> HIDE DEF t
<1>8. p \notin T
  BY <1>4, <1>6
<1>9. /\ <<p>> \o t \in Seq(D) /\ ToSet(<<p>> \o t) = {p} \union T
      /\ Once(<<p>> \o t) /\ Hung(<<p>> \o t, {p})
  BY <1>2, <1>6, <1>8, HeadOnce
<1>10. UpTill({p} \union T, p)
  <2>1. ASSUME NEW x \in T PROVE x \in D /\ procs[x] \in {p} \union T
    <3>1. PICK q \in K : x \in ToSet(f[n][q])
      BY <1>6
    <3>2. x \in D /\ (x = q \/ procs[x] \in ToSet(f[n][q]))
      BY <1>3, <3>1 DEF UpTill
    <3> QED BY <1>2, <1>6, <3>1, <3>2
  <2> QED BY <2>1 DEF UpTill
<1> QED BY <1>6, <1>7, <1>9, <1>10 DEF K

LEMMA AllLevels ==
  ASSUME TreeTypeOK, Rooted, NEW f, Levels(f)
  PROVE  \A n \in Nat : Neat(f, n) /\ Layer(f, n)
<1> DEFINE S == {n \in Nat : Neat(f, n)}
<1>1. 0 \in S
  <2> SUFFICES ASSUME NEW p \in DOMAIN procs
               PROVE  /\ f[0][p] \in Seq(DOMAIN procs) /\ Once(f[0][p]) /\ Hung(f[0][p], {p})
                      /\ UpTill(ToSet(f[0][p]), p)
    BY DEF Neat
  <2>1. f[0][p] = <<>> /\ Len(<<>>) = 0 /\ ToSet(<<>>) = {} /\ <<>> \in Seq(DOMAIN procs)
    BY DEF Levels, ToSet
  <2>2. Once(<<>>) /\ Hung(<<>>, {p}) /\ UpTill({}, p)
    BY <2>1 DEF Once, Hung, UpTill
  <2> QED BY <2>1, <2>2
<1>2. \A n \in Nat : n \in S => n + 1 \in S
  BY NextLevel
<1>3. Nat \subseteq S
  <2> HIDE DEF S
  <2> QED BY <1>1, <1>2, AllNat
<1> QED BY <1>3, NextLevel
-----------------------------------------------------------------------------
(* Every process hangs below a root.                                       *)

Reached(f, n) == UNION {ToSet(f[n][r]) : r \in Roots}

LEMMA LevelsGrow ==
  ASSUME TreeTypeOK, Rooted, NEW f, Levels(f)
  PROVE  \A n \in Nat : \A p \in DOMAIN procs :
           /\ ToSet(f[n][p]) \subseteq ToSet(f[n + 1][p])
           /\ \A x \in ToSet(f[n][p]) : Children(x) \subseteq ToSet(f[n + 1][p])
<1> DEFINE D == DOMAIN procs
<1> DEFINE Grown(n) == \A p \in D :
      /\ ToSet(f[n][p]) \subseteq ToSet(f[n + 1][p])
      /\ \A x \in ToSet(f[n][p]) : Children(x) \subseteq ToSet(f[n + 1][p])
<1> DEFINE S == {n \in Nat : Grown(n)}
<1>0. \A p \in D : Children(p) \subseteq D
  BY TreeFinite
<1>1. \A n \in Nat : \A p \in D :
        ToSet(f[n + 1][p]) = {p} \union UNION {ToSet(f[n][q]) : q \in Children(p)}
  BY AllLevels DEF Layer
<1>2. 0 \in S
  <2>1. \A p \in D : ToSet(f[0][p]) = {}
    BY DEF Levels, ToSet
  <2> QED BY <2>1
<1>3. ASSUME NEW n \in Nat, Grown(n) PROVE Grown(n + 1)
  <2> SUFFICES ASSUME NEW p \in D, NEW x \in ToSet(f[n + 1][p])
               PROVE  /\ x \in ToSet(f[(n + 1) + 1][p])
                      /\ Children(x) \subseteq ToSet(f[(n + 1) + 1][p])
    OBVIOUS
  <2>1. /\ ToSet(f[n + 1][p]) = {p} \union UNION {ToSet(f[n][q]) : q \in Children(p)}
        /\ ToSet(f[(n + 1) + 1][p]) = {p} \union UNION {ToSet(f[n + 1][q]) : q \in Children(p)}
        /\ \A q \in D : q \in ToSet(f[n + 1][q])
    <3>1. n + 1 \in Nat
      OBVIOUS
    <3>2. /\ ToSet(f[n + 1][p]) = {p} \union UNION {ToSet(f[n][q]) : q \in Children(p)}
          /\ \A q \in D : q \in ToSet(f[n + 1][q])
      BY <1>1
    <3>3. ToSet(f[(n + 1) + 1][p]) = {p} \union UNION {ToSet(f[n + 1][q]) : q \in Children(p)}
      BY <1>1, <3>1
    <3> QED BY <3>2, <3>3
  <2>2. CASE x = p
    BY <1>0, <2>1, <2>2
  <2>3. CASE x # p
    <3>1. PICK q \in Children(p) : x \in ToSet(f[n][q])
      BY <2>1, <2>3
    <3>2. x \in ToSet(f[n + 1][q]) /\ Children(x) \subseteq ToSet(f[n + 1][q])
      BY <1>0, <1>3, <3>1
    <3> QED BY <2>1, <3>1, <3>2
  <2> QED BY <2>2, <2>3
<1>4. Nat \subseteq S
  <2> HIDE DEF Grown
  <2>1. \A n \in Nat : n \in S => n + 1 \in S
    BY <1>3
  <2> HIDE DEF S
  <2> QED BY <1>2, <2>1, AllNat
<1> QED BY <1>4

LEMMA AllReached ==
  ASSUME TreeTypeOK, Rooted, NEW f, Levels(f)
  PROVE  Reached(f, Cardinality(DOMAIN procs)) = DOMAIN procs
<1> DEFINE D == DOMAIN procs
<1> DEFINE c == Cardinality(D)
<1> DEFINE R(n) == Reached(f, n)
<1>1. IsFiniteSet(D) /\ c \in Nat /\ Roots \subseteq D
  BY TreeFinite
<1>2. \A n \in Nat : R(n) \subseteq D
  <2> SUFFICES ASSUME NEW n \in Nat PROVE Reached(f, n) \subseteq D
    OBVIOUS
  <2>1. \A r \in Roots : ToSet(f[n][r]) \subseteq D
    <3>1. Neat(f, n)
      BY AllLevels
    <3> QED BY <1>1, <3>1 DEF Neat, UpTill
  <2> QED BY <2>1 DEF Reached
<1>3. \A n \in Nat : IsFiniteSet(R(n)) /\ Cardinality(R(n)) \in Nat
  <2> HIDE DEF R
  <2> QED BY <1>1, <1>2, FS_Subset, FS_CardinalityType
<1> DEFINE S == {n \in Nat : R(n) = D \/ Cardinality(R(n)) >= n}
<1>4. 0 \in S
  BY <1>3
<1>5. ASSUME NEW n \in Nat, n \in S PROVE n + 1 \in S
  <2>1. R(n) \subseteq R(n + 1)
    BY <1>1, LevelsGrow DEF Reached
  <2>2. R(n + 1) \subseteq D /\ n + 1 \in Nat
    BY <1>2
  <2>3. CASE R(n) = D
    BY <2>1, <2>2, <2>3
  <2>4. CASE R(n) # D
    <3>1. D \ R(n) \in SUBSET D /\ D \ R(n) # {}
      BY <1>2, <2>4
    <3>2. PICK x \in D \ R(n) : procs[x] \notin D \ R(n)
      BY <3>1 DEF Rooted
    <3>3. x \in R(n + 1)
      <4>1. CASE procs[x] \notin D
        <5>1. x \in Roots
          BY <4>1 DEF Roots
        <5>2. x \in ToSet(f[n + 1][x])
          BY AllLevels DEF Layer
        <5> QED BY <5>1, <5>2 DEF Reached
      <4>2. CASE procs[x] \in R(n)
        <5>1. PICK r \in Roots : procs[x] \in ToSet(f[n][r])
          BY <4>2 DEF Reached
        <5>2. x # procs[x]
          BY <3>2, <4>2
        <5>3. x \in Children(procs[x])
          BY <5>2 DEF Children
        <5>4. x \in ToSet(f[n + 1][r])
          BY <1>1, <5>1, <5>3, LevelsGrow
        <5> QED BY <5>1, <5>4 DEF Reached
      <4> QED BY <3>2, <4>1, <4>2
    <3> HIDE DEF R
    <3>4. Cardinality(R(n)) <= Cardinality(R(n + 1)) /\ Cardinality(R(n)) # Cardinality(R(n + 1))
      BY <1>3, <2>1, <2>2, <3>2, <3>3, FS_Subset
    <3>5. Cardinality(R(n)) >= n
      BY <1>5, <2>4
    <3>6. Cardinality(R(n)) \in Nat /\ Cardinality(R(n + 1)) \in Nat
      BY <1>3, <2>2
    <3>7. Cardinality(R(n + 1)) >= n + 1
      BY <3>4, <3>5, <3>6
    <3> QED BY <2>2, <3>7
  <2> QED BY <2>3, <2>4
<1>6. c \in S
  <2>1. Nat \subseteq S
    <3>1. \A n \in Nat : n \in S => n + 1 \in S
      BY <1>5
    <3> HIDE DEF S
    <3> QED BY <1>4, <3>1, AllNat
  <2> HIDE DEF S
  <2> QED BY <1>1, <2>1
<1>7. CASE Cardinality(R(c)) >= c
  <2> HIDE DEF R
  <2>1. R(c) \in SUBSET D /\ Cardinality(R(c)) \in Nat
    BY <1>1, <1>2, <1>3
  <2>2. Cardinality(R(c)) <= Cardinality(D)
    BY <1>1, <2>1, FS_Subset
  <2>3. Cardinality(R(c)) = Cardinality(D)
    <3> HIDE DEF D
    <3> QED BY <1>1, <1>7, <2>1, <2>2
  <2>4. R(c) = D
    BY <1>1, <2>1, <2>3, FS_Subset
  <2> QED BY <2>4 DEF R
<1> QED BY <1>6, <1>7
-----------------------------------------------------------------------------
LEMMA FlattenedWhole ==
  ASSUME TreeTypeOK, Rooted
  PROVE  /\ ToSet(Flattened) = DOMAIN procs
         /\ Len(Flattened) = Cardinality(DOMAIN procs)
         /\ \A p \in DOMAIN procs \ Roots : Place(procs[p]) < Place(p)
<1> DEFINE D == DOMAIN procs
<1> DEFINE c == Cardinality(D)
<1> DEFINE t == Flattened
<1>1. PICK f : Levels(f)
  BY LevelsExist
<1>2. Branch = f[c]
  BY <1>1, BranchLevel
<1>3. c \in Nat /\ IsFiniteSet(D) /\ D \in SUBSET Nat /\ Roots \in SUBSET D /\ IsFiniteSet(Roots)
      /\ Roots \in SUBSET Nat
  BY TreeFinite, FS_Subset
<1>4. Neat(f, c)
  BY <1>1, <1>3, AllLevels
<1>5. \A r \in Roots : /\ Branch[r] \in Seq(D) /\ Once(Branch[r]) /\ Hung(Branch[r], {r})
                       /\ UpTill(ToSet(Branch[r]), r)
  BY <1>2, <1>3, <1>4 DEF Neat
<1>6. \A r \in Roots : procs[r] \notin D
  <2> SUFFICES ASSUME NEW r \in Roots, procs[r] \in D PROVE FALSE
    OBVIOUS
  <2>1. procs[r] = r /\ {r} \in SUBSET D /\ {r} # {}
    BY <1>3 DEF Roots
  <2> QED BY <2>1 DEF Rooted
<1>7. \A q, r \in Roots : q # r => ToSet(Branch[q]) \cap ToSet(Branch[r]) = {}
  <2>1. \A q, r \in Roots : procs[q] \notin ToSet(Branch[r])
    BY <1>5, <1>6 DEF UpTill
  <2> QED BY <1>5, <2>1, SiblingsApart
<1>8. t \in Seq(D) /\ ToSet(t) = UNION {ToSet(Branch[r]) : r \in Roots} /\ Once(t) /\ Hung(t, Roots)
  BY <1>3, <1>5, <1>7, TurnsOnce DEF Flattened
<1>9. ToSet(t) = D
  <2>1. Reached(f, c) = D
    BY <1>1, AllReached
  <2> QED BY <1>2, <1>8, <2>1 DEF Reached
<1> HIDE DEF t
<1>10. Len(t) \in Nat /\ t \in [1..Len(t) -> D] /\ \A x : x \in ToSet(t) <=> \E i \in 1..Len(t) : x = t[i]
  BY <1>8, LenProperties, InList
<1>11. Len(t) = c
  <2>1. t \in Injection(1..Len(t), D)
    BY <1>8, <1>10 DEF Once, Injection, IsInjective
  <2>2. t \in Surjection(1..Len(t), D)
    BY <1>9, <1>10 DEF Surjection
  <2>3. Cardinality(1..Len(t)) = Cardinality(D)
    BY <1>3, <2>1, <2>2, FS_Injection
  <2>4. Cardinality(1..Len(t)) = Len(t)
    BY SMTT(30), <1>10, FS_Interval
  <2> QED BY <2>3, <2>4
<1>12. \A i \in 1..Len(t) : Place(t[i]) = i
  <2> SUFFICES ASSUME NEW i \in 1..Len(t) PROVE (CHOOSE j \in DOMAIN t : t[j] = t[i]) = i
    BY DEF Place, t
  <2>1. DOMAIN t = 1..Len(t) /\ \A j \in 1..Len(t) : t[j] = t[i] => j = i
    BY <1>8, <1>10 DEF Once
  <2> QED BY <2>1
<1>13. ASSUME NEW p \in D \ Roots PROVE Place(procs[p]) < Place(p)
  <2>1. PICK i \in 1..Len(t) : p = t[i]
    BY <1>9, <1>10
  <2>2. PICK j \in 1..Len(t) : j < i /\ t[j] = procs[p]
    BY <1>8, <1>13, <2>1 DEF Hung
  <2>3. Place(p) = i /\ Place(procs[p]) = j
    BY <1>12, <2>1, <2>2
  <2> QED BY <2>2, <2>3
<1> QED BY <1>9, <1>11, <1>13 DEF t

LEMMA TreeFromInv == TreeInv => TreeWhole
<1> SUFFICES ASSUME TreeInv, ~Scanning, ~reused
             PROVE  /\ ToSet(Flattened) = DOMAIN procs
                    /\ Len(Flattened) = Cardinality(DOMAIN procs)
                    /\ \A p \in DOMAIN procs \ Roots : Place(procs[p]) < Place(p)
  BY DEF TreeWhole
<1>1. TreeTypeOK
  BY DEF TreeInv
<1>2. Rooted
  <2>1. Listed = DOMAIN procs
    BY DEF Listed, Scanning
  <2> QED BY <2>1 DEF TreeInv, Rooted
<1> QED BY <1>1, <1>2, FlattenedWhole
-----------------------------------------------------------------------------
(* The host.  It is enough to know from which profile a backend was taken. *)

\* What is found are different backends, that of the first hit first.
IsList(probes) == \E n \in Nat : DOMAIN probes = 1..n

LEMMA FoundFacts ==
  ASSUME NEW probes, IsList(probes), NEW facts, NEW fallback
  PROVE  /\ Cardinality(ToSet(Found(probes, facts, fallback))) = Len(Found(probes, facts, fallback))
         /\ Hits(probes, facts) = {} => Head(Found(probes, facts, fallback)) = fallback
         /\ \A p \in Hits(probes, facts) : (\A i \in Hits(probes, facts) : ~(i < p)) =>
              Head(Found(probes, facts, fallback)) = probes[p][2]
<1>1. PICK n \in Nat : DOMAIN probes = 1..n
  BY DEF IsList
<1> DEFINE hits == Hits(probes, facts)
<1> DEFINE names == Backends(probes)
<1> DEFINE first == {i \in hits : \A j \in hits : j < i => probes[j][2] # probes[i][2]}
<1> DEFINE once == Selected(names, first)
<1> DEFINE t == Found(probes, facts, fallback)
<1> DEFINE S == {probes[i][2] : i \in 1..n}
<1>2. names \in [1..n -> S] /\ \A i \in 1..n : names[i] = probes[i][2]
  BY <1>1 DEF Backends
<1>3. hits \subseteq 1..n
  BY <1>1 DEF Hits
<1>t. t = IF once = <<>> THEN <<fallback>> ELSE once
  BY DEF Found
<1> HIDE DEF hits, names, t, S
<1>4. names \in Seq(S) /\ DOMAIN names = 1..n
  BY <1>2
<1>5. \A i, j \in first : names[i] = names[j] => i = j
  <2>1. ASSUME NEW i \in first, NEW j \in first, names[i] = names[j], i < j PROVE FALSE
    <3>1. i \in hits /\ j \in hits /\ probes[i][2] # probes[j][2]
      BY <2>1
    <3> QED BY <1>2, <1>3, <2>1, <3>1
  <2>2. ASSUME NEW i \in first, NEW j \in first, names[i] = names[j] PROVE i = j
    <3>1. i \in Nat /\ j \in Nat
      BY <1>3
    <3>2. ~(i < j) /\ ~(j < i)
      BY <2>1, <2>2
    <3> QED BY <3>1, <3>2
  <2> QED BY <2>2
<1>6. \A p \in hits : (\A i \in hits : ~(i < p)) => p \in first /\ (\A i \in first : ~(i < p))
  OBVIOUS
<1> HIDE DEF first
<1>7. first \subseteq hits
  BY DEF first
<1>8. /\ first = {} => once = <<>>
      /\ \A p \in first : (\A i \in first : ~(i < p)) => once # <<>> /\ once[1] = names[p]
      /\ Cardinality(ToSet(once)) = Len(once)
  BY <1>3, <1>4, <1>5, <1>7, SelectedOrder
<1> HIDE DEF once
<1>9. Cardinality(ToSet(t)) = Len(t)
  <2>1. CASE once = <<>>
    <3>1. t = <<fallback>> /\ ToSet(<<fallback>>) = {fallback} /\ Len(<<fallback>>) = 1
      BY <1>t, <2>1 DEF ToSet
    <3> QED BY <3>1, FS_Singleton
  <2>2. CASE once # <<>>
    BY <1>t, <1>8, <2>2
  <2> QED BY <2>1, <2>2
<1>10. hits = {} => Head(t) = fallback
  <2>1. hits = {} => t = <<fallback>>
    BY <1>t, <1>7, <1>8
  <2> QED BY <2>1
<1>11. ASSUME NEW p \in hits, \A i \in hits : ~(i < p) PROVE Head(t) = probes[p][2]
  <2>1. once # <<>> /\ once[1] = names[p]
    BY <1>6, <1>8, <1>11
  <2>2. Head(t) = once[1]
    BY <1>t, <2>1
  <2> QED BY <1>2, <1>3, <2>1, <2>2
<1> QED BY <1>9, <1>10, <1>11 DEF t, hits

\* The first that is found is where a probe hits and none before it does.
LEMMA FirstFound ==
  ASSUME NEW probes, IsList(probes), NEW facts, NEW fallback, NEW p \in DOMAIN probes,
         probes[p][1] \in facts, \A i \in DOMAIN probes : i < p => probes[i][1] \notin facts
  PROVE  Head(Found(probes, facts, fallback)) = probes[p][2]
<1>1. p \in Hits(probes, facts) /\ \A i \in Hits(probes, facts) : ~(i < p)
  BY DEF Hits
<1> QED BY <1>1, FoundFacts

LEMMA NoneFound ==
  ASSUME NEW probes, IsList(probes), NEW facts, NEW fallback,
         \A i \in DOMAIN probes : probes[i][1] \notin facts
  PROVE  Head(Found(probes, facts, fallback)) = fallback
<1>1. Hits(probes, facts) = {}
  BY DEF Hits
<1> QED BY <1>1, FoundFacts

LEMMA OneTo4 == \A i \in 1..4 : i = 1 \/ i = 2 \/ i = 3 \/ i = 4
OBVIOUS

LEMMA OneTo7 == \A i \in 1..7 : i = 1 \/ i = 2 \/ i = 3 \/ i = 4 \/ i = 5 \/ i = 6 \/ i = 7
OBVIOUS

LEMMA FirewallProbesList ==
  /\ IsList(FirewallProbes) /\ DOMAIN FirewallProbes = 1..4
  /\ FirewallProbes[1][1] = "ufw" /\ FirewallProbes[1][2] = "ufw"
  /\ FirewallProbes[2][1] = "firewalld-runs" /\ FirewallProbes[2][2] = "firewalld"
  /\ FirewallProbes[3][1] = "nft" /\ FirewallProbes[3][2] = "nftables"
  /\ FirewallProbes[4][1] = "iptables" /\ FirewallProbes[4][2] = "iptables"
<1>1. DOMAIN FirewallProbes = 1..4
  BY DEF FirewallProbes
<1>2. IsList(FirewallProbes)
  BY <1>1 DEF IsList
<1> QED BY <1>1, <1>2 DEF FirewallProbes

LEMMA FirewallProbesFirst ==
  ASSUME NEW facts
  PROVE  /\ "ufw" \in facts =>
              Head(Found(FirewallProbes, facts, "nftables")) = "ufw"
         /\ "ufw" \notin facts /\ "firewalld-runs" \in facts =>
              Head(Found(FirewallProbes, facts, "nftables")) = "firewalld"
         /\ "ufw" \notin facts /\ "firewalld-runs" \notin facts /\ "nft" \in facts =>
              Head(Found(FirewallProbes, facts, "nftables")) = "nftables"
         /\ "ufw" \notin facts /\ "firewalld-runs" \notin facts /\ "nft" \notin facts /\ "iptables" \in facts =>
              Head(Found(FirewallProbes, facts, "nftables")) = "iptables"
         /\ "ufw" \notin facts /\ "firewalld-runs" \notin facts /\ "nft" \notin facts /\ "iptables" \notin facts =>
              Head(Found(FirewallProbes, facts, "nftables")) = "nftables"
<1>1. ASSUME "ufw" \in facts
     PROVE  Head(Found(FirewallProbes, facts, "nftables")) = "ufw"
  <2>1. /\ 1 \in DOMAIN FirewallProbes /\ FirewallProbes[1][1] \in facts
        /\ \A i \in DOMAIN FirewallProbes : i < 1 => FirewallProbes[i][1] \notin facts
    BY FirewallProbesList, OneTo4, <1>1
  <2>3. Head(Found(FirewallProbes, facts, "nftables")) = FirewallProbes[1][2]
    BY <2>1, FirewallProbesList, FirstFound
  <2> QED BY <2>3, FirewallProbesList
<1>2. ASSUME "ufw" \notin facts, "firewalld-runs" \in facts
     PROVE  Head(Found(FirewallProbes, facts, "nftables")) = "firewalld"
  <2>1. /\ 2 \in DOMAIN FirewallProbes /\ FirewallProbes[2][1] \in facts
        /\ \A i \in DOMAIN FirewallProbes : i < 2 => FirewallProbes[i][1] \notin facts
    BY FirewallProbesList, OneTo4, <1>2
  <2>3. Head(Found(FirewallProbes, facts, "nftables")) = FirewallProbes[2][2]
    BY <2>1, FirewallProbesList, FirstFound
  <2> QED BY <2>3, FirewallProbesList
<1>3. ASSUME "ufw" \notin facts, "firewalld-runs" \notin facts, "nft" \in facts
     PROVE  Head(Found(FirewallProbes, facts, "nftables")) = "nftables"
  <2>1. /\ 3 \in DOMAIN FirewallProbes /\ FirewallProbes[3][1] \in facts
        /\ \A i \in DOMAIN FirewallProbes : i < 3 => FirewallProbes[i][1] \notin facts
    BY FirewallProbesList, OneTo4, <1>3
  <2>3. Head(Found(FirewallProbes, facts, "nftables")) = FirewallProbes[3][2]
    BY <2>1, FirewallProbesList, FirstFound
  <2> QED BY <2>3, FirewallProbesList
<1>4. ASSUME "ufw" \notin facts, "firewalld-runs" \notin facts, "nft" \notin facts, "iptables" \in facts
     PROVE  Head(Found(FirewallProbes, facts, "nftables")) = "iptables"
  <2>1. /\ 4 \in DOMAIN FirewallProbes /\ FirewallProbes[4][1] \in facts
        /\ \A i \in DOMAIN FirewallProbes : i < 4 => FirewallProbes[i][1] \notin facts
    BY FirewallProbesList, OneTo4, <1>4
  <2>3. Head(Found(FirewallProbes, facts, "nftables")) = FirewallProbes[4][2]
    BY <2>1, FirewallProbesList, FirstFound
  <2> QED BY <2>3, FirewallProbesList
<1>5. ASSUME "ufw" \notin facts, "firewalld-runs" \notin facts, "nft" \notin facts, "iptables" \notin facts
     PROVE  Head(Found(FirewallProbes, facts, "nftables")) = "nftables"
  <2>1. \A i \in DOMAIN FirewallProbes : FirewallProbes[i][1] \notin facts
    BY FirewallProbesList, OneTo4, <1>5
  <2> QED BY <2>1, FirewallProbesList, NoneFound
<1> QED BY <1>1, <1>2, <1>3, <1>4, <1>5

LEMMA FirewallEnginesList ==
  /\ IsList(FirewallEngines) /\ DOMAIN FirewallEngines = 1..4
  /\ FirewallEngines[1][1] = "ufw" /\ FirewallEngines[1][2] = "ufw"
  /\ FirewallEngines[2][1] = "firewall-cmd" /\ FirewallEngines[2][2] = "firewalld"
  /\ FirewallEngines[3][1] = "nft" /\ FirewallEngines[3][2] = "nftables"
  /\ FirewallEngines[4][1] = "iptables" /\ FirewallEngines[4][2] = "iptables"
<1>1. DOMAIN FirewallEngines = 1..4
  BY DEF FirewallEngines
<1>2. IsList(FirewallEngines)
  BY <1>1 DEF IsList
<1> QED BY <1>1, <1>2 DEF FirewallEngines

LEMMA FirewallEnginesFirst ==
  ASSUME NEW facts
  PROVE  /\ "ufw" \in facts =>
              Head(Found(FirewallEngines, facts, "nftables")) = "ufw"
         /\ "ufw" \notin facts /\ "firewall-cmd" \in facts =>
              Head(Found(FirewallEngines, facts, "nftables")) = "firewalld"
         /\ "ufw" \notin facts /\ "firewall-cmd" \notin facts /\ "nft" \in facts =>
              Head(Found(FirewallEngines, facts, "nftables")) = "nftables"
         /\ "ufw" \notin facts /\ "firewall-cmd" \notin facts /\ "nft" \notin facts /\ "iptables" \in facts =>
              Head(Found(FirewallEngines, facts, "nftables")) = "iptables"
         /\ "ufw" \notin facts /\ "firewall-cmd" \notin facts /\ "nft" \notin facts /\ "iptables" \notin facts =>
              Head(Found(FirewallEngines, facts, "nftables")) = "nftables"
<1>1. ASSUME "ufw" \in facts
     PROVE  Head(Found(FirewallEngines, facts, "nftables")) = "ufw"
  <2>1. /\ 1 \in DOMAIN FirewallEngines /\ FirewallEngines[1][1] \in facts
        /\ \A i \in DOMAIN FirewallEngines : i < 1 => FirewallEngines[i][1] \notin facts
    BY FirewallEnginesList, OneTo4, <1>1
  <2>3. Head(Found(FirewallEngines, facts, "nftables")) = FirewallEngines[1][2]
    BY <2>1, FirewallEnginesList, FirstFound
  <2> QED BY <2>3, FirewallEnginesList
<1>2. ASSUME "ufw" \notin facts, "firewall-cmd" \in facts
     PROVE  Head(Found(FirewallEngines, facts, "nftables")) = "firewalld"
  <2>1. /\ 2 \in DOMAIN FirewallEngines /\ FirewallEngines[2][1] \in facts
        /\ \A i \in DOMAIN FirewallEngines : i < 2 => FirewallEngines[i][1] \notin facts
    BY FirewallEnginesList, OneTo4, <1>2
  <2>3. Head(Found(FirewallEngines, facts, "nftables")) = FirewallEngines[2][2]
    BY <2>1, FirewallEnginesList, FirstFound
  <2> QED BY <2>3, FirewallEnginesList
<1>3. ASSUME "ufw" \notin facts, "firewall-cmd" \notin facts, "nft" \in facts
     PROVE  Head(Found(FirewallEngines, facts, "nftables")) = "nftables"
  <2>1. /\ 3 \in DOMAIN FirewallEngines /\ FirewallEngines[3][1] \in facts
        /\ \A i \in DOMAIN FirewallEngines : i < 3 => FirewallEngines[i][1] \notin facts
    BY FirewallEnginesList, OneTo4, <1>3
  <2>3. Head(Found(FirewallEngines, facts, "nftables")) = FirewallEngines[3][2]
    BY <2>1, FirewallEnginesList, FirstFound
  <2> QED BY <2>3, FirewallEnginesList
<1>4. ASSUME "ufw" \notin facts, "firewall-cmd" \notin facts, "nft" \notin facts, "iptables" \in facts
     PROVE  Head(Found(FirewallEngines, facts, "nftables")) = "iptables"
  <2>1. /\ 4 \in DOMAIN FirewallEngines /\ FirewallEngines[4][1] \in facts
        /\ \A i \in DOMAIN FirewallEngines : i < 4 => FirewallEngines[i][1] \notin facts
    BY FirewallEnginesList, OneTo4, <1>4
  <2>3. Head(Found(FirewallEngines, facts, "nftables")) = FirewallEngines[4][2]
    BY <2>1, FirewallEnginesList, FirstFound
  <2> QED BY <2>3, FirewallEnginesList
<1>5. ASSUME "ufw" \notin facts, "firewall-cmd" \notin facts, "nft" \notin facts, "iptables" \notin facts
     PROVE  Head(Found(FirewallEngines, facts, "nftables")) = "nftables"
  <2>1. \A i \in DOMAIN FirewallEngines : FirewallEngines[i][1] \notin facts
    BY FirewallEnginesList, OneTo4, <1>5
  <2> QED BY <2>1, FirewallEnginesList, NoneFound
<1> QED BY <1>1, <1>2, <1>3, <1>4, <1>5

LEMMA PackageProbesList ==
  /\ IsList(PackageProbes) /\ DOMAIN PackageProbes = 1..7
  /\ PackageProbes[1][1] = "apt" /\ PackageProbes[1][2] = "apt"
  /\ PackageProbes[2][1] = "dnf" /\ PackageProbes[2][2] = "dnf"
  /\ PackageProbes[3][1] = "yum" /\ PackageProbes[3][2] = "dnf"
  /\ PackageProbes[4][1] = "pacman" /\ PackageProbes[4][2] = "pacman"
  /\ PackageProbes[5][1] = "zypper" /\ PackageProbes[5][2] = "zypper"
  /\ PackageProbes[6][1] = "apk" /\ PackageProbes[6][2] = "apk"
  /\ PackageProbes[7][1] = "emerge" /\ PackageProbes[7][2] = "apt"
<1>1. DOMAIN PackageProbes = 1..7
  BY DEF PackageProbes
<1>2. IsList(PackageProbes)
  BY <1>1 DEF IsList
<1> QED BY <1>1, <1>2 DEF PackageProbes

LEMMA PackageProbesFirst ==
  ASSUME NEW facts
  PROVE  /\ "apt" \in facts =>
              Head(Found(PackageProbes, facts, "apt")) = "apt"
         /\ "apt" \notin facts /\ "dnf" \in facts =>
              Head(Found(PackageProbes, facts, "apt")) = "dnf"
         /\ "apt" \notin facts /\ "dnf" \notin facts /\ "yum" \in facts =>
              Head(Found(PackageProbes, facts, "apt")) = "dnf"
         /\ "apt" \notin facts /\ "dnf" \notin facts /\ "yum" \notin facts /\ "pacman" \in facts =>
              Head(Found(PackageProbes, facts, "apt")) = "pacman"
         /\ "apt" \notin facts /\ "dnf" \notin facts /\ "yum" \notin facts /\ "pacman" \notin facts /\ "zypper" \in facts =>
              Head(Found(PackageProbes, facts, "apt")) = "zypper"
         /\ "apt" \notin facts /\ "dnf" \notin facts /\ "yum" \notin facts /\ "pacman" \notin facts /\ "zypper" \notin facts /\ "apk" \in facts =>
              Head(Found(PackageProbes, facts, "apt")) = "apk"
         /\ "apt" \notin facts /\ "dnf" \notin facts /\ "yum" \notin facts /\ "pacman" \notin facts /\ "zypper" \notin facts /\ "apk" \notin facts /\ "emerge" \in facts =>
              Head(Found(PackageProbes, facts, "apt")) = "apt"
         /\ "apt" \notin facts /\ "dnf" \notin facts /\ "yum" \notin facts /\ "pacman" \notin facts /\ "zypper" \notin facts /\ "apk" \notin facts /\ "emerge" \notin facts =>
              Head(Found(PackageProbes, facts, "apt")) = "apt"
<1>1. ASSUME "apt" \in facts
     PROVE  Head(Found(PackageProbes, facts, "apt")) = "apt"
  <2>1. /\ 1 \in DOMAIN PackageProbes /\ PackageProbes[1][1] \in facts
        /\ \A i \in DOMAIN PackageProbes : i < 1 => PackageProbes[i][1] \notin facts
    BY PackageProbesList, OneTo7, <1>1
  <2>3. Head(Found(PackageProbes, facts, "apt")) = PackageProbes[1][2]
    BY <2>1, PackageProbesList, FirstFound
  <2> QED BY <2>3, PackageProbesList
<1>2. ASSUME "apt" \notin facts, "dnf" \in facts
     PROVE  Head(Found(PackageProbes, facts, "apt")) = "dnf"
  <2>1. /\ 2 \in DOMAIN PackageProbes /\ PackageProbes[2][1] \in facts
        /\ \A i \in DOMAIN PackageProbes : i < 2 => PackageProbes[i][1] \notin facts
    BY PackageProbesList, OneTo7, <1>2
  <2>3. Head(Found(PackageProbes, facts, "apt")) = PackageProbes[2][2]
    BY <2>1, PackageProbesList, FirstFound
  <2> QED BY <2>3, PackageProbesList
<1>3. ASSUME "apt" \notin facts, "dnf" \notin facts, "yum" \in facts
     PROVE  Head(Found(PackageProbes, facts, "apt")) = "dnf"
  <2>1. /\ 3 \in DOMAIN PackageProbes /\ PackageProbes[3][1] \in facts
        /\ \A i \in DOMAIN PackageProbes : i < 3 => PackageProbes[i][1] \notin facts
    BY PackageProbesList, OneTo7, <1>3
  <2>3. Head(Found(PackageProbes, facts, "apt")) = PackageProbes[3][2]
    BY <2>1, PackageProbesList, FirstFound
  <2> QED BY <2>3, PackageProbesList
<1>4. ASSUME "apt" \notin facts, "dnf" \notin facts, "yum" \notin facts, "pacman" \in facts
     PROVE  Head(Found(PackageProbes, facts, "apt")) = "pacman"
  <2>1. /\ 4 \in DOMAIN PackageProbes /\ PackageProbes[4][1] \in facts
        /\ \A i \in DOMAIN PackageProbes : i < 4 => PackageProbes[i][1] \notin facts
    BY PackageProbesList, OneTo7, <1>4
  <2>3. Head(Found(PackageProbes, facts, "apt")) = PackageProbes[4][2]
    BY <2>1, PackageProbesList, FirstFound
  <2> QED BY <2>3, PackageProbesList
<1>5. ASSUME "apt" \notin facts, "dnf" \notin facts, "yum" \notin facts, "pacman" \notin facts, "zypper" \in facts
     PROVE  Head(Found(PackageProbes, facts, "apt")) = "zypper"
  <2>1. /\ 5 \in DOMAIN PackageProbes /\ PackageProbes[5][1] \in facts
        /\ \A i \in DOMAIN PackageProbes : i < 5 => PackageProbes[i][1] \notin facts
    BY PackageProbesList, OneTo7, <1>5
  <2>3. Head(Found(PackageProbes, facts, "apt")) = PackageProbes[5][2]
    BY <2>1, PackageProbesList, FirstFound
  <2> QED BY <2>3, PackageProbesList
<1>6. ASSUME "apt" \notin facts, "dnf" \notin facts, "yum" \notin facts, "pacman" \notin facts, "zypper" \notin facts, "apk" \in facts
     PROVE  Head(Found(PackageProbes, facts, "apt")) = "apk"
  <2>1. /\ 6 \in DOMAIN PackageProbes /\ PackageProbes[6][1] \in facts
        /\ \A i \in DOMAIN PackageProbes : i < 6 => PackageProbes[i][1] \notin facts
    BY PackageProbesList, OneTo7, <1>6
  <2>3. Head(Found(PackageProbes, facts, "apt")) = PackageProbes[6][2]
    BY <2>1, PackageProbesList, FirstFound
  <2> QED BY <2>3, PackageProbesList
<1>7. ASSUME "apt" \notin facts, "dnf" \notin facts, "yum" \notin facts, "pacman" \notin facts, "zypper" \notin facts, "apk" \notin facts, "emerge" \in facts
     PROVE  Head(Found(PackageProbes, facts, "apt")) = "apt"
  <2>1. /\ 7 \in DOMAIN PackageProbes /\ PackageProbes[7][1] \in facts
        /\ \A i \in DOMAIN PackageProbes : i < 7 => PackageProbes[i][1] \notin facts
    BY PackageProbesList, OneTo7, <1>7
  <2>3. Head(Found(PackageProbes, facts, "apt")) = PackageProbes[7][2]
    BY <2>1, PackageProbesList, FirstFound
  <2> QED BY <2>3, PackageProbesList
<1>8. ASSUME "apt" \notin facts, "dnf" \notin facts, "yum" \notin facts, "pacman" \notin facts, "zypper" \notin facts, "apk" \notin facts, "emerge" \notin facts
     PROVE  Head(Found(PackageProbes, facts, "apt")) = "apt"
  <2>1. \A i \in DOMAIN PackageProbes : PackageProbes[i][1] \notin facts
    BY PackageProbesList, OneTo7, <1>8
  <2> QED BY <2>1, PackageProbesList, NoneFound
<1> QED BY <1>1, <1>2, <1>3, <1>4, <1>5, <1>6, <1>7, <1>8

LEMMA PackageHelpersList ==
  /\ IsList(PackageHelpers) /\ DOMAIN PackageHelpers = 1..7
  /\ PackageHelpers[1][1] = "pacman" /\ PackageHelpers[1][2] = "pacman"
  /\ PackageHelpers[2][1] = "yay" /\ PackageHelpers[2][2] = "yay"
  /\ PackageHelpers[3][1] = "apt" /\ PackageHelpers[3][2] = "apt"
  /\ PackageHelpers[4][1] = "dnf" /\ PackageHelpers[4][2] = "dnf"
  /\ PackageHelpers[5][1] = "yum" /\ PackageHelpers[5][2] = "dnf"
  /\ PackageHelpers[6][1] = "apk" /\ PackageHelpers[6][2] = "apk"
  /\ PackageHelpers[7][1] = "zypper" /\ PackageHelpers[7][2] = "zypper"
<1>1. DOMAIN PackageHelpers = 1..7
  BY DEF PackageHelpers
<1>2. IsList(PackageHelpers)
  BY <1>1 DEF IsList
<1> QED BY <1>1, <1>2 DEF PackageHelpers

LEMMA PackageHelpersFirst ==
  ASSUME NEW facts
  PROVE  /\ "pacman" \in facts =>
              Head(Found(PackageHelpers, facts, "apt")) = "pacman"
         /\ "pacman" \notin facts /\ "yay" \in facts =>
              Head(Found(PackageHelpers, facts, "apt")) = "yay"
         /\ "pacman" \notin facts /\ "yay" \notin facts /\ "apt" \in facts =>
              Head(Found(PackageHelpers, facts, "apt")) = "apt"
         /\ "pacman" \notin facts /\ "yay" \notin facts /\ "apt" \notin facts /\ "dnf" \in facts =>
              Head(Found(PackageHelpers, facts, "apt")) = "dnf"
         /\ "pacman" \notin facts /\ "yay" \notin facts /\ "apt" \notin facts /\ "dnf" \notin facts /\ "yum" \in facts =>
              Head(Found(PackageHelpers, facts, "apt")) = "dnf"
         /\ "pacman" \notin facts /\ "yay" \notin facts /\ "apt" \notin facts /\ "dnf" \notin facts /\ "yum" \notin facts /\ "apk" \in facts =>
              Head(Found(PackageHelpers, facts, "apt")) = "apk"
         /\ "pacman" \notin facts /\ "yay" \notin facts /\ "apt" \notin facts /\ "dnf" \notin facts /\ "yum" \notin facts /\ "apk" \notin facts /\ "zypper" \in facts =>
              Head(Found(PackageHelpers, facts, "apt")) = "zypper"
         /\ "pacman" \notin facts /\ "yay" \notin facts /\ "apt" \notin facts /\ "dnf" \notin facts /\ "yum" \notin facts /\ "apk" \notin facts /\ "zypper" \notin facts =>
              Head(Found(PackageHelpers, facts, "apt")) = "apt"
<1>1. ASSUME "pacman" \in facts
     PROVE  Head(Found(PackageHelpers, facts, "apt")) = "pacman"
  <2>1. /\ 1 \in DOMAIN PackageHelpers /\ PackageHelpers[1][1] \in facts
        /\ \A i \in DOMAIN PackageHelpers : i < 1 => PackageHelpers[i][1] \notin facts
    BY PackageHelpersList, OneTo7, <1>1
  <2>3. Head(Found(PackageHelpers, facts, "apt")) = PackageHelpers[1][2]
    BY <2>1, PackageHelpersList, FirstFound
  <2> QED BY <2>3, PackageHelpersList
<1>2. ASSUME "pacman" \notin facts, "yay" \in facts
     PROVE  Head(Found(PackageHelpers, facts, "apt")) = "yay"
  <2>1. /\ 2 \in DOMAIN PackageHelpers /\ PackageHelpers[2][1] \in facts
        /\ \A i \in DOMAIN PackageHelpers : i < 2 => PackageHelpers[i][1] \notin facts
    BY PackageHelpersList, OneTo7, <1>2
  <2>3. Head(Found(PackageHelpers, facts, "apt")) = PackageHelpers[2][2]
    BY <2>1, PackageHelpersList, FirstFound
  <2> QED BY <2>3, PackageHelpersList
<1>3. ASSUME "pacman" \notin facts, "yay" \notin facts, "apt" \in facts
     PROVE  Head(Found(PackageHelpers, facts, "apt")) = "apt"
  <2>1. /\ 3 \in DOMAIN PackageHelpers /\ PackageHelpers[3][1] \in facts
        /\ \A i \in DOMAIN PackageHelpers : i < 3 => PackageHelpers[i][1] \notin facts
    BY PackageHelpersList, OneTo7, <1>3
  <2>3. Head(Found(PackageHelpers, facts, "apt")) = PackageHelpers[3][2]
    BY <2>1, PackageHelpersList, FirstFound
  <2> QED BY <2>3, PackageHelpersList
<1>4. ASSUME "pacman" \notin facts, "yay" \notin facts, "apt" \notin facts, "dnf" \in facts
     PROVE  Head(Found(PackageHelpers, facts, "apt")) = "dnf"
  <2>1. /\ 4 \in DOMAIN PackageHelpers /\ PackageHelpers[4][1] \in facts
        /\ \A i \in DOMAIN PackageHelpers : i < 4 => PackageHelpers[i][1] \notin facts
    BY PackageHelpersList, OneTo7, <1>4
  <2>3. Head(Found(PackageHelpers, facts, "apt")) = PackageHelpers[4][2]
    BY <2>1, PackageHelpersList, FirstFound
  <2> QED BY <2>3, PackageHelpersList
<1>5. ASSUME "pacman" \notin facts, "yay" \notin facts, "apt" \notin facts, "dnf" \notin facts, "yum" \in facts
     PROVE  Head(Found(PackageHelpers, facts, "apt")) = "dnf"
  <2>1. /\ 5 \in DOMAIN PackageHelpers /\ PackageHelpers[5][1] \in facts
        /\ \A i \in DOMAIN PackageHelpers : i < 5 => PackageHelpers[i][1] \notin facts
    BY PackageHelpersList, OneTo7, <1>5
  <2>3. Head(Found(PackageHelpers, facts, "apt")) = PackageHelpers[5][2]
    BY <2>1, PackageHelpersList, FirstFound
  <2> QED BY <2>3, PackageHelpersList
<1>6. ASSUME "pacman" \notin facts, "yay" \notin facts, "apt" \notin facts, "dnf" \notin facts, "yum" \notin facts, "apk" \in facts
     PROVE  Head(Found(PackageHelpers, facts, "apt")) = "apk"
  <2>1. /\ 6 \in DOMAIN PackageHelpers /\ PackageHelpers[6][1] \in facts
        /\ \A i \in DOMAIN PackageHelpers : i < 6 => PackageHelpers[i][1] \notin facts
    BY PackageHelpersList, OneTo7, <1>6
  <2>3. Head(Found(PackageHelpers, facts, "apt")) = PackageHelpers[6][2]
    BY <2>1, PackageHelpersList, FirstFound
  <2> QED BY <2>3, PackageHelpersList
<1>7. ASSUME "pacman" \notin facts, "yay" \notin facts, "apt" \notin facts, "dnf" \notin facts, "yum" \notin facts, "apk" \notin facts, "zypper" \in facts
     PROVE  Head(Found(PackageHelpers, facts, "apt")) = "zypper"
  <2>1. /\ 7 \in DOMAIN PackageHelpers /\ PackageHelpers[7][1] \in facts
        /\ \A i \in DOMAIN PackageHelpers : i < 7 => PackageHelpers[i][1] \notin facts
    BY PackageHelpersList, OneTo7, <1>7
  <2>3. Head(Found(PackageHelpers, facts, "apt")) = PackageHelpers[7][2]
    BY <2>1, PackageHelpersList, FirstFound
  <2> QED BY <2>3, PackageHelpersList
<1>8. ASSUME "pacman" \notin facts, "yay" \notin facts, "apt" \notin facts, "dnf" \notin facts, "yum" \notin facts, "apk" \notin facts, "zypper" \notin facts
     PROVE  Head(Found(PackageHelpers, facts, "apt")) = "apt"
  <2>1. \A i \in DOMAIN PackageHelpers : PackageHelpers[i][1] \notin facts
    BY PackageHelpersList, OneTo7, <1>8
  <2> QED BY <2>1, PackageHelpersList, NoneFound
<1> QED BY <1>1, <1>2, <1>3, <1>4, <1>5, <1>6, <1>7, <1>8


\* On the hosts there are, the two lists of engines, and of managers, begin alike.
LEMMA FirewallAlike ==
  ASSUME NEW facts, "firewalld-runs" \in facts => "firewall-cmd" \in facts,
         "firewall-cmd" \in facts => "firewalld-runs" \in facts \/ "ufw" \in facts
  PROVE  Head(Found(FirewallEngines, facts, "nftables")) =
           Head(Found(FirewallProbes, facts, "nftables"))
BY FirewallProbesFirst, FirewallEnginesFirst

LEMMA PackagesAlike ==
  ASSUME NEW facts, NEW f \in Families, facts \subseteq f \union {"sbin-on-PATH"},
         "yay" \in facts => "pacman" \in facts
  PROVE  Head(Found(PackageHelpers, facts, "apt")) = Head(Found(PackageProbes, facts, "apt"))
<1>1. \/ f = {"apt"} \/ f = {"dnf", "yum"} \/ f = {"pacman", "yay"}
      \/ f = {"zypper"} \/ f = {"apk"} \/ f = {"emerge"}
  BY DEF Families
<1>2. CASE f = {"apt"}
  <2>1. "dnf" \notin facts /\ "yum" \notin facts /\ "pacman" \notin facts /\ "yay" \notin facts /\ "zypper" \notin facts /\ "apk" \notin facts /\ "emerge" \notin facts
    BY <1>2
  <2> QED BY <2>1, PackageProbesFirst, PackageHelpersFirst
<1>3. CASE f = {"dnf", "yum"}
  <2>1. "apt" \notin facts /\ "pacman" \notin facts /\ "yay" \notin facts /\ "zypper" \notin facts /\ "apk" \notin facts /\ "emerge" \notin facts
    BY <1>3
  <2> QED BY <2>1, PackageProbesFirst, PackageHelpersFirst
<1>4. CASE f = {"pacman", "yay"}
  <2>1. "apt" \notin facts /\ "dnf" \notin facts /\ "yum" \notin facts /\ "zypper" \notin facts /\ "apk" \notin facts /\ "emerge" \notin facts
    BY <1>4
  <2> QED BY <2>1, PackageProbesFirst, PackageHelpersFirst
<1>5. CASE f = {"zypper"}
  <2>1. "apt" \notin facts /\ "dnf" \notin facts /\ "yum" \notin facts /\ "pacman" \notin facts /\ "yay" \notin facts /\ "apk" \notin facts /\ "emerge" \notin facts
    BY <1>5
  <2> QED BY <2>1, PackageProbesFirst, PackageHelpersFirst
<1>6. CASE f = {"apk"}
  <2>1. "apt" \notin facts /\ "dnf" \notin facts /\ "yum" \notin facts /\ "pacman" \notin facts /\ "yay" \notin facts /\ "zypper" \notin facts /\ "emerge" \notin facts
    BY <1>6
  <2> QED BY <2>1, PackageProbesFirst, PackageHelpersFirst
<1>7. CASE f = {"emerge"}
  <2>1. "apt" \notin facts /\ "dnf" \notin facts /\ "yum" \notin facts /\ "pacman" \notin facts /\ "yay" \notin facts /\ "zypper" \notin facts /\ "apk" \notin facts
    BY <1>7
  <2> QED BY <2>1, PackageProbesFirst, PackageHelpersFirst
<1> QED BY <1>1, <1>2, <1>3, <1>4, <1>5, <1>6, <1>7

\* What Detect takes, and what Scan finds first, on this host.
Taken ==
  CASE subject = "firewall" -> Head(Found(FirewallProbes, host, "nftables"))
    [] subject = "packages" -> Head(Found(PackageProbes, host, "apt"))
    [] OTHER -> service

Offer ==
  IF subject = "firewall" THEN Head(Found(FirewallEngines, OnPath, "nftables"))
  ELSE Head(Found(PackageHelpers, OnPath, "apt"))

HostInv ==
  /\ HostTypeOK
  /\ subject \in {"firewall", "packages", "init"}
  /\ kept /\ service # "none-yet" => service = Taken
  /\ offered # <<>> => subject # "init"
  /\ kept /\ offered # <<>> => Head(offered) = Offer

LEMMA HostInitially == HostInit => HostInv
<1> SUFFICES ASSUME HostInit PROVE HostInv
  OBVIOUS
<1>1. offered = <<>> /\ service = "none-yet" /\ subject \in DOMAIN Facts /\ host \in Hosts(subject)
  BY DEF HostInit
<1>2. subject \in {"firewall", "packages", "init"}
  BY <1>1 DEF Facts
<1>3. Cardinality(ToSet(<<>>)) = Len(<<>>)
  <2>1. ToSet(<<>>) = {} /\ Len(<<>>) = 0
    BY DEF ToSet
  <2> QED BY <2>1, FS_EmptySet
<1> QED BY <1>1, <1>2, <1>3 DEF HostInv, HostTypeOK

LEMMA HostSteps == HostInv /\ [HostNext]_hostVars => HostInv'
<1> SUFFICES ASSUME HostInv, [HostNext]_hostVars PROVE HostInv'
  OBVIOUS
<1>1. CASE Detect
  <2>1. UNCHANGED <<subject, host, kept, offered>> /\ service = "none-yet" /\ offered = <<>>
    BY <1>1 DEF Detect, HostInv, HostTypeOK
  <2>2. service' = CASE subject = "firewall" -> Head(Found(FirewallProbes, host, "nftables"))
                  [] subject = "packages" -> Head(Found(PackageProbes, host, "apt"))
                  [] subject = "init" ->
                       IF InitSystem \in {"openrc", "sysvinit"} THEN InitSystem ELSE "systemd"
    BY <1>1 DEF Detect
  <2>3. service' = Taken'
    BY <2>1, <2>2 DEF Taken, HostInv
  <2> QED BY <2>1, <2>3 DEF HostInv, HostTypeOK
<1>2. CASE Scan
  <2>1. /\ UNCHANGED <<subject, host, kept, service>> /\ service # "none-yet" /\ subject # "init"
        /\ offered' = IF subject = "firewall" THEN Found(FirewallEngines, OnPath, "nftables")
                      ELSE Found(PackageHelpers, OnPath, "apt")
    BY <1>2 DEF Scan
  <2>2. Cardinality(ToSet(offered')) = Len(offered')
    <3>2. \A facts, fallback :
            Cardinality(ToSet(Found(FirewallEngines, facts, fallback))) =
              Len(Found(FirewallEngines, facts, fallback))
      BY FoundFacts, FirewallEnginesList
    <3>3. \A facts, fallback :
            Cardinality(ToSet(Found(PackageHelpers, facts, fallback))) =
              Len(Found(PackageHelpers, facts, fallback))
      BY FoundFacts, PackageHelpersList
    <3> QED BY <2>1, <3>2, <3>3
  <2>3. Head(offered') = Offer'
    BY <2>1 DEF Offer, OnPath
  <2>4. Taken' = Taken
    BY <2>1 DEF Taken
  <2> QED BY <2>1, <2>2, <2>3, <2>4 DEF HostInv, HostTypeOK
<1>3. CASE Change
  <2>1. UNCHANGED <<subject, service, offered>> /\ ~kept' /\ host' \in Hosts(subject)
    BY <1>3 DEF Change
  <2> QED BY <2>1 DEF HostInv, HostTypeOK
<1>4. CASE UNCHANGED hostVars
  BY <1>4 DEF hostVars, HostInv, HostTypeOK, Taken, Offer, OnPath
<1> QED BY <1>1, <1>2, <1>3, <1>4 DEF HostNext

LEMMA EnginesFromInv == HostInv => EnginesAgree
<1> SUFFICES ASSUME HostInv, offered # <<>>, kept, "sbin-on-PATH" \in host, Head(offered) # service
             PROVE  \/ subject = "firewall" /\ "firewall-cmd" \in host /\ "firewalld-runs" \notin host
                         /\ "ufw" \notin host
                    \/ subject = "packages" /\ ~\E f \in Families : host \subseteq f \union {"sbin-on-PATH"}
  BY DEF EnginesAgree
<1>1. /\ Head(offered) = Offer /\ service = Taken /\ OnPath = host
      /\ subject = "firewall" \/ subject = "packages"
      /\ host \in Hosts(subject)
  BY DEF HostInv, HostTypeOK, OnPath
<1>2. subject # "init"
  BY <1>1
<1>3. /\ "firewalld-runs" \in host => "firewall-cmd" \in host
      /\ "yay" \in host => "pacman" \in host
  BY <1>1, <1>2 DEF Hosts
<1>4. CASE subject = "firewall"
  <2>1. /\ Offer = Head(Found(FirewallEngines, host, "nftables"))
        /\ Taken = Head(Found(FirewallProbes, host, "nftables"))
    BY <1>1, <1>4 DEF Offer, Taken
  <2> QED BY <1>1, <1>3, <1>4, <2>1, FirewallAlike
<1>5. CASE subject = "packages"
  <2>1. /\ Offer = Head(Found(PackageHelpers, host, "apt"))
        /\ Taken = Head(Found(PackageProbes, host, "apt"))
    BY <1>1, <1>5 DEF Offer, Taken
  <2> QED BY <1>1, <1>3, <1>5, <2>1, PackagesAlike
<1> QED BY <1>1, <1>4, <1>5
-----------------------------------------------------------------------------
(* The audit log.                                                          *)

\* An open handle is one on the configured path: Reload closes it first.
AuditInv ==
  /\ logPath \in Paths
  /\ file \in {NoFile} \union [path : {logPath}, linked : BOOLEAN]
  /\ starting \in {"no", "running", "ended"} /\ health \in {"ok", "down"}
  /\ logs \in [Paths -> Seq(1..MaxEvents)]
  /\ events \in 0..MaxEvents

\* Opening gives no handle or one on the file that is at the path.
LEMMA OpenLogGives ==
  ASSUME NEW p PROVE OpenLog(p) \in {NoFile} \union [path : {p}, linked : {TRUE}]
BY DEF OpenLog

\* A handle is its two fields.
LEMMA SameHandle ==
  ASSUME NEW P, NEW f \in [path : P, linked : BOOLEAN], NEW g \in [path : P, linked : BOOLEAN],
         f.path = g.path, f.linked = g.linked
  PROVE  f = g
OBVIOUS

LEMMA AuditInitially == AuditInit => AuditInv
BY AuditAssumption DEF AuditInit, AuditInv

LEMMA AuditSteps == AuditInv /\ [AuditNext]_auditVars => AuditInv'
<1> SUFFICES ASSUME AuditInv, [AuditNext]_auditVars PROVE AuditInv'
  OBVIOUS
<1> USE DEF AuditInv
<1>1. CASE Start
  BY <1>1, OpenLogGives DEF Start, Contents
<1>2. CASE Done
  BY <1>2 DEF Done
<1>3. CASE WriteEvent
  <2> DEFINE handle == IF file = NoFile THEN OpenLog(logPath) ELSE file
  <2>1. handle \in {NoFile} \union [path : {logPath}, linked : BOOLEAN]
    BY OpenLogGives
  <2>2. /\ file' = handle /\ events' = events + 1 /\ events' \in 1..MaxEvents
        /\ health' = IF file = NoFile THEN Healthy(handle) ELSE health
        /\ logs' = IF handle.linked /\ disk[handle.path] # "full"
                     THEN [logs EXCEPT ![handle.path] = Append(@, events')] ELSE logs
        /\ UNCHANGED <<logPath, starting, disk>>
    BY <1>3, AuditAssumption DEF WriteEvent, Contents
  <2> HIDE DEF handle
  <2>3. handle.linked => handle.path = logPath
    BY <2>1 DEF NoFile
  <2>4. logs' \in [Paths -> Seq(1..MaxEvents)]
    <3>1. Append(logs[logPath], events') \in Seq(1..MaxEvents)
      BY <2>2
    <3> QED BY <2>2, <2>3, <3>1
  <2>5. health' \in {"ok", "down"}
    BY <2>2 DEF Healthy
  <2> QED BY <2>1, <2>2, <2>4, <2>5, AuditAssumption
<1>4. CASE DiskChanges
  BY <1>4 DEF DiskChanges
<1>5. CASE Rotate
  <2>1. PICK p \in Paths :
          /\ logs' = [logs EXCEPT ![p] = <<>>]
          /\ file' = IF file.path = p THEN [file EXCEPT !.linked = FALSE] ELSE file
          /\ UNCHANGED <<logPath, starting, health, disk, events>>
    BY <1>5 DEF Rotate
  <2>2. file' \in {NoFile} \union [path : {logPath}, linked : BOOLEAN]
    <3>1. CASE file = NoFile
      <4>1. [NoFile EXCEPT !.linked = FALSE] = NoFile
        <5> DEFINE f == [NoFile EXCEPT !.linked = FALSE]
        <5>1. f \in [path : {"none"}, linked : BOOLEAN] /\ f.path = "none" /\ f.linked = FALSE
          BY DEF NoFile
        <5>2. /\ NoFile \in [path : {"none"}, linked : BOOLEAN]
              /\ NoFile.path = "none" /\ NoFile.linked = FALSE
          BY DEF NoFile
        <5> QED BY <5>1, <5>2, SameHandle
      <4> QED BY <2>1, <3>1, <4>1
    <3>2. CASE file \in [path : {logPath}, linked : BOOLEAN]
      <4>1. [file EXCEPT !.linked = FALSE] \in [path : {logPath}, linked : BOOLEAN]
        BY <3>2
      <4> QED BY <2>1, <3>2, <4>1
    <3> QED BY <3>1, <3>2
  <2>3. logs' \in [Paths -> Seq(1..MaxEvents)]
    BY <2>1
  <2> QED BY <2>1, <2>2, <2>3
<1>6. ASSUME NEW p \in Paths, Reload(p) PROVE AuditInv'
  BY <1>6, OpenLogGives DEF Reload, Contents, Healthy
<1>7. CASE UNCHANGED auditVars
  BY <1>7 DEF auditVars
<1> QED BY <1>1, <1>2, <1>3, <1>4, <1>5, <1>6, <1>7 DEF AuditNext

\* A log begins with itself, and with what it was before an event was added.
LEMMA PrefixFacts ==
  ASSUME NEW S, NEW s \in Seq(S)
  PROVE  IsPrefix(s, s) /\ \A e \in S : IsPrefix(s, Append(s, e))
BY DEF IsPrefix

LEMMA AppendOnlyStep ==
  AuditInv /\ AuditInv' /\ [AuditNext]_auditVars =>
    [Rotate \/ \A p \in Paths : IsPrefix(logs[p], logs'[p])]_auditVars
<1> SUFFICES ASSUME AuditInv, AuditInv', AuditNext, ~Rotate, NEW p \in Paths
             PROVE  IsPrefix(logs[p], logs'[p])
  OBVIOUS
<1>1. logs[p] \in Seq(1..MaxEvents)
  BY DEF AuditInv
<1>2. CASE logs' = logs
  BY <1>1, <1>2, PrefixFacts
<1>3. CASE WriteEvent
  <2>1. \/ logs' = logs
        \/ \E q : logs' = [logs EXCEPT ![q] = Append(@, events')]
    BY <1>3 DEF WriteEvent, Contents
  <2>2. events' \in 1..MaxEvents
    BY <1>3 DEF WriteEvent, AuditInv
  <2>3. logs'[p] \in {logs[p], Append(logs[p], events')}
    BY <2>1 DEF AuditInv
  <2> QED BY <1>1, <2>2, <2>3, PrefixFacts
<1> QED BY <1>2, <1>3 DEF AuditNext, Start, Done, DiskChanges, Reload, Contents

LEMMA WrittenStep ==
  AuditInv /\ [AuditNext]_auditVars =>
    [events' # events =>
       /\ \A p \in Paths \ {logPath} : logs'[p] = logs[p]
       /\ disk[logPath] = "ok" /\ file \in {NoFile, [path |-> logPath, linked |-> TRUE]} =>
            logs'[logPath] = Append(logs[logPath], events')]_auditVars
<1> SUFFICES ASSUME AuditInv, AuditNext, events' # events
             PROVE  /\ \A p \in Paths \ {logPath} : logs'[p] = logs[p]
                    /\ disk[logPath] = "ok"
                         /\ file \in {NoFile, [path |-> logPath, linked |-> TRUE]} =>
                         logs'[logPath] = Append(logs[logPath], events')
  OBVIOUS
<1>1. WriteEvent
  BY DEF AuditNext, Start, Done, DiskChanges, Rotate, Reload
<1> DEFINE handle == IF file = NoFile THEN OpenLog(logPath) ELSE file
<1>2. logs' = IF handle.linked /\ disk[handle.path] # "full"
                THEN [logs EXCEPT ![handle.path] = Append(@, events')] ELSE logs
  BY <1>1 DEF WriteEvent, Contents
<1>3. handle \in {NoFile} \union [path : {logPath}, linked : BOOLEAN]
  BY OpenLogGives DEF AuditInv
<1>4. disk[logPath] = "ok" /\ file \in {NoFile, [path |-> logPath, linked |-> TRUE]} =>
        handle = [path |-> logPath, linked |-> TRUE]
  BY DEF OpenLog
<1> HIDE DEF handle
<1>5. handle.linked => handle.path = logPath
  BY <1>3 DEF NoFile
<1> QED BY <1>2, <1>4, <1>5 DEF AuditInv
-----------------------------------------------------------------------------
(* The firewall engines.                                                   *)

\* While nobody has changed the rules, a number on the screen that is one of
\* INPUT is that of the rule on its row; nftables, whose numbers are handles,
\* deletes none.  Nothing is said of up: ufw goes inactive without a change
\* of the rules.
ShownThere ==
  ~stale /\ engine # "nftables" =>
    \A i \in DOMAIN shown :
      shown[i].id \in DOMAIN chains.INPUT => chains.INPUT[shown[i].id] = shown[i].rule

EnginesInv ==
  /\ EnginesTypeOK
  /\ engine \in {"iptables", "nftables", "ufw", "firewalld"}
  /\ DOMAIN chains = {"INPUT", "FORWARD"}
  /\ ShownThere
  /\ DeletesShown

\* What inserting into a sequence and removing from it leave of its elements.
LEMMA InsertRemoveTypes ==
  ASSUME NEW S, NEW s \in Seq(S)
  PROVE  /\ \A i \in DOMAIN s : RemoveAt(s, i) \in Seq(S)
         /\ \A i \in 1..(Len(s) + 1), e \in S : InsertAt(s, i, e) \in Seq(S)
BY DEF RemoveAt, InsertAt

\* A rule that is not used is one of Rules.
LEMMA UnusedRule == Unused # {} => Min(Unused) \in Rules
<1>1. Unused \in SUBSET Nat /\ Unused \subseteq Rules
  BY RulesAssumption DEF Unused
<1> QED BY <1>1, LeastInSet

\* Rows with the numbers, or with the handles, of a sequence of rules.
LEMMA RowTypes ==
  ASSUME NEW rules \in Seq(Rules)
  PROVE  /\ Numbered(rules) \in Seq([id : Nat, rule : Rules])
         /\ Handled(rules) \in Seq([id : Nat, rule : Rules])
<1>1. DOMAIN rules = 1..Len(rules) /\ Len(rules) \in Nat
  OBVIOUS
<1>2. \A i \in DOMAIN rules : i \in Nat /\ rules[i] \in Rules /\ rules[i] \in Nat
  <2>1. Rules \subseteq Nat
    BY RulesAssumption
  <2>2. \A i \in DOMAIN rules : i \in Nat /\ rules[i] \in Rules
    OBVIOUS
  <2> QED BY <2>1, <2>2
<1>3. /\ Numbered(rules) \in [1..Len(rules) -> [id : Nat, rule : Rules]]
      /\ Handled(rules) \in [1..Len(rules) -> [id : Nat, rule : Rules]]
  BY <1>1, <1>2 DEF Numbered, Handled
<1>4. ASSUME NEW S, NEW n \in Nat, NEW f \in [1..n -> S] PROVE f \in Seq(S)
  OBVIOUS
<1> QED BY <1>1, <1>3, <1>4

\* The chain INPUT comes first.
LEMMA FirstPart ==
  ASSUME NEW S, NEW s \in Seq(S), NEW t \in Seq(S)
  PROVE  \A i \in DOMAIN s : i \in DOMAIN (s \o t) /\ (s \o t)[i] = s[i]
OBVIOUS

\* The rows of a listing, and that their numbers lead back to their rules.
LEMMA ListingFacts ==
  ASSUME EnginesInv, NEW list \in Listings
  PROVE  /\ list \in Seq([id : Nat, rule : Rules])
         /\ engine # "nftables" =>
              \A i \in DOMAIN list :
                list[i].id \in DOMAIN chains.INPUT => chains.INPUT[list[i].id] = list[i].rule
<1>1. chains.INPUT \in Seq(Rules) /\ chains.FORWARD \in Seq(Rules)
  BY DEF EnginesInv, EnginesTypeOK
<1>2. chains.INPUT \o chains.FORWARD \in Seq(Rules)
  BY <1>1
<1>3. ASSUME NEW rules \in Seq(Rules)
      PROVE  /\ Numbered(rules) \in Seq([id : Nat, rule : Rules])
             /\ Handled(rules) \in Seq([id : Nat, rule : Rules])
  BY RowTypes
<1>4. CASE engine = "nftables"
  BY <1>2, <1>3, <1>4 DEF Listings, NftRules
<1>5. CASE engine = "iptables"
  <2>1. list = Numbered(chains.INPUT \o chains.FORWARD)
    BY <1>5 DEF Listings, IptablesRules
  <2>2. \A i \in DOMAIN chains.INPUT :
          i \in DOMAIN (chains.INPUT \o chains.FORWARD)
            /\ (chains.INPUT \o chains.FORWARD)[i] = chains.INPUT[i]
    BY <1>1, FirstPart
  <2>3. \A i \in DOMAIN list :
          list[i].id = i /\ list[i].rule = (chains.INPUT \o chains.FORWARD)[i]
    BY <2>1 DEF Numbered
  <2>4. list \in Seq([id : Nat, rule : Rules])
    BY <1>2, <1>3, <2>1
  <2> QED BY <2>2, <2>3, <2>4
<1>6. CASE engine \in {"ufw", "firewalld"}
  <2>1. list \in {Numbered(chains.INPUT), Numbered(<<>>)}
    BY <1>6 DEF Listings, UfwRules, FirewalldRules
  <2>2. <<>> \in Seq(Rules)
    OBVIOUS
  <2>3. \A i \in DOMAIN list : i \in DOMAIN chains.INPUT
                                /\ list[i] = [id |-> i, rule |-> chains.INPUT[i]]
    BY <2>1 DEF Numbered
  <2>4. list \in Seq([id : Nat, rule : Rules])
    BY <1>1, <1>3, <2>1, <2>2
  <2> QED BY <2>3, <2>4
<1> QED BY <1>4, <1>5, <1>6 DEF EnginesInv

LEMMA EnginesInitially == EnginesInit => EnginesInv
<1> SUFFICES ASSUME EnginesInit PROVE EnginesInv
  OBVIOUS
<1>1. chains.INPUT = <<>> /\ chains.FORWARD = <<>> /\ DOMAIN chains = {"INPUT", "FORWARD"}
  BY DEF EnginesInit
<1>2. EnginesTypeOK
  <2>1. <<>> \in Seq(Rules) /\ <<>> \in Seq([id : Nat, rule : Rules])
    OBVIOUS
  <2>2. \A c \in DOMAIN chains : chains[c] = <<>>
    BY <1>1
  <2>3. up \in BOOLEAN
    BY DEF EnginesInit
  <2>4. deleted.gone = 0
    BY DEF EnginesInit, Nothing
  <2> QED BY <2>1, <2>2, <2>3, <2>4 DEF EnginesInit, EnginesTypeOK
<1> QED BY <1>1, <1>2 DEF EnginesInit, EnginesInv, ShownThere, DeletesShown, Nothing

LEMMA EnginesSteps == EnginesInv /\ [EnginesNext]_engineVars => EnginesInv'
<1> SUFFICES ASSUME EnginesInv, [EnginesNext]_engineVars PROVE EnginesInv'
  OBVIOUS
<1> USE DEF EnginesInv, EnginesTypeOK
<1>0. chains.INPUT \in Seq(Rules) /\ chains.FORWARD \in Seq(Rules)
  OBVIOUS
<1>1. CASE CollectRules
  <2>1. /\ shown' \in Listings \union {<<>>} /\ stale' = FALSE
        /\ UNCHANGED <<engine, up, chains, deleted>>
    BY <1>1 DEF CollectRules
  <2>2. shown' \in Seq([id : Nat, rule : Rules]) /\ ShownThere'
    <3>1. CASE shown' = <<>>
      BY <2>1, <3>1 DEF ShownThere
    <3>2. CASE shown' \in Listings
      BY <2>1, <3>2, ListingFacts DEF ShownThere
    <3> QED BY <2>1, <3>1, <3>2
  <2> QED BY <2>1, <2>2 DEF DeletesShown
<1>2. ASSUME NEW hasPort \in BOOLEAN, AddRule(hasPort) PROVE EnginesInv'
  <2>1. /\ chains' = [chains EXCEPT !.INPUT = Append(@, Min(Unused))] /\ Min(Unused) \in Rules
        /\ stale' = TRUE /\ UNCHANGED <<engine, up, shown, deleted>>
    BY <1>2, UnusedRule DEF AddRule
  <2>2. Append(chains.INPUT, Min(Unused)) \in Seq(Rules)
    BY <1>0, <2>1
  <2> QED BY <2>1, <2>2 DEF ShownThere, DeletesShown
<1>3. ASSUME NEW i \in DOMAIN shown, DeleteRule(shown[i]) PROVE EnginesInv'
  <2> DEFINE at == Removes(shown[i].id)
  <2>1. /\ chains' = IF at = 0 THEN chains ELSE [chains EXCEPT !.INPUT = RemoveAt(@, at)]
        /\ deleted' = [asked |-> shown[i].rule, stale |-> stale,
                       gone |-> IF at = 0 THEN 0 ELSE chains.INPUT[at]]
        /\ stale' = (stale \/ at # 0) /\ UNCHANGED <<engine, up, shown>>
    BY <1>3 DEF DeleteRule
  <2>2. /\ at # 0 => at = shown[i].id /\ at \in DOMAIN chains.INPUT
        /\ engine = "nftables" => at = 0
    BY DEF Removes
  <2> HIDE DEF at
  <2>3. at # 0 => RemoveAt(chains.INPUT, at) \in Seq(Rules) /\ chains.INPUT[at] \in Rules
    BY <1>0, <2>2, InsertRemoveTypes
  <2>4. EnginesTypeOK'
    BY <2>1, <2>3
  <2>5. ShownThere'
    BY <2>1 DEF ShownThere
  <2>6. DeletesShown'
    BY <2>1, <2>2 DEF ShownThere, DeletesShown
  <2> QED BY <2>1, <2>4, <2>5, <2>6
<1>4. CASE Toggle
  BY <1>4 DEF Toggle, ShownThere, DeletesShown
<1>5. CASE Elsewhere
  <2>1. stale' = TRUE /\ UNCHANGED <<engine, up, shown, deleted>>
    BY <1>5 DEF Elsewhere
  <2>2. PICK c \in DOMAIN chains, s \in Seq(Rules) : chains' = [chains EXCEPT ![c] = s]
    BY <1>0, <1>5, UnusedRule, InsertRemoveTypes DEF Elsewhere
  <2> QED BY <2>1, <2>2 DEF ShownThere, DeletesShown
<1>6. CASE UNCHANGED engineVars
  BY <1>6 DEF engineVars, ShownThere, DeletesShown
<1> QED BY <1>1, <1>2, <1>3, <1>4, <1>5, <1>6 DEF EnginesNext
-----------------------------------------------------------------------------
(* The init systems.                                                       *)

UnitRow == [unit : Names, shown : {"active", "inactive", "failed"}]
CellKinds == {"name", "text", "load", "active", "sub", "path"}
Cell == [what : CellKinds, unit : Names, state : States]

\* Three and four strings behind what looks like a name are strings of that
\* unit, and the ones meant if its description is plain: had[u] are the states
\* the unit u has had, look[u] is its style.
InPlace(w, had, look) ==
  \A j \in 1..Len(w) : w[j].what = "name" /\ j + 4 <= Len(w) =>
    LET u == w[j].unit
    IN  /\ w[j + 3].unit = u /\ w[j + 4].unit = u
        /\ w[j + 3].state \in had[u] /\ w[j + 4].state = w[j + 3].state
        /\ look[u] = "plain" => w[j + 3].what = "active" /\ w[j + 4].what = "sub"

\* While a collection reads, what it reads is of states seen since it began:
\* for systemd the reply, however much of it has been read, for the others the
\* states there are and those rc-status gave.  The rows that are listed are
\* true, and stay so, for seen only grows.
ListingInv ==
  /\ backend \in {"systemd", "openrc", "sysvinit"} /\ phase \in {"idle", "reading"}
  /\ \A u \in Names : style[u] \in Styles(backend)
  /\ states \in [Names -> States]
  /\ backend # "systemd" => \A u \in Names : states[u] \in ScriptStates
  /\ DOMAIN seen = Names
  /\ phase = "reading" /\ backend = "systemd" =>
       got \in Seq(Cell) /\ reply \in Seq(Cell) /\ InPlace(got \o reply, seen, style)
  /\ phase = "reading" /\ backend # "systemd" =>
       /\ reply \in Seq(Names) /\ reply # <<>>
       /\ \A u \in Names : states[u] \in seen[u]
       /\ backend = "openrc" => \A u \in Names : got[1][u] \in seen[u] \cap ScriptStates
  /\ listed \in Seq(UnitRow)
  /\ ListingTrue

LEMMA ListingInitially == InitBackendsInit => ListingInv
<1> SUFFICES ASSUME InitBackendsInit PROVE ListingInv
  OBVIOUS
<1>1. listed = <<>> /\ <<>> \in Seq(UnitRow)
  BY DEF InitBackendsInit
<1>2. /\ \A u \in Names : style[u] \in Styles(backend)
      /\ \A u \in Names : states[u] \in ScriptStates
  BY DEF InitBackendsInit, ScriptStates
<1>3. ListingTrue
  BY <1>1 DEF ListingTrue
<1> QED BY <1>1, <1>2, <1>3 DEF InitBackendsInit, ListingInv, States, ScriptStates

\* A unit changes its state, and the rest of the collection is left alone.
LEMMA BecomesKeeps ==
  ASSUME ListingInv, NEW u \in Names, NEW s \in States, Becomes(u, s),
         backend # "systemd" => s \in ScriptStates,
         UNCHANGED <<backend, style, reply, got, phase, listed>>
  PROVE  ListingInv'
<1>1. /\ states' = [states EXCEPT ![u] = s]
      /\ seen' = [seen EXCEPT ![u] = @ \union {s}]
  BY DEF Becomes
<1>2. \A v \in Names : seen[v] \subseteq seen'[v] /\ (states[v] \in seen[v] => states'[v] \in seen'[v])
  BY <1>1 DEF ListingInv
<1>3. ListingTrue'
  <2> SUFFICES ASSUME NEW i \in DOMAIN listed PROVE RowTrue(listed[i])'
    BY DEF ListingTrue
  <2>1. listed[i].unit \in Names
    <3>1. listed \in Seq(UnitRow)
      BY DEF ListingInv
    <3>2. DOMAIN listed = 1..Len(listed)
      BY <3>1, LenProperties
    <3>3. listed[i] \in UnitRow
      BY <3>1, <3>2, ElementOfSeq
    <3> QED BY <3>3 DEF UnitRow
  <2>2. RowTrue(listed[i]) /\ seen[listed[i].unit] \subseteq seen'[listed[i].unit]
    BY <1>2, <2>1 DEF ListingInv, ListingTrue
  <2> QED BY <2>2 DEF RowTrue, Truth
<1>4. /\ DOMAIN seen' = Names /\ states' \in [Names -> States]
      /\ backend # "systemd" => \A v \in Names : states'[v] \in ScriptStates
  BY <1>1 DEF ListingInv
<1>5. ASSUME phase = "reading", backend = "systemd" PROVE InPlace(got \o reply, seen', style)
  <2> DEFINE w == got \o reply
  <2>1. w \in Seq(Cell) /\ InPlace(w, seen, style)
    BY <1>5, ConcatProperties DEF ListingInv
  <2> HIDE DEF w
  <2>2. ASSUME NEW j \in 1..Len(w) PROVE w[j].unit \in Names
    <3>1. w[j] \in Cell
      BY <2>1, ElementOfSeq
    <3> QED BY <3>1 DEF Cell
  <2> QED BY <1>2, <2>1, <2>2 DEF InPlace, w
<1> QED BY <1>2, <1>3, <1>4, <1>5 DEF ListingInv
-----------------------------------------------------------------------------
(* systemd.                                                                *)

LEMMA StringsFacts ==
  ASSUME ListingInv, backend = "systemd", NEW u \in Names
  PROVE  /\ Strings(u) \in Seq(Cell) /\ Len(Strings(u)) \in {5, 6}
         /\ \A j \in 1..Len(Strings(u)) : /\ Strings(u)[j].unit = u
                                          /\ Strings(u)[j].state = states[u]
         /\ \A j \in 1..Len(Strings(u)) : Strings(u)[j].what = "name" =>
              /\ j + 3 \in 1..Len(Strings(u)) /\ j + 4 \in 1..Len(Strings(u))
              /\ style[u] = "plain" => /\ Strings(u)[j + 3].what = "active"
                                       /\ Strings(u)[j + 4].what = "sub"
<1> DEFINE c == Cells(u)
<1>1. /\ c \in Seq(CellKinds) /\ DOMAIN c = 1..Len(c) /\ Len(c) \in {5, 6}
      /\ \A j \in 1..Len(c) : c[j] = "name" =>
           /\ j + 3 \in 1..Len(c) /\ j + 4 \in 1..Len(c)
           /\ style[u] = "plain" => c[j + 3] = "active" /\ c[j + 4] = "sub"
  <2>1. style[u] \in {"plain", "odd", "name"}
    BY DEF ListingInv, Styles
  <2>2. CASE style[u] = "plain"
    <3>1. c = <<"name", "text", "load", "active", "sub", "path">>
      BY <2>2 DEF Cells
    <3> HIDE DEF c
    <3>2. Len(c) = 6 /\ c \in Seq(CellKinds) /\ DOMAIN c = 1..6
      <4>1. "name" \in CellKinds /\ "text" \in CellKinds /\ "load" \in CellKinds /\ "active" \in CellKinds /\ "sub" \in CellKinds /\ "path" \in CellKinds
        BY DEF CellKinds
      <4> QED BY <3>1, <4>1
    <3>3. \A j \in 1..6 : c[j] = "name" => j = 1
      <4>1. c[1] = "name" /\ c[2] = "text" /\ c[3] = "load" /\ c[4] = "active" /\ c[5] = "sub" /\ c[6] = "path"
        BY <3>1
      <4>2. \A j \in 1..6 : j = 1 \/ j = 2 \/ j = 3 \/ j = 4 \/ j = 5 \/ j = 6
        OBVIOUS
      <4> QED BY <4>1, <4>2
    <3>4. c[4] = "active" /\ c[5] = "sub"
      BY <3>1
    <3> QED BY <3>2, <3>3, <3>4
  <2>3. CASE style[u] = "odd"
    <3>1. c = <<"name", "load", "active", "sub", "path">>
      BY <2>3 DEF Cells
    <3> HIDE DEF c
    <3>2. Len(c) = 5 /\ c \in Seq(CellKinds) /\ DOMAIN c = 1..5
      <4>1. "name" \in CellKinds /\ "text" \in CellKinds /\ "load" \in CellKinds /\ "active" \in CellKinds /\ "sub" \in CellKinds /\ "path" \in CellKinds
        BY DEF CellKinds
      <4> QED BY <3>1, <4>1
    <3>3. \A j \in 1..5 : c[j] = "name" => j = 1
      <4>1. c[1] = "name" /\ c[2] = "load" /\ c[3] = "active" /\ c[4] = "sub" /\ c[5] = "path"
        BY <3>1
      <4>2. \A j \in 1..5 : j = 1 \/ j = 2 \/ j = 3 \/ j = 4 \/ j = 5
        OBVIOUS
      <4> QED BY <4>1, <4>2
    <3> QED BY <2>3, <3>2, <3>3
  <2>4. CASE style[u] = "name"
    <3>1. c = <<"name", "name", "load", "active", "sub", "path">>
      BY <2>4 DEF Cells
    <3> HIDE DEF c
    <3>2. Len(c) = 6 /\ c \in Seq(CellKinds) /\ DOMAIN c = 1..6
      <4>1. "name" \in CellKinds /\ "text" \in CellKinds /\ "load" \in CellKinds /\ "active" \in CellKinds /\ "sub" \in CellKinds /\ "path" \in CellKinds
        BY DEF CellKinds
      <4> QED BY <3>1, <4>1
    <3>3. \A j \in 1..6 : c[j] = "name" => j = 1 \/ j = 2
      <4>1. c[1] = "name" /\ c[2] = "name" /\ c[3] = "load" /\ c[4] = "active" /\ c[5] = "sub" /\ c[6] = "path"
        BY <3>1
      <4>2. \A j \in 1..6 : j = 1 \/ j = 2 \/ j = 3 \/ j = 4 \/ j = 5 \/ j = 6
        OBVIOUS
      <4> QED BY <4>1, <4>2
    <3> QED BY <2>4, <3>2, <3>3
  <2> QED BY <2>1, <2>2, <2>3, <2>4
<1> HIDE DEF c
<1> DEFINE t == [i \in 1..Len(c) |-> [what |-> c[i], unit |-> u, state |-> states[u]]]
<1>2. Strings(u) = t
  BY <1>1 DEF Strings, c
<1>3. \A i \in 1..Len(c) : t[i] = [what |-> c[i], unit |-> u, state |-> states[u]] /\ t[i] \in Cell
  <2>1. states[u] \in States /\ \A i \in 1..Len(c) : c[i] \in CellKinds
    BY <1>1, ElementOfSeq DEF ListingInv
  <2> QED BY <2>1 DEF Cell
<1>4. t \in Seq(Cell) /\ Len(t) = Len(c)
  <2>1. Len(c) \in Nat
    BY <1>1
  <2>2. t \in [1..Len(c) -> Cell]
    BY <1>3
  <2> HIDE DEF t
  <2> QED BY <2>1, <2>2, LenProperties
<1> HIDE DEF t
<1>5. ASSUME NEW j \in 1..Len(t)
      PROVE  t[j].unit = u /\ t[j].state = states[u] /\ t[j].what = c[j]
  <2>1. t[j] = [what |-> c[j], unit |-> u, state |-> states[u]]
    BY <1>3, <1>4
  <2> QED BY <2>1
<1>6. \A j \in 1..Len(t) : t[j].what = "name" =>
        /\ j + 3 \in 1..Len(t) /\ j + 4 \in 1..Len(t)
        /\ style[u] = "plain" => t[j + 3].what = "active" /\ t[j + 4].what = "sub"
  BY <1>1, <1>4, <1>5
<1> QED BY <1>1, <1>2, <1>4, <1>5, <1>6

\* The reply, when it is asked for.
LEMMA ReplyInPlace ==
  ASSUME ListingInv, backend = "systemd"
  PROVE  LET w == FlattenSeq([i \in DOMAIN Units |-> Strings(Units[i])])
         IN  w \in Seq(Cell) /\ InPlace(w, [u \in Names |-> {states[u]}], style)
<1> DEFINE n == Len(Units)
<1> DEFINE ss == [i \in 1..n |-> Strings(Units[i])]
<1> DEFINE w == FlattenSeq(ss)
<1>1. n \in Nat /\ DOMAIN Units = 1..n /\ \A i \in 1..n : Units[i] \in Names
  <2>1. Units \in Seq(Nat)
    BY InitBackendsAssumption
  <2>2. DOMAIN Units = 1..n /\ n \in Nat
    BY <2>1, LenProperties
  <2> QED BY <2>2 DEF Names, ToSet
<1>2. \A i \in 1..n : ss[i] = Strings(Units[i]) /\ ss[i] \in Seq(Cell)
  BY <1>1, StringsFacts
<1>3. ss \in [1..n -> Seq(Cell)]
  BY <1>2
<1>4. w = FlattenSeq([i \in DOMAIN Units |-> Strings(Units[i])])
  BY <1>1
<1> HIDE DEF ss, n
<1>5. w \in Seq(Cell)
  BY <1>1, <1>3, FlattenFacts
<1>6. PICK off : Spread(ss, n, off)
  BY <1>1, <1>3, FlattenFacts
<1>7. /\ off \in [0..n -> Nat] /\ Len(w) = off[n]
      /\ \A i \in 1..n : \A j \in 1..Len(ss[i]) :
           off[i - 1] + j \in 1..off[n] /\ w[off[i - 1] + j] = ss[i][j]
      /\ \A k \in 1..off[n] : \E i \in 1..n : \E j \in 1..Len(ss[i]) : k = off[i - 1] + j
  BY <1>6 DEF Spread
<1> HIDE DEF w
<1>8. InPlace(w, [u \in Names |-> {states[u]}], style)
  <2> SUFFICES ASSUME NEW k \in 1..Len(w), w[k].what = "name"
               PROVE  LET u == w[k].unit
                      IN  /\ w[k + 3].unit = u /\ w[k + 4].unit = u
                          /\ w[k + 3].state \in [v \in Names |-> {states[v]}][u]
                          /\ w[k + 4].state = w[k + 3].state
                          /\ style[u] = "plain" => w[k + 3].what = "active" /\ w[k + 4].what = "sub"
    BY DEF InPlace
  <2>0. PICK i \in 1..n : \E j \in 1..Len(ss[i]) : k = off[i - 1] + j
    BY <1>7
  <2>1. PICK j \in 1..Len(ss[i]) : k = off[i - 1] + j
    BY <2>0
  <2> DEFINE u == Units[i]
  <2> DEFINE s == Strings(u)
  <2>2. u \in Names /\ ss[i] = s
    BY <1>1, <1>2
  <2>3. /\ \A m \in 1..Len(s) : s[m].unit = u /\ s[m].state = states[u]
        /\ s[j].what = "name" => /\ j + 3 \in 1..Len(s) /\ j + 4 \in 1..Len(s)
                                 /\ style[u] = "plain" => s[j + 3].what = "active" /\ s[j + 4].what = "sub"
    <3> HIDE DEF u
    <3>1. /\ \A m \in 1..Len(Strings(u)) : /\ Strings(u)[m].unit = u
                                            /\ Strings(u)[m].state = states[u]
          /\ \A m \in 1..Len(Strings(u)) : Strings(u)[m].what = "name" =>
               /\ m + 3 \in 1..Len(Strings(u)) /\ m + 4 \in 1..Len(Strings(u))
               /\ style[u] = "plain" => /\ Strings(u)[m + 3].what = "active"
                                        /\ Strings(u)[m + 4].what = "sub"
      BY <2>2, StringsFacts
    <3> HIDE DEF s
    <3>2. s = Strings(u) /\ j \in 1..Len(s)
      BY <2>1, <2>2 DEF s
    <3> QED BY <3>1, <3>2
  <2>9. j \in Nat
    <3>1. Len(s) \in {5, 6} /\ j \in 1..Len(s)
      BY <2>1, <2>2, StringsFacts
    <3> HIDE DEF s
    <3> QED BY <3>1
  <2> HIDE DEF s, u
  <2>4. w[k] = s[j] /\ s[j].what = "name"
    BY <1>7, <2>1, <2>2
  <2>5. w[off[i - 1] + (j + 3)] = s[j + 3] /\ w[off[i - 1] + (j + 4)] = s[j + 4]
    BY <1>7, <2>2, <2>3, <2>4
  <2>6. off[i - 1] + (j + 3) = k + 3 /\ off[i - 1] + (j + 4) = k + 4
    <3>1. i - 1 \in 0..n
      BY <1>1
    <3>2. off[i - 1] \in Nat
      BY <1>7, <3>1
    <3> QED BY <2>1, <2>9, <3>2
  <2>7. w[k + 3] = s[j + 3] /\ w[k + 4] = s[j + 4] /\ w[k].unit = u
    BY <2>1, <2>2, <2>3, <2>4, <2>5, <2>6
  <2> QED BY <2>2, <2>3, <2>4, <2>7
<1> QED BY <1>4, <1>5, <1>8

LEMMA StateShown ==
  ASSUME NEW a, NEW b, NEW s \in States, a.state = s, b.state = s
  PROVE  /\ ActiveState(a, b) \in {"active", "inactive", "failed"}
         /\ ActiveState(a, b) # "inactive" => ActiveState(a, b) = Truth(s)
         /\ a.what = "active" /\ b.what = "sub" =>
              ActiveState(a, b) = Truth(s) \/ s = "exited"
BY DEF ActiveState, Truth, States, Up, ScriptStates

LEMMA ExtractedTrue ==
  ASSUME ListingInv, backend = "systemd", NEW w \in Seq(Cell), InPlace(w, seen, style)
  PROVE  Extracted(w) \in Seq(UnitRow) /\ \A i \in DOMAIN Extracted(w) : RowTrue(Extracted(w)[i])
<1> DEFINE n == IF Len(w) < 4 THEN 0 ELSE Len(w) - 4
<1> DEFINE ss == [j \in 1..n |-> UnitAt(w, j)]
<1> DEFINE t == FlattenSeq(ss)
<1> DEFINE row(j) == [unit |-> w[j].unit, shown |-> ActiveState(w[j + 3], w[j + 4])]
<1>1. n \in Nat /\ \A j \in 1..n : j \in 1..Len(w) /\ j + 3 \in 1..Len(w) /\ j + 4 \in 1..Len(w)
                                  /\ j + 4 <= Len(w)
  <2>1. Len(w) \in Nat
    BY LenProperties
  <2> QED BY <2>1
<1>2. Extracted(w) = t
  BY DEF Extracted
<1> HIDE DEF n
<1>3. \A j \in 1..n : w[j].what # "name" => ss[j] = <<>>
  BY DEF UnitAt
<1>4. \A j \in 1..n : w[j].what = "name" => ss[j] = <<row(j)>>
  BY DEF UnitAt
<1>5. ASSUME NEW j \in 1..n, w[j].what = "name" PROVE row(j) \in UnitRow /\ RowTrue(row(j))
  <2> DEFINE u == w[j].unit
  <2> DEFINE s == w[j + 3].state
  <2>1. w[j] \in Cell /\ w[j + 3] \in Cell /\ w[j + 4] \in Cell
    BY <1>1, ElementOfSeq
  <2>2. u \in Names /\ s \in States
    BY <2>1 DEF Cell
  <2>3. /\ s \in seen[u] /\ w[j + 4].state = s
        /\ style[u] = "plain" => w[j + 3].what = "active" /\ w[j + 4].what = "sub"
    BY <1>1, <1>5 DEF InPlace
  <2> DEFINE shows == ActiveState(w[j + 3], w[j + 4])
  <2>4. /\ shows \in {"active", "inactive", "failed"} /\ (shows # "inactive" => shows = Truth(s))
        /\ style[u] = "plain" => shows = Truth(s) \/ s = "exited"
    BY <2>2, <2>3, StateShown
  <2>5. row(j).unit = u /\ row(j).shown = shows
    OBVIOUS
  <2>6. row(j) \in UnitRow
    <3> HIDE DEF u, shows
    <3> QED BY <2>2, <2>4 DEF UnitRow, u, shows
  <2> HIDE DEF u, s, shows, row
  <2>7. style[u] \in {"plain", "odd", "name"}
    BY <2>2 DEF ListingInv, Styles
  <2> QED BY <2>3, <2>4, <2>5, <2>6, <2>7 DEF RowTrue
<1> HIDE DEF row
<1>6. \A j \in 1..n : /\ ss[j] \in Seq(UnitRow)
                      /\ \A m \in 1..Len(ss[j]) : ss[j][m] \in UnitRow /\ RowTrue(ss[j][m])
  <2> SUFFICES ASSUME NEW j \in 1..n
               PROVE  /\ ss[j] \in Seq(UnitRow)
                      /\ \A m \in 1..Len(ss[j]) : ss[j][m] \in UnitRow /\ RowTrue(ss[j][m])
    OBVIOUS
  <2> HIDE DEF ss
  <2>1. CASE w[j].what = "name"
    <3>1. ss[j] = <<row(j)>> /\ row(j) \in UnitRow /\ RowTrue(row(j))
      BY <1>4, <1>5, <2>1
    <3>2. Len(<<row(j)>>) = 1 /\ <<row(j)>>[1] = row(j) /\ <<row(j)>> \in Seq(UnitRow)
      BY <3>1
    <3>3. \A m \in 1..Len(ss[j]) : m = 1
      BY <3>1, <3>2
    <3> QED BY <3>1, <3>2, <3>3
  <2>2. CASE w[j].what # "name"
    <3>1. ss[j] = <<>> /\ Len(<<>>) = 0 /\ <<>> \in Seq(UnitRow)
      BY <1>3, <2>2
    <3> QED BY <3>1
  <2> QED BY <2>1, <2>2
<1>7. ss \in [1..n -> Seq(UnitRow)]
  BY <1>6
<1> HIDE DEF ss
<1>8. t \in Seq(UnitRow)
  BY <1>1, <1>7, FlattenFacts
<1>9. PICK off : Spread(ss, n, off)
  BY <1>1, <1>7, FlattenFacts
<1>10. ASSUME NEW i \in DOMAIN t PROVE RowTrue(t[i])
  <2>1. i \in 1..off[n]
    BY <1>8, <1>9, <1>10, LenProperties DEF Spread
  <2>2. PICK j \in 1..n : \E m \in 1..Len(ss[j]) : i = off[j - 1] + m
    BY <1>9, <2>1 DEF Spread
  <2>3. PICK m \in 1..Len(ss[j]) : i = off[j - 1] + m
    BY <2>2
  <2>4. t[i] = ss[j][m]
    BY <1>9, <2>3 DEF Spread
  <2> QED BY <1>6, <2>4
<1> QED BY <1>2, <1>8, <1>10

\* Reading moves the first of what is left behind what has been read.
LEMMA ReadMore ==
  ASSUME NEW S, NEW g \in Seq(S), NEW r \in Seq(S), NEW n \in 1..Len(r)
  PROVE  /\ g \o SubSeq(r, 1, n) \in Seq(S) /\ SubSeq(r, n + 1, Len(r)) \in Seq(S)
         /\ (g \o SubSeq(r, 1, n)) \o SubSeq(r, n + 1, Len(r)) = g \o r
<1> DEFINE a == SubSeq(r, 1, n)
<1> DEFINE b == SubSeq(r, n + 1, Len(r))
<1>1. /\ Len(r) \in Nat /\ \A i \in 1..Len(r) : r[i] \in S
      /\ n \in Nat /\ n <= Len(r) /\ 1 <= n
  BY LenProperties, ElementOfSeq
<1>2. a \in Seq(S) /\ Len(a) = n /\ \A i \in 1..n : a[i] = r[i]
  <2>1. /\ 1 \in Int /\ n \in Int /\ (\A i \in 1..n : r[i] \in S)
        /\ n - 1 + 1 = n /\ \A i \in 1..n : 1 + i - 1 = i
    BY <1>1
  <2>2. /\ SubSeq(r, 1, n) \in Seq(S)
        /\ Len(SubSeq(r, 1, n)) = IF 1 <= n THEN n - 1 + 1 ELSE 0
        /\ \A i \in 1..n - 1 + 1 : SubSeq(r, 1, n)[i] = r[1 + i - 1]
    BY <2>1, SubSeqProperties
  <2> HIDE DEF a
  <2> QED BY <1>1, <2>1, <2>2 DEF a
<1>3. b \in Seq(S) /\ Len(b) = Len(r) - n /\ \A i \in 1..(Len(r) - n) : b[i] = r[n + i]
  <2> DEFINE l == Len(r)
  <2>1. /\ n + 1 \in Int /\ l \in Int /\ (\A i \in (n + 1)..l : r[i] \in S)
        /\ l - (n + 1) + 1 = l - n /\ (\A i \in 1..(l - n) : n + 1 + i - 1 = n + i)
        /\ (n + 1 <= l \/ l - n = 0)
    BY <1>1
  <2> HIDE DEF l
  <2>2. /\ SubSeq(r, n + 1, l) \in Seq(S)
        /\ Len(SubSeq(r, n + 1, l)) = IF n + 1 <= l THEN l - (n + 1) + 1 ELSE 0
        /\ \A i \in 1..l - (n + 1) + 1 : SubSeq(r, n + 1, l)[i] = r[n + 1 + i - 1]
    BY <2>1, SubSeqProperties
  <2> QED BY <1>1, <2>1, <2>2 DEF l
<1> HIDE DEF a, b
<1>4. Len(g) \in Nat /\ Len(r) - n \in Nat
  BY <1>1, LenProperties
<1>5. /\ g \o a \in Seq(S) /\ Len(g \o a) = Len(g) + n
      /\ \A i \in 1..(Len(g) + n) : (g \o a)[i] = IF i <= Len(g) THEN g[i] ELSE a[i - Len(g)]
  BY <1>2, ConcatProperties
<1> DEFINE c == g \o a
<1> HIDE DEF c
<1>6. /\ c \o b \in Seq(S) /\ Len(c \o b) = Len(g) + Len(r)
      /\ \A i \in 1..(Len(g) + Len(r)) :
           (c \o b)[i] = IF i <= Len(g) + n THEN c[i] ELSE b[i - (Len(g) + n)]
  <2>1. c \in Seq(S) /\ Len(c) = Len(g) + n
    BY <1>5 DEF c
  <2>2. /\ c \o b \in Seq(S) /\ Len(c \o b) = Len(c) + Len(b)
        /\ \A i \in 1..(Len(c) + Len(b)) : (c \o b)[i] = IF i <= Len(c) THEN c[i] ELSE b[i - Len(c)]
    BY <1>3, <2>1, ConcatProperties
  <2>3. Len(c) + Len(b) = Len(g) + Len(r)
    BY <1>1, <1>3, <1>4, <2>1
  <2> QED BY <2>1, <2>2, <2>3
<1>7. /\ g \o r \in Seq(S) /\ Len(g \o r) = Len(g) + Len(r)
      /\ \A i \in 1..(Len(g) + Len(r)) : (g \o r)[i] = IF i <= Len(g) THEN g[i] ELSE r[i - Len(g)]
  BY ConcatProperties
<1>8. ASSUME NEW i \in 1..(Len(g) + Len(r)) PROVE (c \o b)[i] = (g \o r)[i]
  <2>1. CASE i <= Len(g)
    BY <1>1, <1>4, <1>5, <1>6, <1>7, <2>1 DEF c
  <2>2. CASE ~(i <= Len(g)) /\ i <= Len(g) + n
    <3>1. i \in 1..(Len(g) + n) /\ i - Len(g) \in 1..n
      BY <1>1, <1>4, <2>2
    <3> QED BY <1>2, <1>5, <1>6, <1>7, <2>2, <3>1 DEF c
  <2>3. CASE ~(i <= Len(g) + n)
    <3>1. i - (Len(g) + n) \in 1..(Len(r) - n) /\ n + (i - (Len(g) + n)) = i - Len(g) /\ ~(i <= Len(g))
      BY <1>1, <1>4, <2>3
    <3> QED BY <1>3, <1>6, <1>7, <2>3, <3>1
  <2> QED BY <2>1, <2>2, <2>3
<1>9. c \o b = g \o r
  BY <1>6, <1>7, <1>8, SeqEqual
<1> QED BY <1>2, <1>3, <1>5, <1>9 DEF a, b, c

\* What has been read is the beginning of the reply.
LEMMA FirstInPlace ==
  ASSUME NEW v \in Seq(Cell), NEW x \in Seq(Cell), NEW had, NEW look, InPlace(v \o x, had, look)
  PROVE  InPlace(v, had, look)
<1> DEFINE w == v \o x
<1>1. /\ Len(v) \in Nat /\ Len(x) \in Nat /\ Len(w) = Len(v) + Len(x)
      /\ \A i \in 1..Len(v) : w[i] = v[i]
  <2>1. Len(v) \in Nat /\ Len(x) \in Nat
    BY LenProperties
  <2>2. /\ Len(w) = Len(v) + Len(x)
        /\ \A i \in 1..(Len(v) + Len(x)) : w[i] = IF i <= Len(v) THEN v[i] ELSE x[i - Len(v)]
    BY ConcatProperties
  <2> HIDE DEF w
  <2> QED BY <2>1, <2>2
<1> HIDE DEF w
<1>2. \A j \in 1..Len(v) : j + 4 <= Len(v) =>
        /\ j \in 1..Len(w) /\ j + 4 <= Len(w) /\ w[j] = v[j]
        /\ w[j + 3] = v[j + 3] /\ w[j + 4] = v[j + 4]
  BY <1>1
<1>3. InPlace(w, had, look)
  BY DEF w
<1> QED BY <1>2, <1>3 DEF InPlace

LEMMA FinishKeeps ==
  ASSUME ListingInv, backend = "systemd", NEW v \in Seq(Cell), InPlace(v, seen, style),
         Finish(v),
         UNCHANGED <<backend, style, states, seen>>
  PROVE  ListingInv'
<1>1. Extracted(v) \in Seq(UnitRow) /\ \A i \in DOMAIN Extracted(v) : RowTrue(Extracted(v)[i])
  BY ExtractedTrue
<1>2. listed' = Extracted(v) /\ phase' = "idle"
  BY DEF Finish
<1>3. ListingTrue'
  BY <1>1, <1>2 DEF ListingTrue, RowTrue
<1> QED BY <1>1, <1>2, <1>3 DEF ListingInv, UnitRow, Names
-----------------------------------------------------------------------------
(* OpenRC and SysV init.                                                   *)

\* A row for a state that has been seen is true.
LEMMA RowAppended ==
  ASSUME ListingInv, backend # "systemd", NEW u \in Names, NEW shows,
         RowTrue([unit |-> u, shown |-> shows]), shows \in {"active", "inactive", "failed"},
         listed' = Append(listed, [unit |-> u, shown |-> shows]),
         UNCHANGED <<backend, style, states, seen>>
  PROVE  /\ listed' \in Seq(UnitRow)
         /\ ListingTrue'
<1> DEFINE row == [unit |-> u, shown |-> shows]
<1>1. listed \in Seq(UnitRow) /\ ListingTrue
  BY DEF ListingInv
<1>2. row \in UnitRow
  BY DEF UnitRow
<1>3. listed' \in Seq(UnitRow)
  <2> HIDE DEF row
  <2> QED BY <1>1, <1>2 DEF row
<1>4. \A i \in DOMAIN listed' :
        (i \in DOMAIN listed /\ listed'[i] = listed[i]) \/ listed'[i] = row
  BY <1>1, AppendProperties
<1>5. \A i \in DOMAIN listed' : RowTrue(listed'[i])
  <2> HIDE DEF row
  <2>1. RowTrue(row)
    BY DEF row
  <2> QED BY <1>1, <1>4, <2>1 DEF ListingTrue
<1>6. ListingTrue'
  BY <1>5 DEF ListingTrue, RowTrue, Truth
<1> QED BY <1>3, <1>6

\* What the commands say of a unit while a collection reads.
LEMMA CommandRows ==
  ASSUME ListingInv, backend # "systemd", phase = "reading", NEW u \in Names,
         NEW shows \in {IF backend = "openrc" THEN OpenRC(u) ELSE SysVinit(u)}
  PROVE  /\ RowTrue([unit |-> u, shown |-> shows])
         /\ shows \in {"active", "inactive", "failed"}
<1> DEFINE row == [unit |-> u, shown |-> shows]
<1>1. /\ states[u] \in seen[u] /\ states[u] \in ScriptStates
      /\ backend = "openrc" => got[1][u] \in seen[u] /\ got[1][u] \in ScriptStates
  BY DEF ListingInv
<1>2. \A s \in ScriptStates : Meaning(s) = Truth(s) /\ Meaning(s) \in {"active", "inactive", "failed"}
  BY DEF Meaning, Truth, ScriptStates, Up
<1>3. row.unit = u /\ row.shown = shows
  OBVIOUS
<1> HIDE DEF row
<1>4. CASE backend = "openrc"
  <2>1. CASE style[u] = "padded"
    <3>1. shows = Meaning("")
      BY <1>4, <2>1 DEF OpenRC, LastField
    <3>2. shows = "inactive"
      BY <3>1 DEF Meaning
    <3> QED BY <1>3, <2>1, <3>2 DEF RowTrue, row
  <2>2. CASE style[u] # "padded"
    <3>1. PICK s \in seen[u] : s \in ScriptStates /\ shows = Meaning(s)
      BY <1>1, <1>4, <2>2 DEF OpenRC, LastField
    <3> QED BY <1>2, <1>3, <3>1 DEF RowTrue, row
  <2> QED BY <2>1, <2>2
<1>5. CASE backend # "openrc"
  <2>1. CASE style[u] = "no codes" /\ states[u] = "stopped"
    BY <1>1, <1>3, <1>5, <2>1 DEF SysVinit, RowTrue, row
  <2>2. CASE ~(style[u] = "no codes" /\ states[u] = "stopped")
    <3>1. shows = Meaning(states[u])
      BY <1>5, <2>2 DEF SysVinit
    <3> QED BY <1>1, <1>2, <1>3, <3>1 DEF RowTrue, row
  <2> QED BY <2>1, <2>2
<1> QED BY <1>4, <1>5

LEMMA ListingSteps == ListingInv /\ [InitBackendsNext]_initVars => ListingInv'
<1> SUFFICES ASSUME ListingInv, [InitBackendsNext]_initVars PROVE ListingInv'
  OBVIOUS
<1>1. ASSUME NEW u \in Names, NEW op \in {"start", "stop", "restart"}, Operate(op, u)
      PROVE  ListingInv'
  <2>1. PICK s \in States : Becomes(u, s) /\ (backend # "systemd" => s \in ScriptStates)
    BY <1>1, InitBackendsAssumption DEF Operate, States, ScriptStates, Names
  <2> QED BY <1>1, <2>1, BecomesKeeps DEF Operate
<1>2. ASSUME NEW u \in Names, Ends(u) PROVE ListingInv'
  <2>1. PICK s \in States : Becomes(u, s) /\ (backend # "systemd" => s \in ScriptStates)
    BY <1>2 DEF Ends, States, ScriptStates
  <2> QED BY <1>2, <2>1, BecomesKeeps DEF Ends
<1>3. CASE Ask
  <2> DEFINE w == FlattenSeq([i \in DOMAIN Units |-> Strings(Units[i])])
  <2>1. /\ backend = "systemd" /\ reply' = w /\ got' = <<>> /\ phase' = "reading" /\ listed' = <<>>
        /\ seen' = [u \in Names |-> {states[u]}]
        /\ UNCHANGED <<backend, style, states>>
    BY <1>3 DEF Ask
  <2>2. w \in Seq(Cell) /\ InPlace(w, seen', style)
    BY <2>1, ReplyInPlace
  <2> HIDE DEF w
  <2>3. <<>> \o w = w /\ <<>> \in Seq(Cell) /\ <<>> \in Seq(UnitRow)
    BY <2>2, ConcatEmptySeq
  <2>4. ListingTrue'
    BY <2>1 DEF ListingTrue
  <2> QED BY <2>1, <2>2, <2>3, <2>4 DEF ListingInv
<1>7. CASE Read
  <2>1. backend = "systemd" /\ phase = "reading" /\ UNCHANGED <<backend, style, states, seen>>
    BY <1>7 DEF Read
  <2>2. PICK n \in 1..Chunk :
          /\ n <= Len(reply)
          /\ IF n = Chunk
               THEN /\ got' = got \o SubSeq(reply, 1, n)
                    /\ reply' = SubSeq(reply, n + 1, Len(reply))
                    /\ UNCHANGED <<phase, listed>>
               ELSE Finish(got \o SubSeq(reply, 1, n))
    BY <1>7 DEF Read
  <2> DEFINE v == got \o SubSeq(reply, 1, n)
  <2> DEFINE x == SubSeq(reply, n + 1, Len(reply))
  <2>3. got \in Seq(Cell) /\ reply \in Seq(Cell) /\ InPlace(got \o reply, seen, style)
    BY <2>1 DEF ListingInv
  <2>4. n \in 1..Len(reply)
    BY <2>2, <2>3, InitBackendsAssumption, LenProperties
  <2>5. v \in Seq(Cell) /\ x \in Seq(Cell) /\ v \o x = got \o reply
    <3>1. got \in Seq(Cell) /\ reply \in Seq(Cell)
      BY <2>3
    <3>2. ASSUME NEW g \in Seq(Cell), NEW r \in Seq(Cell), NEW m \in 1..Len(r)
          PROVE  /\ g \o SubSeq(r, 1, m) \in Seq(Cell) /\ SubSeq(r, m + 1, Len(r)) \in Seq(Cell)
                 /\ (g \o SubSeq(r, 1, m)) \o SubSeq(r, m + 1, Len(r)) = g \o r
      BY ZenonT(60), ReadMore
    <3> QED BY <2>4, <3>1, <3>2
  <2>6. InPlace(v, seen, style)
    BY <2>3, <2>5, FirstInPlace
  <2>7. CASE n = Chunk
    <3>1. got' = v /\ reply' = x /\ UNCHANGED <<phase, listed>>
      BY <2>2, <2>7
    <3> HIDE DEF v, x
    <3>2. ListingTrue'
      BY <2>1, <3>1 DEF ListingInv, ListingTrue, RowTrue, Truth
    <3> QED BY <2>1, <2>3, <2>5, <3>1, <3>2 DEF ListingInv
  <2>8. CASE n # Chunk
    <3>1. Finish(v)
      BY <2>2, <2>8
    <3> HIDE DEF v, x
    <3> QED BY <2>1, <2>5, <2>6, <3>1, FinishKeeps
  <2> QED BY <2>7, <2>8
<1>8. CASE Break
  <2>1. backend = "systemd" /\ phase = "reading" /\ Finish(got) /\ UNCHANGED <<backend, style, states, seen>>
    BY <1>8 DEF Break
  <2>2. got \in Seq(Cell) /\ reply \in Seq(Cell) /\ InPlace(got \o reply, seen, style)
    BY <2>1 DEF ListingInv
  <2> QED BY <2>1, <2>2, FirstInPlace, FinishKeeps
<1>4. CASE List
  <2>1. /\ listed' = <<>> /\ reply' = Units /\ seen' = [u \in Names |-> {states[u]}]
        /\ backend = "openrc" => got' = <<states>>
        /\ phase' \in {"idle", "reading"} /\ (phase' = "reading" => Units # <<>>)
        /\ backend # "systemd" /\ UNCHANGED <<backend, style, states>>
    BY <1>4 DEF List
  <2>2. Units \in Seq(Names)
    <3>1. Units \in Seq(Nat)
      BY InitBackendsAssumption
    <3> QED BY <3>1 DEF Names, ToSet
  <2>3. <<>> \in Seq(UnitRow)
    OBVIOUS
  <2>4. ListingTrue'
    BY <2>1 DEF ListingTrue
  <2> QED BY <2>1, <2>2, <2>3, <2>4 DEF ListingInv
<1>5. CASE Status
  <2> DEFINE u == Head(reply)
  <2> DEFINE shows == IF backend = "openrc" THEN OpenRC(u) ELSE SysVinit(u)
  <2>1. /\ backend # "systemd" /\ phase = "reading"
        /\ listed' = Append(listed, [unit |-> u, shown |-> shows])
        /\ reply' = Tail(reply)
        /\ Tail(reply) = <<>> => phase' = "idle"
        /\ Tail(reply) # <<>> => UNCHANGED <<phase, got>>
        /\ UNCHANGED <<backend, style, states, seen>>
    BY <1>5 DEF Status
  <2>2. reply \in Seq(Names) /\ reply # <<>>
    BY <2>1 DEF ListingInv
  <2>3. u \in Names /\ Tail(reply) \in Seq(Names)
    BY <2>2
  <2>4. /\ RowTrue([unit |-> u, shown |-> shows])
        /\ shows \in {"active", "inactive", "failed"}
    BY <2>1, <2>3, CommandRows
  <2> HIDE DEF u, shows
  <2>5. /\ listed' \in Seq(UnitRow)
        /\ ListingTrue'
    BY <2>1, <2>3, <2>4, RowAppended
  <2> QED BY <2>1, <2>3, <2>5 DEF ListingInv
<1>6. CASE UNCHANGED initVars
  BY <1>6 DEF initVars, ListingInv, ListingTrue, RowTrue, Truth
<1> QED BY <1>1, <1>2, <1>3, <1>4, <1>5, <1>6, <1>7, <1>8 DEF InitBackendsNext
-----------------------------------------------------------------------------
(* The screen.  In a line that no read has hurt, the sequences are whole   *)
(* and are those the tab leaves there; where they are is then to be seen   *)
(* from each position alone.                                               *)

Char == {"x", Blank, "?", ESC, "[", "J", "K", "D", "C", "m"}
Seen == {"x", Blank}

Plain(s) == {i \in DOMAIN s : s[i] \in Seen}

\* Each position is one of text or one of a whole sequence.
WholeIn(s, P) ==
  \A i \in P :
    /\ s[i] \in Seen \/ s[i] = ESC \/ s[i] = "[" \/ s[i] = "m"
    /\ s[i] = ESC => i + 1 \in P /\ s[i + 1] = "[" /\ i + 2 \in P /\ s[i + 2] = "m"
    /\ s[i] = "[" => i - 1 \in P /\ s[i - 1] = ESC
    /\ s[i] = "m" => i - 1 \in P /\ s[i - 1] = "["

Whole(s) == WholeIn(s, DOMAIN s)

LEMMA Tokens ==
  /\ ESC \notin Seen /\ "[" \notin Seen /\ "m" \notin Seen
  /\ ESC # "[" /\ ESC # "m" /\ "[" # "m" /\ "m" \in Letters
  /\ Seen \subseteq Char /\ ESC \in Char /\ "[" \in Char /\ "m" \in Char /\ "?" \in Char
  /\ "x" \in Seen /\ Blank \in Seen
BY DEF ESC, Seen, Blank, Letters, Char

LEMMA EscapeEnds ==
  ASSUME NEW S, NEW s \in Seq(S), NEW i \in 1..Len(s) PROVE EscapeEnd(s, i) \in Nat
<1>1. Len(s) \in Nat /\ i \in Nat
  BY LenProperties
<1> DEFINE ends == {j \in i + 2 .. Len(s) : s[j] \in Letters}
<1>2. ends \in SUBSET Nat
  BY <1>1
<1>3. ends # {} => Min(ends) \in Nat
  <2> HIDE DEF ends
  <2> QED BY <1>2, LeastInSet
<1> QED BY <1>1, <1>3 DEF EscapeEnd

\* The loop of visibleLen.
Skips(s, h) ==
  /\ h \in [0..Len(s) -> Nat] /\ h[0] = 0
  /\ \A i \in 1..Len(s) :
       h[i] = IF s[i] = ESC /\ h[i - 1] < i THEN EscapeEnd(s, i) ELSE h[i - 1]
  /\ Visible(s) = {i \in 1..Len(s) : h[i] < i}

LEMMA SkipsExist ==
  ASSUME NEW S, NEW s \in Seq(S) PROVE \E h : Skips(s, h)
<1> DEFINE n == Len(s)
<1> DEFINE step == [p \in Nat \X Nat |-> IF p[1] \in 1..n /\ s[p[1]] = ESC /\ p[2] < p[1]
                                           THEN EscapeEnd(s, p[1]) ELSE p[2]]
<1> DEFINE Is(g) == g = [i \in 0..n |->
                       IF i = 0 THEN 0
                       ELSE IF s[i] = ESC /\ g[i - 1] < i THEN EscapeEnd(s, i) ELSE g[i - 1]]
<1> DEFINE G == CHOOSE g : Is(g)
<1>1. n \in Nat /\ DOMAIN s = 1..n
  BY LenProperties
<1>2. step \in [Nat \X Nat -> Nat]
  <2>1. \A i \in 1..n : EscapeEnd(s, i) \in Nat
    BY EscapeEnds
  <2> HIDE DEF n
  <2> QED BY <2>1
<1>3. \A i \in 1..n, m \in Nat :
        step[<<i, m>>] = IF s[i] = ESC /\ m < i THEN EscapeEnd(s, i) ELSE m
  BY <1>1
<1> HIDE DEF step
<1>p. PICK f : Loops(f, n, Nat, 0, step)
  <2> HIDE DEF n, Is
  <2> QED BY <1>1, <1>2, LoopExists
<1>4. /\ f \in [0..n -> Nat] /\ f[0] = 0
      /\ \A k \in 1..n : f[k] = step[<<k, f[k - 1]>>]
  BY <1>p DEF Loops
<1>5. \A k \in 1..n : k - 1 \in 0..n /\ k # 0 /\ f[k - 1] \in Nat
  <2>1. \A k \in 1..n : k - 1 \in 0..n /\ k # 0
    BY <1>1
  <2> QED BY <1>4, <2>1
<1>6. \A k \in 1..n : f[k] = IF s[k] = ESC /\ f[k - 1] < k THEN EscapeEnd(s, k) ELSE f[k - 1]
  BY <1>3, <1>4, <1>5
<1>7. Is(f)
  <2>1. \A k \in 0..n : k = 0 \/ k \in 1..n
    BY <1>1
  <2> QED BY <1>4, <1>5, <1>6, <2>1
<1>8. Is(G)
  <2> HIDE DEF Is
  <2> QED BY <1>7
<1>9. Visible(s) = {i \in DOMAIN s : G[i] < i}
  BY DEF Visible
<1> HIDE DEF G
<1>10. /\ G[0] = 0 /\ DOMAIN G = 0..n
       /\ \A k \in 1..n : G[k] = IF s[k] = ESC /\ G[k - 1] < k THEN EscapeEnd(s, k) ELSE G[k - 1]
  <2>1. \A k \in 1..n : k \in 0..n /\ k # 0
    BY <1>1
  <2>2. 0 \in 0..n
    BY <1>1
  <2> QED BY <1>8, <2>1, <2>2
<1>11. \A k \in 0..n : G[k] = f[k]
  <2> DEFINE E == {k \in 0..n : G[k] = f[k]}
  <2>1. 0 \in E
    BY <1>1, <1>4, <1>10
  <2>2. ASSUME NEW k \in 0..n, k \in E, k < n PROVE k + 1 \in E
    <3>1. k + 1 \in 1..n /\ k + 1 \in 0..n /\ (k + 1) - 1 = k
      BY <1>1, <2>2
    <3> QED BY <1>6, <1>10, <2>2, <3>1
  <2>3. 0..n \subseteq E
    <3> HIDE DEF E, n
    <3> QED BY <1>1, <2>1, <2>2, UpTo
  <2> QED BY <2>3
<1>12. Skips(s, f)
  <2>1. Visible(s) = {i \in 1..n : f[i] < i}
    <3>1. \A i \in 1..n : i \in 0..n
      BY <1>1
    <3> QED BY <1>1, <1>9, <1>11, <3>1
  <2> QED BY <1>4, <1>6, <2>1 DEF Skips
<1> QED BY <1>12

\* A whole sequence ends with its letter.
LEMMA WholeEnds ==
  ASSUME NEW S, NEW s \in Seq(S), Whole(s), NEW i \in 1..Len(s), s[i] = ESC
  PROVE  EscapeEnd(s, i) = i + 2
<1>1. Len(s) \in Nat /\ DOMAIN s = 1..Len(s)
  BY LenProperties
<1>2. /\ i + 1 \in 1..Len(s) /\ s[i + 1] = "["
      /\ i + 2 \in 1..Len(s) /\ s[i + 2] = "m"
  <2>1. WholeIn(s, 1..Len(s))
    BY <1>1 DEF Whole
  <2> QED BY <2>1 DEF WholeIn
<1> DEFINE ends == {j \in i + 2 .. Len(s) : s[j] \in Letters}
<1>3. i + 2 \in ends /\ ends \in SUBSET Nat /\ \A j \in ends : i + 2 <= j
  <2>1. \A j \in i + 2 .. Len(s) : j \in Nat /\ i + 2 <= j
    BY <1>1
  <2>2. i + 2 \in i + 2 .. Len(s) /\ s[i + 2] \in Letters
    BY <1>1, <1>2, Tokens
  <2> QED BY <2>1, <2>2
<1>4. Min(ends) = i + 2
  <2> HIDE DEF ends
  <2>1. Min(ends) \in ends /\ Min(ends) <= i + 2
    BY <1>3, LeastInSet
  <2>2. Min(ends) \in Nat /\ i + 2 <= Min(ends)
    BY <1>3, <2>1
  <2> QED BY <1>1, <2>1, <2>2
<1>5. ends # {}
  BY <1>3
<1>6. i # Len(s)
  <2> SUFFICES ASSUME i = Len(s) PROVE FALSE
    OBVIOUS
  <2>1. i \in Nat /\ i + 2 <= i
    BY <1>1, <1>2
  <2> QED BY <2>1
<1> QED BY <1>2, <1>4, <1>5, <1>6 DEF EscapeEnd

LEMMA VisiblePlain ==
  ASSUME NEW S, NEW s \in Seq(S), Whole(s) PROVE Visible(s) = Plain(s)
<1> DEFINE n == Len(s)
<1>1. n \in Nat /\ DOMAIN s = 1..n
  BY LenProperties
<1>2. PICK h : Skips(s, h)
  BY SkipsExist
<1>3. /\ h \in [0..n -> Nat] /\ h[0] = 0
      /\ \A i \in 1..n : h[i] = IF s[i] = ESC /\ h[i - 1] < i THEN EscapeEnd(s, i) ELSE h[i - 1]
      /\ Visible(s) = {i \in 1..n : h[i] < i}
  BY <1>2 DEF Skips
<1>4. \A i \in 1..n : s[i] = ESC => EscapeEnd(s, i) = i + 2
  BY WholeEnds
<1>5. \A i \in 1..n :
        /\ s[i] \in Seen \/ s[i] = ESC \/ s[i] = "[" \/ s[i] = "m"
        /\ s[i] = ESC => i + 1 \in 1..n /\ s[i + 1] = "[" /\ i + 2 \in 1..n /\ s[i + 2] = "m"
        /\ s[i] = "[" => i - 1 \in 1..n /\ s[i - 1] = ESC
        /\ s[i] = "m" => i - 1 \in 1..n /\ s[i - 1] = "["
  <2>1. WholeIn(s, 1..n)
    BY <1>1 DEF Whole
  <2> QED BY <2>1 DEF WholeIn
<1> HIDE DEF n
<1> DEFINE R(i) == /\ s[i] \in Seen => h[i] < i
                   /\ s[i] = ESC => h[i] = i + 2
                   /\ s[i] = "[" => h[i] = i + 1
                   /\ s[i] = "m" => h[i] = i
<1> DEFINE E == {i \in 0..n : i # 0 => R(i)}
<1>6. 0 \in E
  BY <1>1
<1>7. ASSUME NEW k \in 0..n, k \in E, k < n PROVE k + 1 \in E
  <2>1. k + 1 \in 1..n /\ (k + 1) - 1 = k /\ k + 1 \in 0..n /\ (k = 0 \/ k \in 1..n) /\ k \in Nat
    BY <1>1, <1>7
  <2>2. h[k] \in Nat
    BY <1>3
  <2>3. h[k + 1] = IF s[k + 1] = ESC /\ h[k] < k + 1 THEN EscapeEnd(s, k + 1) ELSE h[k]
    BY <1>3, <2>1
  <2>4. CASE s[k + 1] \in Seen \/ s[k + 1] = ESC
    <3>1. h[k] <= k
      <4>1. CASE k = 0
        BY <1>3, <4>1
      <4>2. CASE k # 0
        <5>1. k \in 1..n /\ R(k)
          BY <1>7, <2>1, <4>2
        <5>2. s[k] # ESC /\ s[k] # "["
          <6>1. s[k] = ESC => s[k + 1] = "["
            BY <1>5, <5>1
          <6>2. s[k] = "[" => s[k + 1] = "m"
            <7> SUFFICES ASSUME s[k] = "[" PROVE s[k + 1] = "m"
              OBVIOUS
            <7>1. k - 1 \in 1..n /\ s[k - 1] = ESC
              BY <1>5, <5>1
            <7>2. (k - 1) + 2 = k + 1
              BY <2>1
            <7> QED BY <1>5, <7>1, <7>2
          <6> QED BY <2>4, <6>1, <6>2, Tokens
        <5>3. s[k] \in Seen \/ s[k] = "m"
          BY <1>5, <5>1, <5>2
        <5> QED BY <2>1, <2>2, <5>1, <5>3
      <4> QED BY <4>1, <4>2
    <3>2. h[k] < k + 1
      BY <2>1, <2>2, <3>1
    <3>3. s[k + 1] \in Seen => h[k + 1] < k + 1
      BY <2>3, <3>2, Tokens
    <3>4. s[k + 1] = ESC => h[k + 1] = (k + 1) + 2
      BY <1>4, <2>1, <2>3, <3>2
    <3>5. R(k + 1)
      BY <2>4, <3>3, <3>4, Tokens
    <3> QED BY <2>1, <3>5
  <2>5. CASE s[k + 1] = "["
    <3>1. k \in 1..n /\ s[k] = ESC
      BY <1>5, <2>1, <2>5
    <3>2. R(k)
      BY <1>7, <3>1
    <3>3. h[k + 1] = (k + 1) + 1
      BY <2>1, <2>3, <2>5, <3>1, <3>2, Tokens
    <3>4. R(k + 1)
      BY <2>5, <3>3, Tokens
    <3> QED BY <2>1, <3>4
  <2>6. CASE s[k + 1] = "m"
    <3>1. k \in 1..n /\ s[k] = "["
      BY <1>5, <2>1, <2>6
    <3>2. R(k)
      BY <1>7, <3>1
    <3>3. h[k + 1] = k + 1
      BY <2>1, <2>3, <2>6, <3>1, <3>2, Tokens
    <3>4. R(k + 1)
      BY <2>6, <3>3, Tokens
    <3> QED BY <2>1, <3>4
  <2> QED BY <1>5, <2>1, <2>4, <2>5, <2>6
<1>8. 0..n \subseteq E
  <2> HIDE DEF E
  <2> QED BY <1>1, <1>6, <1>7, UpTo
<1>9. ASSUME NEW i \in 1..n PROVE h[i] < i <=> s[i] \in Seen
  <2>1. i \in 0..n /\ i # 0 /\ i \in Nat
    BY <1>1
  <2>2. R(i)
    BY <1>8, <2>1
  <2>3. ~(i + 2 < i) /\ ~(i + 1 < i) /\ ~(i < i)
    BY <2>1
  <2> QED BY <1>5, <2>2, <2>3, Tokens
<1> QED BY <1>1, <1>3, <1>9 DEF Plain

\* What is read on a line that is whole.
Reads(s, row) == s \in Seq(Char) /\ Whole(s) /\ row = Text(s)

\* off[i] is the column behind position i.
Columns(s, n, row, off) ==
  /\ off \in [0..n -> Nat] /\ off[0] = 0 /\ Len(row) = off[n]
  /\ \A i \in 1..n :
       /\ i \in Plain(s) => off[i] = off[i - 1] + 1 /\ off[i] \in 1..Len(row) /\ row[off[i]] = s[i]
       /\ i \notin Plain(s) => off[i] = off[i - 1]
       /\ Rank(s, i) = off[i]
  /\ \A k \in 1..Len(row) : \E i \in Plain(s) : k = off[i]

LEMMA ReadsFacts ==
  ASSUME NEW s, NEW row, Reads(s, row)
  PROVE  /\ s \in Seq(Char) /\ Len(s) \in Nat /\ DOMAIN s = 1..Len(s)
         /\ row \in Seq(Char) /\ Len(row) \in Nat /\ DOMAIN row = 1..Len(row)
         /\ Whole(s) /\ Visible(s) = Plain(s) /\ Plain(s) \in SUBSET (1..Len(s))
         /\ row = Selected(s, Plain(s)) /\ visibleLen(s) = Len(row)
         /\ \E off : Columns(s, Len(s), row, off)
<1> DEFINE n == Len(s)
<1>1. s \in Seq(Char) /\ n \in Nat /\ DOMAIN s = 1..n /\ Whole(s)
  BY LenProperties DEF Reads
<1>2. Visible(s) = Plain(s)
  BY <1>1, VisiblePlain
<1>3. row = Selected(s, Plain(s))
  BY <1>2 DEF Reads, Text
<1>4. row \in Seq(Char) /\ Len(row) \in Nat /\ DOMAIN row = 1..Len(row)
  BY <1>1, <1>3, SelectedPlaces, LenProperties
<1>5. Plain(s) \in SUBSET (1..n)
  BY <1>1 DEF Plain
<1>6. PICK off : Places(Selected(s, Plain(s)), s, Plain(s), off)
  BY <1>1, SelectedPlaces
<1>7. /\ \A i \in 0..n : off[i] = Cardinality({j \in Plain(s) : j <= i})
      /\ Len(row) = Cardinality(Plain(s))
  BY <1>1, <1>3, <1>5, <1>6, SelectedCounts
<1>8. visibleLen(s) = Len(row)
  BY <1>2, <1>7 DEF visibleLen
<1>9. \A i \in 1..n : Rank(s, i) = off[i]
  <2>1. \A i \in 1..n : i \in 0..n
    BY <1>1
  <2> QED BY <1>2, <1>7, <2>1 DEF Rank
<1>10. Places(row, s, Plain(s), off)
  BY <1>3, <1>6
<1> HIDE DEF n
<1>11. /\ off \in [0..n -> Nat] /\ off[0] = 0 /\ Len(row) = off[n]
       /\ \A i \in 1..n :
            /\ i \in Plain(s) => off[i] = off[i - 1] + 1 /\ off[i] \in 1..Len(row) /\ row[off[i]] = s[i]
            /\ i \notin Plain(s) => off[i] = off[i - 1]
       /\ \A k \in 1..Len(row) : \E i \in Plain(s) \cap (1..n) : k = off[i]
  BY <1>10 DEF Places, n
<1>12. \A k \in 1..Len(row) : \E i \in Plain(s) : k = off[i]
  BY <1>11
<1>13. Columns(s, n, row, off)
  BY <1>9, <1>11, <1>12 DEF Columns
<1> QED BY <1>1, <1>2, <1>3, <1>4, <1>5, <1>8, <1>13 DEF n

LEMMA WholeJoin ==
  ASSUME NEW a \in Seq(Char), NEW b \in Seq(Char), Whole(a), Whole(b) PROVE Whole(a \o b)
<1> DEFINE m == Len(a)
<1> DEFINE n == Len(b)
<1> DEFINE s == a \o b
<1>1. m \in Nat /\ n \in Nat /\ DOMAIN a = 1..m /\ DOMAIN b = 1..n
  BY LenProperties
<1>2. /\ s \in Seq(Char) /\ Len(s) = m + n
      /\ \A i \in 1..(m + n) : s[i] = IF i <= m THEN a[i] ELSE b[i - m]
  BY ConcatProperties
<1>3. DOMAIN s = 1..(m + n)
  BY <1>2, LenProperties
<1>4. \A i \in 1..m :
        /\ a[i] \in Seen \/ a[i] = ESC \/ a[i] = "[" \/ a[i] = "m"
        /\ a[i] = ESC => i + 1 \in 1..m /\ a[i + 1] = "[" /\ i + 2 \in 1..m /\ a[i + 2] = "m"
        /\ a[i] = "[" => i - 1 \in 1..m /\ a[i - 1] = ESC
        /\ a[i] = "m" => i - 1 \in 1..m /\ a[i - 1] = "["
  <2>1. WholeIn(a, 1..m)
    BY <1>1 DEF Whole
  <2> QED BY <2>1 DEF WholeIn
<1>5. \A i \in 1..n :
        /\ b[i] \in Seen \/ b[i] = ESC \/ b[i] = "[" \/ b[i] = "m"
        /\ b[i] = ESC => i + 1 \in 1..n /\ b[i + 1] = "[" /\ i + 2 \in 1..n /\ b[i + 2] = "m"
        /\ b[i] = "[" => i - 1 \in 1..n /\ b[i - 1] = ESC
        /\ b[i] = "m" => i - 1 \in 1..n /\ b[i - 1] = "["
  <2>1. WholeIn(b, 1..n)
    BY <1>1 DEF Whole
  <2> QED BY <2>1 DEF WholeIn
<1> HIDE DEF m, n, s
<1>6. /\ \A i \in 1..m : i \in 1..(m + n) /\ s[i] = a[i]
      /\ \A j \in 1..n : m + j \in 1..(m + n) /\ s[m + j] = b[j]
  <2>1. \A i \in 1..m : i \in 1..(m + n) /\ i <= m
    BY <1>1
  <2>2. \A j \in 1..n : m + j \in 1..(m + n) /\ ~(m + j <= m) /\ (m + j) - m = j
    BY <1>1
  <2> QED BY <1>2, <2>1, <2>2
<1>7. ASSUME NEW i \in 1..m
      PROVE  /\ s[i] \in Seen \/ s[i] = ESC \/ s[i] = "[" \/ s[i] = "m"
             /\ s[i] = ESC => /\ i + 1 \in 1..(m + n) /\ s[i + 1] = "["
                              /\ i + 2 \in 1..(m + n) /\ s[i + 2] = "m"
             /\ s[i] = "[" => i - 1 \in 1..(m + n) /\ s[i - 1] = ESC
             /\ s[i] = "m" => i - 1 \in 1..(m + n) /\ s[i - 1] = "["
  BY <1>4, <1>6
<1>8. ASSUME NEW j \in 1..n
      PROVE  /\ s[m + j] \in Seen \/ s[m + j] = ESC \/ s[m + j] = "[" \/ s[m + j] = "m"
             /\ s[m + j] = ESC => /\ (m + j) + 1 \in 1..(m + n) /\ s[(m + j) + 1] = "["
                                  /\ (m + j) + 2 \in 1..(m + n) /\ s[(m + j) + 2] = "m"
             /\ s[m + j] = "[" => (m + j) - 1 \in 1..(m + n) /\ s[(m + j) - 1] = ESC
             /\ s[m + j] = "m" => (m + j) - 1 \in 1..(m + n) /\ s[(m + j) - 1] = "["
  <2>1. (m + j) + 1 = m + (j + 1) /\ (m + j) + 2 = m + (j + 2) /\ (m + j) - 1 = m + (j - 1)
    BY <1>1
  <2>2. s[m + j] = b[j]
    BY <1>6
  <2>3. ASSUME b[j] = ESC
        PROVE  /\ (m + j) + 1 \in 1..(m + n) /\ s[(m + j) + 1] = "["
               /\ (m + j) + 2 \in 1..(m + n) /\ s[(m + j) + 2] = "m"
    <3>1. j + 1 \in 1..n /\ b[j + 1] = "[" /\ j + 2 \in 1..n /\ b[j + 2] = "m"
      BY <1>5, <2>3
    <3> QED BY <1>6, <2>1, <3>1
  <2>4. ASSUME b[j] = "[" PROVE (m + j) - 1 \in 1..(m + n) /\ s[(m + j) - 1] = ESC
    <3>1. j - 1 \in 1..n /\ b[j - 1] = ESC
      BY <1>5, <2>4
    <3> QED BY <1>6, <2>1, <3>1
  <2>5. ASSUME b[j] = "m" PROVE (m + j) - 1 \in 1..(m + n) /\ s[(m + j) - 1] = "["
    <3>1. j - 1 \in 1..n /\ b[j - 1] = "["
      BY <1>5, <2>5
    <3> QED BY <1>6, <2>1, <3>1
  <2> QED BY <1>5, <2>2, <2>3, <2>4, <2>5
<1>9. \A i \in 1..(m + n) : i \in 1..m \/ (i - m \in 1..n /\ m + (i - m) = i)
  BY <1>1
<1>10. ASSUME NEW i \in 1..(m + n)
      PROVE  /\ s[i] \in Seen \/ s[i] = ESC \/ s[i] = "[" \/ s[i] = "m"
             /\ s[i] = ESC => /\ i + 1 \in 1..(m + n) /\ s[i + 1] = "["
                              /\ i + 2 \in 1..(m + n) /\ s[i + 2] = "m"
             /\ s[i] = "[" => i - 1 \in 1..(m + n) /\ s[i - 1] = ESC
             /\ s[i] = "m" => i - 1 \in 1..(m + n) /\ s[i - 1] = "["
  <2>1. CASE i \in 1..m
    BY <1>7, <2>1
  <2>2. CASE i - m \in 1..n /\ m + (i - m) = i
    <3> DEFINE j == i - m
    <3>1. j \in 1..n /\ i = m + j
      BY <2>2
    <3> HIDE DEF j
    <3> QED BY <1>8, <3>1
  <2> QED BY <1>9, <2>1, <2>2
<1>11. WholeIn(s, 1..(m + n))
  BY <1>10 DEF WholeIn
<1> QED BY <1>3, <1>11 DEF Whole, s

\* Lines are read one behind the other.
LEMMA ReadsJoin ==
  ASSUME NEW a, NEW b, NEW r, NEW t, Reads(a, r), Reads(b, t) PROVE Reads(a \o b, r \o t)
<1> DEFINE s == a \o b
<1>1. /\ a \in Seq(Char) /\ DOMAIN a = 1..Len(a) /\ Len(a) \in Nat /\ Whole(a)
      /\ r = Selected(a, Plain(a))
      /\ b \in Seq(Char) /\ DOMAIN b = 1..Len(b) /\ Len(b) \in Nat /\ Whole(b)
      /\ t = Selected(b, Plain(b))
  BY ReadsFacts
<1>2. Whole(s) /\ s \in Seq(Char)
  BY <1>1, WholeJoin, ConcatProperties
<1>3. Visible(s) = Plain(s)
  <2> HIDE DEF s
  <2> QED BY <1>2, VisiblePlain
<1>4. /\ DOMAIN s = 1..(Len(a) + Len(b))
      /\ \A i \in 1..Len(a) : i \in DOMAIN s /\ s[i] = a[i]
      /\ \A i \in 1..Len(b) : Len(a) + i \in DOMAIN s /\ s[Len(a) + i] = b[i]
  <2>1. /\ Len(s) = Len(a) + Len(b)
        /\ \A i \in 1..(Len(a) + Len(b)) : s[i] = IF i <= Len(a) THEN a[i] ELSE b[i - Len(a)]
    BY <1>1, ConcatProperties
  <2>2. DOMAIN s = 1..Len(s)
    BY <1>2, LenProperties
  <2> HIDE DEF s
  <2>3. \A i \in 1..Len(a) : i \in 1..(Len(a) + Len(b)) /\ i <= Len(a)
    BY <1>1
  <2>4. \A i \in 1..Len(b) : /\ Len(a) + i \in 1..(Len(a) + Len(b)) /\ ~(Len(a) + i <= Len(a))
                             /\ (Len(a) + i) - Len(a) = i
    BY <1>1
  <2> QED BY <2>1, <2>2, <2>3, <2>4
<1>5. /\ \A i \in 1..Len(a) : i \in Plain(s) <=> i \in Plain(a)
      /\ \A i \in 1..Len(b) : Len(a) + i \in Plain(s) <=> i \in Plain(b)
  <2> HIDE DEF s
  <2> QED BY <1>1, <1>4 DEF Plain
<1>6. Selected(s, Plain(s)) = r \o t
  <2> DEFINE P == Plain(s)
  <2> DEFINE A == Plain(a)
  <2> DEFINE B == Plain(b)
  <2>1. /\ \A i \in 1..Len(a) : i \in P <=> i \in A
        /\ \A i \in 1..Len(b) : Len(a) + i \in P <=> i \in B
    BY <1>5
  <2> HIDE DEF P, A, B
  <2>2. Selected(a \o b, P) = Selected(a, A) \o Selected(b, B)
    BY <1>1, <2>1, SelectedJoin
  <2> QED BY <1>1, <2>2 DEF P, A, B
<1> QED BY <1>2, <1>3, <1>6 DEF Reads, Text

\* Text is read as it is, and a sequence is not.
LEMMA ReadsText ==
  ASSUME NEW x \in Seq(Seen) PROVE Reads(x, x)
<1>1. Len(x) \in Nat /\ DOMAIN x = 1..Len(x) /\ \A i \in 1..Len(x) : x[i] \in Seen
  BY LenProperties, ElementOfSeq
<1>2. x \in Seq(Char)
  <2>1. \A i \in 1..Len(x) : x[i] \in Char
    BY <1>1, Tokens
  <2> QED BY <1>1, <2>1, IsASeq
<1>3. Whole(x)
  <2>1. WholeIn(x, 1..Len(x))
    BY <1>1, Tokens DEF WholeIn
  <2> QED BY <1>1, <2>1 DEF Whole
<1>4. Visible(x) = 1..Len(x)
  BY <1>1, <1>2, <1>3, VisiblePlain DEF Plain
<1>5. Selected(x, 1..Len(x)) = x
  BY <1>2, SelectedAll
<1> QED BY <1>2, <1>3, <1>4, <1>5 DEF Reads, Text

LEMMA ReadsEscape == Reads(<<ESC, "[", "m">>, <<>>)
<1> DEFINE s == <<ESC, "[", "m">>
<1>1. s \in Seq(Char)
  BY Tokens
<1>2. DOMAIN s = 1..3 /\ s[1] = ESC /\ s[2] = "[" /\ s[3] = "m"
  OBVIOUS
<1> HIDE DEF s
<1>3. \A i \in 1..3 : i = 1 \/ i = 2 \/ i = 3
  OBVIOUS
<1>4. \A i \in 1..3 : /\ s[i] = ESC => i = 1
                      /\ s[i] = "[" => i = 2
                      /\ s[i] = "m" => i = 3
                      /\ s[i] = ESC \/ s[i] = "[" \/ s[i] = "m"
  BY <1>2, <1>3, Tokens
<1>5. Whole(s)
  <2>1. WholeIn(s, 1..3)
    BY <1>2, <1>4 DEF WholeIn
  <2> QED BY <1>2, <2>1 DEF Whole
<1>6. Plain(s) = {}
  BY <1>2, <1>4, Tokens DEF Plain
<1>7. Visible(s) = {}
  BY <1>1, <1>5, <1>6, VisiblePlain
<1>8. Selected(s, {}) = <<>>
  BY <1>1, SelectedOrder
<1> QED BY <1>1, <1>5, <1>7, <1>8 DEF Reads, Text, s

LEMMA BlanksAre ==
  ASSUME NEW k \in Nat
  PROVE  Blanks(k) \in Seq(Seen) /\ Len(Blanks(k)) = k /\ \A i \in 1..k : Blanks(k)[i] = Blank
<1>1. \A i \in 1..k : Blank \in Seen
  BY Tokens
<1>2. Blanks(k) \in [1..k -> Seen] /\ \A i \in 1..k : Blanks(k)[i] = Blank
  BY <1>1 DEF Blanks
<1> HIDE DEF Blanks
<1>3. Blanks(k) \in Seq(Seen) /\ Len(Blanks(k)) = k
  BY <1>2, ListOf
<1> QED BY <1>2, <1>3

LEMMA LineTypes ==
  ASSUME NEW s \in Seq(Char), NEW c \in Nat
  PROVE  /\ visibleLen(s) \in Nat
         /\ \A r \in Char : overwriteAtCol(s, c, r) \in Seq(Char)
         /\ truncateAtCol(s, c) \in Seq(Char)
<1>1. Len(s) \in Nat /\ DOMAIN s = 1..Len(s) /\ \A i \in 1..Len(s) : s[i] \in Char
  BY LenProperties, ElementOfSeq
<1>2. visibleLen(s) \in Nat
  <2>1. Visible(s) \in SUBSET (1..Len(s))
    <3>1. PICK h : Skips(s, h)
      BY SkipsExist
    <3> QED BY <3>1 DEF Skips
  <2>2. IsFiniteSet(Visible(s))
    <3>1. IsFiniteSet(1..Len(s))
      BY <1>1, FS_Interval
    <3> QED BY <2>1, <3>1, FS_Subset
  <2> QED BY <2>2, FS_CardinalityType DEF visibleLen
<1>3. ASSUME NEW r \in Char PROVE overwriteAtCol(s, c, r) \in Seq(Char)
  <2>1. CASE c >= visibleLen(s)
    <3> DEFINE k == c - visibleLen(s)
    <3>1. k \in Nat
      BY <1>2, <2>1
    <3> HIDE DEF k
    <3>2. Blanks(k) \in Seq(Char)
      <4>1. Blanks(k) \in Seq(Seen) /\ Seen \subseteq Char
        BY <3>1, BlanksAre, Tokens
      <4> QED BY <4>1
    <3>3. <<r>> \in Seq(Char)
      OBVIOUS
    <3>4. s \o Blanks(k) \in Seq(Char)
      BY <3>2, ConcatProperties
    <3>5. s \o Blanks(k) \o <<r>> \in Seq(Char)
      BY <3>3, <3>4, ConcatProperties
    <3> QED BY <2>1, <3>5 DEF overwriteAtCol, k
  <2>2. CASE ~(c >= visibleLen(s))
    <3> DEFINE t == [i \in DOMAIN s |-> IF i \in Visible(s) /\ Rank(s, i) = c + 1 THEN r ELSE s[i]]
    <3>1. \A i \in 1..Len(s) : t[i] \in Char
      BY <1>1
    <3>2. t \in [1..Len(s) -> Char]
      BY <1>1
    <3> HIDE DEF t
    <3>3. t \in Seq(Char)
      BY <1>1, <3>2
    <3> QED BY <2>2, <3>3 DEF overwriteAtCol, t
  <2> QED BY <2>1, <2>2
<1>4. truncateAtCol(s, c) \in Seq(Char)
  BY SelectedPlaces DEF truncateAtCol
<1> QED BY <1>2, <1>3, <1>4

\* To write at a column of a line is to write there in what is read on it.
LEMMA ReadsWrite ==
  ASSUME NEW s, NEW row, Reads(s, row), NEW c \in Nat, NEW r \in Seen
  PROVE  Reads(overwriteAtCol(s, c, r), Write(row, c, r))
<1> DEFINE n == Len(s)
<1>1. /\ s \in Seq(Char) /\ n \in Nat /\ DOMAIN s = 1..n
      /\ row \in Seq(Char) /\ Len(row) \in Nat /\ DOMAIN row = 1..Len(row)
      /\ Whole(s) /\ Visible(s) = Plain(s) /\ visibleLen(s) = Len(row)
  BY ReadsFacts
<1>2. CASE c >= Len(row)
  <2> DEFINE k == c - Len(row)
  <2>1. k \in Nat /\ Len(row) + k = c
    BY <1>1, <1>2
  <2> HIDE DEF k
  <2>2. <<r>> \in Seq(Seen) /\ Len(<<r>>) = 1 /\ <<r>>[1] = r
    OBVIOUS
  <2>3. Blanks(k) \in Seq(Seen) /\ Len(Blanks(k)) = k /\ \A i \in 1..k : Blanks(k)[i] = Blank
    BY <2>1, BlanksAre
  <2>4. Reads(s \o Blanks(k) \o <<r>>, row \o Blanks(k) \o <<r>>)
    <3>1. Reads(Blanks(k), Blanks(k)) /\ Reads(<<r>>, <<r>>)
      BY <2>2, <2>3, ReadsText
    <3>2. Reads(s \o Blanks(k), row \o Blanks(k))
      BY <3>1, ReadsJoin
    <3> QED BY <3>1, <3>2, ReadsJoin
  <2>5. row \o Blanks(k) \o <<r>> = Write(row, c, r)
    <3> DEFINE w == row \o Blanks(k)
    <3> DEFINE b == Blanks(k)
    <3> DEFINE e == <<r>>
    <3>0. /\ b \in Seq(Char) /\ Len(b) = k /\ (\A i \in 1..k : b[i] = Blank)
          /\ e \in Seq(Char) /\ Len(e) = 1 /\ e[1] = r
      <4>1. Seen \subseteq Char
        BY Tokens
      <4> QED BY <2>2, <2>3, <4>1
    <3> HIDE DEF b, e
    <3>1. /\ w \in Seq(Char) /\ Len(w) = c
          /\ \A i \in 1..c : w[i] = IF i <= Len(row) THEN row[i] ELSE b[i - Len(row)]
      <4>1. Len(row) + Len(b) = c
        BY <2>1, <3>0
      <4>2. /\ row \o b \in Seq(Char) /\ Len(row \o b) = Len(row) + Len(b)
            /\ \A i \in 1..(Len(row) + Len(b)) :
                 (row \o b)[i] = IF i <= Len(row) THEN row[i] ELSE b[i - Len(row)]
        BY <1>1, <3>0, ConcatProperties
      <4> QED BY <4>1, <4>2 DEF b
    <3> HIDE DEF w
    <3>2. /\ w \o e \in Seq(Char) /\ Len(w \o e) = c + 1
          /\ \A i \in 1..(c + 1) : (w \o e)[i] = IF i <= c THEN w[i] ELSE e[i - c]
      <4>1. Len(w) + Len(e) = c + 1
        BY <3>0, <3>1
      <4>2. /\ w \o e \in Seq(Char) /\ Len(w \o e) = Len(w) + Len(e)
            /\ \A i \in 1..(Len(w) + Len(e)) :
                 (w \o e)[i] = IF i <= Len(w) THEN w[i] ELSE e[i - Len(w)]
        <5>1. w \in Seq(Char) /\ e \in Seq(Char)
          BY <3>0, <3>1
        <5> QED BY <5>1, ConcatProperties
      <4> QED BY <3>1, <4>1, <4>2
    <3> DEFINE v == w \o e
    <3>3. v \in Seq(Char) /\ DOMAIN v = 1..(c + 1)
      BY <3>2, LenProperties
    <3>4. ASSUME NEW i \in 1..(c + 1)
          PROVE  v[i] = IF i = c + 1 THEN r ELSE IF i <= Len(row) THEN row[i] ELSE Blank
      <4>1. CASE i = c + 1
        <5>1. ~(i <= c) /\ i - c = 1
          BY <4>1
        <5> QED BY <3>0, <3>2, <4>1, <5>1
      <4>2. CASE i # c + 1
        <5>1. i <= c /\ i \in 1..c
          BY <4>2
        <5>2. ~(i <= Len(row)) => i - Len(row) \in 1..k
          BY <1>1, <2>1, <5>1
        <5>3. v[i] = w[i]
          BY <3>2, <5>1
        <5>4. v[i] = IF i <= Len(row) THEN row[i] ELSE Blank
          BY <3>0, <3>1, <5>1, <5>2, <5>3
        <5> QED BY <4>2, <5>4
      <4> QED BY <4>1, <4>2
    <3> HIDE DEF v
    <3>5. v = [i \in 1..(c + 1) |-> v[i]]
      <4>1. v \in [1..(c + 1) -> Char]
        BY <3>3, LenProperties
      <4> QED BY <4>1
    <3>6. v = [i \in 1..(c + 1) |->
                 IF i = c + 1 THEN r ELSE IF i <= Len(row) THEN row[i] ELSE Blank]
      BY <3>4, <3>5
    <3>7. ~(c < Len(row))
      BY <1>1, <1>2
    <3>8. v = Write(row, c, r)
      BY <3>6, <3>7 DEF Write
    <3> QED BY <3>8 DEF v, w, b, e
  <2>6. overwriteAtCol(s, c, r) = s \o Blanks(k) \o <<r>>
    BY <1>1, <1>2 DEF overwriteAtCol, k
  <2> QED BY <2>4, <2>5, <2>6
<1>3. CASE ~(c >= Len(row))
  <2> DEFINE t == [i \in 1..n |-> IF i \in Plain(s) /\ Rank(s, i) = c + 1 THEN r ELSE s[i]]
  <2> DEFINE w == Write(row, c, r)
  <2>1. overwriteAtCol(s, c, r) = t
    BY <1>1, <1>3 DEF overwriteAtCol
  <2>2. c < Len(row) /\ c + 1 \in 1..Len(row)
    BY <1>1, <1>3
  <2>3. \A i \in 1..Len(row) : w[i] = IF i = c + 1 THEN r ELSE row[i]
    BY <1>1, <2>2 DEF Write
  <2>4. w \in Seq(Char) /\ Len(w) = Len(row)
    <3>1. \A i \in 1..Len(row) : w[i] \in Char
      BY <1>1, <2>3, Tokens, ElementOfSeq
    <3>2. w = [i \in 1..Len(row) |-> w[i]]
      BY <2>2 DEF Write
    <3> HIDE DEF w
    <3>3. w \in [1..Len(row) -> Char]
      BY <3>1, <3>2
    <3> QED BY <1>1, <3>3, ListOf
  <2> HIDE DEF w
  <2>5. \A i \in 1..n : t[i] = IF i \in Plain(s) /\ Rank(s, i) = c + 1 THEN r ELSE s[i]
    OBVIOUS
  <2>6. t \in Seq(Char) /\ DOMAIN t = 1..n /\ Len(t) = n
    <3>1. \A i \in 1..n : t[i] \in Char
      BY <1>1, <2>5, Tokens, ElementOfSeq
    <3>2. t \in [1..n -> Char]
      BY <3>1
    <3> HIDE DEF t
    <3>3. t \in Seq(Char) /\ Len(t) = n
      BY <1>1, <3>2, ListOf
    <3> QED BY <3>2, <3>3
  <2> HIDE DEF t, n
  <2>7. \A i \in 1..n : \/ t[i] = s[i]
                        \/ t[i] = r /\ t[i] \in Seen /\ s[i] \in Seen
    BY <2>5 DEF Plain
  <2>8. \A i \in 1..n : /\ t[i] \in Seen <=> s[i] \in Seen
                        /\ s[i] = ESC <=> t[i] = ESC
                        /\ s[i] = "[" <=> t[i] = "["
                        /\ s[i] = "m" <=> t[i] = "m"
    BY <2>7, Tokens
  <2>9. Whole(t)
    <3>1. WholeIn(s, 1..n)
      BY <1>1 DEF Whole
    <3>2. WholeIn(t, 1..n)
      BY <2>8, <3>1 DEF WholeIn
    <3> QED BY <2>6, <3>2 DEF Whole
  <2>10. Plain(t) = Plain(s)
    BY <1>1, <2>6, <2>8 DEF Plain
  <2>11. PICK off : Columns(s, n, row, off)
    BY ReadsFacts DEF n
  <2>12. /\ off \in [0..n -> Nat] /\ off[0] = 0 /\ Len(row) = off[n]
         /\ \A i \in 1..n :
              /\ i \in Plain(s) => /\ off[i] = off[i - 1] + 1 /\ off[i] \in 1..Len(row)
                                   /\ row[off[i]] = s[i]
              /\ i \notin Plain(s) => off[i] = off[i - 1]
              /\ Rank(s, i) = off[i]
         /\ \A k \in 1..Len(row) : \E i \in Plain(s) : k = off[i]
    BY <2>11 DEF Columns
  <2>13. Plain(s) \in SUBSET (1..n)
    BY <1>1 DEF Plain
  <2>14. \A i \in 1..n : i \in Plain(s) => w[off[i]] = t[i]
    BY <2>3, <2>5, <2>12
  <2>15. \A k \in 1..Len(row) : \E i \in Plain(s) \cap (1..n) : k = off[i]
    BY <2>12, <2>13
  <2>16. Places(w, t, Plain(t), off)
    BY <2>4, <2>6, <2>10, <2>12, <2>14, <2>15 DEF Places
  <2>17. w = Selected(t, Plain(t))
    BY <2>4, <2>6, <2>16, SelectedIs
  <2>18. Visible(t) = Plain(t)
    BY <2>6, <2>9, VisiblePlain
  <2> QED BY <2>1, <2>6, <2>9, <2>17, <2>18 DEF Reads, Text, w
<1> QED BY <1>2, <1>3

\* To cut a line at a column is to cut what is read on it.
LEMMA ReadsCut ==
  ASSUME NEW s, NEW row, Reads(s, row), NEW c \in Nat
  PROVE  Reads(truncateAtCol(s, c), IF c < Len(row) THEN SubSeq(row, 1, c) ELSE row)
<1> DEFINE n == Len(s)
<1> DEFINE K == {i \in 1..n : i \in Plain(s) => Rank(s, i) <= c}
<1> DEFINE t == Selected(s, K)
<1> DEFINE cut == IF c < Len(row) THEN SubSeq(row, 1, c) ELSE row
<1>1. /\ s \in Seq(Char) /\ n \in Nat /\ DOMAIN s = 1..n
      /\ row \in Seq(Char) /\ Len(row) \in Nat /\ DOMAIN row = 1..Len(row)
      /\ Whole(s) /\ Visible(s) = Plain(s)
  BY ReadsFacts
<1>2. truncateAtCol(s, c) = t
  BY <1>1 DEF truncateAtCol
<1>3. t \in Seq(Char) /\ DOMAIN t = 1..Len(t) /\ Len(t) \in Nat
  BY <1>1, SelectedPlaces, LenProperties
<1>4. PICK stays : Places(t, s, K, stays)
  BY <1>1, SelectedPlaces
<1>5. PICK off : Columns(s, n, row, off)
  BY ReadsFacts
<1>6. /\ off \in [0..n -> Nat] /\ off[0] = 0 /\ Len(row) = off[n]
      /\ \A i \in 1..n :
           /\ i \in Plain(s) => /\ off[i] = off[i - 1] + 1 /\ off[i] \in 1..Len(row)
                                /\ row[off[i]] = s[i]
           /\ i \notin Plain(s) => off[i] = off[i - 1]
           /\ Rank(s, i) = off[i]
      /\ \A k \in 1..Len(row) : \E i \in Plain(s) : k = off[i]
  BY <1>5 DEF Columns
<1>7. \A i \in 1..n : i \in K <=> (s[i] \in Seen => off[i] <= c)
  BY <1>1, <1>6 DEF Plain
<1>8. \A i \in 1..n : i \in Plain(s) <=> s[i] \in Seen
  BY <1>1 DEF Plain
<1> HIDE DEF K
<1>9. /\ stays \in [0..n -> Nat] /\ stays[0] = 0 /\ Len(t) = stays[n]
      /\ \A i \in 1..n :
           /\ i \in K => stays[i] = stays[i - 1] + 1 /\ stays[i] \in 1..Len(t) /\ t[stays[i]] = s[i]
           /\ i \notin K => stays[i] = stays[i - 1]
      /\ \A k \in 1..Len(t) : \E i \in K \cap (1..n) : k = stays[i]
  BY <1>4 DEF Places
<1> HIDE DEF t, n
<1>10. \A i \in 1..n : i - 1 \in 0..n /\ i \in 0..n /\ off[i - 1] \in Nat /\ stays[i - 1] \in Nat
                       /\ off[i] \in Nat /\ stays[i] \in Nat
  <2>1. \A i \in 1..n : i - 1 \in 0..n /\ i \in 0..n
    BY <1>1
  <2> QED BY <1>6, <1>9, <2>1
<1>11. \A i \in 1..n :
         /\ s[i] \in Seen \/ s[i] = ESC \/ s[i] = "[" \/ s[i] = "m"
         /\ s[i] = ESC => i + 1 \in 1..n /\ s[i + 1] = "[" /\ i + 2 \in 1..n /\ s[i + 2] = "m"
         /\ s[i] = "[" => i - 1 \in 1..n /\ s[i - 1] = ESC
         /\ s[i] = "m" => i - 1 \in 1..n /\ s[i - 1] = "["
  <2>1. WholeIn(s, 1..n)
    BY <1>1 DEF Whole
  <2> QED BY <2>1 DEF WholeIn
<1>12. \A i \in 1..n : s[i] \notin Seen => i \in K
  BY <1>7
<1>13. ASSUME NEW i \in 1..n, i + 1 \in 1..n, s[i] \notin Seen, s[i + 1] \notin Seen
       PROVE  stays[i + 1] = stays[i] + 1 /\ t[stays[i] + 1] = s[i + 1] /\ stays[i] + 1 \in 1..Len(t)
  <2>1. (i + 1) - 1 = i
    BY <1>1
  <2>2. i + 1 \in K
    BY <1>12, <1>13
  <2>3. /\ stays[i + 1] = stays[(i + 1) - 1] + 1
        /\ stays[i + 1] \in 1..Len(t) /\ t[stays[i + 1]] = s[i + 1]
    BY <1>9, <1>13, <2>2
  <2> QED BY <2>1, <2>3
<1>14. Whole(t)
  <2> SUFFICES ASSUME NEW k \in 1..Len(t)
               PROVE  /\ t[k] \in Seen \/ t[k] = ESC \/ t[k] = "[" \/ t[k] = "m"
                      /\ t[k] = ESC => /\ k + 1 \in 1..Len(t) /\ t[k + 1] = "["
                                       /\ k + 2 \in 1..Len(t) /\ t[k + 2] = "m"
                      /\ t[k] = "[" => k - 1 \in 1..Len(t) /\ t[k - 1] = ESC
                      /\ t[k] = "m" => k - 1 \in 1..Len(t) /\ t[k - 1] = "["
    BY <1>3 DEF Whole, WholeIn
  <2>1. PICK i \in K \cap (1..n) : k = stays[i]
    BY <1>9
  <2>2. t[k] = s[i] /\ i \in 1..n /\ stays[i] \in Nat
    BY <1>9, <1>10, <2>1
  <2>3. ASSUME t[k] = ESC
        PROVE  k + 1 \in 1..Len(t) /\ t[k + 1] = "[" /\ k + 2 \in 1..Len(t) /\ t[k + 2] = "m"
    <3>1. i + 1 \in 1..n /\ s[i + 1] = "[" /\ i + 2 \in 1..n /\ s[i + 2] = "m"
      BY <1>11, <2>2, <2>3
    <3>2. stays[i + 1] = k + 1 /\ t[k + 1] = "[" /\ k + 1 \in 1..Len(t)
      BY <1>13, <2>1, <2>2, <2>3, <3>1, Tokens
    <3>3. (i + 1) + 1 = i + 2 /\ (k + 1) + 1 = k + 2
      BY <1>1, <1>3
    <3>4. t[stays[i + 1] + 1] = s[(i + 1) + 1] /\ stays[i + 1] + 1 \in 1..Len(t)
      BY <1>13, <3>1, <3>3, Tokens
    <3> QED BY <3>1, <3>2, <3>3, <3>4
  <2>4. ASSUME s[i] = "[" \/ s[i] = "m"
        PROVE  k - 1 \in 1..Len(t) /\ t[k - 1] = s[i - 1]
    <3>1. i - 1 \in 1..n /\ s[i - 1] \notin Seen
      BY <1>11, <2>2, <2>4, Tokens
    <3>2. stays[i] = stays[i - 1] + 1 /\ stays[i - 1] \in 1..Len(t) /\ t[stays[i - 1]] = s[i - 1]
      BY <1>9, <1>12, <2>1, <3>1
    <3>3. k - 1 = stays[i - 1]
      BY <1>10, <2>1, <2>2, <3>2
    <3> QED BY <3>2, <3>3
  <2>5. ASSUME t[k] = "[" PROVE k - 1 \in 1..Len(t) /\ t[k - 1] = ESC
    <3>0. s[i] = "["
      BY <2>2, <2>5
    <3>1. s[i - 1] = ESC
      BY <1>11, <2>2, <3>0
    <3> QED BY <2>4, <3>0, <3>1
  <2>6. ASSUME t[k] = "m" PROVE k - 1 \in 1..Len(t) /\ t[k - 1] = "["
    <3>0. s[i] = "m"
      BY <2>2, <2>6
    <3>1. s[i - 1] = "["
      BY <1>11, <2>2, <3>0
    <3> QED BY <2>4, <3>0, <3>1
  <2> QED BY <1>11, <2>2, <2>3, <2>5, <2>6
<1> DEFINE read == Text(t)
<1>15. Reads(t, read)
  BY <1>3, <1>14 DEF Reads
<1> HIDE DEF read
<1>16. PICK col2 : Columns(t, Len(t), read, col2)
  BY <1>15, ReadsFacts
<1>17. /\ col2 \in [0..Len(t) -> Nat] /\ col2[0] = 0 /\ Len(read) = col2[Len(t)]
       /\ \A k \in 1..Len(t) :
            /\ k \in Plain(t) => /\ col2[k] = col2[k - 1] + 1 /\ col2[k] \in 1..Len(read)
                                 /\ read[col2[k]] = t[k]
            /\ k \notin Plain(t) => col2[k] = col2[k - 1]
       /\ \A k \in 1..Len(read) : \E l \in Plain(t) : k = col2[l]
  BY <1>16 DEF Columns
<1>18. \A k \in 1..Len(t) : k \in Plain(t) <=> t[k] \in Seen
  BY <1>3 DEF Plain
<1> DEFINE upTo(i) == IF off[i] <= c THEN off[i] ELSE c
<1>19. \A i \in 0..n : col2[stays[i]] = upTo(i)
  <2> DEFINE E == {i \in 0..n : col2[stays[i]] = upTo(i)}
  <2>1. 0 \in E
    <3>1. upTo(0) = 0
      BY <1>6
    <3> HIDE DEF upTo
    <3> QED BY <1>1, <1>9, <1>17, <3>1
  <2>2. ASSUME NEW k \in 0..n, k \in E, k < n PROVE k + 1 \in E
    <3> DEFINE i == k + 1
    <3>1. i \in 1..n /\ i - 1 = k /\ i \in 0..n
      BY <1>1, <2>2
    <3> HIDE DEF i
    <3>2. /\ off[k] \in Nat /\ off[i] \in Nat /\ stays[k] \in Nat
          /\ col2[stays[k]] = IF off[k] <= c THEN off[k] ELSE c
      BY <1>10, <2>2, <3>1
    <3>3. CASE s[i] \in Seen /\ i \in K
      <4>1. off[i] = off[k] + 1 /\ off[i] <= c /\ stays[i] = stays[k] + 1 /\ stays[i] \in 1..Len(t)
            /\ t[stays[i]] = s[i]
        BY <1>6, <1>7, <1>8, <1>9, <3>1, <3>3
      <4>2. col2[stays[i]] = col2[stays[i] - 1] + 1 /\ stays[i] - 1 = stays[k]
        <5>1. stays[i] \in Plain(t)
          BY <1>18, <3>3, <4>1
        <5>2. col2[stays[i]] = col2[stays[i] - 1] + 1
          BY <1>17, <4>1, <5>1
        <5> QED BY <3>2, <4>1, <5>2
      <4>3. off[k] <= c
        BY <3>2, <4>1
      <4>4. col2[stays[i]] = upTo(i)
        BY <3>2, <4>1, <4>2, <4>3
      <4> QED BY <3>1, <4>4 DEF i
    <3>4. CASE s[i] \in Seen /\ i \notin K
      <4>1. off[i] = off[k] + 1 /\ ~(off[i] <= c) /\ stays[i] = stays[k]
        BY <1>6, <1>7, <1>8, <1>9, <3>1, <3>4
      <4>2. (off[k] <= c => off[k] = c)
        BY <3>2, <4>1
      <4>3. col2[stays[i]] = c
        BY <3>2, <4>1, <4>2
      <4>4. col2[stays[i]] = upTo(i)
        BY <4>1, <4>3
      <4> QED BY <3>1, <4>4 DEF i
    <3>5. CASE s[i] \notin Seen
      <4>1. off[i] = off[k] /\ stays[i] = stays[k] + 1 /\ stays[i] \in 1..Len(t) /\ t[stays[i]] = s[i]
        BY <1>6, <1>8, <1>9, <1>12, <3>1, <3>5
      <4>2. col2[stays[i]] = col2[stays[i] - 1] /\ stays[i] - 1 = stays[k]
        BY <1>17, <1>18, <3>2, <3>5, <4>1
      <4>3. col2[stays[i]] = upTo(i)
        BY <3>2, <4>1, <4>2
      <4> QED BY <3>1, <4>3 DEF i
    <3> QED BY <3>3, <3>4, <3>5
  <2>3. 0..n \subseteq E
    <3> HIDE DEF E
    <3> QED BY <1>1, <2>1, <2>2, UpTo
  <2> QED BY <2>3
<1>20. read \in Seq(Char) /\ Len(read) \in Nat
  BY <1>15, ReadsFacts
<1>21. Len(read) = IF Len(row) <= c THEN Len(row) ELSE c
  <2>1. n \in 0..n
    BY <1>1
  <2> QED BY <1>6, <1>9, <1>17, <1>19, <2>1
<1>22. ASSUME NEW m \in 1..Len(read) PROVE read[m] = row[m]
  <2>1. PICK k \in Plain(t) : m = col2[k]
    BY <1>17
  <2>2. k \in 1..Len(t) /\ t[k] \in Seen /\ read[m] = t[k]
    BY <1>3, <1>17, <2>1 DEF Plain
  <2>3. PICK i \in K \cap (1..n) : k = stays[i]
    BY <1>9, <2>2
  <2>4. i \in 1..n /\ i \in 0..n /\ t[k] = s[i] /\ i \in Plain(s) /\ off[i] <= c
    BY <1>7, <1>8, <1>9, <1>10, <2>2, <2>3
  <2>5. m = off[i]
    BY <1>19, <2>1, <2>3, <2>4
  <2> QED BY <1>6, <2>2, <2>4, <2>5
<1>23. read = cut
  <2>1. CASE c < Len(row)
    <3>1. Len(read) = c
      <4>1. ~(Len(row) <= c)
        BY <1>1, <2>1
      <4> QED BY <1>21, <4>1
    <3>2. /\ 1 \in Int /\ c \in Int /\ (\A i \in 1..c : row[i] \in Char) /\ c - 1 + 1 = c
          /\ (\A i \in 1..c : 1 + i - 1 = i) /\ (1 <= c \/ c = 0)
      <4>1. \A i \in 1..c : i \in 1..Len(row)
        BY <1>1, <2>1
      <4>2. \A i \in 1..c : row[i] \in Char
        BY <1>1, <4>1, ElementOfSeq
      <4> QED BY <4>2
    <3>3. /\ SubSeq(row, 1, c) \in Seq(Char)
          /\ Len(SubSeq(row, 1, c)) = IF 1 <= c THEN c - 1 + 1 ELSE 0
          /\ \A i \in 1..c - 1 + 1 : SubSeq(row, 1, c)[i] = row[1 + i - 1]
      BY <3>2, SubSeqProperties
    <3> DEFINE q == SubSeq(row, 1, c)
    <3>4. q \in Seq(Char) /\ Len(q) = c /\ \A i \in 1..c : q[i] = row[i]
      BY <3>2, <3>3
    <3> HIDE DEF q
    <3>5. read = q
      BY <1>20, <1>22, <3>1, <3>4, SeqEqual
    <3> QED BY <2>1, <3>5 DEF q
  <2>2. CASE ~(c < Len(row))
    <3>1. Len(read) = Len(row)
      <4>1. Len(row) <= c
        BY <1>1, <2>2
      <4> QED BY <1>21, <4>1
    <3>2. read = row
      BY <1>1, <1>20, <1>22, <3>1, SeqEqual
    <3> QED BY <2>2, <3>2
  <2> QED BY <2>1, <2>2
<1> HIDE DEF cut
<1>24. Reads(truncateAtCol(s, c), cut)
  BY <1>2, <1>15, <1>23
<1> QED BY <1>24 DEF cut

\* Lines and what is read on them, except where one is hurt.
RowSet == Seq(Char) \union {Hurt}

Agrees(ls, rs) ==
  /\ ls \in Seq(Seq(Char)) /\ rs \in Seq(RowSet)
  /\ Len(ls) = Len(rs) /\ Len(rs) \in Nat \ {0}
  /\ \A i \in 1..Len(rs) : rs[i] # Hurt => Reads(ls[i], rs[i])

\* The last of a list replaced.
Replaces(t, s, e) == Len(t) = Len(s) /\ \A i \in 1..Len(s) : t[i] = IF i = Len(s) THEN e ELSE s[i]

LEMMA EditLastIs ==
  ASSUME NEW S, NEW s \in Seq(S), NEW e \in S, Len(s) \in Nat \ {0}
  PROVE  /\ EditLast(s, e) \in Seq(S) /\ Latest(EditLast(s, e)) = e
         /\ Replaces(EditLast(s, e), s, e)
         /\ EditLast(s, Latest(s)) = s /\ Latest(s) \in S
         /\ \A f \in S : EditLast(EditLast(s, e), f) = EditLast(s, f)
<1>1. DOMAIN s = 1..Len(s) /\ Len(s) \in 1..Len(s) /\ \A i \in 1..Len(s) : s[i] \in S
  BY LenProperties, ElementOfSeq
<1>2. ASSUME NEW f \in S
      PROVE  /\ EditLast(s, f) \in Seq(S) /\ Len(EditLast(s, f)) = Len(s)
             /\ \A i \in 1..Len(s) : EditLast(s, f)[i] = IF i = Len(s) THEN f ELSE s[i]
  <2> DEFINE t == [i \in 1..Len(s) |-> IF i = Len(s) THEN f ELSE s[i]]
  <2>1. EditLast(s, f) = t
    BY <1>1 DEF EditLast
  <2>2. t \in [1..Len(s) -> S] /\ \A i \in 1..Len(s) : t[i] = IF i = Len(s) THEN f ELSE s[i]
    BY <1>1
  <2> HIDE DEF t
  <2>3. t \in Seq(S) /\ Len(t) = Len(s)
    BY <2>2, ListOf
  <2> QED BY <2>1, <2>2, <2>3
<1>3. Latest(s) \in S
  BY <1>1 DEF Latest
<1>4. Latest(EditLast(s, e)) = e
  BY <1>1, <1>2 DEF Latest
<1>5. EditLast(s, Latest(s)) = s
  <2> DEFINE t == EditLast(s, Latest(s))
  <2>1. t \in Seq(S) /\ Len(t) = Len(s) /\ \A i \in 1..Len(s) : t[i] = s[i]
    BY <1>2, <1>3 DEF Latest
  <2> HIDE DEF t
  <2>2. t = s
    BY <2>1, SeqEqual
  <2> QED BY <2>2 DEF t
<1>6. ASSUME NEW f \in S PROVE EditLast(EditLast(s, e), f) = EditLast(s, f)
  <2> DEFINE t == EditLast(s, e)
  <2>1. t \in Seq(S) /\ Len(t) = Len(s) /\ DOMAIN t = 1..Len(s)
        /\ \A i \in 1..Len(s) : t[i] = IF i = Len(s) THEN e ELSE s[i]
    BY <1>2, LenProperties
  <2> HIDE DEF t
  <2>2. EditLast(t, f) = [i \in 1..Len(s) |-> IF i = Len(s) THEN f ELSE t[i]]
    BY <1>1, <2>1 DEF EditLast
  <2>3. EditLast(s, f) = [i \in 1..Len(s) |-> IF i = Len(s) THEN f ELSE s[i]]
    BY <1>1 DEF EditLast
  <2> QED BY <2>1, <2>2, <2>3 DEF t
<1> QED BY <1>2, <1>3, <1>4, <1>5, <1>6 DEF Replaces

LEMMA AgreesEdit ==
  ASSUME NEW ls, NEW rs, Agrees(ls, rs), NEW line \in Seq(Char), NEW row \in RowSet,
         row # Hurt => Reads(line, row)
  PROVE  Agrees(EditLast(ls, line), EditLast(rs, row))
<1>1. /\ ls \in Seq(Seq(Char)) /\ rs \in Seq(RowSet)
      /\ Len(ls) = Len(rs) /\ Len(rs) \in Nat \ {0} /\ Len(ls) \in Nat \ {0}
      /\ \A i \in 1..Len(rs) : rs[i] # Hurt => Reads(ls[i], rs[i])
  BY DEF Agrees
<1> DEFINE t == EditLast(ls, line)
<1> DEFINE u == EditLast(rs, row)
<1>a. t \in Seq(Seq(Char)) /\ Replaces(t, ls, line)
  BY <1>1, EditLastIs
<1>b. u \in Seq(RowSet) /\ Replaces(u, rs, row)
  BY <1>1, EditLastIs
<1> HIDE DEF t, u
<1>2. Len(t) = Len(ls) /\ \A i \in 1..Len(ls) : t[i] = IF i = Len(ls) THEN line ELSE ls[i]
  BY <1>a DEF Replaces
<1>3. Len(u) = Len(rs) /\ \A i \in 1..Len(rs) : u[i] = IF i = Len(rs) THEN row ELSE rs[i]
  BY <1>b DEF Replaces
<1>4. \A i \in 1..Len(rs) : u[i] # Hurt => Reads(t[i], u[i])
  BY <1>1, <1>2, <1>3
<1>5. Agrees(t, u)
  BY <1>1, <1>a, <1>b, <1>2, <1>3, <1>4 DEF Agrees
<1> QED BY <1>5 DEF t, u

LEMMA AgreesHurt ==
  ASSUME NEW ls, NEW rs, Agrees(ls, rs), NEW line \in Seq(Char), Latest(rs) = Hurt
  PROVE  Agrees(EditLast(ls, line), rs)
<1>1. rs \in Seq(RowSet) /\ Len(rs) \in Nat \ {0} /\ Hurt \in RowSet
  BY DEF Agrees, RowSet
<1>2. EditLast(rs, Hurt) = rs
  BY <1>1, EditLastIs
<1>3. Agrees(EditLast(ls, line), EditLast(rs, Hurt))
  BY <1>1, AgreesEdit
<1> QED BY <1>2, <1>3

LEMMA EmptyLine == <<>> \in Seq(Char) /\ <<>> \in RowSet /\ Reads(<<>>, <<>>)
<1>1. <<>> \in Seq(Char) /\ <<>> \in Seq(Seen)
  OBVIOUS
<1> QED BY <1>1, ReadsText DEF RowSet

LEMMA AgreesAppend ==
  ASSUME NEW ls, NEW rs, Agrees(ls, rs) PROVE Agrees(Append(ls, <<>>), Append(rs, <<>>))
<1>1. /\ ls \in Seq(Seq(Char)) /\ rs \in Seq(RowSet)
      /\ Len(ls) = Len(rs) /\ Len(rs) \in Nat \ {0}
      /\ \A i \in 1..Len(rs) : rs[i] # Hurt => Reads(ls[i], rs[i])
  BY DEF Agrees
<1> DEFINE t == Append(ls, <<>>)
<1> DEFINE u == Append(rs, <<>>)
<1>2. /\ t \in Seq(Seq(Char)) /\ Len(t) = Len(ls) + 1
      /\ (\A i \in 1..Len(ls) : t[i] = ls[i]) /\ t[Len(ls) + 1] = <<>>
  BY <1>1, EmptyLine, AppendProperties
<1>3. /\ u \in Seq(RowSet) /\ Len(u) = Len(rs) + 1
      /\ (\A i \in 1..Len(rs) : u[i] = rs[i]) /\ u[Len(rs) + 1] = <<>>
  BY <1>1, EmptyLine, AppendProperties
<1> HIDE DEF t, u
<1>4. \A i \in 1..Len(u) : i \in 1..Len(rs) \/ i = Len(rs) + 1
  BY <1>1, <1>3
<1>5. \A i \in 1..Len(u) : u[i] # Hurt => Reads(t[i], u[i])
  BY <1>1, <1>2, <1>3, <1>4, EmptyLine
<1>6. Len(t) = Len(u) /\ Len(u) \in Nat \ {0}
  BY <1>1, <1>2, <1>3
<1>7. Agrees(t, u)
  BY <1>2, <1>3, <1>5, <1>6 DEF Agrees
<1> QED BY <1>7 DEF t, u

\* Trimmed is a list to its last maxLines.
LEMMA TrimIs ==
  ASSUME NEW S, NEW s \in Seq(S), Len(s) \in Nat \ {0}
  PROVE  /\ Len(s) <= maxLines => Trim(s) = s
         /\ Trim(s) \in Seq(S)
         /\ Len(Trim(s)) = IF Len(s) > maxLines THEN maxLines ELSE Len(s)
         /\ \A i \in 1..Len(Trim(s)) :
              Trim(s)[i] = s[IF Len(s) > maxLines THEN Len(s) - maxLines + i ELSE i]
<1> DEFINE n == Len(s)
<1>1. n \in Nat /\ maxLines \in Nat \ {0} /\ DOMAIN s = 1..n /\ \A i \in 1..n : s[i] \in S
  BY ScreenAssumption, LenProperties, ElementOfSeq
<1>2. CASE ~(n > maxLines)
  <2>1. Trim(s) = s
    BY <1>2 DEF Trim
  <2> QED BY <1>1, <1>2, <2>1
<1>3. CASE n > maxLines
  <2> DEFINE a == n - maxLines + 1
  <2> DEFINE t == SubSeq(s, a, n)
  <2>1. /\ a \in Int /\ n \in Int /\ a <= n /\ n - a + 1 = maxLines
        /\ (\A i \in a..n : s[i] \in S)
        /\ \A i \in 1..maxLines : a + i - 1 = n - maxLines + i
    <3>1. \A i \in a..n : i \in 1..n
      BY <1>1, <1>3
    <3>2. a \in Int /\ n \in Int /\ a <= n /\ n - a + 1 = maxLines
      BY <1>1, <1>3
    <3>3. \A i \in 1..maxLines : a + i - 1 = n - maxLines + i
      BY <1>1
    <3> QED BY <1>1, <3>1, <3>2, <3>3
  <2> HIDE DEF a, n
  <2>2. /\ SubSeq(s, a, n) \in Seq(S)
        /\ Len(SubSeq(s, a, n)) = IF a <= n THEN n - a + 1 ELSE 0
        /\ \A i \in 1..n - a + 1 : SubSeq(s, a, n)[i] = s[a + i - 1]
    BY <2>1, SubSeqProperties
  <2>3. t \in Seq(S) /\ Len(t) = maxLines /\ \A i \in 1..maxLines : t[i] = s[n - maxLines + i]
    BY <2>1, <2>2
  <2> HIDE DEF t
  <2>4. Trim(s) = t
    BY <1>3 DEF Trim, t, a, n
  <2>5. ~(n <= maxLines)
    BY <1>1, <1>3
  <2> QED BY <1>3, <2>3, <2>4, <2>5 DEF n
<1> QED BY <1>2, <1>3

LEMMA AgreesTrim ==
  ASSUME NEW ls, NEW rs, Agrees(ls, rs)
  PROVE  /\ Agrees(Trim(ls), Trim(rs)) /\ Len(Trim(ls)) <= maxLines
         /\ Len(rs) <= maxLines => Trim(rs) = rs
<1>1. /\ ls \in Seq(Seq(Char)) /\ rs \in Seq(RowSet)
      /\ Len(ls) = Len(rs) /\ Len(rs) \in Nat \ {0} /\ Len(ls) \in Nat \ {0}
      /\ \A i \in 1..Len(rs) : rs[i] # Hurt => Reads(ls[i], rs[i])
  BY DEF Agrees
<1> DEFINE at(i) == IF Len(rs) > maxLines THEN Len(rs) - maxLines + i ELSE i
<1>2. /\ Trim(ls) \in Seq(Seq(Char))
      /\ Len(Trim(ls)) = IF Len(rs) > maxLines THEN maxLines ELSE Len(rs)
      /\ \A i \in 1..Len(Trim(ls)) : Trim(ls)[i] = ls[at(i)]
  BY <1>1, TrimIs
<1>3. /\ Trim(rs) \in Seq(RowSet) /\ (Len(rs) <= maxLines => Trim(rs) = rs)
      /\ Len(Trim(rs)) = IF Len(rs) > maxLines THEN maxLines ELSE Len(rs)
      /\ \A i \in 1..Len(Trim(rs)) : Trim(rs)[i] = rs[at(i)]
  BY <1>1, TrimIs
<1>4. \A i \in 1..Len(Trim(rs)) : at(i) \in 1..Len(rs)
  BY <1>1, <1>3, ScreenAssumption
<1>5. Len(Trim(rs)) = Len(Trim(ls)) /\ Len(Trim(rs)) \in Nat \ {0} /\ Len(Trim(ls)) <= maxLines
  BY <1>1, <1>2, <1>3, ScreenAssumption
<1> DEFINE t == Trim(ls)
<1> DEFINE u == Trim(rs)
<1> HIDE DEF at, t, u
<1>6. \A i \in 1..Len(u) : u[i] # Hurt => Reads(t[i], u[i])
  BY <1>1, <1>2, <1>3, <1>4, <1>5 DEF t, u
<1>7. Agrees(t, u)
  BY <1>2, <1>3, <1>5, <1>6 DEF Agrees, t, u
<1> QED BY <1>3, <1>5, <1>7 DEF t, u

\* A screen, and one on whose lines rs is read.
Screens == [lines : Seq(Seq(Char)) \ {<<>>}, col : Nat]
Held(sc, rs) == sc \in Screens /\ Agrees(sc.lines, rs)

LEMMA NotHurt == \A s \in Seq(Char) : s # Hurt
<1> SUFFICES ASSUME Hurt \in Seq(Char) PROVE FALSE
  OBVIOUS
<1>1. Len(Hurt) = 1 /\ Hurt[1] = "hurt"
  BY DEF Hurt
<1>2. Hurt[1] \in Char
  BY <1>1, ElementOfSeq
<1> QED BY <1>1, <1>2 DEF Char, Blank, ESC

LEMMA ScreenOf ==
  ASSUME NEW ls \in Seq(Seq(Char)), Len(ls) \in Nat \ {0}, NEW c \in Nat
  PROVE  [lines |-> ls, col |-> c] \in Screens
<1>1. ls # <<>>
  <2>1. Len(<<>>) = 0
    OBVIOUS
  <2> QED BY <2>1
<1> QED BY <1>1 DEF Screens

LEMMA ScreenParts ==
  ASSUME NEW sc \in Screens
  PROVE  /\ sc.lines \in Seq(Seq(Char)) /\ Len(sc.lines) \in Nat \ {0} /\ sc.col \in Nat
         /\ Latest(sc.lines) \in Seq(Char)
         /\ sc = [lines |-> sc.lines, col |-> sc.col]
<1>1. sc.lines \in Seq(Seq(Char)) /\ sc.lines # <<>> /\ sc.col \in Nat
      /\ sc = [lines |-> sc.lines, col |-> sc.col]
  BY DEF Screens
<1>2. Len(sc.lines) \in Nat \ {0}
  <2>1. Len(sc.lines) \in Nat
    BY <1>1, LenProperties
  <2>2. Len(sc.lines) # 0
    BY <1>1, EmptySeq
  <2> QED BY <2>1, <2>2
<1>3. Latest(sc.lines) \in Seq(Char)
  BY <1>1, <1>2, ElementOfSeq DEF Latest
<1> QED BY <1>1, <1>2, <1>3

LEMMA PutType ==
  ASSUME NEW sc \in Screens, NEW r \in Char
  PROVE  /\ Put(sc, r) \in Screens
         /\ Put(sc, r).col = sc.col + 1
         /\ Put(sc, r).lines = EditLast(sc.lines, overwriteAtCol(Latest(sc.lines), sc.col, r))
         /\ overwriteAtCol(Latest(sc.lines), sc.col, r) \in Seq(Char)
<1> DEFINE ls == sc.lines
<1> DEFINE line == overwriteAtCol(Latest(ls), sc.col, r)
<1>1. ls \in Seq(Seq(Char)) /\ Len(ls) \in Nat \ {0} /\ sc.col \in Nat /\ Latest(ls) \in Seq(Char)
  BY ScreenParts
<1>2. line \in Seq(Char)
  BY <1>1, LineTypes
<1> HIDE DEF line
<1>3. EditLast(ls, line) \in Seq(Seq(Char)) /\ Len(EditLast(ls, line)) = Len(ls)
  BY <1>1, <1>2, EditLastIs DEF Replaces
<1> DEFINE edited == EditLast(ls, line)
<1>4. edited \in Seq(Seq(Char)) /\ Len(edited) \in Nat \ {0} /\ sc.col + 1 \in Nat
  BY <1>1, <1>3
<1> HIDE DEF edited
<1>5. [lines |-> edited, col |-> sc.col + 1] \in Screens
  BY <1>4, ScreenOf
<1>6. Put(sc, r) = [lines |-> edited, col |-> sc.col + 1]
  BY DEF Put, line, edited
<1> QED BY <1>2, <1>5, <1>6 DEF line, edited

\* A rune that is seen is written into what is read.
LEMMA PutReads ==
  ASSUME NEW sc, NEW rs, Held(sc, rs), Latest(rs) # Hurt, NEW r \in Seen
  PROVE  /\ Held(Put(sc, r), EditLast(rs, Write(Latest(rs), sc.col, r)))
         /\ Write(Latest(rs), sc.col, r) \in RowSet
<1> DEFINE row == Latest(rs)
<1> DEFINE line == overwriteAtCol(Latest(sc.lines), sc.col, r)
<1>1. /\ sc \in Screens /\ Agrees(sc.lines, rs) /\ r \in Char
  BY Tokens DEF Held
<1>2. /\ Len(rs) \in Nat \ {0} /\ Len(sc.lines) = Len(rs)
      /\ \A i \in 1..Len(rs) : rs[i] # Hurt => Reads(sc.lines[i], rs[i])
  BY <1>1 DEF Agrees
<1>3. Reads(Latest(sc.lines), row)
  <2>1. Len(rs) \in 1..Len(rs)
    BY <1>2
  <2> QED BY <1>2, <2>1 DEF Latest
<1>4. sc.col \in Nat
  BY <1>1, ScreenParts
<1>5. Reads(line, Write(row, sc.col, r))
  BY <1>3, <1>4, ReadsWrite
<1>6. Write(row, sc.col, r) \in RowSet /\ line \in Seq(Char)
  BY <1>5, ReadsFacts DEF RowSet
<1>7. Agrees(EditLast(sc.lines, line), EditLast(rs, Write(row, sc.col, r)))
  BY <1>1, <1>5, <1>6, AgreesEdit
<1> QED BY <1>1, <1>6, <1>7, PutType DEF Held

LEMMA PutHurt ==
  ASSUME NEW sc, NEW rs, Held(sc, rs), Latest(rs) = Hurt, NEW r \in Char
  PROVE  Held(Put(sc, r), rs)
<1>1. sc \in Screens /\ Agrees(sc.lines, rs)
  BY DEF Held
<1>2. Agrees(EditLast(sc.lines, overwriteAtCol(Latest(sc.lines), sc.col, r)), rs)
  BY <1>1, PutType, AgreesHurt
<1> QED BY <1>1, <1>2, PutType DEF Held

\* The loop over the columns of a tab.
Blanking(h, sc, n) ==
  /\ h \in [0..n -> Screens] /\ h[0] = sc
  /\ \A k \in 1..n : h[k] = Put(h[k - 1], Blank)
  /\ PutBlanks(sc, n) = h[n]

LEMMA BlankingExists ==
  ASSUME NEW sc \in Screens, NEW n \in Nat PROVE \E h : Blanking(h, sc, n)
<1> DEFINE step == [p \in Nat \X Screens |-> Put(p[2], Blank)]
<1> DEFINE Is(g) == g = [k \in 0..n |-> IF k = 0 THEN sc ELSE Put(g[k - 1], Blank)]
<1> DEFINE G == CHOOSE g : Is(g)
<1>1. step \in [Nat \X Screens -> Screens]
  <2>1. ASSUME NEW p \in Nat \X Screens PROVE Put(p[2], Blank) \in Screens
    <3>1. p[2] \in Screens /\ Blank \in Char
      BY Tokens
    <3> QED BY <3>1, PutType
  <2> QED BY <2>1
<1>2. \A k \in Nat, a \in Screens : step[<<k, a>>] = Put(a, Blank)
  OBVIOUS
<1> HIDE DEF step
<1>p. PICK f : Loops(f, n, Screens, sc, step)
  <2> HIDE DEF Is
  <2> QED BY <1>1, LoopExists
<1>3. /\ f \in [0..n -> Screens] /\ f[0] = sc
      /\ \A k \in 1..n : f[k] = step[<<k, f[k - 1]>>]
  BY <1>p DEF Loops
<1>4. \A k \in 1..n : k - 1 \in 0..n /\ k # 0 /\ k \in Nat /\ f[k - 1] \in Screens
  <2>1. \A k \in 1..n : k - 1 \in 0..n /\ k # 0 /\ k \in Nat
    OBVIOUS
  <2> QED BY <1>3, <2>1
<1>5. \A k \in 1..n : f[k] = Put(f[k - 1], Blank)
  BY <1>2, <1>3, <1>4
<1>6. Is(f)
  <2>1. \A k \in 0..n : k = 0 \/ k \in 1..n
    OBVIOUS
  <2> QED BY <1>3, <1>4, <1>5, <2>1
<1>7. Is(G)
  <2> HIDE DEF Is
  <2> QED BY <1>6
<1>8. PutBlanks(sc, n) = G[n]
  BY DEF PutBlanks
<1> HIDE DEF G
<1>9. G[0] = sc /\ \A k \in 1..n : G[k] = Put(G[k - 1], Blank)
  <2>1. \A k \in 1..n : k \in 0..n /\ k # 0
    OBVIOUS
  <2>2. 0 \in 0..n
    OBVIOUS
  <2> QED BY <1>7, <2>1, <2>2
<1>10. \A k \in 0..n : G[k] = f[k]
  <2> DEFINE E == {k \in 0..n : G[k] = f[k]}
  <2>1. 0 \in E
    BY <1>3, <1>9
  <2>2. ASSUME NEW k \in 0..n, k \in E, k < n PROVE k + 1 \in E
    <3>1. k + 1 \in 1..n /\ k + 1 \in 0..n /\ (k + 1) - 1 = k
      BY <2>2
    <3> QED BY <1>5, <1>9, <2>2, <3>1
  <2>3. 0..n \subseteq E
    <3> HIDE DEF E
    <3> QED BY <2>1, <2>2, UpTo
  <2> QED BY <2>3
<1>11. PutBlanks(sc, n) = f[n]
  BY <1>8, <1>10
<1> QED BY <1>3, <1>5, <1>11 DEF Blanking

LEMMA PutBlanksType ==
  ASSUME NEW sc \in Screens, NEW n \in Nat PROVE PutBlanks(sc, n) \in Screens
<1>1. PICK h : Blanking(h, sc, n)
  BY BlankingExists
<1> QED BY <1>1 DEF Blanking

LEMMA PutBlanksHurt ==
  ASSUME NEW sc, NEW rs, Held(sc, rs), Latest(rs) = Hurt, NEW n \in Nat
  PROVE  Held(PutBlanks(sc, n), rs)
<1>1. PICK h : Blanking(h, sc, n)
  BY BlankingExists DEF Held
<1>2. /\ h[0] = sc /\ PutBlanks(sc, n) = h[n]
      /\ \A k \in 1..n : h[k] = Put(h[k - 1], Blank)
  BY <1>1 DEF Blanking
<1> DEFINE E == {k \in 0..n : Held(h[k], rs)}
<1>3. 0 \in E
  BY <1>2
<1>4. ASSUME NEW k \in 0..n, k \in E, k < n PROVE k + 1 \in E
  <2>1. k + 1 \in 1..n /\ k + 1 \in 0..n /\ (k + 1) - 1 = k
    BY <1>4
  <2>2. h[k + 1] = Put(h[k], Blank) /\ Held(h[k], rs)
    BY <1>2, <1>4, <2>1
  <2>3. Held(h[k + 1], rs)
    BY <2>2, PutHurt, Tokens
  <2> QED BY <2>1, <2>3
<1>5. 0..n \subseteq E
  <2> HIDE DEF E
  <2> QED BY <1>3, <1>4, UpTo
<1> QED BY <1>2, <1>5

\* A row with k blanks written from a column on.
Tabbed(row, c, k) ==
  [i \in 1 .. (IF k = 0 \/ Len(row) > c + k THEN Len(row) ELSE c + k) |->
     IF i <= Len(row) /\ i \notin c + 1 .. c + k THEN row[i] ELSE Blank]

LEMMA TabbedSteps ==
  ASSUME NEW row \in Seq(Char), NEW c \in Nat
  PROVE  /\ Tabbed(row, c, 0) = row
         /\ \A k \in Nat : Tabbed(row, c, k) \in Seq(Char)
         /\ \A k \in Nat : Write(Tabbed(row, c, k), c + k, Blank) = Tabbed(row, c, k + 1)
<1>1. Len(row) \in Nat /\ DOMAIN row = 1..Len(row) /\ \A i \in 1..Len(row) : row[i] \in Char
  BY LenProperties, ElementOfSeq
<1> DEFINE width(k) == IF k = 0 \/ Len(row) > c + k THEN Len(row) ELSE c + k
<1> DEFINE at(k, i) == IF i <= Len(row) /\ i \notin c + 1 .. c + k THEN row[i] ELSE Blank
<1>2. ASSUME NEW k \in Nat
      PROVE  /\ width(k) \in Nat /\ Tabbed(row, c, k) \in Seq(Char)
             /\ Len(Tabbed(row, c, k)) = width(k)
             /\ \A i \in 1..width(k) : Tabbed(row, c, k)[i] = at(k, i)
  <2> DEFINE t == [i \in 1..width(k) |-> at(k, i)]
  <2>1. t = Tabbed(row, c, k)
    BY DEF Tabbed
  <2>2. width(k) \in Nat
    BY <1>1
  <2>3. \A i \in 1..width(k) : at(k, i) \in Char
    BY <1>1, <2>2, Tokens
  <2> HIDE DEF at, width
  <2>4. t \in [1..width(k) -> Char] /\ \A i \in 1..width(k) : t[i] = at(k, i)
    BY <2>3
  <2> HIDE DEF t
  <2>5. t \in Seq(Char) /\ Len(t) = width(k)
    BY <2>2, <2>4, ListOf
  <2> QED BY <2>1, <2>2, <2>4, <2>5
<1>3. Tabbed(row, c, 0) = row
  <2>1. width(0) = Len(row)
    OBVIOUS
  <2>2. \A i \in 1..Len(row) : at(0, i) = row[i]
    <3>1. \A i \in 1..Len(row) : i <= Len(row) /\ i \notin c + 1 .. c + 0
      BY <1>1
    <3> QED BY <3>1
  <2> DEFINE t == Tabbed(row, c, 0)
  <2>3. t \in Seq(Char) /\ Len(t) = width(0) /\ \A i \in 1..width(0) : t[i] = at(0, i)
    BY <1>2
  <2> HIDE DEF t, at, width
  <2>4. t = row
    BY <2>1, <2>2, <2>3, SeqEqual
  <2> QED BY <2>4 DEF t
<1>4. ASSUME NEW k \in Nat PROVE Write(Tabbed(row, c, k), c + k, Blank) = Tabbed(row, c, k + 1)
  <2> DEFINE t == Tabbed(row, c, k)
  <2>1. Len(t) = width(k) /\ width(k) \in Nat /\ \A i \in 1..width(k) : t[i] = at(k, i)
    BY <1>2
  <2> HIDE DEF t
  <2>2. (IF c + k < width(k) THEN width(k) ELSE c + k + 1) = width(k + 1)
    BY <1>1
  <2>3. ASSUME NEW i \in 1..width(k + 1)
        PROVE  (IF i = c + k + 1 THEN Blank ELSE IF i <= width(k) THEN t[i] ELSE Blank) = at(k + 1, i)
    <3>0. i \in Nat /\ i >= 1
      BY <1>1
    <3>1. CASE i = c + k + 1
      <4>1. i \in c + 1 .. c + (k + 1)
        BY <3>1
      <4> QED BY <3>1, <4>1
    <3>2. CASE i # c + k + 1 /\ i <= width(k)
      <4>1. i \in 1..width(k)
        BY <2>1, <3>0, <3>2
      <4>2. i \in c + 1 .. c + (k + 1) <=> i \in c + 1 .. c + k
        BY <3>0, <3>2
      <4> HIDE DEF width
      <4> QED BY <2>1, <3>2, <4>1, <4>2
    <3>3. CASE i # c + k + 1 /\ ~(i <= width(k))
      <4>1. ~(i <= Len(row))
        BY <1>1, <3>0, <3>3
      <4> QED BY <3>3, <4>1
    <3> QED BY <3>1, <3>2, <3>3
  <2>4. Write(t, c + k, Blank) =
          [i \in 1..(IF c + k < width(k) THEN width(k) ELSE c + k + 1) |->
             IF i = c + k + 1 THEN Blank ELSE IF i <= width(k) THEN t[i] ELSE Blank]
    <3> HIDE DEF width, at
    <3> QED BY <2>1 DEF Write
  <2>5. Tabbed(row, c, k + 1) = [i \in 1..width(k + 1) |-> at(k + 1, i)]
    BY DEF Tabbed
  <2> HIDE DEF width, at
  <2> QED BY <2>2, <2>3, <2>4, <2>5 DEF t
<1> QED BY <1>2, <1>3, <1>4

LEMMA PutBlanksReads ==
  ASSUME NEW sc, NEW rs, Held(sc, rs), Latest(rs) # Hurt, NEW n \in Nat,
         Latest(rs) \in Seq(Char)
  PROVE  /\ Held(PutBlanks(sc, n), EditLast(rs, Tabbed(Latest(rs), sc.col, n)))
         /\ PutBlanks(sc, n).col = sc.col + n
<1> DEFINE row == Latest(rs)
<1> DEFINE c == sc.col
<1> DEFINE T(k) == Tabbed(row, c, k)
<1>0. sc \in Screens /\ c \in Nat /\ row \in Seq(Char)
  BY ScreenParts DEF Held
<1>1. PICK h : Blanking(h, sc, n)
  BY <1>0, BlankingExists
<1>2. /\ h \in [0..n -> Screens] /\ h[0] = sc /\ PutBlanks(sc, n) = h[n]
      /\ \A k \in 1..n : h[k] = Put(h[k - 1], Blank)
  BY <1>1 DEF Blanking
<1>3. rs \in Seq(RowSet) /\ Len(rs) \in Nat \ {0}
  BY DEF Held, Agrees
<1>4. /\ T(0) = row /\ \A k \in Nat : T(k) \in Seq(Char)
      /\ \A k \in Nat : Write(T(k), c + k, Blank) = T(k + 1)
  BY <1>0, TabbedSteps
<1> HIDE DEF T
<1>5. \A k \in Nat : T(k) \in RowSet
  BY <1>4 DEF RowSet
<1> DEFINE E == {k \in 0..n : Held(h[k], EditLast(rs, T(k))) /\ h[k].col = c + k}
<1>6. 0 \in E
  <2>1. EditLast(rs, T(0)) = rs
    BY <1>3, <1>4, <1>5, EditLastIs
  <2> QED BY <1>0, <1>2, <2>1
<1>7. ASSUME NEW k \in 0..n, k \in E, k < n PROVE k + 1 \in E
  <2>1. k + 1 \in 1..n /\ k + 1 \in 0..n /\ (k + 1) - 1 = k /\ k \in Nat /\ k + 1 \in Nat
    BY <1>7
  <2> DEFINE rk == EditLast(rs, T(k))
  <2>2. h[k + 1] = Put(h[k], Blank) /\ Held(h[k], rk) /\ h[k].col = c + k
    BY <1>2, <1>7, <2>1
  <2>3. Latest(rk) = T(k) /\ \A f \in RowSet : EditLast(rk, f) = EditLast(rs, f)
    BY SMTT(30), <1>3, <1>5, <2>1, EditLastIs
  <2>4. T(k) # Hurt
    BY <1>4, <2>1, NotHurt
  <2> HIDE DEF rk
  <2>5. Held(h[k + 1], EditLast(rk, Write(T(k), c + k, Blank)))
    BY <2>2, <2>3, <2>4, PutReads, Tokens
  <2>6. Held(h[k + 1], EditLast(rs, T(k + 1)))
    BY <1>4, <1>5, <2>1, <2>3, <2>5
  <2>7. h[k + 1].col = c + (k + 1)
    <3>1. h[k] \in Screens
      BY <1>2
    <3>2. h[k + 1].col = (c + k) + 1
      BY <2>2, <3>1, PutType, Tokens
    <3> QED BY <1>0, <2>1, <3>2
  <2> QED BY <2>1, <2>6, <2>7
<1>8. 0..n \subseteq E
  <2> HIDE DEF E
  <2> QED BY <1>6, <1>7, UpTo
<1>9. n \in E
  BY <1>8
<1> QED BY <1>2, <1>9 DEF T

\* What a read may hold, besides sequences.
Told == Char \union {"NL", "CR", "BS", "TAB"}

LEMMA RuneType ==
  ASSUME NEW sc \in Screens, NEW r \in Told
  PROVE  Rune(sc, r) \in Screens /\ (r \in Char => Rune(sc, r) = Put(sc, r))
<1> DEFINE ls == sc.lines
<1>1. /\ ls \in Seq(Seq(Char)) /\ Len(ls) \in Nat \ {0} /\ sc.col \in Nat
      /\ sc = [lines |-> ls, col |-> sc.col]
  BY ScreenParts
<1> HIDE DEF ls
<1>2. ASSUME NEW c \in Nat PROVE [lines |-> ls, col |-> c] \in Screens
  BY <1>1, ScreenOf
<1>3. CASE r = "NL"
  <2> DEFINE t == Append(ls, <<>>)
  <2>1. t \in Seq(Seq(Char)) /\ Len(t) = Len(ls) + 1
    BY <1>1, EmptyLine, AppendProperties
  <2> HIDE DEF t
  <2>2. Len(t) \in Nat \ {0} /\ 0 \in Nat
    BY <1>1, <2>1
  <2>3. [lines |-> t, col |-> 0] \in Screens
    BY <2>1, <2>2, ScreenOf
  <2>4. Rune(sc, r) = [lines |-> t, col |-> 0]
    BY <1>3 DEF Rune, t, ls
  <2> QED BY <1>3, <2>3, <2>4 DEF Char, Blank, ESC
<1>4. CASE r = "CR"
  <2>1. [sc EXCEPT !.col = 0] = [lines |-> ls, col |-> 0]
    BY <1>1
  <2>2. Rune(sc, r) = [sc EXCEPT !.col = 0]
    BY <1>4 DEF Rune
  <2> QED BY <1>2, <1>4, <2>1, <2>2 DEF Char, Blank, ESC
<1>5. CASE r = "BS"
  <2> DEFINE c == IF sc.col > 0 THEN sc.col - 1 ELSE 0
  <2>1. c \in Nat
    BY <1>1
  <2>2. Rune(sc, r) = [lines |-> ls, col |-> c]
    <3>1. Rune(sc, r) = [sc EXCEPT !.col = c]
      BY <1>5 DEF Rune
    <3> HIDE DEF c
    <3>2. [sc EXCEPT !.col = c] = [lines |-> ls, col |-> c]
      BY <1>1
    <3> QED BY <3>1, <3>2
  <2> HIDE DEF c
  <2> QED BY <1>2, <1>5, <2>1, <2>2 DEF Char, Blank, ESC
<1>6. CASE r = "TAB"
  <2> DEFINE n == TabStop - (sc.col % TabStop)
  <2>1. n \in Nat
    BY <1>1, ScreenAssumption
  <2>2. Rune(sc, r) = PutBlanks(sc, n)
    BY <1>6 DEF Rune
  <2> HIDE DEF n
  <2>3. Rune(sc, r) \in Screens
    BY <2>1, <2>2, PutBlanksType
  <2> QED BY <1>6, <2>3 DEF Char, Blank, ESC
<1>7. CASE r \notin {"NL", "CR", "BS", "TAB"}
  <2>1. Rune(sc, r) = Put(sc, r) /\ r \in Char
    BY <1>7 DEF Rune, Told
  <2> QED BY <2>1, PutType
<1> QED BY <1>3, <1>4, <1>5, <1>6, <1>7

\* The loop over text.
Running(h, sc, data) ==
  /\ h \in [0..Len(data) -> Screens] /\ h[0] = sc
  /\ \A k \in 1..Len(data) : h[k] = Rune(h[k - 1], data[k])
  /\ Runes(sc, data) = h[Len(data)]

LEMMA RunningExists ==
  ASSUME NEW sc \in Screens, NEW data \in Seq(Told) PROVE \E h : Running(h, sc, data)
<1> DEFINE n == Len(data)
<1> DEFINE step == [p \in Nat \X Screens |-> IF p[1] \in 1..n THEN Rune(p[2], data[p[1]]) ELSE p[2]]
<1> DEFINE Is(g) == g = [k \in 0..n |-> IF k = 0 THEN sc ELSE Rune(g[k - 1], data[k])]
<1> DEFINE G == CHOOSE g : Is(g)
<1>0. n \in Nat /\ \A k \in 1..n : data[k] \in Told
  BY LenProperties, ElementOfSeq
<1> HIDE DEF n
<1>1. step \in [Nat \X Screens -> Screens]
  <2>1. ASSUME NEW p \in Nat \X Screens
        PROVE  (IF p[1] \in 1..n THEN Rune(p[2], data[p[1]]) ELSE p[2]) \in Screens
    <3>1. p[2] \in Screens
      OBVIOUS
    <3>2. CASE p[1] \in 1..n
      <4>1. Rune(p[2], data[p[1]]) \in Screens
        BY <1>0, <3>1, <3>2, RuneType
      <4> QED BY <3>2, <4>1
    <3>3. CASE p[1] \notin 1..n
      BY <3>1, <3>3
    <3> QED BY <3>2, <3>3
  <2> QED BY <2>1
<1>2. \A k \in 1..n, a \in Screens : step[<<k, a>>] = Rune(a, data[k])
  <2>1. \A k \in 1..n : k \in Nat
    BY <1>0
  <2>2. \A k \in Nat, a \in Screens : step[<<k, a>>] = IF k \in 1..n THEN Rune(a, data[k]) ELSE a
    OBVIOUS
  <2> QED BY <2>1, <2>2
<1> HIDE DEF step
<1>p. PICK f : Loops(f, n, Screens, sc, step)
  <2> HIDE DEF Is
  <2> QED BY <1>0, <1>1, LoopExists
<1>3. /\ f \in [0..n -> Screens] /\ f[0] = sc
      /\ \A k \in 1..n : f[k] = step[<<k, f[k - 1]>>]
  BY <1>p DEF Loops
<1>4. \A k \in 1..n : k - 1 \in 0..n /\ k # 0 /\ k \in 0..n /\ f[k - 1] \in Screens
  <2>1. \A k \in 1..n : k - 1 \in 0..n /\ k # 0 /\ k \in 0..n
    BY <1>0
  <2> QED BY <1>3, <2>1
<1>5. \A k \in 1..n : f[k] = Rune(f[k - 1], data[k])
  BY <1>2, <1>3, <1>4
<1>6. Is(f)
  <2>1. \A k \in 0..n : k = 0 \/ k \in 1..n
    BY <1>0
  <2> QED BY <1>3, <1>5, <2>1
<1>7. Is(G)
  <2> HIDE DEF Is
  <2> QED BY <1>6
<1>8. Runes(sc, data) = G[n]
  BY DEF Runes, n
<1> HIDE DEF G
<1>9. G[0] = sc /\ \A k \in 1..n : G[k] = Rune(G[k - 1], data[k])
  <2>1. 0 \in 0..n
    BY <1>0
  <2> QED BY <1>4, <1>7, <2>1
<1>10. \A k \in 0..n : G[k] = f[k]
  <2> DEFINE E == {k \in 0..n : G[k] = f[k]}
  <2>1. 0 \in E
    BY <1>0, <1>3, <1>9
  <2>2. ASSUME NEW k \in 0..n, k \in E, k < n PROVE k + 1 \in E
    <3>1. k + 1 \in 1..n /\ k + 1 \in 0..n /\ (k + 1) - 1 = k
      BY <1>0, <2>2
    <3> QED BY <1>5, <1>9, <2>2, <3>1
  <2>3. 0..n \subseteq E
    <3> HIDE DEF E
    <3> QED BY <1>0, <2>1, <2>2, UpTo
  <2> QED BY <2>3
<1>11. Runes(sc, data) = f[n]
  <2>1. n \in 0..n
    BY <1>0
  <2> QED BY <1>8, <1>10, <2>1
<1> QED BY <1>3, <1>5, <1>11 DEF Running, n

LEMMA RunesOne ==
  ASSUME NEW sc \in Screens, NEW r \in Told PROVE Runes(sc, <<r>>) = Rune(sc, r)
<1> DEFINE data == <<r>>
<1>1. data \in Seq(Told) /\ Len(data) = 1 /\ data[1] = r
  OBVIOUS
<1> HIDE DEF data
<1>2. PICK h : Running(h, sc, data)
  BY <1>1, RunningExists
<1>3. 1 \in 1..Len(data) /\ 1 - 1 = 0
  BY <1>1
<1> QED BY <1>1, <1>2, <1>3 DEF Running, data

\* What is left of an item is put as it is, into a line that is hurt.
Left == {"?", "[", "J", "K", "D", "C", "m"}

LEMMA RunesHurt ==
  ASSUME NEW sc, NEW rs, Held(sc, rs), Latest(rs) = Hurt, NEW data \in Seq(Left)
  PROVE  Held(Runes(sc, data), rs)
<1> DEFINE n == Len(data)
<1>1. Left \subseteq Char /\ Left \subseteq Told
  BY DEF Left, Char, Told
<1>2. n \in Nat /\ \A k \in 1..n : data[k] \in Left
  BY LenProperties, ElementOfSeq
<1>3. data \in Seq(Told)
  <2>1. \A k \in 1..Len(data) : data[k] \in Told
    BY <1>1, <1>2
  <2> QED BY <2>1, LenProperties, IsASeq
<1>4. PICK h : Running(h, sc, data)
  BY <1>3, RunningExists DEF Held
<1>5. /\ h \in [0..n -> Screens] /\ h[0] = sc /\ Runes(sc, data) = h[n]
      /\ \A k \in 1..n : h[k] = Rune(h[k - 1], data[k])
  BY <1>4 DEF Running
<1> HIDE DEF n
<1> DEFINE E == {k \in 0..n : Held(h[k], rs)}
<1>6. 0 \in E
  BY <1>2, <1>5
<1>7. ASSUME NEW k \in 0..n, k \in E, k < n PROVE k + 1 \in E
  <2>1. k + 1 \in 1..n /\ k + 1 \in 0..n /\ (k + 1) - 1 = k
    BY <1>2, <1>7
  <2>2. data[k + 1] \in Char /\ data[k + 1] \in Told
    BY <1>1, <1>2, <2>1
  <2>3. h[k + 1] = Rune(h[k], data[k + 1]) /\ Held(h[k], rs) /\ h[k] \in Screens
    BY <1>5, <1>7, <2>1
  <2>4. h[k + 1] = Put(h[k], data[k + 1])
    BY <2>2, <2>3, RuneType
  <2>5. Held(h[k + 1], rs)
    BY <2>2, <2>3, <2>4, PutHurt
  <2> QED BY <2>1, <2>5
<1>8. 0..n \subseteq E
  <2> HIDE DEF E
  <2> QED BY <1>2, <1>6, <1>7, UpTo
<1> QED BY <1>2, <1>5, <1>8

\* The screen after a read, before it is trimmed.
After(sc, data) == IF Head(data) = ESC THEN Escape(sc, data) ELSE Runes(sc, data)

\* What stays in the line.
Stay(sc, s) == [lines |-> EditLast(sc.lines, Latest(sc.lines) \o s), col |-> sc.col]

LEMMA AfterRunes ==
  ASSUME NEW sc \in Screens
  PROVE  /\ After(sc, <<"NL">>) = [lines |-> Append(sc.lines, <<>>), col |-> 0]
         /\ After(sc, <<"CR">>) = [lines |-> sc.lines, col |-> 0]
         /\ After(sc, <<"BS">>) = [lines |-> sc.lines, col |-> IF sc.col > 0 THEN sc.col - 1 ELSE 0]
         /\ After(sc, <<"TAB">>) = PutBlanks(sc, TabStop - (sc.col % TabStop))
         /\ After(sc, <<"x">>) = Put(sc, "x")
         /\ \A data \in Seq(Left) : data # <<>> => After(sc, data) = Runes(sc, data)
<1>1. sc = [lines |-> sc.lines, col |-> sc.col]
  BY ScreenParts
<1>2. ASSUME NEW r \in Told, r # ESC PROVE After(sc, <<r>>) = Rune(sc, r)
  <2>1. Head(<<r>>) = r
    OBVIOUS
  <2> QED BY <1>2, <2>1, RunesOne DEF After
<1>3. "NL" \in Told /\ "CR" \in Told /\ "BS" \in Told /\ "TAB" \in Told /\ "x" \in Told
      /\ ESC \notin {"NL", "CR", "BS", "TAB", "x"}
  BY DEF Told, Char, ESC
<1>4. After(sc, <<"NL">>) = [lines |-> Append(sc.lines, <<>>), col |-> 0]
  BY <1>2, <1>3 DEF Rune
<1>5. After(sc, <<"CR">>) = [lines |-> sc.lines, col |-> 0]
  <2>1. Rune(sc, "CR") = [sc EXCEPT !.col = 0]
    BY DEF Rune
  <2>2. [sc EXCEPT !.col = 0] = [lines |-> sc.lines, col |-> 0]
    BY <1>1
  <2> QED BY <1>2, <1>3, <2>1, <2>2
<1>6. After(sc, <<"BS">>) = [lines |-> sc.lines, col |-> IF sc.col > 0 THEN sc.col - 1 ELSE 0]
  <2>1. Rune(sc, "BS") = [sc EXCEPT !.col = IF @ > 0 THEN @ - 1 ELSE 0]
    BY DEF Rune
  <2>2. [sc EXCEPT !.col = IF @ > 0 THEN @ - 1 ELSE 0]
          = [lines |-> sc.lines, col |-> IF sc.col > 0 THEN sc.col - 1 ELSE 0]
    BY <1>1
  <2> QED BY <1>2, <1>3, <2>1, <2>2
<1>7. After(sc, <<"TAB">>) = PutBlanks(sc, TabStop - (sc.col % TabStop))
  <2>1. Rune(sc, "TAB") = PutBlanks(sc, TabStop - (sc.col % TabStop))
    BY DEF Rune
  <2> QED BY <1>2, <1>3, <2>1
<1>8. After(sc, <<"x">>) = Put(sc, "x")
  <2>1. Rune(sc, "x") = Put(sc, "x")
    BY DEF Rune
  <2> QED BY <1>2, <1>3, <2>1
<1>9. ASSUME NEW data \in Seq(Left), data # <<>> PROVE After(sc, data) = Runes(sc, data)
  <2>1. Head(data) \in Left
    BY <1>9
  <2>2. Head(data) # ESC
    BY <2>1 DEF Left, ESC
  <2> QED BY <2>2 DEF After
<1> QED BY <1>4, <1>5, <1>6, <1>7, <1>8, <1>9

LEMMA AfterEscape ==
  ASSUME NEW sc \in Screens
  PROVE  /\ After(sc, <<ESC, "[", "J">>) = [lines |-> << <<>> >>, col |-> 0]
         /\ After(sc, <<ESC, "[", "K">>) =
              [lines |-> EditLast(sc.lines, truncateAtCol(Latest(sc.lines), sc.col)), col |-> sc.col]
         /\ After(sc, <<ESC, "[", "D">>) =
              [lines |-> sc.lines, col |-> IF sc.col > 0 THEN sc.col - 1 ELSE 0]
         /\ After(sc, <<ESC, "[", "C">>) = [lines |-> sc.lines, col |-> sc.col + 1]
         /\ \A s \in {<<ESC>>, <<ESC, "[">>, <<ESC, "[", "m">>} : After(sc, s) = Stay(sc, s)
<1>1. sc = [lines |-> sc.lines, col |-> sc.col]
  BY ScreenParts
<1>2. \A c : Head(<<ESC, "[", c>>) = ESC
  OBVIOUS
<1>3. Head(<<ESC>>) = ESC /\ Head(<<ESC, "[">>) = ESC
  OBVIOUS
<1> DEFINE seq(c) == <<ESC, "[", c>>
<1>4. \A c, d : seq(c) = seq(d) => c = d
  OBVIOUS
<1>5. \A c : <<ESC>> # seq(c) /\ <<ESC, "[">> # seq(c)
  <2>1. Len(<<ESC>>) = 1 /\ Len(<<ESC, "[">>) = 2 /\ \A c : Len(seq(c)) = 3
    OBVIOUS
  <2> QED BY <2>1
<1>6. After(sc, seq("J")) = [lines |-> << <<>> >>, col |-> 0]
  <2>1. Escape(sc, seq("J")) = [lines |-> << <<>> >>, col |-> 0]
    BY DEF Escape
  <2> QED BY <1>2, <2>1 DEF After
<1>7. After(sc, seq("K")) =
        [lines |-> EditLast(sc.lines, truncateAtCol(Latest(sc.lines), sc.col)), col |-> sc.col]
  <2> DEFINE u == [sc EXCEPT !.lines = EditLast(@, truncateAtCol(Latest(@), sc.col))]
  <2>1. seq("K") # seq("J")
    OBVIOUS
  <2>2. Escape(sc, seq("K")) = u
    <3> DEFINE e == seq("K")
    <3>1. e # seq("J") /\ e = seq("K")
      BY <2>1
    <3> QED BY <3>1 DEF Escape
  <2>3. u = [lines |-> EditLast(sc.lines, truncateAtCol(Latest(sc.lines), sc.col)), col |-> sc.col]
    BY <1>1
  <2> QED BY <1>2, <2>2, <2>3 DEF After
<1>8. After(sc, seq("D")) = [lines |-> sc.lines, col |-> IF sc.col > 0 THEN sc.col - 1 ELSE 0]
  <2> DEFINE u == [sc EXCEPT !.col = IF @ > 0 THEN @ - 1 ELSE 0]
  <2>1. seq("D") # seq("J") /\ seq("D") # seq("K")
    OBVIOUS
  <2>2. Escape(sc, seq("D")) = u
    BY <2>1 DEF Escape
  <2>3. u = [lines |-> sc.lines, col |-> IF sc.col > 0 THEN sc.col - 1 ELSE 0]
    BY <1>1
  <2> QED BY <1>2, <2>2, <2>3 DEF After
<1>9. After(sc, seq("C")) = [lines |-> sc.lines, col |-> sc.col + 1]
  <2> DEFINE u == [sc EXCEPT !.col = @ + 1]
  <2>1. seq("C") # seq("J") /\ seq("C") # seq("K") /\ seq("C") # seq("D")
    OBVIOUS
  <2>2. Escape(sc, seq("C")) = u
    BY <2>1 DEF Escape
  <2>3. u = [lines |-> sc.lines, col |-> sc.col + 1]
    BY <1>1
  <2> QED BY <1>2, <2>2, <2>3 DEF After
<1>10. ASSUME NEW s \in {<<ESC>>, <<ESC, "[">>, seq("m")} PROVE After(sc, s) = Stay(sc, s)
  <2> DEFINE u == [sc EXCEPT !.lines = EditLast(@, Latest(@) \o s)]
  <2>1. s # seq("J") /\ s # seq("K") /\ s # seq("D") /\ s # seq("C")
    <3>1. CASE s = seq("m")
      BY <3>1
    <3>2. CASE s # seq("m")
      BY <1>5, <1>10, <3>2
    <3> QED BY <3>1, <3>2
  <2>2. Escape(sc, s) = u
    BY <2>1 DEF Escape
  <2>3. u = Stay(sc, s)
    BY <1>1 DEF Stay
  <2>4. Head(s) = ESC
    BY <1>2, <1>3, <1>10
  <2> QED BY <2>2, <2>3, <2>4 DEF After
<1> QED BY <1>6, <1>7, <1>8, <1>9, <1>10

\* Whatever is left in a line that is hurt, it stays one.
LEMMA LeaveHurt ==
  ASSUME NEW sc, NEW rs, Held(sc, rs), Latest(rs) = Hurt, NEW s \in Seq(Char)
  PROVE  Held(Stay(sc, s), rs)
<1> DEFINE line == Latest(sc.lines) \o s
<1>1. sc \in Screens /\ Agrees(sc.lines, rs)
  BY DEF Held
<1>2. /\ sc.lines \in Seq(Seq(Char)) /\ Len(sc.lines) \in Nat \ {0} /\ sc.col \in Nat
      /\ Latest(sc.lines) \in Seq(Char)
  BY <1>1, ScreenParts
<1>3. line \in Seq(Char)
  BY <1>2
<1> HIDE DEF line
<1>4. Agrees(EditLast(sc.lines, line), rs)
  BY <1>1, <1>3, AgreesHurt
<1>5. Held([lines |-> EditLast(sc.lines, line), col |-> sc.col], rs)
  <2> DEFINE t == EditLast(sc.lines, line)
  <2>1. t \in Seq(Seq(Char)) /\ Len(t) \in Nat \ {0}
    BY <1>4 DEF Agrees
  <2> HIDE DEF t
  <2>2. [lines |-> t, col |-> sc.col] \in Screens
    BY <1>2, <2>1, ScreenOf
  <2> QED BY <1>4, <2>2 DEF Held, t
<1> QED BY <1>5 DEF Stay, line

LEMMA HeldParts ==
  ASSUME NEW sc, NEW rs, Held(sc, rs)
  PROVE  /\ sc \in Screens /\ Agrees(sc.lines, rs) /\ sc.col \in Nat
         /\ rs \in Seq(RowSet) /\ Len(rs) \in Nat \ {0} /\ Len(sc.lines) = Len(rs)
         /\ Latest(sc.lines) \in Seq(Char)
         /\ Latest(rs) # Hurt => Reads(Latest(sc.lines), Latest(rs))
         /\ \A c \in Nat : Held([lines |-> sc.lines, col |-> c], rs)
<1>1. sc \in Screens /\ Agrees(sc.lines, rs)
  BY DEF Held
<1>2. /\ rs \in Seq(RowSet) /\ Len(rs) \in Nat \ {0} /\ Len(sc.lines) = Len(rs)
      /\ \A i \in 1..Len(rs) : rs[i] # Hurt => Reads(sc.lines[i], rs[i])
  BY <1>1 DEF Agrees
<1>3. Latest(rs) # Hurt => Reads(Latest(sc.lines), Latest(rs))
  <2>1. Len(rs) \in 1..Len(rs)
    BY <1>2
  <2> QED BY <1>2, <2>1 DEF Latest
<1>4. \A c \in Nat : [lines |-> sc.lines, col |-> c] \in Screens
  BY <1>1, ScreenParts, ScreenOf
<1>5. \A c \in Nat : Held([lines |-> sc.lines, col |-> c], rs)
  BY <1>1, <1>4 DEF Held
<1> QED BY <1>1, <1>2, <1>3, <1>5, ScreenParts

LEMMA HeldEdit ==
  ASSUME NEW sc, NEW rs, Held(sc, rs), NEW line, NEW row, Reads(line, row)
  PROVE  Held([lines |-> EditLast(sc.lines, line), col |-> sc.col], EditLast(rs, row))
<1>1. line \in Seq(Char) /\ row \in RowSet
  BY ReadsFacts DEF RowSet
<1>2. Agrees(sc.lines, rs) /\ sc.col \in Nat
  BY HeldParts
<1>3. Agrees(EditLast(sc.lines, line), EditLast(rs, row))
  BY <1>1, <1>2, AgreesEdit
<1> DEFINE t == EditLast(sc.lines, line)
<1>4. t \in Seq(Seq(Char)) /\ Len(t) \in Nat \ {0}
  BY <1>3 DEF Agrees
<1>5. [lines |-> t, col |-> sc.col] \in Screens
  <2> HIDE DEF t
  <2> QED BY <1>2, <1>4, ScreenOf
<1> QED BY <1>3, <1>5 DEF Held
-----------------------------------------------------------------------------
(* What an item does to the screen.                                       *)

\* A sequence of three characters.
Seqn(c) == <<ESC, "[", c>>

LEMMA ItemsAre ==
  ASSUME NEW item \in Items
  PROVE  \/ item \in {<<"x">>, <<"NL">>, <<"CR">>, <<"BS">>, <<"TAB">>}
         \/ item \in {Seqn("J"), Seqn("K"), Seqn("D"), Seqn("C"), Seqn("m")}
BY DEF Items, Escapes, Seqn

LEMMA ItemHurt ==
  ASSUME NEW sc, NEW rs, Held(sc, rs), Latest(rs) = Hurt,
         NEW item \in Items, item # <<"NL">>, item # Seqn("J")
  PROVE  Held(After(sc, item), rs)
<1>1. sc \in Screens /\ sc.col \in Nat /\ \A c \in Nat : Held([lines |-> sc.lines, col |-> c], rs)
  BY HeldParts
<1>2. CASE item = <<"x">>
  <2>1. After(sc, item) = Put(sc, "x")
    BY <1>1, <1>2, AfterRunes
  <2>2. Held(Put(sc, "x"), rs)
    BY PutHurt, Tokens
  <2> QED BY <2>1, <2>2
<1>3. CASE item \in {<<"CR">>, <<"BS">>}
  <2>1. PICK c \in Nat : After(sc, item) = [lines |-> sc.lines, col |-> c]
    <3>1. (IF sc.col > 0 THEN sc.col - 1 ELSE 0) \in Nat /\ 0 \in Nat
      BY <1>1
    <3> QED BY <1>1, <1>3, <3>1, AfterRunes
  <2> QED BY <1>1, <2>1
<1>4. CASE item = <<"TAB">>
  <2>1. TabStop - (sc.col % TabStop) \in Nat
    BY <1>1, ScreenAssumption
  <2>2. After(sc, item) = PutBlanks(sc, TabStop - (sc.col % TabStop))
    BY <1>1, <1>4, AfterRunes
  <2> QED BY <2>1, <2>2, PutBlanksHurt
<1>5. CASE item = Seqn("K")
  <2> DEFINE line == truncateAtCol(Latest(sc.lines), sc.col)
  <2>1. After(sc, item) = [lines |-> EditLast(sc.lines, line), col |-> sc.col]
    BY <1>1, <1>5, AfterEscape DEF Seqn
  <2>2. line \in Seq(Char) /\ Agrees(sc.lines, rs)
    BY <1>1, HeldParts, LineTypes
  <2> HIDE DEF line
  <2> DEFINE t == EditLast(sc.lines, line)
  <2>3. Agrees(t, rs)
    BY <2>2, AgreesHurt
  <2>4. t \in Seq(Seq(Char)) /\ Len(t) \in Nat \ {0}
    BY <2>3 DEF Agrees
  <2> HIDE DEF t
  <2>5. [lines |-> t, col |-> sc.col] \in Screens
    BY <1>1, <2>4, ScreenOf
  <2> QED BY <2>1, <2>3, <2>5 DEF Held, t
<1>6. CASE item \in {Seqn("D"), Seqn("C")}
  <2>1. PICK c \in Nat : After(sc, item) = [lines |-> sc.lines, col |-> c]
    <3>1. (IF sc.col > 0 THEN sc.col - 1 ELSE 0) \in Nat /\ sc.col + 1 \in Nat
      BY <1>1
    <3> QED BY <1>1, <1>6, <3>1, AfterEscape DEF Seqn
  <2> QED BY <1>1, <2>1
<1>7. CASE item = Seqn("m")
  <2>1. After(sc, item) = Stay(sc, item)
    BY <1>1, <1>7, AfterEscape DEF Seqn
  <2>2. item \in Seq(Char)
    BY <1>7, Tokens DEF Seqn
  <2> QED BY <2>1, <2>2, LeaveHurt
<1> QED BY <1>2, <1>3, <1>4, <1>5, <1>6, <1>7, ItemsAre

LEMMA ItemReads ==
  ASSUME NEW sc, NEW rs, Held(sc, rs), Latest(rs) # Hurt
  PROVE  /\ Held(After(sc, <<"x">>), EditLast(rs, Write(Latest(rs), sc.col, "x")))
         /\ \E n \in Nat \ {0} :
              /\ Held(After(sc, <<"TAB">>), EditLast(rs, Tabbed(Latest(rs), sc.col, n)))
              /\ After(sc, <<"TAB">>).col = sc.col + n
         /\ Held(After(sc, Seqn("K")),
                 EditLast(rs, IF sc.col < Len(Latest(rs)) THEN SubSeq(Latest(rs), 1, sc.col)
                              ELSE Latest(rs)))
         /\ \A item \in {<<"CR">>, <<"BS">>, Seqn("D"), Seqn("C"), Seqn("m")} :
              Held(After(sc, item), rs)
<1> DEFINE row == Latest(rs)
<1> DEFINE line == Latest(sc.lines)
<1>1. /\ sc \in Screens /\ sc.col \in Nat /\ \A c \in Nat : Held([lines |-> sc.lines, col |-> c], rs)
      /\ Reads(line, row) /\ rs \in Seq(RowSet) /\ Len(rs) \in Nat \ {0}
  BY HeldParts
<1>2. row \in Seq(Char)
  BY <1>1, ReadsFacts
<1>3. Held(After(sc, <<"x">>), EditLast(rs, Write(row, sc.col, "x")))
  <2>1. After(sc, <<"x">>) = Put(sc, "x")
    BY <1>1, AfterRunes
  <2>2. Held(Put(sc, "x"), EditLast(rs, Write(row, sc.col, "x")))
    BY PutReads, Tokens
  <2> QED BY <2>1, <2>2
<1>4. \E n \in Nat \ {0} : /\ Held(After(sc, <<"TAB">>), EditLast(rs, Tabbed(row, sc.col, n)))
                           /\ After(sc, <<"TAB">>).col = sc.col + n
  <2> DEFINE n == TabStop - (sc.col % TabStop)
  <2>1. n \in Nat \ {0}
    <3>1. sc.col % TabStop \in 0..(TabStop - 1)
      BY <1>1, ScreenAssumption
    <3> QED BY <3>1, ScreenAssumption
  <2>2. After(sc, <<"TAB">>) = PutBlanks(sc, n)
    BY <1>1, AfterRunes
  <2> HIDE DEF n
  <2>3. /\ Held(PutBlanks(sc, n), EditLast(rs, Tabbed(row, sc.col, n)))
        /\ PutBlanks(sc, n).col = sc.col + n
    BY <1>2, <2>1, PutBlanksReads
  <2> QED BY <2>1, <2>2, <2>3
<1>5. Held(After(sc, Seqn("K")),
           EditLast(rs, IF sc.col < Len(row) THEN SubSeq(row, 1, sc.col) ELSE row))
  <2> DEFINE cut == truncateAtCol(line, sc.col)
  <2> DEFINE new == IF sc.col < Len(row) THEN SubSeq(row, 1, sc.col) ELSE row
  <2>1. After(sc, Seqn("K")) = [lines |-> EditLast(sc.lines, cut), col |-> sc.col]
    BY <1>1, AfterEscape DEF Seqn
  <2>2. Reads(cut, new)
    BY <1>1, ReadsCut
  <2> HIDE DEF cut, new
  <2>3. Held([lines |-> EditLast(sc.lines, cut), col |-> sc.col], EditLast(rs, new))
    BY <2>2, HeldEdit
  <2> QED BY <2>1, <2>3 DEF new
<1>6. ASSUME NEW item \in {<<"CR">>, <<"BS">>, Seqn("D"), Seqn("C")} PROVE Held(After(sc, item), rs)
  <2>1. PICK c \in Nat : After(sc, item) = [lines |-> sc.lines, col |-> c]
    <3>1. (IF sc.col > 0 THEN sc.col - 1 ELSE 0) \in Nat /\ sc.col + 1 \in Nat /\ 0 \in Nat
      BY <1>1
    <3>2. CASE item \in {<<"CR">>, <<"BS">>}
      BY <1>1, <3>1, <3>2, AfterRunes
    <3>3. CASE item = Seqn("D")
      BY <1>1, <3>1, <3>3, AfterEscape DEF Seqn
    <3>4. CASE item = Seqn("C")
      BY <1>1, <3>1, <3>4, AfterEscape DEF Seqn
    <3> QED BY <1>6, <3>2, <3>3, <3>4
  <2> QED BY <1>1, <2>1
<1>7. Held(After(sc, Seqn("m")), rs)
  <2> DEFINE s == <<ESC, "[", "m">>
  <2>1. After(sc, Seqn("m")) = Stay(sc, s)
    BY <1>1, AfterEscape DEF Seqn
  <2>2. Reads(line \o s, row \o <<>>)
    BY <1>1, ReadsEscape, ReadsJoin
  <2>3. row \o <<>> = row
    BY <1>2
  <2>4. Held([lines |-> EditLast(sc.lines, line \o s), col |-> sc.col], EditLast(rs, row))
    <3> DEFINE w == line \o s
    <3>1. Reads(w, row)
      BY <2>2, <2>3
    <3> HIDE DEF w
    <3> QED BY <3>1, HeldEdit DEF w
  <2>5. EditLast(rs, row) = rs
    <3>1. row \in RowSet
      BY <1>2 DEF RowSet
    <3> QED BY <1>1, <3>1, EditLastIs
  <2> QED BY <2>1, <2>4, <2>5 DEF Stay
<1> QED BY <1>3, <1>4, <1>5, <1>6, <1>7
-----------------------------------------------------------------------------
(* The invariant of the screen.                                            *)

\* What is left of an item goes to the line the read hurt.
ScreenInv ==
  /\ Agrees(lines, rows) /\ Len(lines) <= maxLines /\ col \in Nat
  /\ rest \in Seq(Left) /\ (rest # <<>> => Latest(rows) = Hurt)

LEMMA EmptyScreen == Agrees(<< <<>> >>, << <<>> >>) /\ [lines |-> << <<>> >>, col |-> 0] \in Screens
<1> DEFINE e == << <<>> >>
<1>1. e \in Seq(Seq(Char)) /\ e \in Seq(RowSet) /\ Len(e) = 1 /\ e[1] = <<>>
  BY EmptyLine
<1> HIDE DEF e
<1>2. \A i \in 1..Len(e) : i = 1
  BY <1>1
<1>3. Agrees(e, e)
  BY <1>1, <1>2, EmptyLine DEF Agrees
<1>4. [lines |-> e, col |-> 0] \in Screens
  BY <1>1, ScreenOf
<1> QED BY <1>3, <1>4 DEF e

LEMMA ScreenInitially == ScreenInit => ScreenInv
<1> SUFFICES ASSUME ScreenInit PROVE ScreenInv
  OBVIOUS
<1>1. lines = << <<>> >> /\ rows = << <<>> >> /\ col = 0 /\ rest = <<>>
  BY DEF ScreenInit
<1>2. Len(<< <<>> >>) = 1 /\ <<>> \in Seq(Left)
  OBVIOUS
<1> QED BY <1>1, <1>2, EmptyScreen, ScreenAssumption DEF ScreenInv

\* What is held goes into the next state.
LEMMA HeldTrimmed ==
  ASSUME NEW sc, NEW rs, Held(sc, rs), lines' = Trim(sc.lines), col' = sc.col, rows' = Trim(rs)
  PROVE  Agrees(lines', rows') /\ Len(lines') <= maxLines /\ col' \in Nat
<1>1. Agrees(sc.lines, rs) /\ sc.col \in Nat
  BY HeldParts
<1> QED BY <1>1, AgreesTrim

LEMMA HeldNext ==
  ASSUME NEW sc, NEW rs, Held(sc, rs), lines' = Trim(sc.lines), col' = sc.col,
         rows' = rs, Len(rs) <= maxLines
  PROVE  Agrees(lines', rows') /\ Len(lines') <= maxLines /\ col' \in Nat
<1>1. Agrees(sc.lines, rs) /\ sc.col \in Nat
  BY HeldParts
<1>2. rows' = Trim(rs)
  BY <1>1, AgreesTrim
<1> QED BY <1>1, <1>2, AgreesTrim

\* A list by its elements.
LEMMA ListFrom ==
  ASSUME NEW S, NEW T, NEW b \in Seq(S), \A i \in 1..Len(b) : b[i] \in T PROVE b \in Seq(T)
<1>1. Len(b) \in Nat /\ DOMAIN b = 1..Len(b)
  BY LenProperties
<1>2. b \in [1..Len(b) -> T]
  BY <1>1
<1> QED BY <1>1, <1>2, ListOf

LEMMA ScreenSteps == ScreenInv /\ [ScreenNext]_screenVars => ScreenInv'
<1> SUFFICES ASSUME ScreenInv, [ScreenNext]_screenVars PROVE ScreenInv'
  OBVIOUS
<1>1. /\ Agrees(lines, rows) /\ Len(lines) <= maxLines /\ col \in Nat
      /\ rest \in Seq(Left) /\ (rest # <<>> => Latest(rows) = Hurt)
  BY DEF ScreenInv
<1>2. /\ Screen \in Screens /\ Screen.lines = lines /\ Screen.col = col /\ Held(Screen, rows)
      /\ rows \in Seq(RowSet) /\ Len(rows) \in Nat \ {0} /\ Len(rows) <= maxLines
  <2>1. lines \in Seq(Seq(Char)) /\ rows \in Seq(RowSet) /\ Len(lines) = Len(rows) /\ Len(rows) \in Nat \ {0}
    BY <1>1 DEF Agrees
  <2>2. Screen \in Screens /\ Screen.lines = lines /\ Screen.col = col
    BY <1>1, <2>1, ScreenOf DEF Screen
  <2> QED BY <1>1, <2>1, <2>2 DEF Held
<1>e. \A f \in RowSet : EditLast(rows, f) \in Seq(RowSet) /\ Len(EditLast(rows, f)) = Len(rows)
                        /\ Latest(EditLast(rows, f)) = f
  BY <1>2, EditLastIs DEF Replaces
<1>p. \A data : processOutput(data) => /\ lines' = Trim(After(Screen, data).lines)
                                       /\ col' = After(Screen, data).col
  BY DEF processOutput, After
<1>3. CASE Output
  <2>1. rest' = <<>> /\ <<>> \in Seq(Left)
    BY <1>3 DEF Output
  <2>2. PICK item \in Items : processOutput(item) /\ rows' = Shows(item)
    BY <1>3 DEF Output
  <2> DEFINE sc == After(Screen, item)
  <2>3. lines' = Trim(sc.lines) /\ col' = sc.col
    BY <1>p, <2>2
  <2> DEFINE Goal == Agrees(lines', rows') /\ Len(lines') <= maxLines /\ col' \in Nat
  <2>4. SUFFICES Goal
    BY <2>1 DEF ScreenInv
  <2>5. CASE item = <<"NL">>
    <3>1. sc = [lines |-> Append(lines, <<>>), col |-> 0]
      BY <1>2, <2>5, AfterRunes
    <3>2. Agrees(Append(lines, <<>>), Append(rows, <<>>))
      BY <1>1, AgreesAppend
    <3> DEFINE rs == Append(rows, <<>>)
    <3>3. Held(sc, rs)
      <4> DEFINE t == Append(lines, <<>>)
      <4>1. t \in Seq(Seq(Char)) /\ Len(t) \in Nat \ {0}
        BY <3>2 DEF Agrees
      <4> HIDE DEF t
      <4>2. [lines |-> t, col |-> 0] \in Screens
        BY <4>1, ScreenOf
      <4> QED BY <3>1, <3>2, <4>2 DEF Held, t
    <3>4. rows' = Trim(rs)
      BY <2>2, <2>5 DEF Shows
    <3> HIDE DEF sc, rs
    <3>5. Agrees(lines', rows') /\ Len(lines') <= maxLines /\ col' \in Nat
      BY <2>3, <3>3, <3>4, HeldTrimmed
    <3> QED BY <3>5
  <2>6. CASE item = Seqn("J")
    <3>1. sc = [lines |-> << <<>> >>, col |-> 0]
      BY <1>2, <2>6, AfterEscape DEF Seqn
    <3>2. Held(sc, << <<>> >>)
      BY <3>1, EmptyScreen DEF Held
    <3>3. item # <<"NL">>
      BY <2>6 DEF Seqn
    <3>4. rows' = << <<>> >>
      BY <2>2, <2>6, <3>3 DEF Shows, Seqn
    <3>5. Len(<< <<>> >>) <= maxLines
      BY ScreenAssumption
    <3> HIDE DEF sc
    <3> QED BY <2>3, <3>2, <3>4, <3>5, HeldNext
  <2>7. CASE item # <<"NL">> /\ item # Seqn("J") /\ Row = Hurt
    <3>1. Held(sc, rows)
      BY <1>2, <2>7, ItemHurt DEF Row
    <3>2. rows' = rows
      BY <2>2, <2>7 DEF Shows, Seqn
    <3> HIDE DEF sc
    <3> QED BY <1>2, <2>3, <3>1, <3>2, HeldNext
  <2>8. CASE item # <<"NL">> /\ item # Seqn("J") /\ Row # Hurt
    <3>0. Latest(rows) = Row /\ Row \in Seq(Char) /\ Row \in RowSet
      <4>1. Reads(Latest(lines), Row)
        BY <1>2, <2>8, HeldParts DEF Row
      <4> QED BY <4>1, ReadsFacts DEF Row, RowSet
    <3>1. CASE item = <<"x">>
      <4> DEFINE row == Write(Row, col, "x")
      <4>1. Held(sc, EditLast(rows, row))
        BY <1>2, <2>8, <3>0, <3>1, ItemReads
      <4>2. rows' = EditLast(rows, row)
        <5>1. item # <<"TAB">> /\ item # <<ESC, "[", "K">> /\ item # <<ESC, "[", "J">> /\ item # <<"NL">>
          BY <3>1
        <5> QED BY <2>2, <2>8, <3>1, <5>1 DEF Shows
      <4>3. Len(EditLast(rows, row)) = Len(rows)
        <5>1. row \in RowSet
          BY <1>2, <2>8, <3>0, PutReads, Tokens
        <5> QED BY <1>e, <5>1
      <4> HIDE DEF sc, row
      <4> QED BY <1>2, <2>3, <4>1, <4>2, <4>3, HeldNext
    <3>2. CASE item = <<"TAB">>
      <4>1. PICK n \in Nat \ {0} : Held(sc, EditLast(rows, Tabbed(Row, col, n))) /\ sc.col = col + n
        BY <1>2, <2>8, <3>0, <3>2, ItemReads
      <4> DEFINE row == Tabbed(Row, col, n)
      <4>2. rows' = EditLast(rows, row)
        <5>1. item # <<ESC, "[", "K">> /\ item # <<ESC, "[", "J">> /\ item # <<"NL">>
          BY <3>2
        <5>2. col' = col + n
          BY <2>3, <4>1
        <5>3. rows' = EditLast(rows, [i \in 1 .. (IF Len(Row) > col' THEN Len(Row) ELSE col') |->
                           IF i <= Len(Row) /\ i \notin col + 1 .. col' THEN Row[i] ELSE Blank])
          BY <2>2, <2>8, <3>2, <5>1 DEF Shows
        <5>4. row = [i \in 1 .. (IF Len(Row) > col + n THEN Len(Row) ELSE col + n) |->
                           IF i <= Len(Row) /\ i \notin col + 1 .. col + n THEN Row[i] ELSE Blank]
          BY DEF Tabbed
        <5> QED BY <5>2, <5>3, <5>4
      <4>3. Len(EditLast(rows, row)) = Len(rows)
        <5>1. row \in RowSet
          BY <1>1, <3>0, <4>1, TabbedSteps DEF RowSet
        <5> QED BY <1>e, <5>1
      <4> HIDE DEF sc, row
      <4> QED BY <1>2, <2>3, <4>1, <4>2, <4>3, HeldNext DEF row
    <3>3. CASE item = Seqn("K")
      <4> DEFINE row == IF col < Len(Row) THEN SubSeq(Row, 1, col) ELSE Row
      <4>1. Held(sc, EditLast(rows, row))
        BY <1>2, <2>8, <3>0, <3>3, ItemReads
      <4>2. rows' = EditLast(rows, row)
        BY <2>2, <2>8, <3>3 DEF Shows, Seqn
      <4>3. Len(EditLast(rows, row)) = Len(rows)
        <5>1. row \in RowSet
          <6>1. Reads(Latest(lines), Row)
            BY <1>2, <2>8, HeldParts DEF Row
          <6>2. Reads(truncateAtCol(Latest(lines), col), row)
            BY <1>1, <6>1, ReadsCut
          <6> QED BY <6>2, ReadsFacts DEF RowSet
        <5> QED BY <1>e, <5>1
      <4> HIDE DEF sc, row
      <4> QED BY <1>2, <2>3, <4>1, <4>2, <4>3, HeldNext
    <3>4. CASE item \in {<<"CR">>, <<"BS">>, Seqn("D"), Seqn("C"), Seqn("m")}
      <4>1. Held(sc, rows)
        BY <1>2, <2>8, <3>0, <3>4, ItemReads
      <4>2. rows' = rows
        <5>1. item # <<"x">> /\ item # <<"TAB">> /\ item # Seqn("K")
          BY <3>4 DEF Seqn
        <5> QED BY <2>2, <2>8, <5>1 DEF Shows, Seqn
      <4> HIDE DEF sc
      <4> QED BY <1>2, <2>3, <4>1, <4>2, HeldNext
    <3> QED BY <2>8, <3>1, <3>2, <3>3, <3>4, ItemsAre
  <2> QED BY <2>5, <2>6, <2>7, <2>8
<1>4. CASE OutputCut
  <2>1. PICK cut \in Cuts : processOutput(cut[1]) /\ rest' = cut[2]
    BY <1>4 DEF OutputCut
  <2>2. rows' = EditLast(rows, Hurt) /\ Row # Hurt
    BY <1>4 DEF OutputCut
  <2>3. /\ cut[1] = <<"?">> \/ cut[1] = <<ESC>> \/ cut[1] = <<ESC, "[">>
        /\ cut[2] \in Seq(Left)
    <3>1. CASE cut = << <<"?">>, <<"?">> >>
      BY <3>1 DEF Left
    <3>2. ASSUME NEW c \in {"J", "K", "D", "C", "m"}, NEW n \in 1..2,
                 cut = <<SubSeq(<<ESC, "[", c>>, 1, n), SubSeq(<<ESC, "[", c>>, n + 1, 3)>>
          PROVE  /\ cut[1] = <<ESC>> \/ cut[1] = <<ESC, "[">>
                 /\ cut[2] \in Seq(Left)
      <4> DEFINE e == <<ESC, "[", c>>
      <4>1. e \in Seq(Char) /\ Len(e) = 3 /\ e[1] = ESC /\ e[2] = "[" /\ e[3] = c
        BY Tokens DEF Char
      <4> HIDE DEF e
      <4>2. ASSUME NEW p \in 1..3, NEW q \in 1..3, p <= q
            PROVE  /\ SubSeq(e, p, q) \in Seq(Char) /\ Len(SubSeq(e, p, q)) = q - p + 1
                   /\ \A i \in 1..q - p + 1 : SubSeq(e, p, q)[i] = e[p + i - 1]
        <5>1. p \in Int /\ q \in Int /\ \A i \in p..q : i \in 1..3
          BY <4>2
        <5>2. \A i \in p..q : e[i] \in Char
          BY <4>1, <5>1, ElementOfSeq
        <5> QED BY <4>2, <5>1, <5>2, SubSeqProperties
      <4>3. CASE n = 1
        <5> DEFINE a == SubSeq(e, 1, 1)
        <5> DEFINE b == SubSeq(e, 2, 3)
        <5>1. a \in Seq(Char) /\ Len(a) = 1 /\ a[1] = ESC
          BY <4>1, <4>2
        <5>2. b \in Seq(Char) /\ Len(b) = 2 /\ b[1] = "[" /\ b[2] = c
          BY <4>1, <4>2
        <5>3. cut[1] = a /\ cut[2] = b
          BY <3>2, <4>3 DEF e
        <5> HIDE DEF a, b
        <5>4. a = <<ESC>>
          BY <5>1, Tokens
        <5>5. \A i \in 1..2 : b[i] \in Left
          BY <5>2 DEF Left
        <5>6. b \in Seq(Left)
          BY <5>2, <5>5, ListFrom
        <5> QED BY <5>3, <5>4, <5>6
      <4>4. CASE n = 2
        <5> DEFINE a == SubSeq(e, 1, 2)
        <5> DEFINE b == SubSeq(e, 3, 3)
        <5>1. a \in Seq(Char) /\ Len(a) = 2 /\ a[1] = ESC /\ a[2] = "["
          BY <4>1, <4>2
        <5>2. b \in Seq(Char) /\ Len(b) = 1 /\ b[1] = c
          BY <4>1, <4>2
        <5>3. cut[1] = a /\ cut[2] = b
          BY <3>2, <4>4 DEF e
        <5> HIDE DEF a, b
        <5>4. a = <<ESC, "[">>
          BY <5>1, Tokens
        <5>5. \A i \in 1..1 : b[i] \in Left
          BY <5>2 DEF Left
        <5>6. b \in Seq(Left)
          BY <5>2, <5>5, ListFrom
        <5> QED BY <5>3, <5>4, <5>6
      <4> QED BY <4>3, <4>4
    <3> QED BY <2>1, <3>1, <3>2 DEF Cuts, Escapes
  <2> DEFINE rs == EditLast(rows, Hurt)
  <2>4. Hurt \in RowSet /\ <<>> \in Seq(Left)
    BY DEF RowSet
  <2>5. rs \in Seq(RowSet) /\ Len(rs) = Len(rows) /\ Latest(rs) = Hurt
    BY <1>e, <2>4
  <2>6. Held(Screen, rs)
    <3>1. Latest(lines) \in Seq(Char) /\ lines \in Seq(Seq(Char)) /\ Len(lines) \in Nat \ {0}
      BY <1>2, ScreenParts
    <3>2. Agrees(EditLast(lines, Latest(lines)), rs)
      BY <1>1, <2>4, <3>1, AgreesEdit
    <3>3. EditLast(lines, Latest(lines)) = lines
      BY <3>1, EditLastIs
    <3> QED BY <1>2, <3>2, <3>3 DEF Held
  <2> HIDE DEF rs
  <2>7. Held(After(Screen, cut[1]), rs)
    <3>1. CASE cut[1] = <<"?">>
      <4>1. <<"?">> \in Seq(Left) /\ <<"?">> # <<>>
        BY DEF Left
      <4>2. After(Screen, cut[1]) = Runes(Screen, <<"?">>)
        BY <1>2, <3>1, <4>1, AfterRunes
      <4> QED BY <2>5, <2>6, <4>1, <4>2, RunesHurt
    <3>2. CASE cut[1] = <<ESC>> \/ cut[1] = <<ESC, "[">>
      <4>1. After(Screen, cut[1]) = Stay(Screen, cut[1])
        BY <1>2, <3>2, AfterEscape
      <4>2. cut[1] \in Seq(Char)
        <5>1. <<ESC>> \in Seq(Char) /\ <<ESC, "[">> \in Seq(Char)
          BY Tokens
        <5> QED BY <3>2, <5>1
      <4> QED BY <2>5, <2>6, <4>1, <4>2, LeaveHurt
    <3> QED BY <2>3, <3>1, <3>2
  <2>8. rows' = rs
    BY <2>2 DEF rs
  <2>9. Agrees(lines', rows') /\ Len(lines') <= maxLines /\ col' \in Nat
    BY <1>2, <1>p, <2>1, <2>5, <2>7, <2>8, HeldNext
  <2> QED BY <2>1, <2>3, <2>5, <2>8, <2>9 DEF ScreenInv
<1>5. CASE OutputRest
  <2>1. rest # <<>> /\ processOutput(rest) /\ rest' = <<>> /\ rows' = rows /\ <<>> \in Seq(Left)
    BY <1>5 DEF OutputRest
  <2>2. After(Screen, rest) = Runes(Screen, rest)
    BY <1>1, <1>2, <2>1, AfterRunes
  <2>3. Held(Runes(Screen, rest), rows)
    BY <1>1, <1>2, <2>1, RunesHurt
  <2>4. Agrees(lines', rows') /\ Len(lines') <= maxLines /\ col' \in Nat
    BY <1>2, <1>p, <2>1, <2>2, <2>3, HeldNext
  <2> QED BY <2>1, <2>4 DEF ScreenInv
<1>6. CASE UNCHANGED screenVars
  BY <1>6 DEF ScreenInv, screenVars
<1> QED BY <1>3, <1>4, <1>5, <1>6 DEF ScreenNext

LEMMA ScreenFromInv == ScreenInv => ScreenTypeOK /\ ScreenShowsOutput
<1> SUFFICES ASSUME ScreenInv PROVE ScreenTypeOK /\ ScreenShowsOutput
  OBVIOUS
<1>1. /\ lines \in Seq(Seq(Char)) /\ rows \in Seq(RowSet) /\ Len(lines) = Len(rows)
      /\ Len(rows) \in Nat \ {0} /\ Len(lines) <= maxLines /\ col \in Nat
      /\ \A i \in 1..Len(rows) : rows[i] # Hurt => Reads(lines[i], rows[i])
  BY DEF ScreenInv, Agrees
<1>2. lines # <<>>
  <2>1. Len(<<>>) = 0
    OBVIOUS
  <2> QED BY <1>1, <2>1
<1>3. ASSUME NEW i \in DOMAIN rows, rows[i] # Hurt PROVE Text(lines[i]) = rows[i]
  <2>1. Reads(lines[i], rows[i])
    BY <1>1, <1>3, LenProperties
  <2>2. rows[i] = Selected(lines[i], Plain(lines[i])) /\ Visible(lines[i]) = Plain(lines[i])
    BY <2>1, ReadsFacts
  <2> QED BY <2>2 DEF Text
<1> QED BY <1>1, <1>2, <1>3 DEF ScreenTypeOK, ScreenShowsOutput
-----------------------------------------------------------------------------
(* The properties of Machine.                                              *)

\* Whatever part a behaviour is about, the invariants of these parts hold.
LEMMA PartsInvariant ==
  Spec => [](EnginesInv /\ CountersInv /\ TreeInv /\ AuditInv /\ ListingInv /\ HostInv
             /\ ScreenInv)
<1> DEFINE Inv == EnginesInv /\ CountersInv /\ TreeInv /\ AuditInv /\ ListingInv /\ HostInv
                  /\ ScreenInv
<1>1. Init => Inv
  BY PartStarts, EnginesInitially, CountersInductive, TreeInitially, AuditInitially,
     ListingInitially, HostInitially, ScreenInitially
<1>2. Inv /\ [Next]_vars => Inv'
  BY PartSteps, EnginesSteps, CountersInductive, TreeSteps, AuditSteps, ListingSteps,
     HostSteps, ScreenSteps
<1> QED BY <1>1, <1>2, PTL DEF Spec

\* For any rules and any administrators: a rule is deleted by a number, and
\* while the listing is of the present the rule that goes is the one shown with
\* that number, or none (iptables.go:111).
THEOREM DeletesWhatWasShown == Spec => []DeletesShown
<1>1. EnginesInv => DeletesShown
  BY DEF EnginesInv
<1> QED BY <1>1, PartsInvariant, PTL

\* For words of any width: what is shown for an object that has stayed is what
\* its counters grew, across wraps and across objects that come and go.
THEOREM ShownIsGrowth == Spec => []RateIsGrowth
BY GrowthFromInv, PartsInvariant, PTL

\* For any number of paths and events: opening the log again, by whichever of
\* Start, WriteEvent and Reload, loses nothing that is in it (audit.go:146).
THEOREM LogsOnlyGrow == Spec => AppendOnly
<1>1. (AuditInv /\ AuditInv' /\ [Next]_vars) =>
        [Rotate \/ \A p \in Paths : IsPrefix(logs[p], logs'[p])]_auditVars
  BY PartSteps, AppendOnlyStep
<1>2. Spec => [](AuditInv) /\ [][Next]_vars
  BY PartsInvariant, PTL DEF Spec
<1> QED BY <1>1, <1>2, PTL DEF AppendOnly

\* For any number of paths and events: an event is written to the log that is
\* configured at that moment, and arrives unless the disk refuses or the file
\* was moved from under the handle (audit.go:108).
THEOREM EventsWrittenAsConfigured == Spec => WrittenAsConfigured
<1>1. (AuditInv /\ [Next]_vars) =>
        [events' # events =>
           /\ \A p \in Paths \ {logPath} : logs'[p] = logs[p]
           /\ disk[logPath] = "ok" /\ file \in {NoFile, [path |-> logPath, linked |-> TRUE]} =>
                logs'[logPath] = Append(logs[logPath], events')]_auditVars
  BY PartSteps, WrittenStep
<1>2. Spec => [](AuditInv) /\ [][Next]_vars
  BY PartsInvariant, PTL DEF Spec
<1> QED BY <1>1, <1>2, PTL DEF WrittenAsConfigured

\* For any units and any size of a read: what a listing shows of a unit was true
\* of it at some moment since the listing began, by whichever init system and
\* however early the reply ends, but for the exceptions RowTrue names; and no
\* exception lets a unit be shown as failed that has not failed (dbus.go:201).
THEOREM ListingsTrue == Spec => []ListingTrue
<1>1. ListingInv => ListingTrue
  BY DEF ListingInv
<1> QED BY <1>1, PartsInvariant, PTL

\* For any pids: every process that was read is in the tree, once, below its
\* parent, unless a pid was used twice during the scan (tree.go:30).
THEOREM TreesWhole == Spec => []TreeWhole
BY TreeFromInv, PartsInvariant, PTL

\* On a host of any kind that has not changed, the engine whose rules or
\* packages are shown is the one operations go to (firewall.go:88, packages.go:80).
THEOREM EnginesAgreeing == Spec => []EnginesAgree
BY EnginesFromInv, PartsInvariant, PTL

\* For a screen of any height, tabs of any width and whatever is written: in a
\* line that no read has ended inside a sequence or a character of, the tab shows
\* what was written, whatever sequences stay in it (terminal.go:273).
THEOREM ScreenShown == Spec => []ScreenShowsOutput
BY ScreenFromInv, PartsInvariant, PTL

\* For any constants: every part keeps what it has of its types.
THEOREM TypesOK == Spec => []TypeOK
<1>1. ListingInv => InitBackendsTypeOK
  <2> SUFFICES ASSUME ListingInv, NEW i \in DOMAIN listed
               PROVE  listed[i].unit \in Names /\ listed[i].shown \in {"active", "inactive", "failed"}
    BY DEF ListingInv, InitBackendsTypeOK
  <2>1. listed \in Seq(UnitRow)
    BY DEF ListingInv
  <2>2. listed[i] \in UnitRow
    BY <2>1, LenProperties, ElementOfSeq
  <2> QED BY <2>2 DEF UnitRow
<1>2. EnginesInv /\ CountersInv /\ TreeInv /\ AuditInv =>
        EnginesTypeOK /\ CountersTypeOK /\ TreeTypeOK /\ AuditTypeOK
  BY DEF EnginesInv, CountersInv, TreeInv, AuditInv, AuditTypeOK
<1>3. HostInv /\ ScreenInv => HostTypeOK /\ ScreenTypeOK
  BY ScreenFromInv DEF HostInv
<1>4. EnginesInv /\ CountersInv /\ TreeInv /\ AuditInv /\ ListingInv /\ HostInv /\ ScreenInv
        => TypeOK
  BY <1>1, <1>2, <1>3 DEF TypeOK
<1> QED BY <1>4, PartsInvariant, PTL
=============================================================================
