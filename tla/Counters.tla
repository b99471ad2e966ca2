------------------------------- MODULE Counters -------------------------------
(***************************************************************************)
(* Rates from kernel counters: the collectors of cpu, network, io and      *)
(* process keep the reading of the latest sample and show the difference   *)
(* from it, in unsigned words that may wrap, for objects that come, go and *)
(* are replaced by others of the same name.                                *)
(***************************************************************************)
EXTENDS Integers, FiniteSets, Functions

CONSTANTS
  Width,        \* bits of a counter
  MaxGrowth,    \* the most a counter grows between two samples; two of them, which
                \* cpu adds up, together grow by less than a word holds
  Objects       \* Objects[k]: what collector k may count for

Kinds == {"cpu", "network", "io", "process cpu", "process io"}
Modulus == 2 ^ Width
ASSUME CountersAssumption ==
  /\ Width \in Nat /\ Modulus \in Nat \ {0}
  /\ MaxGrowth \in Nat /\ 2 * MaxGrowth < Modulus
  /\ \A k \in Kinds : Objects[k] \subseteq Nat /\ IsFiniteSet(Objects[k])

Words == 0..(Modulus - 1)
\* Two counters: busy and idle jiffies, bytes or sectors received and sent.
Readings == [first : Words, second : Words]

VARIABLES
  kind,         \* the collector
  world,        \* the objects there are, with the kernel's counters
  prev,         \* s.prev: the reading of the latest sample, by key
  grown         \* history: by object, what its counters have grown since that
                \* sample; an object that is new or went back has no entry
countersVars == <<kind, world, prev, grown>>

Less(a, b) == (a - b + Modulus) % Modulus       \* uint64 subtraction
Plus(a, b) == (a + b) % Modulus
NoReadings == [o \in {} |-> 0]

\* Cores are told apart by their place in /proc/stat, others by name.
Key(o) == IF kind = "cpu" THEN Cardinality({p \in DOMAIN world : p <= o}) ELSE o
Keys == {Key(o) : o \in DOMAIN world}
Reading == [k \in Keys |-> world[CHOOSE o \in DOMAIN world : Key(o) = k]]

CountersInit ==
  /\ kind \in Kinds
  /\ world = NoReadings
  /\ prev = NoReadings
  /\ grown = NoReadings
-----------------------------------------------------------------------------
\* The work that goes on: a counter grows, and wraps.
Grow ==
  \E o \in DOMAIN world \cap DOMAIN grown : \E d \in Readings :
    /\ d \in {[first |-> 1, second |-> 0], [first |-> 0, second |-> 1]}
    /\ grown[o].first + d.first <= MaxGrowth /\ grown[o].second + d.second <= MaxGrowth
    /\ world' = [world EXCEPT ![o] = [first |-> Plus(@.first, d.first),
                                      second |-> Plus(@.second, d.second)]]
    /\ grown' = [grown EXCEPT ![o] = [first |-> @.first + d.first,
                                      second |-> @.second + d.second]]
    /\ UNCHANGED <<kind, prev>>

\* A core goes offline, an interface or a disk is removed, a process exits.
Vanish ==
  \E o \in DOMAIN world :
    /\ world' = Restrict(world, DOMAIN world \ {o})
    /\ grown' = Restrict(grown, DOMAIN grown \ {o})
    /\ UNCHANGED <<kind, prev>>

\* One comes, with counters of its own, perhaps under a name used before.
Appear ==
  \E o \in Objects[kind] \ DOMAIN world : \E r \in Readings :
    /\ world' = [p \in DOMAIN world \union {o} |-> IF p = o THEN r ELSE world[p]]
    /\ UNCHANGED <<kind, prev, grown>>

\* The kernel takes back what it has counted, as it does for iowait.
GoBack ==
  \E o \in DOMAIN world :
    /\ world[o].second > 0
    /\ world' = [world EXCEPT ![o].second = @ - 1]
    /\ grown' = Restrict(grown, DOMAIN grown \ {o})
    /\ UNCHANGED <<kind, prev>>

\* Mutant of Sample: what is known of an object is not refreshed.
SampleKeeps ==
  /\ prev' = [k \in Keys |-> IF k \in DOMAIN prev THEN prev[k] ELSE Reading[k]]
  /\ grown' = [o \in DOMAIN world |-> [first |-> 0, second |-> 0]]
  /\ UNCHANGED <<kind, world>>

\* collect: the reading replaces the one before it; a reading that fails
\* returns before that.
Sample ==
  /\ prev' = Reading
  /\ grown' = [o \in DOMAIN world |-> [first |-> 0, second |-> 0]]
  /\ UNCHANGED <<kind, world>>

CountersNext == Grow \/ Vanish \/ Appear \/ GoBack \/ Sample
-----------------------------------------------------------------------------
(* What a collect made now would show.                                     *)

\* cpu.pct.  The test for a negative total cannot fail: the words are unsigned.
Percent(was, is) ==
  LET total == Less(Plus(is.first, is.second), Plus(was.first, was.second))
      share == (100 * Less(is.first, was.first)) \div total
  IN  IF total = 0 THEN 0 ELSE IF share > 100 THEN 100 ELSE share

\* network, io and process time: the difference, whatever it is.
Difference(was, is) ==
  [first |-> Less(is.first, was.first), second |-> Less(is.second, was.second)]

\* process io: nothing when either counter is below the reading before it.
Guarded(was, is) ==
  IF is.first >= was.first /\ is.second >= was.second THEN Difference(was, is)
  ELSE [first |-> 0, second |-> 0]
-----------------------------------------------------------------------------
CountersTypeOK ==
  /\ kind \in Kinds
  /\ DOMAIN world \subseteq Objects[kind] /\ \A o \in DOMAIN world : world[o] \in Readings
  /\ \A k \in DOMAIN prev : prev[k] \in Readings
  /\ DOMAIN grown \subseteq DOMAIN world

\* The objects that have been there, under the same key, since the latest sample.
Stayed ==
  IF kind # "cpu" THEN DOMAIN grown
  ELSE IF DOMAIN grown = DOMAIN world /\ DOMAIN prev = Keys THEN DOMAIN world ELSE {}

\* What is shown for an object that has been there since the latest sample is
\* what it did since then, also across a counter that wraps; for the bytes of
\* a process a wrap shows as nothing.
RateIsGrowth ==
  \A o \in Stayed :
    LET was == prev[Key(o)]
        done == grown[o].first + grown[o].second
    IN  CASE kind = "cpu" ->
               Percent(was, world[o]) = IF done = 0 THEN 0 ELSE (100 * grown[o].first) \div done
          [] kind = "process io" ->
               Guarded(was, world[o]) \in {grown[o], [first |-> 0, second |-> 0]}
          [] OTHER -> Difference(was, world[o]) = grown[o]
=============================================================================
