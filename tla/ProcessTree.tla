----------------------------- MODULE ProcessTree -----------------------------
(***************************************************************************)
(* The process list and its tree: process.Service.collect reads /proc one  *)
(* pid after another while processes come and go, and BuildProcessTree and *)
(* FlattenTree arrange what was read by parent.                            *)
(***************************************************************************)
EXTENDS Naturals, FiniteSets, Sequences, SequencesExt, Functions, Lists

CONSTANT Pids           \* 1 is init
ASSUME TreeAssumption == IsFiniteSet(Pids) /\ 1 \in Pids /\ Pids \subseteq Nat \ {0}

VARIABLES
  alive,        \* the parent of each process there is; that of init is 0
  entries,      \* the pids ReadDir found that are not read yet
  procs,        \* the parent of each process read in this scan
  reused        \* history: a pid was forked again since ReadDir
treeVars == <<alive, entries, procs, reused>>

Scanning == entries # {}

TreeInit ==
  /\ alive = [p \in {1} |-> 0]
  /\ entries = {}
  /\ procs = alive
  /\ reused = FALSE
-----------------------------------------------------------------------------
\* A process forks; the pid may have been another's a moment ago.
Fork ==
  \E p \in DOMAIN alive : \E child \in Pids \ DOMAIN alive :
    /\ alive' = [q \in DOMAIN alive \union {child} |-> IF q = child THEN p ELSE alive[q]]
    /\ reused' = (reused \/ child \in entries \union DOMAIN procs)
    /\ UNCHANGED <<entries, procs>>

\* A process exits and init adopts its children.
Leave ==
  \E p \in DOMAIN alive \ {1} :
    /\ alive' = [q \in DOMAIN alive \ {p} |-> IF alive[q] = p THEN 1 ELSE alive[q]]
    /\ UNCHANGED <<entries, procs, reused>>

\* ReadDir of the next collect.
ReadDir ==
  /\ ~Scanning
  /\ entries' = DOMAIN alive
  /\ procs' = Restrict(alive, {})
  /\ reused' = FALSE
  /\ UNCHANGED alive

\* readProcess of one entry; a process that has exited is skipped.  The entries
\* are sorted as text, which may be any order of the numbers.
ReadProcess ==
  /\ Scanning
  /\ \E pid \in entries :
       /\ entries' = entries \ {pid}
       /\ procs' = IF pid \notin DOMAIN alive THEN procs
                   ELSE [q \in DOMAIN procs \union {pid} |->
                           IF q = pid THEN alive[pid] ELSE procs[q]]
  /\ UNCHANGED <<alive, reused>>

TreeNext == Fork \/ Leave \/ ReadDir \/ ReadProcess
-----------------------------------------------------------------------------
(* The tree of what was read.                                              *)

\* BuildProcessTree: who hangs below whom, and who hangs nowhere.
Children(p) == {q \in DOMAIN procs : procs[q] = p /\ q # p}

\* Mutant of Roots: only a process without a parent at all.
RootsOnlyInit == {p \in DOMAIN procs : procs[p] = 0}

Roots == {p \in DOMAIN procs : procs[p] \notin DOMAIN procs \/ procs[p] = p}

\* FlattenTree: a process, then what is below it by pid, level by level of depth.
Branch ==
  LET below[n \in 0..Cardinality(DOMAIN procs)] ==
        [p \in DOMAIN procs |->
           IF n = 0 THEN <<>> ELSE <<p>> \o InTurn(Children(p), below[n - 1])]
  IN  below[Cardinality(DOMAIN procs)]

Flattened == InTurn(Roots, Branch)
-----------------------------------------------------------------------------
TreeTypeOK ==
  /\ 1 \in DOMAIN alive /\ DOMAIN alive \subseteq Pids
  /\ entries \subseteq Pids
  /\ DOMAIN procs \subseteq Pids /\ \A p \in DOMAIN procs : procs[p] \in Pids \union {0}

Place(p) == CHOOSE i \in DOMAIN Flattened : Flattened[i] = p

\* Every process that was read is in the tree, once, below its parent where
\* that was read too, although processes exit and are adopted while /proc is
\* read.  It takes a pid used twice during one scan to close a circle of
\* parents that hangs below no root (tree.go:30).
TreeWhole ==
  ~Scanning /\ ~reused =>
    /\ ToSet(Flattened) = DOMAIN procs
    /\ Len(Flattened) = Cardinality(DOMAIN procs)
    /\ \A p \in DOMAIN procs \ Roots : Place(procs[p]) < Place(p)
=============================================================================
