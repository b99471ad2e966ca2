-------------------------------- MODULE Lists ---------------------------------
(***************************************************************************)
(* Loops over lists, of which several components have one: through the     *)
(* positions of some kind in order, and keeping the elements there.        *)
(***************************************************************************)
EXTENDS Naturals, Sequences, FiniteSets, SequencesExt

\* The numbers of P from the least on.
Ascending(P) ==
  CHOOSE f \in [1..Cardinality(P) -> P] : \A i, j \in DOMAIN f : i < j => f[i] < f[j]

\* The elements of a list that are at the positions P.
Selected(list, P) ==
  FlattenSeq([i \in DOMAIN list |-> IF i \in P THEN <<list[i]>> ELSE <<>>])

\* The lists g of the numbers Q, one after another.
InTurn(Q, g) == FlattenSeq([i \in DOMAIN Ascending(Q) |-> g[Ascending(Q)[i]]])
=============================================================================
