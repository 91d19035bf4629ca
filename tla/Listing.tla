------------------------------- MODULE Listing -------------------------------
(***************************************************************************)
(* Sequences made of sets and of other sequences, as the code's sorted, its  *)
(* filters and its chained loops make them.                                 *)
(***************************************************************************)
EXTENDS Integers, FiniteSets, Sequences

\* The members of S by the order R, a set of pairs <<earlier or same, later>>.
InOrder(S, R) ==
  [k \in 1 .. Cardinality(S) |-> CHOOSE x \in S : Cardinality({y \in S : <<y, x>> \in R}) = k]

\* The elements of s at the positions I.
Upward(I) == {p \in I \X I : p[1] <= p[2]}
Picked(s, I) == LET at == InOrder(I, Upward(I)) IN [k \in DOMAIN at |-> s[at[k]]]

\* The elements of the sequences of ss, one sequence after the other.
Positions(ss) == UNION {{m} \X DOMAIN ss[m] : m \in DOMAIN ss}
Onward(P) == {p \in P \X P : p[1][1] < p[2][1] \/ (p[1][1] = p[2][1] /\ p[1][2] <= p[2][2])}
Flattened(ss) ==
  LET at == InOrder(Positions(ss), Onward(Positions(ss))) IN [k \in DOMAIN at |-> ss[at[k][1]][at[k][2]]]
=============================================================================
