------------------------------- MODULE Positions -------------------------------
(***************************************************************************)
(* Going over some positions of a vector in order, as std::remove_if and   *)
(* std::erase keep it, and std::copy_if copies it.                         *)
(***************************************************************************)
EXTENDS Naturals, FiniteSets

\* The ways to count the members of a set of numbers upwards.  There is one.
Upwards(I) ==
    {at \in [1 .. Cardinality(I) -> I] : \A j, k \in DOMAIN at : j < k => at[j] < at[k]}

\* It: the k-th member is the one above k - 1 others.
InOrder(I) ==
    [k \in 1 .. Cardinality(I) |-> CHOOSE i \in I : Cardinality({j \in I : j < i}) = k - 1]

\* The elements of a sequence at these positions.
Picked(s, at) == [k \in DOMAIN at |-> s[at[k]]]
================================================================================
