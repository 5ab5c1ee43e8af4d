---------------------------- MODULE Subsequences ----------------------------
(* The part of a sequence that is at some of its places: what the filter of  *)
(* an array keeps, in its order. It is given by the set of the places, and   *)
(* not by a recursion along the sequence, so that it can be reasoned about.  *)
EXTENDS Integers, FiniteSets, Sequences

\* The k-th of the numbers in I.
Nth(I, k) == CHOOSE i \in I : Cardinality({j \in I : j <= i}) = k

\* The elements of s at the places in I.
Select(s, I) == [k \in 1 .. Cardinality(I) |-> s[Nth(I, k)]]

=============================================================================
