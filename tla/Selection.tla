----------------------------- MODULE Selection -----------------------------
(***************************************************************************)
(* filter and sort, which the server's lists and queries are made with.    *)
(* They are SelectSeq, for a test that is membership of a set, and         *)
(* SetToSortSeq, for an order that is a set of pairs, written as functions *)
(* because the proofs must look into them.                                 *)
(***************************************************************************)
EXTENDS Integers, Sequences, FiniteSets

(* The elements of s that are in T, in their order.                        *)
Among(s, T) ==
    LET upTo[n \in 0..Len(s)] ==
          IF n = 0 THEN <<>>
          ELSE IF s[n] \in T THEN Append(upTo[n - 1], s[n]) ELSE upTo[n - 1]
    IN  upTo[Len(s)]

(* How many elements of S come before x, in the strict order R.            *)
Rank(S, R, x) == Cardinality({y \in S : <<y, x>> \in R})

(* The elements of S in that order.                                        *)
InOrder(S, R) == [i \in 1..Cardinality(S) |-> CHOOSE x \in S : Rank(S, R, x) = i - 1]
=============================================================================
