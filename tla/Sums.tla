---------------------------------- MODULE Sums ----------------------------------
(***************************************************************************)
(* SUM(amount) over a set of rows.  Every unit of every row is one element *)
(* of Units, so that a sum is a cardinality.                               *)
(***************************************************************************)
EXTENDS Integers, FiniteSets

Units(S, amount) == UNION {{x} \X (1..amount[x]) : x \in S}

Total(S, amount) == Cardinality(Units(S, amount))

=============================================================================
