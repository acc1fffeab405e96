------------------------------- MODULE Places -------------------------------
(***************************************************************************)
(* What is left of a list when only some of its places stay, in the order  *)
(* of the list: Array.prototype.filter, by what it returns; and numbers in *)
(* rising order.                                                           *)
(***************************************************************************)
EXTENDS Integers, FiniteSets

Only(seq, stay) ==
  LET place(n) == CHOOSE i \in stay : Cardinality({j \in stay : j < i}) = n - 1
  IN [n \in 1..Cardinality(stay) |-> seq[place(n)]]

Rising(numbers) ==
  [n \in 1..Cardinality(numbers) |-> CHOOSE i \in numbers : Cardinality({j \in numbers : j < i}) = n - 1]
=============================================================================
