----------------------------- MODULE Selections -----------------------------
(***************************************************************************)
(* Sequences made of some of the elements of another one, told by the      *)
(* places they come from.                                                  *)
(***************************************************************************)
EXTENDS Integers, SequencesExt

(* The elements of s at the positions I, in the order of their places, no  *)
(* two of which are equal.                                                 *)
Arranged(s, I, place) ==
  [n \in 1..Cardinality(I) |->
     s[CHOOSE i \in I : Cardinality({j \in I : place[j] <= place[i]}) = n]]

At(s, I) == Arranged(s, I, [i \in I |-> i])
Filter(s, Test(_)) == At(s, {i \in DOMAIN s : Test(s[i])})

(* A stable sort: how many elements are not behind each one is its place.  *)
SortedBy(s, Before(_, _)) ==
  Arranged(s, DOMAIN s,
    [i \in DOMAIN s |->
       Cardinality({j \in DOMAIN s : Before(s[j], s[i]) \/ (~Before(s[i], s[j]) /\ j <= i)})])
=============================================================================
