-------------------------- MODULE MCConcatenation ---------------------------
(***************************************************************************)
(* Model checking of concatenations.  No action tells the partial uploads  *)
(* apart.                                                                  *)
(***************************************************************************)
EXTENDS Concatenation

Symmetry == Permutations(Partials)

(* A behaviour is followed from parseConcat, which reads nothing but its   *)
(* request and so may as well come first, to the response, with the        *)
(* uploads that are on the list.                                           *)
UnderWay ==
  \A f \in Finals :
    /\ post[f].pc \notin {"done", "failed"}
    /\ \A p \in Partials : meant[p] # None => \E i \in 1..Len(post[f].list) : post[f].list[i] = p
=============================================================================
