----------------------------- MODULE MCRefObject -----------------------------
(* RefObject for TLC: interchangeable values, and what the proofs assume of    *)
(* texts and keys, for all a client can ask within the bounds of the run.      *)
EXTENDS RefObject

ValueSymmetry == Permutations(Values)

Unvalued == {c \in ConditionTypes : c.value = Null}
AskedInRun == Askings({Tables(n) : n \in 0..MaxParts}, BoundedSeq(BoundedSeq(Unvalued, MaxConds), MaxParts))

ASSUME KeysAssumption == KeysFaithful(AskedInRun)
ASSUME PlacesAssumption == PlacesFit(AskedInRun)

==============================================================================
