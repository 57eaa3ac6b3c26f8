----------------------------- MODULE MCBackOffice ----------------------------
(***************************************************************************)
(* BackOffice on small instances: values that a configuration cannot write.*)
(***************************************************************************)
EXTENDS BackOffice

CONSTANTS s1, s2, o1, o2

(* Handlers are told apart by nothing, and no property is a liveness one.  *)
MCSymmetry == Permutations(Handlers)

MCAreas == {{s1}, {s1, s2}}
MCDistanceOf == s1 :> 5 @@ s2 :> 20
MCTierTables ==
  {<<[maxMeters |-> 10, fee |-> 1], [maxMeters |-> None, fee |-> 2]>>}

MCOptionIds == [k \in Kinds |-> IF k = "friesTypes" THEN {o1, o2} ELSE {o1}]

MCPriceOf == [o \in Options |-> 3]
MCDiscounts ==
  {[percentage |-> TRUE, value |-> 2500, minimum |-> 14],
   [percentage |-> FALSE, value |-> 20, minimum |-> NoValue]}

MCBannerDtos == {[start |-> 2], [end |-> 1], [end |-> 3]}

=============================================================================
