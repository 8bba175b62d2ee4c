---------------------------- MODULE MCGlobalIDs ----------------------------
EXTENDS GlobalIDs, TLC

CONSTANTS r1, r2, r3, k1, k2

(* The requests are served by one process, or by one process each. *)
Together == [r \in Requests |-> "core1"]
Apart == [r \in Requests |-> IF r = r1 THEN "core1" ELSE "core2"]

(* A page of two records, one of them alone, the other as an identity. *)
SomeCalls ==
  {[op |-> "create", keys |-> {k1}], [op |-> "map", keys |-> {k1, k2}],
   [op |-> "identity", keys |-> {k2}]}
CallsForOne == {[op |-> o, keys |-> {k1}] : o \in Ops}

(* r2 and r3 are served by the same process. *)
Interchangeable == Permutations({r2, r3})
=============================================================================
