-------------------------- MODULE MCRelationships --------------------------
(* Small instances of Relationships for TLC. *)
EXTENDS Relationships, TLC

CONSTANTS r1, r2, r3, ua, ub, ux

SmallRelations == {"tests", "related-to"}
SmallInverse == "tests" :> "tested-by" @@ "related-to" :> "related-to"

(* One fact in both spellings, another of the undirected relation, an edge *)
(* to a Global ID that does not exist and one from a Global ID to itself.  *)
SmallAsked(ask) ==
  \/ ask.does = "delete" /\ ask.id <= 2
  \/ /\ ask.does = "create"
     /\ <<ask.from, ask.label, ask.to>> \in
          {<<ua, "tests", ub>>, <<ub, "tested-by", ua>>, <<ub, "related-to", ua>>,
           <<ua, "tests", ux>>, <<ua, "tests", ua>>}
  \/ ask = [does |-> "lookup", from |-> ub, label |-> "tested-by", to |-> ua]

Symmetry == Permutations({r1, r2, r3})
=============================================================================
