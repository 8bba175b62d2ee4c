------------------------------ MODULE MCAccess ------------------------------
(* One caller: without a role, with one that reads, with the confined one,  *)
(* which reads as well.  A server of a customer and an incident of nobody.  *)
EXTENDS Access

CONSTANTS a1, a2, u1, c1, s1, i1, customer, reader

SomeRoleGives == [role \in Roles |-> {"read"}]
SomeRanking ==
    [found \in SUBSET Records |-> SelectSeq(<<s1, i1>>, LAMBDA record : record \in found)]

GrantTo(type, id) == [caller |-> u1, scope |-> [type |-> type, id |-> id]]
OfClient == {GrantTo("client", c1)}
OfBoth == OfClient \union {GrantTo("resource", i1)}
AlwaysConfined == {{customer}}
SomeHoldings == {{}, {reader}, {customer}}
=============================================================================
