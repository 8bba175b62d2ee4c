------------------------------ MODULE MCSupport ------------------------------
(* Small instances of Support for TLC. *)
EXTENDS Support, TLC

CONSTANTS h1, h2, i1

(* One severity with both targets and one with a resolution target only. *)
SmallRespond == [high |-> 1, low |-> 0]
SmallResolve == [high |-> 2, low |-> 2]

Interchangeable == Permutations(Handlers)
=============================================================================
