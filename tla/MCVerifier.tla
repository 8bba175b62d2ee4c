----------------------------- MODULE MCVerifier -----------------------------
(* Two requests at a time; a key of the start that has no kid, and one with *)
(* a kid that may follow it.                                                *)
EXTENDS Verifier, TLC

CONSTANTS r1, r2, k1, k2

Token(k, named, sound) == [key |-> k, named |-> named, sound |-> sound]

(* Good ones of either key, with and without a kid, and a bad one. *)
SomeTokens == {Token(k1, FALSE, TRUE), Token(k2, TRUE, TRUE), Token(k2, TRUE, FALSE),
               Token(k2, FALSE, TRUE)}

(* A deployment with one key, and tokens that do not name it. *)
NamelessTokens == {Token(k1, FALSE, TRUE)}

Symmetry == Permutations(Requests)
=============================================================================
