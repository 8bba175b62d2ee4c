---------------------------- MODULE MCOperations ----------------------------
(* Small instances of Operations for TLC. *)
EXTENDS Operations, TLC

CONSTANTS r1, r2, s1, u1, u2, p1

(* Two events about the server and one that says nothing of it.  Two are    *)
(* notified of, in tables that disagree both ways.                         *)
SmallVocabulary ==
  "server.error" :> [severity |-> 3, status |-> "error"]
    @@ "server.ok" :> [severity |-> 1, status |-> "ok"]
    @@ "backup.failed" :> [severity |-> 2, status |-> NoStatus]
SmallMappings ==
  "server.error" :> [severity |-> 2, audience |-> p1]
    @@ "backup.failed" :> [severity |-> 3, audience |-> p1]
TwoEvents ==
  "server.error" :> [severity |-> 3, status |-> "error"]
    @@ "backup.failed" :> [severity |-> 2, status |-> NoStatus]
SmallAuthorities == {{}, {p1}}
Symmetry == Permutations({r1, r2})
=============================================================================
