----------------------------- MODULE MCAccounts -----------------------------
(* Small instances of Accounts for TLC. *)
EXTENDS Accounts, TLC

CONSTANTS r1, r2, u1, u2, u3, u4, u5

(* Two administrators, a service account of their group, and two free keys. *)
SmallInitially ==
  LET row(name, kind, active) ==
        [name |-> name, kind |-> kind, groups |-> {"admin", "mail"},
         active |-> active, password |-> TRUE]
  IN  u1 :> row("ada", "internal", TRUE) @@ u2 :> row("bob", "internal", TRUE)
        @@ u3 :> row("bot", "service", TRUE) @@ u4 :> Absent @@ u5 :> Absent

(* "Eve" and "eve" are one name to EqualFold. *)
SmallNames == {"ada", "bob", "bot", "eve", "Eve"}
SmallFold == [n \in SmallNames |-> IF n = "Eve" THEN "eve" ELSE n]

(* One person created twice, the two administrators demoted and            *)
(* deactivated, and all that is done to a new account.                     *)
SmallAsked(by, want) ==
  CASE want.does = "create" -> <<by, want.name, want.role>> \in
         {<<"administrator", "Eve", "support">>, <<"delegate", "eve", "support">>}
    [] want.does = "password" -> want.user \in {u1, u4} /\ by = "delegate"
    [] want.user = u4 -> want.role = "admin" /\ want.active = "on"
    [] OTHER -> by = "administrator" /\ <<want.user, want.role, want.active>> \in
                  {<<u1, "support", "as is">>, <<u2, "as is", "off">>, <<u3, "as is", "off">>}
=============================================================================
