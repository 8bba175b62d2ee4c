--------------------------- MODULE MCModuleCatalog ---------------------------
(* A catalogue with one module of each kind, two builds that differ in one *)
(* file, and two Cores.                                                    *)
EXTENDS ModuleCatalog

MCPolicy == [m \in Legacy |-> Roles]
MCSourceOf == [m \in Derived |-> CHOOSE l \in Legacy : TRUE]
MCBodyOf ==
  [b \in Builds |-> [f \in FileNames |->
     IF f = "016_nextcloud_module" THEN b ELSE CHOOSE x \in Builds : TRUE]]
=============================================================================
