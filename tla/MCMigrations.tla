---------------------------- MODULE MCMigrations ----------------------------
(***************************************************************************)
(* A bounded instance of Migrations for TLC: file 3 needs file 2, as 0014 needs *)
(* 0013.                                                                      *)
(***************************************************************************)
EXTENDS Migrations

MCNeeds == [f \in File |-> IF f = 3 THEN {2} ELSE {}]
=============================================================================
