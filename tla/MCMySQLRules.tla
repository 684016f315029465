----------------------------- MODULE MCMySQLRules -----------------------------
(***************************************************************************)
(* Instances of MySQLRules for TLC.                                        *)
(***************************************************************************)
EXTENDS MySQLRules

\* The first rule needs two samples each way, the others one.
TwoThenOne == [r \in Rules |-> IF r = 1 THEN 2 ELSE 1]

=============================================================================
