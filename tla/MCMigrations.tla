---------------------------- MODULE MCMigrations ----------------------------
(***************************************************************************)
(* Ways to use the migrations of a project, and orders of their ids.       *)
(***************************************************************************)
EXTENDS Migrations, SchemaModels

Both == {"alice", "bob"}

Setting(who, what, failures) == [appliers |-> who, ops |-> what, faults |-> failures]

\* One operator applies and reverts while the database may fail; or two
\* instances of a program apply at startup.
OperatorOrStartup == {Setting({"alice"}, AllOps, {"apply"}), Setting(Both, {"apply"}, {})}
Applying == {Setting({"alice"}, {"apply"}, {})}
Reverting == {Setting({"alice"}, {"apply", "revert_last"}, {})}
Starting == {Setting(Both, {"apply"}, {})}

\* Ids that sort as they were created, and the other way.
InOrder == [n \in 1..3 |-> n]
Backwards == [n \in 1..3 |-> 4 - n]
=============================================================================
