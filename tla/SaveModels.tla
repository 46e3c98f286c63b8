----------------------------- MODULE SaveModels -----------------------------
(***************************************************************************)
(* Entity models for the instances of SaveChanges: one type with two       *)
(* columns, two unrelated types, a blog that has many posts, and a node    *)
(* that has many nodes.                                                    *)
(***************************************************************************)
EXTENDS Integers

\* One type "item" with columns x and y.
ItemTypes == {"item"}
ItemCols  == [t \in ItemTypes |-> {"x", "y"}]
ItemOrder == <<"item">>
ItemSeeds == [t \in ItemTypes |-> [k \in 1..2 |-> [c \in {"x", "y"} |-> 0]]]

\* Two types that do not refer to each other.
TwoTypes == {"item", "note"}
TwoCols  == [t \in TwoTypes |-> {"x"}]
TwoOrder == <<"item", "note">>
TwoSeeds == [t \in TwoTypes |-> [k \in 1..1 |-> [c \in {"x"} |-> 0]]]

\* A blog has many posts; the column "fk" of a post names its blog.
BlogTypes == {"blog", "post"}
BlogCols  == [t \in BlogTypes |-> IF t = "post" THEN {"x", "fk"} ELSE {"x"}]
BlogNav   == {<<"blog", "post">>}
BlogOrder == <<"blog", "post">>
BlogSeeds == [t \in BlogTypes |->
                 IF t = "blog" THEN [k \in 1..2 |-> [c \in {"x"} |-> 0]]
                 ELSE [k \in 1..1 |-> [c \in {"x", "fk"} |-> IF c = "fk" THEN 1 ELSE 0]]]

\* A category has many categories.
TreeTypes == {"node"}
TreeCols  == [t \in TreeTypes |-> {"x", "fk"}]
TreeNav   == {<<"node", "node">>}
TreeOrder == <<"node">>
TreeSeeds == [t \in TreeTypes |->
                 [k \in 1..1 |-> [c \in {"x", "fk"} |-> IF c = "fk" THEN -1 ELSE 0]]]

NoNav == {}

\* Deletes cascade or set NULL, with and without a database that looks.
Policy(onDelete, enforced) == [onDelete |-> onDelete, enforced |-> enforced]
CascadeOnly == {Policy("Cascade", FALSE)}
ThreePolicies == {Policy("Cascade", FALSE), Policy("Cascade", TRUE), Policy("SetNull", FALSE)}
=============================================================================
