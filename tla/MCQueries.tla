------------------------------ MODULE MCQueries ------------------------------
(* A small blog table in which every combination that a condition can tell    *)
(* apart occurs: ratings with NULL, hidden rows, no post, posts of one and of *)
(* both scores.                                                               *)
EXTENDS Queries

BlogTable ==
    {[id |-> 1, rating |-> Null, deleted |-> 0], [id |-> 2, rating |-> 1, deleted |-> 0],
     [id |-> 3, rating |-> 2, deleted |-> 0],    [id |-> 4, rating |-> 2, deleted |-> 1],
     [id |-> 5, rating |-> 1, deleted |-> 1]}

PostTable ==
    {[blog_id |-> 2, score |-> 1], [blog_id |-> 3, score |-> 1], [blog_id |-> 3, score |-> 2],
     [blog_id |-> 4, score |-> 2]}

Rated(op, v)  == Test("rating", op, <<v>>)
Scored(op, v) == Test("score", op, <<v>>)
NotHidden     == Not(Member("deleted"))

NoCalls == [where |-> 0, order |-> 0, skip |-> 0, take |-> 0, distinct |-> 0, group |-> 0,
            having |-> 0, with |-> 0, from |-> 0, join |-> 0, set |-> 0]

\* Conditions; pages; groups; tables expressions, joins and set operations.
Menus == {[NoCalls EXCEPT !.where = 2],
          [NoCalls EXCEPT !.where = 1, !.order = 1, !.skip = 1, !.take = 1, !.distinct = 1],
          [NoCalls EXCEPT !.where = 1, !.with = 1, !.from = 1, !.group = 1, !.having = 2],
          [NoCalls EXCEPT !.where = 1, !.join = 1, !.order = 2, !.take = 1],
          [NoCalls EXCEPT !.where = 1, !.with = 1, !.set = 1]}

EverySetup ==
    [dialect : {"sqlite", "mysql", "postgres"}, filter : {NoBody, NotHidden}, menu : Menus]

\* Bodies whose || stands on the left of every &&.
PlainBodies ==
    {Rated(">", 1), Not(Rated("=", 1)), Test("rating", "IN", <<1, 2>>),
     Related("any", Scored(">", 1)), Not(Related("all", Scored("=", 1))), Not(InSubquery("id")),
     And(Or(Rated("=", 1), Related("none", Scored("=", 2))), Test("id", "BETWEEN", <<2, 4>>)),
     Not(And(Or(Test("rating", "IN", <<2>>), Member("deleted")), Rated("=", 1)))}

SmallBodies  == {Rated("=", 1), Or(Rated("=", 2), Member("deleted"))}
GroupBodies  == {Test("count", ">", <<1>>), Or(Test("max", "=", <<5>>), Not(Test("count", "=", <<2>>)))}

OrOnTheRight == {And(Rated("=", 2), Or(Member("deleted"), Rated("=", 1)))}
TopLevelOr   == {Or(Rated("=", 2), Rated("=", 1))}
OrInExists   == {Related("any", Or(Scored("=", 1), Scored("=", 2)))}
=============================================================================
