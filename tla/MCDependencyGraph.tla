------------------------- MODULE MCDependencyGraph -------------------------
(***************************************************************************)
(* Families of entity models for DependencyGraph.                          *)
(***************************************************************************)
EXTENDS DependencyGraph

Three == {"blog", "post", "tag"}

\* Rank in a fixed order, so that navigations lead from lower to higher.
Rank(t) == CASE t = "blog" -> 1 [] t = "post" -> 2 [] t = "tag" -> 3

\* Cycles of any length and self-references; and up to two navigations from
\* lower to higher, with one pair that may refer to each other.
SingleModels == [Three -> [Three -> 0..1]]
RepeatedModels ==
    {f \in [Three -> [Three -> 0..2]] :
        \A p, c \in Three : f[p][c] > 0 => Rank(p) < Rank(c) \/ <<p, c>> = <<"post", "blog">>}

AllModels == SingleModels \cup RepeatedModels
=============================================================================
