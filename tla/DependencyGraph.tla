-------------------------- MODULE DependencyGraph --------------------------
(***************************************************************************)
(* The order in which save_changes visits the entity types: Kahn's         *)
(* algorithm as written in crates/core/src/dependency_graph.rs.            *)
(*                                                                         *)
(* navs[p][c] counts the HasMany and ManyToMany navigations from p to c:   *)
(* build() pushes p once for each of them onto the list of c's parents.    *)
(* Only the types a context has registered are nodes; a navigation may     *)
(* lead to a type that is not.  The metas, edges and in_degree are         *)
(* HashMaps, so every loop over one of them may run in any order.          *)
(***************************************************************************)
EXTENDS Naturals, Sequences, FiniteSets

CONSTANTS
  Types,    \* the entity types
  MaxNavs,  \* the most navigations from one type to another
  Models    \* the navigations to be sorted

ASSUME TypesAssumption == IsFiniteSet(Types)
ASSUME ModelsAssumption == /\ MaxNavs \in Nat
                           /\ Models \subseteq [Types -> [Types -> 0..MaxNavs]]

VARIABLES
  navs,     \* the model that is sorted
  nodes,    \* the types registered
  degree,   \* in_degree
  queue,    \* types with no unvisited principal
  result,   \* the order so far
  children, \* children of the type just popped that the inner loop has not seen
  pc        \* "start", "pop", "visit", "rest", "done"

vars == <<navs, nodes, degree, queue, result, children, pc>>

Elements(s) == {s[n] : n \in DOMAIN s}

\* The sequences that list the finite set S once.
Orders(S) == {s \in [1..Cardinality(S) -> S] : Elements(s) = S}

Parents(c) == {p \in nodes \ {c} : navs[p][c] > 0}

\* The types in_degree has a key for.
Known == nodes \cup {c \in Types : \E p \in nodes : navs[p][c] > 0}

\* The entries of c's list of parents that are not c itself.
Entries(c) == {e \in (nodes \ {c}) \X (1..MaxNavs) : e[2] <= navs[e[1]][c]}

InDegree(c) == Cardinality(Entries(c))

\* Mutant: a type without principals gets no degree.
Start_Sparse ==
    /\ pc = "start"
    /\ degree' = [c \in {t \in Types : InDegree(t) > 0} |-> InDegree(c)]
    /\ queue' \in Orders({c \in Known : InDegree(c) = 0})
    /\ pc' = "pop"
    /\ UNCHANGED <<navs, nodes, result, children>>

Start ==
    /\ pc = "start"
    /\ degree' = [c \in Types |-> InDegree(c)]
    /\ queue' \in Orders({c \in Known : InDegree(c) = 0})
    /\ pc' = "pop"
    /\ UNCHANGED <<navs, nodes, result, children>>

Pop ==
    /\ pc = "pop"
    /\ queue # <<>>
    /\ queue' = Tail(queue)
    /\ result' = Append(result, Head(queue))
    /\ children' = {c \in Types : Head(queue) \in Parents(c)}
    /\ pc' = "visit"
    /\ UNCHANGED <<navs, nodes, degree>>

\* Mutant: a child is queued although it waits for another principal.
Visit_Eager(c) ==
    /\ pc = "visit"
    /\ c \in children
    /\ children' = children \ {c}
    /\ degree' = [degree EXCEPT ![c] = IF @ > 0 THEN @ - 1 ELSE @]
    /\ queue' = IF c \notin Elements(result) \cup Elements(queue)
                THEN Append(queue, c) ELSE queue
    /\ UNCHANGED <<navs, nodes, result, pc>>

\* The degree drops by one for a principal, however often the child's list
\* names it.
Visit(c) ==
    /\ pc = "visit"
    /\ c \in children
    /\ children' = children \ {c}
    /\ degree' = [degree EXCEPT ![c] = IF @ > 0 THEN @ - 1 ELSE @]
    /\ queue' = IF degree'[c] = 0 /\ c \notin Elements(result) \cup Elements(queue)
                THEN Append(queue, c) ELSE queue
    /\ UNCHANGED <<navs, nodes, result, pc>>

VisitDone ==
    /\ pc = "visit"
    /\ children = {}
    /\ pc' = "pop"
    /\ UNCHANGED <<navs, nodes, degree, queue, result, children>>

\* Mutant: every type is appended at the end.
Rest_All ==
    /\ pc = "pop"
    /\ queue = <<>>
    /\ \E rest \in Orders(Types) : result' = result \o rest
    /\ pc' = "done"
    /\ UNCHANGED <<navs, nodes, degree, queue, children>>

\* Types that never reached degree 0 follow in the order of the node list.
Rest ==
    /\ pc = "pop"
    /\ queue = <<>>
    /\ \E rest \in Orders(nodes \ Elements(result)) : result' = result \o rest
    /\ pc' = "done"
    /\ UNCHANGED <<navs, nodes, degree, queue, children>>

Init ==
    /\ navs \in Models
    /\ nodes \in SUBSET Types
    /\ degree = [c \in Types |-> 0]
    /\ queue = <<>> /\ result = <<>> /\ children = {}
    /\ pc = "start"

Next == Start \/ Pop \/ (\E c \in Types : Visit(c)) \/ VisitDone \/ Rest

Spec == Init /\ [][Next]_vars

(***************************************************************************)
(* Properties.                                                             *)
(***************************************************************************)
TypeOK ==
    /\ navs \in Models
    /\ nodes \subseteq Types
    /\ degree \in [Types -> Nat]
    /\ queue \in Seq(Types) /\ result \in Seq(Types)
    /\ children \subseteq Types
    /\ pc \in {"start", "pop", "visit", "done"}

\* The sort visits every registered type exactly once, whatever the graph:
\* no set is skipped by a save and none is written twice.
EveryTypeOnce ==
    pc = "done" => /\ nodes \subseteq Elements(result)
                   /\ \A m, n \in DOMAIN result : result[m] = result[n] => m = n

Before(p, c) == \E m, n \in DOMAIN result : m < n /\ result[m] = p /\ result[n] = c

\* What leaves the queue is in order: every principal of a type that was
\* popped was popped before it, in every model.  Only the types that Rest
\* appends can be out of place.
PopsInOrder ==
    pc # "done" => \A c \in Elements(result) : \A p \in Parents(c) : Before(p, c)

\* A set of types that holds every principal of its members.
Closed(S) == \A d \in S : Parents(d) \subseteq S

\* The types c depends on, itself included when it is on a cycle: those in
\* every closed set that holds its principals.
Ancestors(c) ==
    {p \in nodes : \A S \in SUBSET nodes :
                       Parents(c) \subseteq S /\ Closed(S) => p \in S}

\* No type c depends on is on a cycle, and no principal is named twice.
Plain(c) == \A d \in {c} \cup Ancestors(c) :
                d \notin Ancestors(d) /\ Cardinality(Parents(d)) = InDegree(d)

\* A principal is ordered before its dependents where only single, acyclic
\* navigations lead to them, whatever the rest of the model is like: a child
\* is inserted when its foreign key is known, and deleted, in the reverse
\* order, before the row it refers to.
PlainPrincipalsFirst ==
    pc = "done" => \A c \in nodes : Plain(c) => \A p \in Parents(c) : Before(p, c)

\* The same for every dependent, unless it and the principal depend on each
\* other, as the head of the file has it.
PrincipalsFirst ==
    pc = "done" => \A c \in nodes : \A p \in Parents(c) :
                       c \notin Ancestors(p) => Before(p, c)

=============================================================================
