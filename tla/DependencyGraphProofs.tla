----------------------- MODULE DependencyGraphProofs -----------------------
(***************************************************************************)
(* For every finite set of types and every model of them, with cycles,     *)
(* self-references and repeated navigations: the sort is type correct,     *)
(* lists every type once, pops a type only after its principals, and lists *)
(* after its principals every type that no cycle reaches.                  *)
(***************************************************************************)
EXTENDS DependencyGraph, FiniteSetTheorems, NaturalLemmas, TLAPS

(***************************************************************************)
(* Lemmas about sequences and about the list of parents.                   *)
(***************************************************************************)

\* What Append does to the elements of a sequence.
LEMMA ElementsOfAppend ==
  ASSUME NEW S, NEW s \in Seq(S), NEW x \in S
  PROVE  /\ Append(s, x) \in Seq(S)
         /\ Elements(Append(s, x)) = Elements(s) \cup {x}
         /\ Len(Append(s, x)) = Len(s) + 1
         /\ \A n \in DOMAIN s : Append(s, x)[n] = s[n]
         /\ Append(s, x)[Len(s) + 1] = x
         /\ DOMAIN Append(s, x) = DOMAIN s \cup {Len(s) + 1}
  BY DEF Elements

\* A non-empty sequence is its head followed by its tail.
LEMMA ElementsOfTail ==
  ASSUME NEW S, NEW s \in Seq(S), s # <<>>
  PROVE  /\ Head(s) \in S /\ Tail(s) \in Seq(S)
         /\ Elements(s) = {Head(s)} \cup Elements(Tail(s))
         /\ Len(Tail(s)) = Len(s) - 1
         /\ \A n \in DOMAIN Tail(s) : Tail(s)[n] = s[n + 1]
  <1>1. /\ Head(s) \in S /\ Tail(s) \in Seq(S) /\ Len(Tail(s)) = Len(s) - 1
        /\ \A n \in DOMAIN Tail(s) : Tail(s)[n] = s[n + 1]
        /\ Head(s) = s[1] /\ Len(s) \in Nat \ {0}
    OBVIOUS
  <1>2. DOMAIN s = 1..Len(s) /\ DOMAIN Tail(s) = 1..(Len(s) - 1)
    BY <1>1
  <1>3. Elements(s) \subseteq {Head(s)} \cup Elements(Tail(s))
    <2> SUFFICES ASSUME NEW n \in DOMAIN s, s[n] # Head(s)
                 PROVE  s[n] \in Elements(Tail(s))
      BY DEF Elements
    <2>1. n - 1 \in DOMAIN Tail(s) /\ Tail(s)[n - 1] = s[n]
      BY <1>1, <1>2
    <2> QED BY <2>1 DEF Elements
  <1>4. {Head(s)} \cup Elements(Tail(s)) \subseteq Elements(s)
    <2>1. \A n \in DOMAIN Tail(s) : n + 1 \in DOMAIN s /\ Tail(s)[n] = s[n + 1]
      BY <1>1, <1>2
    <2>2. 1 \in DOMAIN s /\ s[1] = Head(s)
      BY <1>1, <1>2
    <2> QED BY <2>1, <2>2 DEF Elements
  <1> QED BY <1>1, <1>3, <1>4

\* A list of the finite set S by Cardinality(S) positions repeats nothing.
LEMMA OrdersListOnce ==
  ASSUME NEW S, IsFiniteSet(S), NEW s \in Orders(S)
  PROVE  /\ s \in Seq(S) /\ Len(s) = Cardinality(S) /\ Elements(s) = S
         /\ \A m, n \in DOMAIN s : s[m] = s[n] => m = n
  <1>1. Cardinality(S) \in Nat
    BY FS_CardinalityType
  <1>2. s \in [1..Cardinality(S) -> S] /\ Elements(s) = S
    BY DEF Orders
  <1>3. IsFiniteSet(1..Cardinality(S)) /\ Cardinality(1..Cardinality(S)) = Cardinality(S)
    BY <1>1, FS_Interval
  <1>4. s \in Surjection(1..Cardinality(S), S)
    BY <1>2 DEF Surjection, Elements
  <1>5. s \in Injection(1..Cardinality(S), S)
    BY <1>3, <1>4, FS_SurjSameCardinalityImpliesInj
  <1> QED BY <1>1, <1>2, <1>5 DEF Injection, IsInjective

\* A type is listed at least once by each of its principals, so its degree
\* starts no lower than the number of them.
LEMMA DegreeBoundsParents ==
  ASSUME NEW c \in Types, navs \in Models, nodes \subseteq Types
  PROVE  /\ IsFiniteSet(Parents(c))
         /\ InDegree(c) \in Nat
         /\ Cardinality(Parents(c)) <= InDegree(c)
  <1>1. /\ IsFiniteSet(nodes \ {c}) /\ IsFiniteSet(1..MaxNavs)
        /\ navs \in [Types -> [Types -> 0..MaxNavs]] /\ MaxNavs \in Nat
    <2>1. navs \in [Types -> [Types -> 0..MaxNavs]] /\ MaxNavs \in Nat
      BY ModelsAssumption
    <2>2. IsFiniteSet(nodes \ {c})
      BY TypesAssumption, FS_Subset
    <2>3. IsFiniteSet(1..MaxNavs)
      BY <2>1, FS_Interval
    <2> QED BY <2>1, <2>2, <2>3
  <1>2. IsFiniteSet((nodes \ {c}) \X (1..MaxNavs))
    BY <1>1, FS_Product
  <1>3. IsFiniteSet(Entries(c))
    <2>1. Entries(c) \in SUBSET ((nodes \ {c}) \X (1..MaxNavs))
      BY DEF Entries
    <2> QED BY <1>2, <2>1, FS_Subset
  <1>4. InDegree(c) \in Nat
    BY <1>3, FS_CardinalityType DEF InDegree
  <1> DEFINE first == [p \in Parents(c) |-> <<p, 1>>]
  <1>5. first \in Injection(Parents(c), Entries(c))
    <2>1. ASSUME NEW p \in Parents(c)
          PROVE  <<p, 1>> \in Entries(c)
      <3>1. p \in nodes \ {c} /\ p \in Types /\ navs[p][c] \in 0..MaxNavs /\ navs[p][c] > 0
        BY <1>1 DEF Parents
      <3>2. 1 \in 1..MaxNavs /\ 1 <= navs[p][c]
        BY <3>1, <1>1
      <3> QED BY <3>1, <3>2 DEF Entries
    <2>2. first \in [Parents(c) -> Entries(c)]
      BY <2>1
    <2>3. \A p, q \in Parents(c) : first[p] = first[q] => p = q
      OBVIOUS
    <2> QED BY <2>2, <2>3 DEF Injection, IsInjective
  <1>6. IsFiniteSet(Parents(c)) /\ Cardinality(Parents(c)) <= Cardinality(Entries(c))
    BY <1>3, <1>5, FS_Injection
  <1> QED BY <1>4, <1>6 DEF InDegree

(***************************************************************************)
(* The inductive invariant.  Waiting(c) are the principals whose visit of  *)
(* c is still to come; the degree of c never drops below their number, so  *)
(* a type whose degree is 0 waits for nobody.                              *)
(***************************************************************************)
Last == result[Len(result)]

Waiting(c) == (Parents(c) \ Elements(result)) \cup (IF c \in children THEN {Last} ELSE {})

Distinct(s) == \A m, n \in DOMAIN s : s[m] = s[n] => m = n

VisitOk ==
    /\ pc # "visit" => children = {}
    /\ children # {} => result # <<>>
    /\ \A c \in children : Last \in Parents(c)

DegreeOk ==
    pc \in {"pop", "visit"} =>
        \A c \in Types : IsFiniteSet(Waiting(c)) /\ Cardinality(Waiting(c)) <= degree[c]

QueueOk ==
    /\ Distinct(queue)
    /\ pc # "done" => Elements(queue) \cap Elements(result) = {}
    /\ pc # "done" => \A c \in Elements(queue) : Parents(c) \subseteq Elements(result)

ResultOk ==
    /\ Distinct(result)
    /\ pc = "start" => result = <<>> /\ queue = <<>>
    /\ pc = "done" => nodes \subseteq Elements(result)

Inv == TypeOK /\ VisitOk /\ DegreeOk /\ QueueOk /\ ResultOk /\ PopsInOrder

LEMMA InitInv == Init => Inv
  <1> SUFFICES ASSUME Init PROVE Inv
    OBVIOUS
  <1>1. Elements(<<>>) = {}
    BY DEF Elements
  <1>2. TypeOK
    BY DEF Init, TypeOK
  <1> QED BY <1>1, <1>2 DEF Init, Inv, VisitOk, DegreeOk, QueueOk, ResultOk, PopsInOrder, Distinct

\* Parents depends only on the model, which no step changes.
LEMMA StepInv == Inv /\ [Next]_vars => Inv'
  <1> SUFFICES ASSUME Inv, [Next]_vars PROVE Inv'
    OBVIOUS
  <1> USE DEF Inv
  <1>a. /\ navs \in Models /\ nodes \subseteq Types /\ degree \in [Types -> Nat]
        /\ queue \in Seq(Types) /\ result \in Seq(Types) /\ children \subseteq Types
    BY DEF TypeOK
  <1>b. navs' = navs /\ nodes' = nodes
    BY DEF Next, Start, Pop, Visit, VisitDone, Rest, vars
  <1>c. \A c : Parents(c)' = Parents(c)
    BY <1>b DEF Parents
  <1>d. Elements(<<>>) = {}
    BY DEF Elements
  <1>1. CASE Start
    <2> DEFINE zero == {c \in Known : InDegree(c) = 0}
    <2>1. /\ pc = "start" /\ pc' = "pop" /\ result' = <<>> /\ result = <<>> /\ children' = {}
          /\ degree' = [c \in Types |-> InDegree(c)] /\ queue' \in Orders(zero)
      BY <1>1 DEF Start, ResultOk, VisitOk
    <2>2. IsFiniteSet(zero)
      <3>1. zero \in SUBSET Types
        BY <1>a DEF Known
      <3> QED BY <3>1, TypesAssumption, FS_Subset
    <2>3. queue' \in Seq(zero) /\ Elements(queue') = zero /\ Distinct(queue')
      BY <2>1, <2>2, OrdersListOnce DEF Distinct
    <2>4. queue' \in Seq(Types)
      BY <2>3, <1>a DEF Known
    <2>5. \A c \in Types : Waiting(c)' = Parents(c)
      BY <2>1, <1>c, <1>d DEF Waiting
    <2>6. TypeOK'
      BY <2>1, <2>4, <1>a, <1>b, DegreeBoundsParents DEF TypeOK
    <2>7. DegreeOk'
      BY <2>1, <2>5, <1>a, DegreeBoundsParents DEF DegreeOk
    <2>8. \A c \in zero : Parents(c) = {}
      <3> SUFFICES ASSUME NEW c \in zero PROVE Parents(c) = {}
        OBVIOUS
      <3>1. /\ IsFiniteSet(Parents(c)) /\ Cardinality(Parents(c)) <= 0
        BY <1>a, DegreeBoundsParents DEF Known
      <3>2. Cardinality(Parents(c)) = 0
        BY <3>1, FS_CardinalityType
      <3> QED BY <3>1, <3>2, FS_EmptySet
    <2>9. QueueOk'
      BY <2>1, <2>3, <2>8, <1>c, <1>d DEF QueueOk, Distinct
    <2> QED BY <2>1, <2>6, <2>7, <2>9, <1>d DEF VisitOk, ResultOk, PopsInOrder, Distinct
  <1>2. CASE Pop
    <2> DEFINE h == Head(queue)
    <2>1. /\ pc = "pop" /\ pc' = "visit" /\ queue # <<>> /\ queue' = Tail(queue)
          /\ result' = Append(result, h) /\ degree' = degree
          /\ children' = {c \in Types : h \in Parents(c)} /\ children = {}
      BY <1>2 DEF Pop, VisitOk
    <2>2. /\ h \in Types /\ queue' \in Seq(Types)
          /\ Elements(queue) = {h} \cup Elements(queue')
          /\ Len(queue') = Len(queue) - 1
          /\ \A n \in DOMAIN queue' : queue'[n] = queue[n + 1]
      BY <2>1, <1>a, ElementsOfTail
    <2>3. /\ result' \in Seq(Types)
          /\ Elements(result') = Elements(result) \cup {h}
          /\ Len(result') = Len(result) + 1
          /\ \A n \in DOMAIN result : result'[n] = result[n]
          /\ result'[Len(result) + 1] = h
          /\ DOMAIN result' = DOMAIN result \cup {Len(result) + 1}
      BY <2>1, <2>2, <1>a, ElementsOfAppend
    <2>4. h \notin Elements(result) /\ Parents(h) \subseteq Elements(result)
      BY <2>1, <2>2 DEF QueueOk
    <2>5. Last' = h
      BY <2>3 DEF Last
    <2>6. \A c \in Types : Waiting(c)' = Waiting(c)
      BY <2>1, <2>3, <2>4, <2>5, <1>c DEF Waiting
    <2>7. TypeOK'
      BY <2>1, <2>2, <2>3, <1>a, <1>b DEF TypeOK
    <2>8. VisitOk'
      BY <2>1, <2>3, <2>5, <1>c, <1>a DEF VisitOk
    <2>9. DegreeOk'
      BY <2>1, <2>6 DEF DegreeOk
    <2>10. Distinct(queue') /\ h \notin Elements(queue')
      <3>1. DOMAIN queue = 1..Len(queue) /\ Len(queue) \in Nat /\ Len(queue) > 0 /\ h = queue[1]
        BY <2>1, <1>a
      <3>2. DOMAIN queue' = 1..Len(queue')
        BY <2>2
      <3>3. \A n \in DOMAIN queue' : n + 1 \in DOMAIN queue /\ n + 1 # 1
        BY <3>1, <3>2, <2>2
      <3>4. h \notin Elements(queue')
        BY <3>1, <3>3, <2>2 DEF QueueOk, Distinct, Elements
      <3>5. \A m, n \in DOMAIN queue' : queue'[m] = queue'[n] => m + 1 = n + 1
        BY <3>3, <2>2 DEF QueueOk, Distinct
      <3>6. DOMAIN queue' \subseteq Nat
        BY <3>2
      <3> QED BY <3>4, <3>5, <3>6 DEF Distinct
    <2>11. QueueOk'
      BY <2>1, <2>2, <2>3, <2>10, <1>c DEF QueueOk
    <2>12. Distinct(result')
      <3>1. \A n \in DOMAIN result : result'[n] \in Elements(result) /\ n # Len(result) + 1
        BY <2>3, <1>a DEF Elements
      <3> QED BY <3>1, <2>3, <2>4 DEF ResultOk, Distinct
    <2>13. ResultOk'
      BY <2>1, <2>12 DEF ResultOk
    <2>14. PopsInOrder'
      <3> SUFFICES ASSUME NEW c \in Elements(result'), NEW p \in Parents(c)
                   PROVE  Before(p, c)'
        BY <1>c DEF PopsInOrder
      <3>1. CASE c \in Elements(result)
        <4>1. Before(p, c)
          BY <3>1, <2>1 DEF PopsInOrder
        <4> QED BY <4>1, <2>3 DEF Before
      <3>2. CASE c = h
        <4>1. PICK m \in DOMAIN result : result[m] = p
          BY <3>2, <2>4 DEF Elements
        <4>2. m < Len(result) + 1
          BY <1>a
        <4> QED BY <3>2, <4>1, <4>2, <2>3 DEF Before
      <3> QED BY <3>1, <3>2, <2>3
    <2> QED BY <2>7, <2>8, <2>9, <2>11, <2>13, <2>14
  <1>3. CASE \E c \in Types : Visit(c)
    <2> PICK c \in Types : Visit(c)
      BY <1>3
    <2>1. /\ pc = "visit" /\ pc' = "visit" /\ c \in children /\ children' = children \ {c}
          /\ degree' = [degree EXCEPT ![c] = IF @ > 0 THEN @ - 1 ELSE @]
          /\ result' = result
          /\ queue' = IF degree'[c] = 0 /\ c \notin Elements(result) \cup Elements(queue)
                      THEN Append(queue, c) ELSE queue
      BY DEF Visit
    <2>2. degree' \in [Types -> Nat]
      BY <2>1, <1>a
    <2>3. Last' = Last /\ Last \in Parents(c) /\ result # <<>> /\ Last \in Elements(result)
      BY <2>1, <1>a DEF VisitOk, Last, Elements
    <2>4. Waiting(c)' = Waiting(c) \ {Last}
      BY <2>1, <2>3, <1>c DEF Waiting
    <2>5. \A d \in Types \ {c} : Waiting(d)' = Waiting(d) /\ degree'[d] = degree[d]
      BY <2>1, <2>3, <1>a, <1>c DEF Waiting
    <2>6. IsFiniteSet(Waiting(c)') /\ Cardinality(Waiting(c)') <= degree'[c]
      <3>1. IsFiniteSet(Waiting(c)) /\ Cardinality(Waiting(c)) <= degree[c] /\ Last \in Waiting(c)
        BY <2>1 DEF DegreeOk, Waiting
      <3>2. /\ IsFiniteSet(Waiting(c) \ {Last})
            /\ Cardinality(Waiting(c) \ {Last}) = Cardinality(Waiting(c)) - 1
        BY <3>1, FS_RemoveElement
      <3>3. Cardinality(Waiting(c)) \in Nat /\ Cardinality(Waiting(c) \ {Last}) \in Nat
        BY <3>1, <3>2, FS_CardinalityType
      <3>4. degree[c] \in Nat /\ degree[c] > 0
        BY <3>1, <3>2, <3>3, <1>a
      <3>5. degree'[c] = degree[c] - 1
        BY <3>4, <2>1, <1>a
      <3> QED BY <3>1, <3>2, <3>3, <3>4, <3>5, <2>4
    <2>7. DegreeOk'
      BY <2>1, <2>5, <2>6 DEF DegreeOk
    <2>8. degree'[c] = 0 => Parents(c) \subseteq Elements(result)
      <3> SUFFICES ASSUME degree'[c] = 0 PROVE Parents(c) \subseteq Elements(result)
        OBVIOUS
      <3>1. Cardinality(Waiting(c)') = 0
        BY <2>6, FS_CardinalityType
      <3>2. Waiting(c)' = {}
        BY <3>1, <2>6, FS_EmptySet
      <3> QED BY <3>2, <2>1, <1>c DEF Waiting
    <2>9. CASE queue' = queue
      <3>1. TypeOK'
        BY <2>1, <2>2, <2>9, <1>a, <1>b DEF TypeOK
      <3>2. VisitOk' /\ QueueOk' /\ ResultOk' /\ PopsInOrder'
        BY <2>1, <2>3, <2>9, <1>c DEF VisitOk, QueueOk, ResultOk, PopsInOrder, Before
      <3> QED BY <3>1, <3>2, <2>7
    <2>10. CASE queue' # queue
      <3>1. queue' = Append(queue, c) /\ degree'[c] = 0 /\ c \notin Elements(result) \cup Elements(queue)
        BY <2>1, <2>10
      <3>2. /\ queue' \in Seq(Types)
            /\ Elements(queue') = Elements(queue) \cup {c}
            /\ \A n \in DOMAIN queue : queue'[n] = queue[n]
            /\ queue'[Len(queue) + 1] = c
            /\ DOMAIN queue' = DOMAIN queue \cup {Len(queue) + 1}
        BY <3>1, <1>a, ElementsOfAppend
      <3>3. Distinct(queue')
        <4>1. \A n \in DOMAIN queue : queue'[n] \in Elements(queue) /\ n # Len(queue) + 1
          BY <3>2, <1>a DEF Elements
        <4> QED BY <4>1, <3>1, <3>2 DEF QueueOk, Distinct
      <3>4. QueueOk'
        BY <3>1, <3>2, <3>3, <2>1, <2>8, <1>c DEF QueueOk
      <3>5. TypeOK'
        BY <2>1, <2>2, <3>2, <1>a, <1>b DEF TypeOK
      <3>6. VisitOk' /\ ResultOk' /\ PopsInOrder'
        BY <2>1, <2>3, <1>c DEF VisitOk, ResultOk, PopsInOrder, Before
      <3> QED BY <3>4, <3>5, <3>6, <2>7
    <2> QED BY <2>9, <2>10
  <1>4. CASE VisitDone
    <2>1. /\ pc = "visit" /\ pc' = "pop" /\ children = {} /\ UNCHANGED <<navs, nodes, degree, queue, result, children>>
      BY <1>4 DEF VisitDone
    <2>2. \A c : Waiting(c)' = Waiting(c)
      BY <2>1, <1>c DEF Waiting, Last
    <2> QED BY <2>1, <2>2, <1>c DEF TypeOK, VisitOk, DegreeOk, QueueOk, ResultOk, PopsInOrder, Before, Last
  <1>5. CASE Rest
    <2> DEFINE left == nodes \ Elements(result)
    <2>1. /\ pc = "pop" /\ pc' = "done" /\ queue = <<>> /\ queue' = queue /\ degree' = degree
          /\ children' = children /\ children = {}
      BY <1>5 DEF Rest, VisitOk
    <2>2. PICK rest \in Orders(left) : result' = result \o rest
      BY <1>5 DEF Rest
    <2>3. IsFiniteSet(left)
      <3>1. left \in SUBSET Types
        BY <1>a
      <3> QED BY <3>1, TypesAssumption, FS_Subset
    <2>4. rest \in Seq(left) /\ Elements(rest) = left /\ Distinct(rest)
      BY <2>2, <2>3, OrdersListOnce DEF Distinct
    <2>5. rest \in Seq(Types)
      BY <2>4, <1>a
    <2>6. /\ result' \in Seq(Types) /\ Len(result') = Len(result) + Len(rest)
          /\ \A n \in 1..Len(result) : result'[n] = result[n]
          /\ \A n \in 1..Len(rest) : result'[Len(result) + n] = rest[n]
      BY <2>2, <2>5, <1>a
    <2>7. /\ DOMAIN result = 1..Len(result) /\ DOMAIN rest = 1..Len(rest)
          /\ DOMAIN result' = 1..(Len(result) + Len(rest))
          /\ Len(result) \in Nat /\ Len(rest) \in Nat
      BY <2>5, <2>6, <1>a
    <2>8. \A n \in DOMAIN result' : n \notin DOMAIN result =>
             /\ n - Len(result) \in DOMAIN rest /\ result'[n] = rest[n - Len(result)]
      <3> SUFFICES ASSUME NEW n \in DOMAIN result', n \notin DOMAIN result
                   PROVE  n - Len(result) \in 1..Len(rest) /\ result'[n] = rest[n - Len(result)]
        BY <2>7
      <3>1. n - Len(result) \in 1..Len(rest) /\ Len(result) + (n - Len(result)) = n
        BY <2>7
      <3> QED BY <3>1, <2>6
    <2>9. nodes \subseteq Elements(result')
      <3>1. \A t \in Elements(result) : t \in Elements(result')
        BY <2>6, <2>7 DEF Elements
      <3>2. \A t \in left : t \in Elements(result')
        <4> SUFFICES ASSUME NEW t \in left PROVE t \in Elements(result')
          OBVIOUS
        <4>1. PICK n \in DOMAIN rest : rest[n] = t
          BY <2>4 DEF Elements
        <4>2. Len(result) + n \in DOMAIN result'
          BY <2>7
        <4> QED BY <4>1, <4>2, <2>6, <2>7 DEF Elements
      <3> QED BY <3>1, <3>2
    <2>10. Distinct(result')
      <3> SUFFICES ASSUME NEW m \in DOMAIN result', NEW n \in DOMAIN result',
                          result'[m] = result'[n]
                   PROVE  m = n
        BY DEF Distinct
      <3>1. CASE m \in DOMAIN result /\ n \in DOMAIN result
        BY <3>1, <2>6, <2>7 DEF ResultOk, Distinct
      <3>2. CASE m \notin DOMAIN result /\ n \notin DOMAIN result
        <4>1. m - Len(result) = n - Len(result)
          BY <3>2, <2>4, <2>8 DEF Distinct
        <4> QED BY <4>1, <2>7
      <3>3. CASE m \in DOMAIN result /\ n \notin DOMAIN result
        <4>1. result'[m] \in Elements(result)
          BY <3>3, <2>6, <2>7 DEF Elements
        <4>2. result'[n] \in left
          BY <3>3, <2>4, <2>8 DEF Elements
        <4> QED BY <4>1, <4>2
      <3>4. CASE m \notin DOMAIN result /\ n \in DOMAIN result
        <4>1. result'[n] \in Elements(result)
          BY <3>4, <2>6, <2>7 DEF Elements
        <4>2. result'[m] \in left
          BY <3>4, <2>4, <2>8 DEF Elements
        <4> QED BY <4>1, <4>2
      <3> QED BY <3>1, <3>2, <3>3, <3>4
    <2>11. TypeOK'
      BY <2>1, <2>6, <1>a, <1>b DEF TypeOK
    <2>12. QueueOk' /\ VisitOk'
      BY <2>1, <1>d DEF QueueOk, VisitOk, Distinct
    <2> QED BY <2>1, <2>9, <2>10, <2>11, <2>12, <1>b DEF DegreeOk, ResultOk, PopsInOrder
  <1>6. CASE UNCHANGED vars
    <2>1. \A c : Waiting(c)' = Waiting(c)
      BY <1>6, <1>c DEF vars, Waiting, Last
    <2> QED BY <1>6, <2>1, <1>c DEF vars, TypeOK, VisitOk, DegreeOk, QueueOk, ResultOk, PopsInOrder, Before, Last
  <1> QED BY <1>1, <1>2, <1>3, <1>4, <1>5, <1>6 DEF Next

LEMMA Invariant == Spec => []Inv
  BY InitInv, StepInv, PTL DEF Spec

\* The sort never leaves the state space the code gives it.
THEOREM GraphTypeCorrect == Spec => []TypeOK
  <1>1. Inv => TypeOK
    BY DEF Inv
  <1> QED BY <1>1, Invariant, PTL

\* Every registered type is visited exactly once by a save, for every model,
\* also one with cycles or repeated navigations.
THEOREM SortIsPermutation == Spec => []EveryTypeOnce
  <1>1. Inv => EveryTypeOnce
    BY DEF Inv, ResultOk, Distinct, EveryTypeOnce
  <1> QED BY <1>1, Invariant, PTL

\* A type leaves the queue only after all its principals: what is out of order
\* in the result is among the types that a cycle or a repeated navigation
\* kept out of the queue.
THEOREM QueueRespectsPrincipals == Spec => []PopsInOrder
  <1>1. Inv => PopsInOrder
    BY DEF Inv
  <1> QED BY <1>1, Invariant, PTL

(***************************************************************************)
(* Plain types are popped.  While no principal is named twice the degree   *)
(* of a type is exactly the number of principals it waits for, and a type  *)
(* that waits for nobody is in the queue or popped.  So when the queue is  *)
(* empty, a plain type left over would have a principal that is left over, *)
(* that one another, and so on without end: their ancestors get fewer.     *)
(***************************************************************************)
Single(c) == Cardinality(Parents(c)) = InDegree(c)

ExactDegree ==
    pc \in {"pop", "visit"} =>
        \A c \in Types : Single(c) => degree[c] = Cardinality(Waiting(c))

FreeIsQueued ==
    pc \in {"pop", "visit"} =>
        \A c \in Known : degree[c] = 0 => c \in Elements(result) \cup Elements(queue)

OrderInv == ExactDegree /\ FreeIsQueued /\ PlainPrincipalsFirst

\* The ancestors of a type are the least closed set that holds its principals.
LEMMA AncestorsLeast ==
  ASSUME NEW c
  PROVE  /\ Ancestors(c) \subseteq nodes /\ Parents(c) \subseteq Ancestors(c)
         /\ Closed(Ancestors(c))
         /\ \A S \in SUBSET nodes :
                Parents(c) \subseteq S /\ Closed(S) => Ancestors(c) \subseteq S
  <1>1. \A d : Parents(d) \subseteq nodes
    BY DEF Parents
  <1>2. Closed(Ancestors(c))
    <2> SUFFICES ASSUME NEW d \in Ancestors(c), NEW p \in Parents(d)
                 PROVE  p \in Ancestors(c)
      BY DEF Closed
    <2>1. ASSUME NEW S \in SUBSET nodes, Parents(c) \subseteq S, Closed(S)
          PROVE  p \in S
      BY <2>1 DEF Closed, Ancestors
    <2> QED BY <2>1, <1>1 DEF Ancestors
  <1> QED BY <1>1, <1>2 DEF Ancestors

\* Where every member of a set of types has a principal in it, some member is
\* its own ancestor.
LEMMA EndlessIsCyclic ==
  ASSUME nodes \subseteq Types, NEW U \in SUBSET nodes, U # {},
         \A d \in U : \E p \in Parents(d) : p \in U
  PROVE  \E d \in U : d \in Ancestors(d)
  <1> DEFINE size(d) == Cardinality(Ancestors(d))
  <1>1. \A d : IsFiniteSet(Ancestors(d)) /\ size(d) \in Nat
    <2>1. \A d : Ancestors(d) \subseteq Types
      BY AncestorsLeast
    <2> QED BY <2>1, TypesAssumption, FS_Subset, FS_CardinalityType
  <1>2. PICK d \in U : \A e \in U : size(d) <= size(e)
    <2> DEFINE T == {size(d) : d \in U}
    <2>1. T \in SUBSET Nat /\ T # {}
      BY <1>1
    <2>2. \E x \in T : \A y \in T : x <= y
      <3> HIDE DEF T
      <3> QED BY <2>1, LeastNat
    <2> QED BY <2>2
  <1>3. PICK p \in Parents(d) : p \in U
    OBVIOUS
  <1>4. p \in Ancestors(d) /\ Ancestors(p) \subseteq Ancestors(d)
    <2>1. p \in Ancestors(d) /\ Closed(Ancestors(d)) /\ Ancestors(d) \in SUBSET nodes
      BY <1>3, AncestorsLeast
    <2>2. Parents(p) \subseteq Ancestors(d)
      BY <2>1 DEF Closed
    <2> QED BY <2>1, <2>2, AncestorsLeast
  <1>5. CASE p \in Ancestors(p)
    BY <1>3, <1>5
  <1>6. CASE p \notin Ancestors(p)
    <2>1. Ancestors(p) # Ancestors(d)
      BY <1>4, <1>6
    <2>2. size(p) < size(d)
      BY <2>1, <1>1, <1>4, FS_Subset, FS_CardinalityType
    <2> QED BY <2>2, <1>1, <1>2, <1>3
  <1> QED BY <1>5, <1>6

\* When the queue is empty every plain type has been popped.
LEMMA PlainIsPopped ==
  ASSUME Inv, ExactDegree, FreeIsQueued, pc = "pop", queue = <<>>,
         NEW c \in nodes, Plain(c)
  PROVE  c \in Elements(result)
  <1> SUFFICES ASSUME c \notin Elements(result) PROVE FALSE
    OBVIOUS
  <1> DEFINE U == ({c} \cup Ancestors(c)) \ Elements(result)
  <1>1. nodes \subseteq Types /\ children = {} /\ Elements(queue) = {}
    BY DEF Inv, TypeOK, VisitOk, Elements
  <1>2. /\ Ancestors(c) \subseteq nodes /\ Parents(c) \subseteq Ancestors(c)
        /\ Closed(Ancestors(c))
    BY AncestorsLeast
  <1>3. ASSUME NEW d \in U
        PROVE  \E p \in Parents(d) : p \in U
    <2>1. d \in Types /\ d \in Known /\ Single(d)
      BY <1>1, <1>2 DEF Known, Plain, Single
    <2>2. degree[d] # 0
      BY <2>1, <1>1 DEF FreeIsQueued
    <2>3. Cardinality(Waiting(d)) # 0
      BY <2>1, <2>2 DEF ExactDegree
    <2>4. Waiting(d) # {}
      BY <2>3, FS_EmptySet
    <2>5. Waiting(d) = Parents(d) \ Elements(result)
      BY <1>1 DEF Waiting
    <2>6. Parents(d) \subseteq Ancestors(c)
      BY <1>2 DEF Closed
    <2> QED BY <2>4, <2>5, <2>6
  <1>4. U \in SUBSET nodes /\ U # {}
    BY <1>2
  <1>5. PICK d \in U : d \in Ancestors(d)
    <2> HIDE DEF U
    <2> QED BY <1>1, <1>3, <1>4, EndlessIsCyclic
  <1> QED BY <1>5 DEF Plain

LEMMA OrderInit == Init => OrderInv
  BY DEF Init, OrderInv, ExactDegree, FreeIsQueued, PlainPrincipalsFirst

LEMMA OrderNext == Inv /\ Inv' /\ OrderInv /\ [Next]_vars => OrderInv'
  <1> SUFFICES ASSUME Inv, Inv', OrderInv, [Next]_vars PROVE OrderInv'
    OBVIOUS
  <1> USE DEF OrderInv
  <1>a. /\ navs \in Models /\ nodes \subseteq Types /\ degree \in [Types -> Nat]
        /\ queue \in Seq(Types) /\ result \in Seq(Types) /\ children \subseteq Types
        /\ Known \subseteq Types
    BY DEF Inv, TypeOK, Known
  <1>b. navs' = navs /\ nodes' = nodes
    BY DEF Next, Start, Pop, Visit, VisitDone, Rest, vars
  <1>c. /\ \A c : Parents(c)' = Parents(c) /\ InDegree(c)' = InDegree(c)
        /\ Known' = Known
    BY <1>b DEF Parents, InDegree, Entries, Known
  <1>d. \A c : Single(c)' = Single(c)
    BY <1>c DEF Single
  <1>e. \A c : Ancestors(c)' = Ancestors(c)
    BY <1>b, <1>c DEF Ancestors, Closed
  <1>f. \A c : Plain(c)' = Plain(c)
    BY <1>c, <1>e DEF Plain
  <1>g. Elements(<<>>) = {}
    BY DEF Elements
  <1>1. CASE Start
    <2> DEFINE zero == {c \in Known : InDegree(c) = 0}
    <2>1. /\ pc = "start" /\ pc' = "pop" /\ result' = <<>> /\ children' = {}
          /\ degree' = [c \in Types |-> InDegree(c)] /\ queue' \in Orders(zero)
      BY <1>1 DEF Start, Inv, ResultOk, VisitOk
    <2>2. \A c \in Types : Waiting(c)' = Parents(c)
      BY <2>1, <1>c, <1>g DEF Waiting
    <2>3. Elements(queue') = zero
      BY <2>1 DEF Orders
    <2> QED BY <2>1, <2>2, <2>3, <1>a, <1>c, <1>d
            DEF ExactDegree, FreeIsQueued, PlainPrincipalsFirst, Single
  <1>2. CASE Pop
    <2>1. /\ pc = "pop" /\ pc' = "visit" /\ queue # <<>> /\ queue' = Tail(queue)
          /\ result' = Append(result, Head(queue)) /\ degree' = degree
          /\ children' = {c \in Types : Head(queue) \in Parents(c)} /\ children = {}
      BY <1>2 DEF Pop, Inv, VisitOk
    <2>2. /\ Head(queue) \in Types
          /\ Elements(queue) = {Head(queue)} \cup Elements(queue')
      BY <2>1, <1>a, ElementsOfTail
    <2>3. /\ Elements(result') = Elements(result) \cup {Head(queue)}
          /\ Last' = Head(queue)
      BY <2>1, <2>2, <1>a, ElementsOfAppend DEF Last
    <2>4. Head(queue) \notin Elements(result)
      BY <2>1, <2>2 DEF Inv, QueueOk
    <2>5. \A c \in Types : Waiting(c)' = Waiting(c)
      BY <2>1, <2>3, <2>4, <1>c DEF Waiting
    <2>6. ExactDegree'
      BY <2>1, <2>5, <1>d DEF ExactDegree
    <2> QED BY <2>1, <2>2, <2>3, <2>6, <1>c DEF FreeIsQueued, PlainPrincipalsFirst
  <1>3. ASSUME NEW c \in Types, Visit(c)
        PROVE  OrderInv'
    <2>1. /\ pc = "visit" /\ pc' = "visit" /\ c \in children /\ children' = children \ {c}
          /\ degree' = [degree EXCEPT ![c] = IF @ > 0 THEN @ - 1 ELSE @]
          /\ result' = result
          /\ queue' = IF degree'[c] = 0 /\ c \notin Elements(result) \cup Elements(queue)
                      THEN Append(queue, c) ELSE queue
      BY <1>3 DEF Visit
    <2>2. Last' = Last /\ Last \in Parents(c) /\ Last \in Elements(result)
      BY <2>1, <1>a DEF Inv, VisitOk, Last, Elements
    <2>3. Waiting(c)' = Waiting(c) \ {Last} /\ Last \in Waiting(c)
      BY <2>1, <2>2, <1>c DEF Waiting
    <2>4. \A d \in Types \ {c} : Waiting(d)' = Waiting(d) /\ degree'[d] = degree[d]
      BY <2>1, <2>2, <1>a, <1>c DEF Waiting
    <2>5. ASSUME Single(c)
          PROVE  degree'[c] = Cardinality(Waiting(c)')
      <3>1. IsFiniteSet(Waiting(c)) /\ degree[c] = Cardinality(Waiting(c))
        BY <2>1, <2>5 DEF Inv, DegreeOk, ExactDegree
      <3>2. /\ Cardinality(Waiting(c) \ {Last}) = Cardinality(Waiting(c)) - 1
            /\ Cardinality(Waiting(c) \ {Last}) \in Nat /\ Cardinality(Waiting(c)) \in Nat
        BY <3>1, <2>3, FS_RemoveElement, FS_CardinalityType
      <3>3. degree'[c] = degree[c] - 1
        BY <3>1, <3>2, <2>1, <1>a
      <3> QED BY <3>1, <3>2, <3>3, <2>3
    <2>6. ExactDegree'
      BY <2>1, <2>4, <2>5, <1>d DEF ExactDegree
    <2>7. Elements(queue) \subseteq Elements(queue')
      BY <2>1, <1>a, ElementsOfAppend
    <2>8. degree'[c] = 0 => c \in Elements(result') \cup Elements(queue')
      BY <2>1, <1>a, ElementsOfAppend
    <2>9. FreeIsQueued'
      BY <2>1, <2>4, <2>7, <2>8, <1>a, <1>c DEF FreeIsQueued
    <2> QED BY <2>1, <2>6, <2>9 DEF PlainPrincipalsFirst
  <1>4. CASE VisitDone
    <2>1. /\ pc = "visit" /\ pc' = "pop" /\ UNCHANGED <<degree, queue, result, children>>
      BY <1>4 DEF VisitDone
    <2>2. \A c : Waiting(c)' = Waiting(c)
      BY <2>1, <1>c DEF Waiting, Last
    <2> QED BY <2>1, <2>2, <1>c, <1>d DEF ExactDegree, FreeIsQueued, PlainPrincipalsFirst
  <1>5. CASE Rest
    <2>1. pc = "pop" /\ pc' = "done" /\ queue = <<>>
      BY <1>5 DEF Rest
    <2>2. PICK rest \in Orders(nodes \ Elements(result)) : result' = result \o rest
      BY <1>5 DEF Rest
    <2>3. IsFiniteSet(nodes \ Elements(result))
      BY <1>a, TypesAssumption, FS_Subset
    <2>4. rest \in Seq(Types)
      BY <2>3, <1>a, OrdersListOnce
    <2>5. \A n \in DOMAIN result : n \in DOMAIN result' /\ result'[n] = result[n]
      BY <2>2, <2>4, <1>a
    <2>6. ASSUME NEW c \in nodes, Plain(c), NEW p \in Parents(c)
          PROVE  Before(p, c)'
      <3>1. c \in Elements(result)
        BY <2>1, <2>6, PlainIsPopped
      <3>2. Before(p, c)
        BY <3>1, <2>1 DEF Inv, PopsInOrder
      <3> QED BY <3>2, <2>5 DEF Before
    <2> QED BY <2>1, <2>6, <1>b, <1>c, <1>f DEF ExactDegree, FreeIsQueued, PlainPrincipalsFirst
  <1>6. CASE UNCHANGED vars
    <2>1. UNCHANGED <<degree, queue, result, children, pc>>
      BY <1>6 DEF vars
    <2>2. \A c : Waiting(c)' = Waiting(c)
      BY <2>1, <1>c DEF Waiting, Last
    <2>3. \A p, c : Before(p, c)' = Before(p, c)
      BY <2>1 DEF Before
    <2> QED BY <2>1, <2>2, <2>3, <1>b, <1>c, <1>d, <1>f
            DEF ExactDegree, FreeIsQueued, PlainPrincipalsFirst
  <1> QED BY <1>1, <1>2, <1>3, <1>4, <1>5, <1>6 DEF Next

\* A registered type all of whose ancestors are acyclic and name each of their
\* principals once is sorted after every one of its principals: a child row is
\* inserted when its principal's key is known, and deleted before it, whatever
\* cycles the rest of the model has.
THEOREM PlainTypesInOrder == Spec => []PlainPrincipalsFirst
  <1>1. OrderInv => PlainPrincipalsFirst
    BY DEF OrderInv
  <1> QED BY <1>1, Invariant, OrderInit, OrderNext, PTL DEF Spec

=============================================================================
