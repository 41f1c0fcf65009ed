--------------------------- MODULE GraphLayoutProofs ---------------------------
(***************************************************************************)
(* Every graph is laid out readably: for any nodes, any edges between them *)
(* and any number of columns to a band.                                    *)
(***************************************************************************)
EXTENDS GraphLayout, TLAPS, SequenceTheorems, FiniteSetTheorems, WellFoundedInduction

-----------------------------------------------------------------------------
(* Recursion and maxima over numbers.                                      *)

\* A set that has 0, and with every number the next one, has them all.
LEMMA AllFromZero ==
    ASSUME NEW T, 0 \in T, \A n \in Nat : n \in T => n + 1 \in T
    PROVE  \A n \in Nat : n \in T
<1> DEFINE bad == Nat \ T
<1>1. SUFFICES ASSUME bad # {} PROVE FALSE
  OBVIOUS
<1>2. PICK n \in bad : \A m \in bad : ~ (<<m, n>> \in OpToRel(<, Nat))
  BY <1>1, NatLessThanWellFounded, WFMin
<1>3. n \in Nat /\ n # 0
  BY <1>2
<1>4. n - 1 \in Nat /\ n - 1 < n /\ (n - 1) + 1 = n
  BY <1>3
<1>5. n - 1 \in T
  <2>1. <<n - 1, n>> \in OpToRel(<, Nat)
    BY <1>3, <1>4 DEF OpToRel
  <2> QED
    BY <1>2, <1>4, <2>1
<1>6. n \in T
  BY <1>4, <1>5
<1> QED
  BY <1>2, <1>6

\* f begins with a, and goes on from each value to the next as step says.
Follows(f, N, S, a, step) ==
    /\ f \in [0..N -> S]
    /\ f[0] = a
    /\ \A n \in 1..N : f[n] = step[n][f[n - 1]]

\* What is defined by recursion up to a number exists, and keeps its type.
LEMMA RecursionUpto ==
    ASSUME NEW N \in Nat, NEW S, NEW a \in S, NEW step \in [1..N -> [S -> S]]
    PROVE  \E f : Follows(f, N, S, a, step)
<1> DEFINE Upto(f, k) == Follows(f, k, S, a, step)
           T == {k \in Nat : k <= N => \E f : Upto(f, k)}
<1>1. 0 \in T
  <2>1. Upto([n \in 0..0 |-> a], 0)
    BY DEF Follows
  <2> QED
    BY <2>1
<1>2. ASSUME NEW k \in Nat, k \in T
      PROVE  k + 1 \in T
  <2>0. k + 1 <= N => k <= N
    OBVIOUS
  <2> HIDE DEF Upto
  <2>1. SUFFICES ASSUME k + 1 <= N PROVE \E f : Upto(f, k + 1)
    OBVIOUS
  <2>2. PICK f : Upto(f, k)
    BY <1>2, <2>0, <2>1
  <2> USE DEF Upto, Follows
  <2> DEFINE g == [n \in 0..(k + 1) |-> IF n = k + 1 THEN step[k + 1][f[k]] ELSE f[n]]
  <2>3. k \in 0..k /\ f[k] \in S /\ step[k + 1][f[k]] \in S
    <3>1. k + 1 \in 1..N /\ k \in 0..k
      BY <2>1
    <3>2. step[k + 1] \in [S -> S]
      BY <3>1
    <3> QED
      BY <2>2, <3>1, <3>2
  <2>4. g \in [0..(k + 1) -> S]
    <3>1. ASSUME NEW n \in 0..(k + 1), n # k + 1 PROVE f[n] \in S
      BY <2>2, <3>1
    <3> QED
      BY <2>3, <3>1
  <2>5. \A n \in 0..k : g[n] = f[n] /\ n \in 0..(k + 1) /\ n # k + 1
    OBVIOUS
  <2>6. g[k + 1] = step[k + 1][f[k]]
    OBVIOUS
  <2> HIDE DEF g
  <2>7. g[0] = a
    BY <2>2, <2>5
  <2>8. ASSUME NEW n \in 1..(k + 1) PROVE g[n] = step[n][g[n - 1]]
    <3>1. n - 1 \in 0..k /\ g[n - 1] = f[n - 1]
      BY <2>5
    <3>2. CASE n = k + 1
      BY <2>6, <3>1, <3>2
    <3>3. CASE n # k + 1
      <4>1. n \in 1..k /\ n \in 0..k
        BY <3>3
      <4> QED
        BY <2>2, <2>5, <3>1, <4>1
    <3> QED
      BY <3>2, <3>3
  <2> QED
    BY <2>4, <2>7, <2>8
<1>3. N \in T
  <2> HIDE DEF T
  <2> QED
    BY <1>1, <1>2, AllFromZero
<1> QED
  BY <1>3

\* The greatest of some numbers up to a bound.
LEMMA MaxOfNats ==
    ASSUME NEW T, T \subseteq Nat, T # {}, NEW k \in Nat, \A t \in T : t <= k
    PROVE  Max(T) \in T /\ \A t \in T : t <= Max(T)
<1> DEFINE above == {u \in Nat : \A t \in T : t <= u}
<1>1. PICK u \in above : \A v \in above : ~ (<<v, u>> \in OpToRel(<, Nat))
  <2>1. k \in above
    OBVIOUS
  <2> QED
    BY <2>1, NatLessThanWellFounded, WFMin
<1>2. u \in T
  <2>1. SUFFICES ASSUME u \notin T PROVE FALSE
    OBVIOUS
  <2>2. u # 0
    <3>1. PICK t \in T : TRUE
      OBVIOUS
    <3>2. t \in Nat /\ t <= u /\ t # u
      BY <1>1, <2>1
    <3> QED
      BY <3>2
  <2>3. u - 1 \in above
    <3>1. u \in Nat /\ \A t \in T : t \in Nat /\ t <= u /\ t # u
      BY <1>1, <2>1
    <3> QED
      BY <2>2, <3>1
  <2>4. <<u - 1, u>> \in OpToRel(<, Nat)
    BY <1>1, <2>2 DEF OpToRel
  <2> QED
    BY <1>1, <2>3, <2>4
<1>3. \A t \in T : u >= t
  BY <1>1
<1>4. Max(T) \in T /\ \A t \in T : Max(T) >= t
  BY <1>2, <1>3 DEF Max
<1> QED
  BY <1>1, <1>2, <1>4

LEMMA NumbersUpto ==
    ASSUME NEW k \in Nat
    PROVE  IsFiniteSet(1..k) /\ Cardinality(1..k) = k
BY FS_Interval

-----------------------------------------------------------------------------
(* The ways of visits.                                                     *)

\* The nodes are listed without repetition.
LEMMA NodesListed ==
    ASSUME nodes \in GraphNodes
    PROVE  /\ nodes \in Seq(ToSet(nodes)) /\ Len(nodes) \in Nat
           /\ DOMAIN nodes = 1..Len(nodes)
           /\ \A i, j \in 1..Len(nodes) : nodes[i] = nodes[j] => i = j
           /\ \A n \in ToSet(nodes) : \E i \in 1..Len(nodes) : nodes[i] = n
           /\ IsFiniteSet(ToSet(nodes)) /\ Cardinality(ToSet(nodes)) = Len(nodes)
<1>1. nodes \in Seq(ToSet(nodes)) /\ IsInjective(nodes)
  BY LayoutAssumption
<1>2. Len(nodes) \in Nat /\ DOMAIN nodes = 1..Len(nodes)
  BY <1>1
<1>3. \A i, j \in 1..Len(nodes) : nodes[i] = nodes[j] => i = j
  BY <1>1, <1>2 DEF IsInjective
<1>4. \A n \in ToSet(nodes) : \E i \in 1..Len(nodes) : nodes[i] = n
  BY <1>2 DEF ToSet
<1>5. nodes \in [1..Len(nodes) -> ToSet(nodes)]
  BY <1>1, <1>2
<1>6. nodes \in Bijection(1..Len(nodes), ToSet(nodes))
  BY <1>1, <1>4, <1>5 DEF Bijection, Injection, Surjection
<1>7. /\ IsFiniteSet(1..Len(nodes)) /\ Cardinality(1..Len(nodes)) = Len(nodes)
  BY <1>2, NumbersUpto
<1>8. /\ IsFiniteSet(ToSet(nodes))
      /\ Cardinality(ToSet(nodes)) = Cardinality(1..Len(nodes))
  BY <1>6, <1>7, FS_Bijection DEF ExistsBijection
<1> QED
  BY <1>1, <1>2, <1>3, <1>4, <1>7, <1>8

\* What a way is, apart from where its sequence is taken from.
Way(id, way) ==
    /\ way \in Seq(ToSet(nodes)) /\ Len(way) \in 1..Len(nodes) /\ way[1] = id
    /\ \A i, j \in 1..Len(way) : way[i] = way[j] => i = j
    /\ \A i \in 1..(Len(way) - 1) : way[i + 1] \in Outgoing(way[i])

LEMMA WaysAreWays ==
    ASSUME nodes \in GraphNodes, NEW id \in ToSet(nodes), NEW way \in Ways(id)
    PROVE  Way(id, way)
<1>0. PICK list \in GraphNodes :
          way \in SeqOf(ToSet(list), Len(list)) /\ way # <<>> /\ IsInjective(way)
  BY DEF Ways, Routes
<1>1. PICK m \in 0..Len(list) : way \in [1..m -> ToSet(list)]
  BY <1>0 DEF SeqOf
<1>2. m \in Nat
  OBVIOUS
<1>3. way \in Seq(ToSet(list)) /\ Len(way) = m /\ DOMAIN way = 1..m
  BY <1>1, <1>2
<1>4. m # 0
  BY <1>0, <1>3
<1>5. way[1] = id /\ \A i \in 1..(m - 1) : way[i + 1] \in Outgoing(way[i])
  BY <1>3 DEF Ways
<1>6. ASSUME NEW i \in 1..m PROVE way[i] \in ToSet(nodes)
  <2>1. CASE i = 1
    BY <1>5, <2>1
  <2>2. CASE i # 1
    <3>1. i - 1 \in 1..(m - 1) /\ (i - 1) + 1 = i
      BY <1>2, <2>2
    <3> QED
      BY <1>5, <3>1 DEF Outgoing
  <2> QED
    BY <2>1, <2>2
<1>7. way \in [1..m -> ToSet(nodes)]
  BY <1>1, <1>6
<1>8. \A i, j \in 1..m : way[i] = way[j] => i = j
  BY <1>0, <1>3 DEF IsInjective
<1>9. m <= Len(nodes)
  <2>1. way \in Injection(1..m, ToSet(nodes))
    BY <1>0, <1>7 DEF Injection
  <2>2. Cardinality(1..m) = m
    BY <1>2, NumbersUpto
  <2> QED
    BY <2>1, <2>2, NodesListed, FS_Injection
<1>10. way \in Seq(ToSet(nodes))
  BY <1>2, <1>7
<1> QED
  BY <1>2, <1>3, <1>4, <1>5, <1>8, <1>9, <1>10, NodesListed DEF Way

\* A sequence of nodes that follows the edges and repeats none is a way, as
\* it cannot be longer than the list.
LEMMA WayTaken ==
    ASSUME nodes \in GraphNodes, NEW id \in ToSet(nodes),
           NEW way \in Seq(ToSet(nodes)), way # <<>>, way[1] = id,
           \A i, j \in 1..Len(way) : way[i] = way[j] => i = j,
           \A i \in 1..(Len(way) - 1) : way[i + 1] \in Outgoing(way[i])
    PROVE  way \in Ways(id)
<1>1. Len(way) \in Nat /\ DOMAIN way = 1..Len(way)
      /\ way \in [1..Len(way) -> ToSet(nodes)]
  OBVIOUS
<1>2. IsInjective(way)
  BY <1>1 DEF IsInjective
<1>3. Len(way) <= Len(nodes)
  <2>1. way \in Injection(1..Len(way), ToSet(nodes))
    BY <1>1, <1>2 DEF Injection
  <2>2. Cardinality(1..Len(way)) = Len(way)
    BY <1>1, NumbersUpto
  <2> QED
    BY <2>1, <2>2, NodesListed, FS_Injection
<1>4. way \in SeqOf(ToSet(nodes), Len(nodes))
  BY <1>1, <1>3, NodesListed DEF SeqOf
<1>5. way \in Routes
  BY <1>2, <1>4 DEF Routes
<1> QED
  BY <1>5 DEF Ways

\* A visit goes on from where a way ends, to a node that is not on it.
LEMMA WayExtended ==
    ASSUME nodes \in GraphNodes, NEW id \in ToSet(nodes), NEW way \in Ways(id),
           NEW v \in Outgoing(way[Len(way)]),
           \A i \in 1..Len(way) : way[i] # v
    PROVE  Append(way, v) \in Ways(id)
<1> DEFINE k == Len(way)
           on == Append(way, v)
<1>1. Way(id, way)
  BY WaysAreWays
<1>2. v \in ToSet(nodes) /\ k \in Nat /\ k >= 1
  BY <1>1, NodesListed DEF Outgoing, Way
<1>3. /\ on \in Seq(ToSet(nodes)) /\ Len(on) = k + 1
      /\ on[k + 1] = v /\ \A i \in 1..k : on[i] = way[i]
  BY <1>1, <1>2 DEF Way
<1> HIDE DEF on
<1>4. on # <<>> /\ on[1] = id
  BY <1>1, <1>2, <1>3 DEF Way
<1>5. ASSUME NEW i \in 1..(k + 1), NEW j \in 1..(k + 1), on[i] = on[j] PROVE i = j
  <2>1. CASE i = k + 1 /\ j \in 1..k
    BY <1>3, <1>5, <2>1
  <2>2. CASE j = k + 1 /\ i \in 1..k
    BY <1>3, <1>5, <2>2
  <2>3. CASE i \in 1..k /\ j \in 1..k
    BY <1>1, <1>3, <1>5, <2>3 DEF Way
  <2> QED
    BY <1>2, <2>1, <2>2, <2>3
<1>6. ASSUME NEW i \in 1..k PROVE on[i + 1] \in Outgoing(on[i])
  <2>1. CASE i = k
    BY <1>2, <1>3, <2>1
  <2>2. CASE i # k
    <3>1. i \in 1..(k - 1) /\ i + 1 \in 1..k
      BY <1>2, <2>2
    <3> QED
      BY <1>1, <1>3, <3>1 DEF Way
  <2> QED
    BY <2>1, <2>2
<1>7. \A i \in 1..(Len(on) - 1) : on[i + 1] \in Outgoing(on[i])
  BY <1>2, <1>3, <1>6
<1>8. \A i, j \in 1..Len(on) : on[i] = on[j] => i = j
  BY <1>2, <1>3, <1>5
<1>9. on \in Ways(id)
  BY <1>3, <1>4, <1>7, <1>8, WayTaken
<1> QED
  BY <1>9 DEF on

\* The rest of a way is a way from wherever it begins.
LEMMA WayFrom ==
    ASSUME nodes \in GraphNodes, NEW id \in ToSet(nodes), NEW way \in Ways(id),
           NEW k \in 1..Len(way)
    PROVE  /\ way[k] \in ToSet(nodes)
           /\ Reaches(way[k], way[Len(way)])
<1> DEFINE m == Len(way) - k + 1
           rest == [i \in 1..m |-> way[k + i - 1]]
<1>1. Way(id, way)
  BY WaysAreWays
<1>2. Len(way) \in Nat /\ m \in Nat /\ m >= 1 /\ k \in Nat
      /\ \A i \in 1..m : k + i - 1 \in 1..Len(way)
  BY <1>1, NodesListed DEF Way
<1>3. \A i \in 1..Len(way) : way[i] \in ToSet(nodes)
  BY <1>1 DEF Way
<1>4. rest \in Seq(ToSet(nodes)) /\ Len(rest) = m
      /\ \A i \in 1..m : rest[i] = way[k + i - 1]
  BY <1>2, <1>3
<1> HIDE DEF rest
<1>5. rest # <<>> /\ rest[1] = way[k] /\ rest[m] = way[Len(way)]
  BY <1>2, <1>4
<1>6. ASSUME NEW i \in 1..m, NEW j \in 1..m, rest[i] = rest[j] PROVE i = j
  <2>1. k + i - 1 = k + j - 1
    BY <1>1, <1>2, <1>4, <1>6 DEF Way
  <2> QED
    BY <1>2, <2>1
<1>7. ASSUME NEW i \in 1..(m - 1) PROVE rest[i + 1] \in Outgoing(rest[i])
  <2>1. /\ i \in 1..m /\ i + 1 \in 1..m
        /\ k + i - 1 \in 1..(Len(way) - 1) /\ k + (i + 1) - 1 = (k + i - 1) + 1
    BY <1>2
  <2>2. rest[i + 1] = way[(k + i - 1) + 1] /\ rest[i] = way[k + i - 1]
    BY <1>4, <2>1
  <2> QED
    BY <1>1, <2>1, <2>2 DEF Way
<1>8. rest \in Ways(way[k])
  BY <1>3, <1>4, <1>5, <1>6, <1>7, WayTaken
<1>9. <<rest[Len(rest)], Len(rest) - 1>> \in Visit(way[k])
  BY <1>8 DEF Visit
<1>10. <<rest[Len(rest)], Len(rest) - 1>>[1] = way[Len(way)]
  BY <1>4, <1>5
<1> QED
  BY <1>3, <1>9, <1>10 DEF Reaches

\* A node is on a way from itself.
LEMMA WayStarts ==
    ASSUME nodes \in GraphNodes, NEW id \in ToSet(nodes)
    PROVE  Reaches(id, id)
<1>1. <<id>> \in Ways(id)
  <2> DEFINE way == <<id>>
  <2>1. /\ way \in Seq(ToSet(nodes)) /\ Len(way) = 1 /\ way[1] = id
        /\ way # <<>>
    OBVIOUS
  <2> HIDE DEF way
  <2>2. /\ \A i, j \in 1..Len(way) : way[i] = way[j] => i = j
        /\ \A i \in 1..(Len(way) - 1) : way[i + 1] \in Outgoing(way[i])
    BY <2>1
  <2>3. way \in Ways(id)
    BY <2>1, <2>2, WayTaken
  <2> QED
    BY <2>3 DEF way
<1>2. <<<<id>>[Len(<<id>>)], Len(<<id>>) - 1>> \in Visit(id)
  BY <1>1 DEF Visit
<1> QED
  BY <1>2 DEF Reaches

-----------------------------------------------------------------------------
(* Depths.                                                                 *)

\* Every visit starts at a node, and every node is reached by one.
LEMMA StartsReachAll ==
    ASSUME nodes \in GraphNodes
    PROVE  /\ Starts \subseteq ToSet(nodes)
           /\ \A n \in ToSet(nodes) : \E s \in Starts : Reaches(s, n)
<1> DEFINE N == Len(nodes)
           S == SUBSET ToSet(nodes)
           step == [i \in 1..N |-> [before \in S |->
                       IF \E s \in before : Reaches(s, nodes[i]) THEN before
                       ELSE before \cup {nodes[i]}]]
           By(f) == f = [i \in 0..N |->
                       IF i = 0 THEN Roots
                       ELSE LET before == f[i - 1]
                            IN  IF \E s \in before : Reaches(s, nodes[i]) THEN before
                                ELSE before \cup {nodes[i]}]
<1>1. N \in Nat /\ Roots \in S /\ \A i \in 1..N : nodes[i] \in ToSet(nodes)
  BY NodesListed DEF Roots
<1>2. step \in [1..N -> [S -> S]]
  BY <1>1
<1>3. PICK f : Follows(f, N, S, Roots, step)
  <2> HIDE DEF S, step, N, By
  <2> QED
    BY <1>1, <1>2, RecursionUpto
<1>4. By(f)
  <2>1. ASSUME NEW i \in 0..N, i # 0
        PROVE  f[i] = LET before == f[i - 1]
                      IN  IF \E s \in before : Reaches(s, nodes[i]) THEN before
                          ELSE before \cup {nodes[i]}
    <3>1. i \in 1..N /\ f[i - 1] \in S
      <4>1. i \in 1..N /\ i - 1 \in 0..N
        BY <1>1, <2>1
      <4> HIDE DEF S, step
      <4> QED
        BY <1>3, <4>1 DEF Follows
    <3>2. f[i] = step[i][f[i - 1]]
      BY <1>3, <3>1 DEF Follows
    <3> QED
      BY <3>1, <3>2
  <2> HIDE DEF S, step, N
  <2> QED
    BY <1>3, <2>1 DEF Follows
<1> DEFINE from == CHOOSE g : By(g)
<1>5. By(from)
  BY <1>4
<1>6. Starts = from[N]
  BY DEF Starts
<1> HIDE DEF from
<1>7. /\ from[0] = Roots
      /\ \A i \in 1..N : from[i] =
            IF \E s \in from[i - 1] : Reaches(s, nodes[i]) THEN from[i - 1]
            ELSE from[i - 1] \cup {nodes[i]}
  <2>1. ASSUME NEW i \in 1..N
        PROVE  from[i] = IF \E s \in from[i - 1] : Reaches(s, nodes[i]) THEN from[i - 1]
                         ELSE from[i - 1] \cup {nodes[i]}
    <3>1. i \in 0..N /\ i # 0
      BY <1>1
    <3> HIDE DEF N
    <3> QED
      BY <1>5, <3>1
  <2>2. 0 \in 0..N
    BY <1>1
  <2>3. from[0] = Roots
    <3> HIDE DEF N
    <3> QED
      BY <1>5, <2>2
  <2> QED
    BY <2>1, <2>3
<1> HIDE DEF By
<1> DEFINE Covers(i) ==
               /\ from[i] \in S
               /\ \A j \in 1..i : \E s \in from[i] : Reaches(s, nodes[j])
           T == {i \in Nat : i <= N => Covers(i)}
<1>8. 0 \in T
  BY <1>1, <1>7
<1>9. ASSUME NEW i \in Nat, i \in T PROVE i + 1 \in T
  <2>1. SUFFICES ASSUME i + 1 <= N PROVE Covers(i + 1)
    OBVIOUS
  <2>2. Covers(i) /\ i + 1 \in 1..N
    BY <1>1, <1>9, <2>1
  <2>3. from[i] \subseteq from[i + 1] /\ from[i + 1] \in S
    <3>1. (i + 1) - 1 = i /\ nodes[i + 1] \in ToSet(nodes) /\ from[i] \in S
      BY <1>1, <2>2
    <3>2. from[i + 1] = from[i] \/ from[i + 1] = from[i] \cup {nodes[i + 1]}
      BY <1>7, <2>2, <3>1
    <3> QED
      BY <3>1, <3>2
  <2>4. \E s \in from[i + 1] : Reaches(s, nodes[i + 1])
    BY <1>1, <1>7, <2>2, WayStarts
  <2>5. ASSUME NEW j \in 1..(i + 1) PROVE \E s \in from[i + 1] : Reaches(s, nodes[j])
    <3>1. CASE j = i + 1
      BY <2>4, <3>1
    <3>2. CASE j # i + 1
      <4>1. j \in 1..i
        BY <3>2
      <4> QED
        BY <2>2, <2>3, <4>1
    <3> QED
      BY <3>1, <3>2
  <2> QED
    BY <2>3, <2>5
<1>10. N \in T
  <2> HIDE DEF T
  <2> QED
    BY <1>1, <1>8, <1>9, AllFromZero
<1> QED
  BY <1>1, <1>6, <1>10, NodesListed

\* What is a depth of a node in the visits: the edges of a way to it.
LEMMA DepthOfWay ==
    ASSUME NEW n, NEW d
    PROVE  d \in DepthsIn(Visits, n) <=>
              \E s \in Starts : \E way \in Ways(s) :
                 way[Len(way)] = n /\ d = Len(way) - 1
<1>1. ASSUME d \in DepthsIn(Visits, n)
      PROVE  \E s \in Starts : \E way \in Ways(s) :
                way[Len(way)] = n /\ d = Len(way) - 1
  <2>1. PICK v : v \in Visits /\ v[1] = n /\ v[2] = d
    BY <1>1 DEF DepthsIn
  <2>2. PICK s \in Starts : v \in Visit(s)
    BY <2>1 DEF Visits
  <2>3. PICK way \in Ways(s) : v = <<way[Len(way)], Len(way) - 1>>
    BY <2>2 DEF Visit
  <2> QED
    BY <2>1, <2>3
<1>2. ASSUME NEW s \in Starts, NEW way \in Ways(s),
             way[Len(way)] = n, d = Len(way) - 1
      PROVE  d \in DepthsIn(Visits, n)
  <2> DEFINE v == <<way[Len(way)], Len(way) - 1>>
  <2>1. v \in Visits /\ v[1] = n /\ v[2] = d
    BY <1>2 DEF Visits, Visit
  <2> QED
    BY <2>1 DEF DepthsIn
<1> QED
  BY <1>1, <1>2

\* A node's depth is that of the longest way to it.
LEMMA DeepestWay ==
    ASSUME nodes \in GraphNodes, NEW n \in ToSet(nodes)
    PROVE  /\ NodeDepths[n] \in 0..(Len(nodes) - 1)
           /\ \E s \in Starts : \E way \in Ways(s) :
                 way[Len(way)] = n /\ NodeDepths[n] = Len(way) - 1
           /\ \A s \in Starts : \A way \in Ways(s) :
                 way[Len(way)] = n => Len(way) - 1 <= NodeDepths[n]
<1> DEFINE T == DepthsIn(Visits, n)
           K == Len(nodes) - 1
<1>1. Len(nodes) \in Nat
  BY NodesListed
<1>2. ASSUME NEW d \in T PROVE d \in Nat /\ d <= K
  <2>1. PICK s \in Starts : \E way \in Ways(s) :
            way[Len(way)] = n /\ d = Len(way) - 1
    BY DepthOfWay
  <2>2. PICK way \in Ways(s) : way[Len(way)] = n /\ d = Len(way) - 1
    BY <2>1
  <2>3. Way(s, way)
    BY StartsReachAll, WaysAreWays
  <2> QED
    BY <1>1, <2>2, <2>3 DEF Way
<1>3. T # {}
  <2>1. PICK s \in Starts : Reaches(s, n)
    BY StartsReachAll
  <2>2. PICK v \in Visit(s) : v[1] = n
    BY <2>1 DEF Reaches
  <2>3. v[2] \in T
    BY <2>2 DEF DepthsIn, Visits
  <2> QED
    BY <2>3
<1>4. K \in Nat
  BY <1>1, <1>2, <1>3
<1>5. Max(T) \in T /\ \A d \in T : d <= Max(T)
  <2> HIDE DEF T, K
  <2>1. T \subseteq Nat /\ \A d \in T : d <= K
    BY <1>2
  <2> QED
    BY <1>3, <1>4, <2>1, MaxOfNats
<1>6. NodeDepths[n] = Max(T)
  BY DEF NodeDepths
<1>7. NodeDepths[n] \in T /\ \A d \in T : d <= NodeDepths[n]
  BY <1>5, <1>6
<1>8. NodeDepths[n] \in 0..K
  BY <1>1, <1>2, <1>7
<1> HIDE DEF T
<1>9. \A s \in Starts : \A way \in Ways(s) :
          way[Len(way)] = n => Len(way) - 1 <= NodeDepths[n]
  BY <1>7, DepthOfWay DEF T
<1>10. \E s \in Starts : \E way \in Ways(s) :
          way[Len(way)] = n /\ NodeDepths[n] = Len(way) - 1
  BY <1>7, DepthOfWay DEF T
<1> QED
  BY <1>8, <1>9, <1>10

\* An edge that leads on a visit's way back is on a cycle; any other makes
\* the way longer.
LEMMA EdgesAlwaysLead ==
    ASSUME nodes \in GraphNodes, \A e \in edges : e[1] \in ToSet(nodes)
    PROVE  EdgesLead(NodeDepths)
<1> SUFFICES ASSUME NEW e \in Drawn
             PROVE  NodeDepths[e[1]] < NodeDepths[e[2]] \/ Reaches(e[2], e[1])
  BY DEF EdgesLead
<1>1. e[1] \in ToSet(nodes) /\ e[2] \in ToSet(nodes) /\ e[2] \in Outgoing(e[1])
  BY DEF Drawn, Outgoing
<1>2. PICK s \in Starts : \E way \in Ways(s) :
          way[Len(way)] = e[1] /\ NodeDepths[e[1]] = Len(way) - 1
  BY <1>1, DeepestWay
<1>3. PICK way \in Ways(s) :
          way[Len(way)] = e[1] /\ NodeDepths[e[1]] = Len(way) - 1
  BY <1>2
<1>4. s \in ToSet(nodes) /\ Way(s, way)
  BY StartsReachAll, WaysAreWays
<1>5. Len(way) \in Nat /\ way \in Seq(ToSet(nodes))
  BY <1>4, NodesListed DEF Way
<1>6. CASE \E k \in 1..Len(way) : way[k] = e[2]
  BY <1>3, <1>4, <1>6, WayFrom
<1>7. CASE \A k \in 1..Len(way) : way[k] # e[2]
  <2> DEFINE on == Append(way, e[2])
  <2>1. on \in Ways(s)
    BY <1>1, <1>3, <1>4, <1>7, WayExtended
  <2>2. Len(on) = Len(way) + 1 /\ on[Len(on)] = e[2]
    BY <1>1, <1>5
  <2> HIDE DEF on
  <2>3. Len(on) - 1 <= NodeDepths[e[2]]
    BY <1>1, <2>1, <2>2, DeepestWay
  <2>4. NodeDepths[e[2]] \in Nat
    BY <1>1, DeepestWay, NodesListed
  <2> QED
    BY <1>3, <1>5, <2>2, <2>3, <2>4
<1> QED
  BY <1>6, <1>7

-----------------------------------------------------------------------------
(* Positions, for whatever depths.                                         *)

Depths == [ToSet(nodes) -> 0..(Len(nodes) - 1)]

\* A column and what of it is above a node are finite.
LEMMA ColumnFinite ==
    ASSUME nodes \in GraphNodes, NEW C \in SUBSET DOMAIN nodes
    PROVE  IsFiniteSet(C) /\ Cardinality(C) \in Nat /\ Cardinality(C) <= Len(nodes)
<1>1. IsFiniteSet(1..Len(nodes)) /\ Cardinality(1..Len(nodes)) = Len(nodes)
      /\ C \in SUBSET (1..Len(nodes))
  BY NodesListed, NumbersUpto
<1>2. IsFiniteSet(C) /\ Cardinality(C) <= Len(nodes)
  BY <1>1, FS_Subset
<1> QED
  BY <1>2, FS_CardinalityType

\* In a column a later node is in a lower row.
LEMMA RowsFall ==
    ASSUME nodes \in GraphNodes, NEW depths, NEW i \in DOMAIN nodes
    PROVE  /\ RowOf(depths, i) \in Nat
           /\ RowOf(depths, i) < Cardinality(Column(depths, depths[nodes[i]]))
           /\ \A j \in Column(depths, depths[nodes[i]]) :
                 i < j => RowOf(depths, i) < RowOf(depths, j)
<1> DEFINE C == Column(depths, depths[nodes[i]])
           above == {j \in C : j < i}
<1>1. C \subseteq DOMAIN nodes /\ i \in C /\ DOMAIN nodes = 1..Len(nodes)
      /\ Len(nodes) \in Nat
  BY NodesListed DEF Column
<1>2. above \in SUBSET DOMAIN nodes /\ i \notin above
  BY <1>1
<1>3. IsFiniteSet(above) /\ Cardinality(above) \in Nat
  BY <1>2, ColumnFinite
<1>4. RowOf(depths, i) = Cardinality(above)
  BY DEF RowOf
<1>5. Cardinality(above \cup {i}) = Cardinality(above) + 1
  <2> HIDE DEF above
  <2> QED
    BY <1>2, <1>3, FS_AddElement
<1>6. ASSUME NEW D \in SUBSET C, above \cup {i} \subseteq D
      PROVE  Cardinality(above) < Cardinality(D)
  <2>1. IsFiniteSet(D) /\ Cardinality(D) \in Nat
    BY <1>1, ColumnFinite
  <2>2. Cardinality(above \cup {i}) <= Cardinality(D)
    BY <1>6, <2>1, FS_Subset
  <2> QED
    BY <1>3, <1>5, <2>1, <2>2
<1>7. Cardinality(above) < Cardinality(C)
  BY <1>1, <1>6
<1>8. ASSUME NEW j \in C, i < j
      PROVE  RowOf(depths, i) < RowOf(depths, j)
  <2>1. depths[nodes[j]] = depths[nodes[i]]
    BY DEF Column
  <2> DEFINE D == {k \in C : k < j}
  <2>2. RowOf(depths, j) = Cardinality(D)
    BY <2>1 DEF RowOf
  <2>3. above \cup {i} \subseteq D /\ D \in SUBSET C
    BY <1>1, <1>8
  <2> QED
    BY <1>4, <1>6, <2>2, <2>3
<1> QED
  BY <1>3, <1>4, <1>7, <1>8

\* A band has room for all of its columns.
LEMMA BandsHold ==
    ASSUME nodes \in GraphNodes, NEW depths \in Depths, NEW n \in ToSet(nodes)
    PROVE  /\ BandRows(depths, Band(depths[n])) \in Nat
           /\ Cardinality(Column(depths, depths[n])) <= BandRows(depths, Band(depths[n]))
<1> DEFINE b == Band(depths[n])
           sizes == {Cardinality(Column(depths, depths[m])) :
                         m \in {k \in ToSet(nodes) : Band(depths[k]) = b}}
<1>1. \A m \in ToSet(nodes) :
          /\ Cardinality(Column(depths, depths[m])) \in Nat
          /\ Cardinality(Column(depths, depths[m])) <= Len(nodes)
  <2>1. \A d : Column(depths, d) \in SUBSET DOMAIN nodes
    BY DEF Column
  <2> QED
    BY <2>1, ColumnFinite
<1>2. sizes \subseteq Nat /\ \A s \in sizes : s <= Len(nodes)
  BY <1>1
<1>3. Cardinality(Column(depths, depths[n])) \in sizes
  OBVIOUS
<1>4. Max(sizes) \in sizes /\ \A s \in sizes : s <= Max(sizes)
  <2> HIDE DEF sizes
  <2> QED
    BY <1>2, <1>3, NodesListed, MaxOfNats
<1>5. BandRows(depths, b) = Max(sizes)
  BY DEF BandRows
<1> HIDE DEF sizes
<1> QED
  BY <1>2, <1>3, <1>4, <1>5

\* A band begins below all that is in the bands before it.
LEMMA BandsFall ==
    ASSUME nodes \in GraphNodes, NEW depths \in Depths
    PROVE  LET tops == BandTops(depths) IN
           /\ \A b \in 0..Len(nodes) : tops[b] \in Nat
           /\ \A b \in Bands(depths), c \in 0..Len(nodes) :
                 b \in Nat /\ b < c
                    => tops[b] + BandRows(depths, b) * RowHeight <= tops[c]
<1> DEFINE N == Len(nodes)
           height(b) == BandRows(depths, b) * RowHeight + BandGap
           step == [b \in 1..N |-> [t \in Nat |->
                       IF b - 1 \in Bands(depths) THEN t + height(b - 1) ELSE t]]
           By(f) == f = [b \in 0..N |->
                       IF b = 0 THEN Margin
                       ELSE IF b - 1 \in Bands(depths)
                       THEN f[b - 1] + BandRows(depths, b - 1) * RowHeight + BandGap
                       ELSE f[b - 1]]
<1>1. N \in Nat /\ Margin \in Nat
  BY NodesListed DEF Margin
<1>2. \A b \in Bands(depths) :
          /\ BandRows(depths, b) \in Nat
          /\ height(b) \in Nat /\ height(b) >= BandRows(depths, b) * RowHeight
  <2>1. ASSUME NEW b \in Bands(depths) PROVE BandRows(depths, b) \in Nat
    BY BandsHold DEF Bands
  <2> QED
    BY <2>1 DEF RowHeight, BandGap
<1>3. step \in [1..N -> [Nat -> Nat]]
  <2> HIDE DEF height
  <2> QED
    BY <1>2
<1>4. PICK f : Follows(f, N, Nat, Margin, step)
  <2> HIDE DEF step, N, By
  <2> QED
    BY <1>1, <1>3, RecursionUpto
<1>5. By(f)
  <2>1. ASSUME NEW b \in 0..N, b # 0
        PROVE  f[b] = IF b - 1 \in Bands(depths)
                      THEN f[b - 1] + BandRows(depths, b - 1) * RowHeight + BandGap
                      ELSE f[b - 1]
    <3>1. b \in 1..N /\ b - 1 \in 0..N
      BY <1>1, <2>1
    <3>2. f[b - 1] \in Nat /\ f[b] = step[b][f[b - 1]]
      <4> HIDE DEF step, N
      <4> QED
        BY <1>4, <3>1 DEF Follows
    <3>3. f[b] = IF b - 1 \in Bands(depths) THEN f[b - 1] + height(b - 1) ELSE f[b - 1]
      <4> HIDE DEF height
      <4> QED
        BY <3>1, <3>2
    <3>4. b - 1 \in Bands(depths) =>
              f[b - 1] + height(b - 1)
                 = f[b - 1] + BandRows(depths, b - 1) * RowHeight + BandGap
      <4>1. SUFFICES ASSUME b - 1 \in Bands(depths)
            PROVE  f[b - 1] + height(b - 1)
                      = f[b - 1] + BandRows(depths, b - 1) * RowHeight + BandGap
        OBVIOUS
      <4>2. BandRows(depths, b - 1) \in Nat /\ f[b - 1] \in Nat
        BY <1>2, <3>2, <4>1
      <4> QED
        BY <4>2 DEF RowHeight, BandGap
    <3> QED
      BY <3>3, <3>4
  <2> HIDE DEF step, N
  <2> QED
    BY <1>4, <2>1 DEF Follows
<1> DEFINE tops == CHOOSE g : By(g)
<1>6. By(tops)
  BY <1>5
<1>7. BandTops(depths) = tops
  BY DEF BandTops
<1> HIDE DEF tops
<1>8. tops[0] = Margin
  <2>1. 0 \in 0..N
    BY <1>1
  <2> HIDE DEF N
  <2> QED
    BY <1>6, <2>1
<1>9. ASSUME NEW b \in 0..N, b < N, tops[b] \in Nat
      PROVE  /\ tops[b + 1] \in Nat /\ tops[b] <= tops[b + 1]
             /\ b \in Bands(depths) =>
                   tops[b] + BandRows(depths, b) * RowHeight <= tops[b + 1]
  <2>1. b + 1 \in 0..N /\ b + 1 # 0 /\ (b + 1) - 1 = b
    BY <1>1, <1>9
  <2>2. tops[b + 1] = IF b \in Bands(depths)
                      THEN tops[b] + BandRows(depths, b) * RowHeight + BandGap
                      ELSE tops[b]
    <3> HIDE DEF N
    <3> QED
      BY <1>6, <2>1
  <2>3. CASE b \in Bands(depths)
    BY <1>2, <1>9, <2>2, <2>3 DEF RowHeight, BandGap
  <2>4. CASE b \notin Bands(depths)
    BY <1>9, <2>2, <2>4
  <2> QED
    BY <2>3, <2>4
<1> HIDE DEF By
<1> DEFINE T == {c \in Nat : c <= N =>
                    /\ tops[c] \in Nat
                    /\ \A b \in 0..c : tops[b] \in Nat /\ tops[b] <= tops[c]
                    /\ \A b \in 0..c : b \in Bands(depths) /\ b < c
                          => tops[b] + BandRows(depths, b) * RowHeight <= tops[c]}
<1>10. 0 \in T
  BY <1>1, <1>8
<1>11. ASSUME NEW c \in Nat, c \in T PROVE c + 1 \in T
  <2>1. SUFFICES ASSUME c + 1 <= N
        PROVE  /\ tops[c + 1] \in Nat
               /\ \A b \in 0..(c + 1) : tops[b] \in Nat /\ tops[b] <= tops[c + 1]
               /\ \A b \in 0..(c + 1) : b \in Bands(depths) /\ b < c + 1
                     => tops[b] + BandRows(depths, b) * RowHeight <= tops[c + 1]
    OBVIOUS
  <2>2. /\ tops[c] \in Nat
        /\ \A b \in 0..c : tops[b] \in Nat /\ tops[b] <= tops[c]
        /\ \A b \in 0..c : b \in Bands(depths) /\ b < c
              => tops[b] + BandRows(depths, b) * RowHeight <= tops[c]
    BY <1>1, <1>11, <2>1
  <2>3. c \in 0..N /\ c < N
    BY <1>1, <2>1
  <2>4. /\ tops[c + 1] \in Nat /\ tops[c] <= tops[c + 1]
        /\ c \in Bands(depths) =>
              tops[c] + BandRows(depths, c) * RowHeight <= tops[c + 1]
    BY <1>9, <2>2, <2>3
  <2>5. ASSUME NEW b \in 0..(c + 1)
        PROVE  /\ tops[b] \in Nat /\ tops[b] <= tops[c + 1]
               /\ b \in Bands(depths) /\ b < c + 1
                     => tops[b] + BandRows(depths, b) * RowHeight <= tops[c + 1]
    <3>1. CASE b = c + 1
      BY <2>4, <3>1
    <3>2. CASE b = c
      BY <2>2, <2>4, <3>2
    <3>3. CASE b # c /\ b # c + 1
      <4>1. b \in 0..c /\ b < c
        BY <3>3
      <4>2. b \in Bands(depths) => BandRows(depths, b) * RowHeight \in Nat
        BY <1>2 DEF RowHeight
      <4> QED
        BY <2>2, <2>4, <4>1, <4>2
    <3> QED
      BY <3>1, <3>2, <3>3
  <2> QED
    BY <2>4, <2>5
<1>12. \A c \in Nat : c \in T
  <2> HIDE DEF T
  <2> QED
    BY <1>10, <1>11, AllFromZero
<1>13. ASSUME NEW c \in 0..N
       PROVE  /\ tops[c] \in Nat
              /\ \A b \in Bands(depths) : b \in Nat /\ b < c
                    => tops[b] + BandRows(depths, b) * RowHeight <= tops[c]
  <2>1. c \in Nat /\ c <= N /\ \A b \in Nat : b < c => b \in 0..c
    BY <1>1
  <2> QED
    BY <1>12, <2>1
<1> QED
  BY <1>7, <1>13

\* Depths of the same column of the same band are the same.
LEMMA BandsWrap ==
    ASSUME NEW d \in Nat
    PROVE  /\ Band(d) \in Nat /\ Band(d) <= d /\ d % ColsPerRow \in Nat
           /\ \A c \in Nat : Band(c) = Band(d) /\ c % ColsPerRow = d % ColsPerRow
                 => c = d
<1>1. ColsPerRow \in Nat \ {0}
  BY LayoutAssumption
<1>2. d \div ColsPerRow \in Nat /\ d \div ColsPerRow <= d
  BY <1>1
<1>3. d % ColsPerRow \in Nat
  BY <1>1
<1>4. ASSUME NEW c \in Nat, c \div ColsPerRow = d \div ColsPerRow,
             c % ColsPerRow = d % ColsPerRow
      PROVE  c = d
  BY <1>1, <1>4
<1> QED
  BY <1>2, <1>3, <1>4 DEF Band

LEMMA NodesAlwaysApart ==
    ASSUME nodes \in GraphNodes, NEW depths \in Depths
    PROVE  NodesApart(depths)
<1> DEFINE tops == BandTops(depths)
           N == Len(nodes)
           depth(i) == depths[nodes[i]]
           at == Positioned(depths)
<1>1. N \in Nat /\ DOMAIN nodes = 1..N
      /\ \A i \in DOMAIN nodes : nodes[i] \in ToSet(nodes)
  BY NodesListed
<1>2. ASSUME NEW i \in DOMAIN nodes
      PROVE  /\ depth(i) \in Nat /\ Band(depth(i)) \in 0..N
             /\ Band(depth(i)) \in Bands(depths)
             /\ tops[Band(depth(i))] \in Nat
             /\ RowOf(depths, i) \in Nat
             /\ RowOf(depths, i) + 1 <= BandRows(depths, Band(depth(i)))
             /\ BandRows(depths, Band(depth(i))) \in Nat
             /\ depth(i) % ColsPerRow \in Nat
  <2>1. nodes[i] \in ToSet(nodes) /\ depth(i) \in 0..(N - 1)
    BY <1>1 DEF Depths
  <2>2. depth(i) \in Nat /\ depth(i) <= N
    BY <1>1, <2>1
  <2> HIDE DEF depth
  <2>3. Band(depth(i)) \in Nat /\ Band(depth(i)) <= depth(i) /\ depth(i) % ColsPerRow \in Nat
    BY <2>2, BandsWrap
  <2>4. Band(depth(i)) \in 0..N
    BY <1>1, <2>2, <2>3
  <2>5. tops[Band(depth(i))] \in Nat
    BY <2>4, BandsFall
  <2>6. Band(depth(i)) \in Bands(depths)
    BY <2>1 DEF depth, Bands
  <2>7. /\ Cardinality(Column(depths, depth(i))) <= BandRows(depths, Band(depth(i)))
        /\ BandRows(depths, Band(depth(i))) \in Nat
    BY <2>1, BandsHold DEF depth
  <2>8. /\ RowOf(depths, i) \in Nat
        /\ RowOf(depths, i) < Cardinality(Column(depths, depth(i)))
    BY RowsFall DEF depth
  <2>9. Cardinality(Column(depths, depth(i))) \in Nat
    BY ColumnFinite DEF Column
  <2> QED
    BY <2>2, <2>3, <2>4, <2>5, <2>6, <2>7, <2>8, <2>9
<1>3. \A i \in DOMAIN nodes :
          /\ at[i].x = Margin + (depth(i) % ColsPerRow) * ColumnWidth
          /\ at[i].y = tops[Band(depth(i))] + RowOf(depths, i) * RowHeight
  BY DEF Positioned
<1> HIDE DEF at, tops, N, depth
<1>4. ASSUME NEW i \in DOMAIN nodes, NEW j \in DOMAIN nodes,
             Band(depth(i)) < Band(depth(j))
      PROVE  at[j].y >= at[i].y + NodeHeight
  <2> DEFINE b == Band(depth(i))
             rows == BandRows(depths, b)
             above == tops[b]
             below == tops[Band(depth(j))]
             r == RowOf(depths, i)
             q == RowOf(depths, j)
  <2>1. above + rows * RowHeight <= below
    BY <1>2, <1>4, BandsFall DEF tops, N
  <2>2. r + 1 <= rows /\ r \in Nat /\ q \in Nat /\ rows \in Nat
        /\ above \in Nat /\ below \in Nat
    BY <1>2
  <2>3. at[i].y = above + r * RowHeight /\ at[j].y = below + q * RowHeight
    BY <1>3
  <2> HIDE DEF b, rows, above, below, r, q
  <2> QED
    BY <2>1, <2>2, <2>3 DEF RowHeight, NodeHeight
<1>5. ASSUME NEW i \in DOMAIN nodes, NEW j \in DOMAIN nodes,
             depth(i) % ColsPerRow < depth(j) % ColsPerRow
      PROVE  at[j].x >= at[i].x + NodeWidth
  <2> DEFINE c == depth(i) % ColsPerRow
             d == depth(j) % ColsPerRow
  <2>1. c \in Nat /\ d \in Nat /\ c < d
    BY <1>2, <1>5
  <2>2. at[i].x = Margin + c * ColumnWidth /\ at[j].x = Margin + d * ColumnWidth
    BY <1>3
  <2> HIDE DEF c, d
  <2> QED
    BY <2>1, <2>2 DEF Margin, ColumnWidth, NodeWidth
<1>6. ASSUME NEW i \in DOMAIN nodes, NEW j \in DOMAIN nodes,
             depth(i) = depth(j), i < j
      PROVE  at[j].y >= at[i].y + NodeHeight
  <2> DEFINE above == tops[Band(depth(i))]
             r == RowOf(depths, i)
             q == RowOf(depths, j)
  <2>1. j \in Column(depths, depths[nodes[i]])
    BY <1>6 DEF Column, depth
  <2>2. r < q
    BY <1>6, <2>1, RowsFall
  <2>3. r \in Nat /\ q \in Nat /\ above \in Nat
    BY <1>2
  <2>4. at[i].y = above + r * RowHeight /\ at[j].y = above + q * RowHeight
    BY <1>3, <1>6
  <2> HIDE DEF above, r, q
  <2> QED
    BY <2>2, <2>3, <2>4 DEF RowHeight, NodeHeight
<1>7. ASSUME NEW i \in DOMAIN nodes, NEW j \in DOMAIN nodes, i # j
      PROVE  \/ at[i].x >= at[j].x + NodeWidth \/ at[j].x >= at[i].x + NodeWidth
             \/ at[i].y >= at[j].y + NodeHeight \/ at[j].y >= at[i].y + NodeHeight
  <2>1. CASE Band(depth(i)) # Band(depth(j))
    <3>1. Band(depth(i)) \in Nat /\ Band(depth(j)) \in Nat
      BY <1>2, <1>1 DEF N
    <3>2. Band(depth(i)) < Band(depth(j)) \/ Band(depth(j)) < Band(depth(i))
      BY <2>1, <3>1
    <3> QED
      BY <1>4, <3>2
  <2>2. CASE depth(i) % ColsPerRow # depth(j) % ColsPerRow
    <3>1. \/ depth(i) % ColsPerRow < depth(j) % ColsPerRow
          \/ depth(j) % ColsPerRow < depth(i) % ColsPerRow
      <4>1. depth(i) % ColsPerRow \in Nat /\ depth(j) % ColsPerRow \in Nat
        BY <1>2
      <4> QED
        BY <2>2, <4>1
    <3> QED
      BY <1>5, <3>1
  <2>3. CASE /\ Band(depth(i)) = Band(depth(j))
             /\ depth(i) % ColsPerRow = depth(j) % ColsPerRow
    <3>1. depth(i) = depth(j)
      BY <1>2, <2>3, BandsWrap
    <3>2. i < j \/ j < i
      BY <1>1, <1>7
    <3> QED
      BY <1>6, <3>1, <3>2
  <2> QED
    BY <2>1, <2>2, <2>3
<1> QED
  BY <1>7 DEF NodesApart, at

-----------------------------------------------------------------------------
(* The ends of edges.                                                      *)

\* However many edges a face has, they end at different points of it: up to
\* four are 14 apart, more share 44 of the 56.
LEMMA EndsApart ==
    ASSUME NEW count \in Nat
    PROVE  Apart(count)
<1> SUFFICES ASSUME NEW i \in 1..count
    PROVE  /\ 0 < SpreadEndpoint(count, i)
           /\ SpreadEndpoint(count, i) < NodeHeight * Units(count)
           /\ \A j \in 1..count : i # j => SpreadEndpoint(count, i) # SpreadEndpoint(count, j)
  BY DEF Apart
<1>1. CASE count = 1
  BY <1>1 DEF SpreadEndpoint, Units, NodeHeight
<1>2. CASE count = 2
  BY <1>2 DEF SpreadEndpoint, Units, NodeHeight
<1>3. CASE count = 3
  BY <1>3 DEF SpreadEndpoint, Units, NodeHeight
<1>4. CASE count = 4
  BY <1>4 DEF SpreadEndpoint, Units, NodeHeight
<1>5. CASE count > 4
  <2>1. \A j \in 1..count : SpreadEndpoint(count, j) = 12 * (count - 1) + 88 * (j - 1)
    BY <1>5 DEF SpreadEndpoint, NodeHeight
  <2>2. NodeHeight * Units(count) = 112 * (count - 1)
    BY <1>5 DEF Units, NodeHeight
  <2> QED
    BY <1>5, <2>1, <2>2
<1> QED
  BY <1>1, <1>2, <1>3, <1>4, <1>5

-----------------------------------------------------------------------------
(* The graphs that come up, and the theorem.                               *)

\* Edges leave nodes, and there are finitely many.
LayoutInv ==
    /\ nodes \in GraphNodes
    /\ IsFiniteSet(edges)
    /\ \A e \in edges : e[1] \in ToSet(nodes)

LEMMA LayoutInvHolds == LayoutSpec => []LayoutInv
<1>1. LayoutInit => LayoutInv
  BY FS_EmptySet DEF LayoutInit, LayoutInv
<1>2. LayoutInv /\ [DrawEdge]_layoutVars => LayoutInv'
  <2> SUFFICES ASSUME LayoutInv, [DrawEdge]_layoutVars PROVE LayoutInv'
    OBVIOUS
  <2>1. CASE DrawEdge
    <3>1. PICK e : e[1] \in ToSet(nodes) /\ edges' = edges \cup {e}
      <4>1. PICK from \in ToSet(nodes), to \in ToSet(nodes) \cup {Stray} :
                edges' = edges \cup {<<from, to,
                    Cardinality({f \in edges : f[1] = from /\ f[2] = to}) + 1>>}
        BY <2>1 DEF DrawEdge
      <4> DEFINE nth == Cardinality({f \in edges : f[1] = from /\ f[2] = to}) + 1
      <4>2. edges' = edges \cup {<<from, to, nth>>} /\ <<from, to, nth>>[1] = from
        BY <4>1
      <4> QED
        BY <4>2
    <3>2. IsFiniteSet(edges')
      BY <3>1, FS_AddElement DEF LayoutInv
    <3>3. \A f \in edges' : f[1] \in ToSet(nodes)
      BY <3>1 DEF LayoutInv
    <3>4. nodes' = nodes
      BY <2>1 DEF DrawEdge
    <3> QED
      BY <3>2, <3>3, <3>4 DEF LayoutInv
  <2>2. CASE UNCHANGED layoutVars
    BY <2>2 DEF LayoutInv, layoutVars
  <2> QED
    BY <2>1, <2>2
<1> QED
  BY <1>1, <1>2, PTL DEF LayoutSpec

\* Every layout is readable: layoutGraph takes an edge to a greater depth
\* unless it closes a cycle, draws no node over another, and no two ends of edges at one point.
THEOREM LayoutsReadable == LayoutSpec => []LayoutReadable
<1>1. LayoutInv => LayoutReadable
  <2> SUFFICES ASSUME LayoutInv PROVE LayoutReadable
    OBVIOUS
  <2>1. nodes \in GraphNodes
    BY DEF LayoutInv
  <2>2. EdgesLead(NodeDepths)
    BY <2>1, EdgesAlwaysLead DEF LayoutInv
  <2>3. NodeDepths \in Depths
    <3>1. \A n \in ToSet(nodes) : NodeDepths[n] \in 0..(Len(nodes) - 1)
      BY <2>1, DeepestWay
    <3>2. NodeDepths = [n \in ToSet(nodes) |-> NodeDepths[n]]
      BY DEF NodeDepths
    <3> QED
      BY <3>1, <3>2 DEF Depths
  <2>4. NodesApart(NodeDepths)
    BY <2>1, <2>3, NodesAlwaysApart
  <2>5. ASSUME NEW n \in ToSet(nodes), NEW end \in 1..2
        PROVE  Apart(Cardinality(Face(n, end)))
    <3>1. IsFiniteSet(Face(n, end))
      BY FS_Subset DEF LayoutInv, Face
    <3> QED
      BY <3>1, FS_CardinalityType, EndsApart
  <2> QED
    BY <2>2, <2>4, <2>5 DEF LayoutReadable
<1> QED
  BY <1>1, LayoutInvHolds, PTL
===============================================================================
