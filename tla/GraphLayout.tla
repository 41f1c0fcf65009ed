------------------------------ MODULE GraphLayout ------------------------------
(***************************************************************************)
(* How a workflow's graph is laid out (graphLayout.ts): a node's column is *)
(* its depth, columns wrap into bands, and the edges of a node are spread  *)
(* over its face.                                                          *)
(***************************************************************************)
EXTENDS Integers, Sequences, SequencesExt, FiniteSets

CONSTANTS
    ColsPerRow,   \* columns of a band
    GraphNodes,   \* the node lists of the graphs
    Stray,        \* a target that is no node
    MaxEdges      \* edges of a graph, up to

ASSUME LayoutAssumption ==
    /\ ColsPerRow \in Nat \ {0}
    /\ MaxEdges \in Nat
    /\ \A list \in GraphNodes :
          list \in Seq(ToSet(list)) /\ IsInjective(list) /\ Stray \notin ToSet(list)

\* An edge is where it leaves, where it leads, and a number that tells it from
\* others between the same two (transitions that differ in their condition).
VARIABLES nodes, edges

layoutVars == <<nodes, edges>>

LayoutInit == nodes \in GraphNodes /\ edges = {}

\* The graph is laid out again whenever it has changed.
DrawEdge ==
    /\ Cardinality(edges) < MaxEdges
    /\ \E from \in ToSet(nodes), to \in ToSet(nodes) \cup {Stray} :
          LET alike == {e \in edges : e[1] = from /\ e[2] = to}
          IN  edges' = edges \cup {<<from, to, Cardinality(alike) + 1>>}
    /\ UNCHANGED nodes

LayoutSpec == LayoutInit /\ [][DrawEdge]_layoutVars

----------------------------------------------------------------------------
(* Depths.                                                                 *)

Outgoing(n) == {to \in ToSet(nodes) : \E e \in edges : e[1] = n /\ e[2] = to}

\* The ways a visit from id goes: on along every edge, but to no node that is
\* on the way already.
Routes == UNION {{route \in SeqOf(ToSet(list), Len(list)) :
                     route # <<>> /\ IsInjective(route)} : list \in GraphNodes}
Ways(id) ==
    {way \in Routes :
        /\ way[1] = id
        /\ \A i \in 1..(Len(way) - 1) : way[i + 1] \in Outgoing(way[i])}

\* The nodes that it reaches, each with the depths it is reached at.
Visit(id) == {<<way[Len(way)], Len(way) - 1>> : way \in Ways(id)}
Reaches(n, m) == \E v \in Visit(n) : v[1] = m

\* Visits start from the nodes no edge ends at, and then, in the order of the
\* list, from each that none has reached so far.
Roots == {n \in ToSet(nodes) : \A e \in edges : e[2] # n}
Starts ==
    LET from[i \in 0..Len(nodes)] ==
            IF i = 0 THEN Roots
            ELSE LET before == from[i - 1]
                 IN  IF \E s \in before : Reaches(s, nodes[i]) THEN before
                     ELSE before \cup {nodes[i]}
    IN  from[Len(nodes)]
Visits == UNION {Visit(s) : s \in Starts}
DepthsIn(visits, n) == {v[2] : v \in {w \in visits : w[1] = n}}

\* Mutant of NodeDepths: the first visit counts, and not the deepest.
NodeDepthsFirst ==
    LET visits == Visits IN [n \in ToSet(nodes) |-> Min(DepthsIn(visits, n))]

NodeDepths ==
    LET visits == Visits IN [n \in ToSet(nodes) |-> Max(DepthsIn(visits, n))]

----------------------------------------------------------------------------
(* Positions.                                                              *)

NodeWidth == 150
NodeHeight == 56
ColumnWidth == 180
RowHeight == 110
Margin == 50
BandGap == 90

\* A column: the places in the list of the nodes of a depth.
Column(depths, d) == {i \in DOMAIN nodes : depths[nodes[i]] = d}
Band(d) == d \div ColsPerRow
Bands(depths) == {Band(depths[n]) : n \in ToSet(nodes)}

\* A band is as high as the longest of its columns.
BandRows(depths, b) ==
    Max({Cardinality(Column(depths, depths[n])) :
             n \in {m \in ToSet(nodes) : Band(depths[m]) = b}})
BandTops(depths) ==
    LET top[b \in 0..Len(nodes)] ==
            IF b = 0 THEN Margin
            ELSE IF b - 1 \in Bands(depths)
            THEN top[b - 1] + BandRows(depths, b - 1) * RowHeight + BandGap
            ELSE top[b - 1]
    IN  top

\* The i-th node is below those of its column that come before it.
RowOf(depths, i) ==
    Cardinality({j \in Column(depths, depths[nodes[i]]) : j < i})
Positioned(depths) ==
    LET tops == BandTops(depths)
    IN  [i \in DOMAIN nodes |->
            LET d == depths[nodes[i]] IN
            [x |-> Margin + (d % ColsPerRow) * ColumnWidth,
             y |-> tops[Band(d)] + RowOf(depths, i) * RowHeight]]

\* The edges that leave (end = 1) or enter (end = 2) a node.
Face(n, end) == {e \in edges : e[end] = n}

\* Where on its node's face the i-th of count edges ends: the points are 14
\* apart or share the face less a border, around its middle.  In units of
\* 1 / Units(count).
Units(count) == IF count <= 1 THEN 2 ELSE 2 * (count - 1)
SpreadEndpoint(count, i) ==
    LET even == (count - 1) * 14
        span == IF even < NodeHeight - 12 THEN even ELSE NodeHeight - 12
    IN  IF count <= 1 THEN NodeHeight
        ELSE (NodeHeight - span) * (count - 1) + 2 * (i - 1) * span

\* An edge to something that is no node is not drawn, but has its place on
\* the face it leaves.
Drawn == {e \in edges : e[2] \in ToSet(nodes)}

----------------------------------------------------------------------------
(* Properties.                                                             *)

\* An edge leads to a greater depth, which is a later column, unless it closes
\* a cycle.  Bands wrap: from the last column of a band the next one is on the
\* left again, in the band below.
EdgesLead(depths) ==
    \A e \in Drawn : depths[e[1]] < depths[e[2]] \/ Reaches(e[2], e[1])

\* No two nodes are drawn over each other.
NodesApart(depths) ==
    LET at == Positioned(depths)
    IN  \A i, j \in DOMAIN nodes : i # j =>
           \/ at[i].x >= at[j].x + NodeWidth \/ at[j].x >= at[i].x + NodeWidth
           \/ at[i].y >= at[j].y + NodeHeight \/ at[j].y >= at[i].y + NodeHeight

\* The edges of a face end at different points inside it.
Apart(count) ==
    \A i \in 1..count :
        /\ 0 < SpreadEndpoint(count, i)
        /\ SpreadEndpoint(count, i) < NodeHeight * Units(count)
        /\ \A j \in 1..count : i # j => SpreadEndpoint(count, i) # SpreadEndpoint(count, j)

\* However a graph branches and joins, an edge leads to a greater depth unless
\* it closes a cycle, no two nodes are drawn over each other, and no two edges
\* leave or enter a node at the same point.
LayoutReadable ==
    /\ LET depths == NodeDepths IN EdgesLead(depths) /\ NodesApart(depths)
    /\ \A n \in ToSet(nodes), end \in 1..2 : Apart(Cardinality(Face(n, end)))
===============================================================================
