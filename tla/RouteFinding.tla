---------------------------- MODULE RouteFinding ----------------------------
(* The route computation of the wayfinding engine, checked against the set   *)
(* of all simple paths of small venue graphs.                                *)
EXTENDS Naturals, Sequences, FiniteSets, FiniteSetsExt

CONSTANTS Nodes,      \* the places of a venue; each is its own zone
          From, To,   \* where a route starts and ends
          Graphs,     \* sets of edges: [ends, distanceMeters, isAccessible, isStairs]
          RedZones,   \* the sets of red zones a request may name
          INFINITY    \* Number.MAX_SAFE_INTEGER

NoNode == "none"      \* null

ASSUME GraphAssumption ==
    /\ IsFiniteSet(Nodes) /\ From \in Nodes /\ To \in Nodes /\ NoNode \notin Nodes
    /\ INFINITY \in Nat \ {0}
    /\ \A g \in Graphs : \A e \in g :
           e.ends \subseteq Nodes /\ e.distanceMeters \in Nat /\ e.isAccessible \in BOOLEAN
               /\ e.isStairs \in BOOLEAN

NoRoute == [nodes |-> <<>>, total |-> INFINITY]      \* the function returns null

\* Accessibility mode leaves out what is not accessible, and stairs.
Usable(graph, accessible) ==
    {e \in graph : accessible => e.isAccessible /\ ~e.isStairs}

Between(edges, u, v) == {e.distanceMeters : e \in {f \in edges : f.ends = {u, v}}}

\* Entering a red zone costs as much as not getting there.
EdgeCost(edges, red, u, v) ==
    (IF u = v \/ Between(edges, u, v) = {} THEN INFINITY ELSE Min(Between(edges, u, v)))
        + (IF v \in red THEN INFINITY ELSE 0)

\* The metres between the nodes of a path.
Distance(edges, p) ==
    LET metres[k \in 1..Len(p)] ==
            IF k = 1 THEN 0 ELSE metres[k - 1] + Min(Between(edges, p[k - 1], p[k]))
    IN  metres[Len(p)]

StartSearch == [dist |-> [n \in Nodes |-> IF n = From THEN 0 ELSE INFINITY],
                prev |-> [n \in Nodes |-> NoNode],
                queue |-> Nodes]

\* A variant that settles any node it has reached.
SettleAny(edges, red, s) ==
    LET reached == {n \in s.queue : s.dist[n] < INFINITY}
        u == CHOOSE n \in reached : TRUE
        alt(v) == s.dist[u] + EdgeCost(edges, red, u, v)
        closer == {v \in s.queue \ {u} : alt(v) < s.dist[v]}
    IN  IF reached = {} \/ u = To THEN s
        ELSE [dist |-> [n \in Nodes |-> IF n \in closer THEN alt(n) ELSE s.dist[n]],
              prev |-> [n \in Nodes |-> IF n \in closer THEN u ELSE s.prev[n]],
              queue |-> s.queue \ {u}]

\* One turn of the loop: settle the closest node of the queue, unless it is the
\* destination or out of reach.
Settle(edges, red, s) ==
    LET reached == {n \in s.queue : s.dist[n] < INFINITY}
        u == CHOOSE n \in reached : \A m \in reached : s.dist[n] <= s.dist[m]
        alt(v) == s.dist[u] + EdgeCost(edges, red, u, v)
        closer == {v \in s.queue \ {u} : alt(v) < s.dist[v]}
    IN  IF reached = {} \/ u = To THEN s
        ELSE [dist |-> [n \in Nodes |-> IF n \in closer THEN alt(n) ELSE s.dist[n]],
              prev |-> [n \in Nodes |-> IF n \in closer THEN u ELSE s.prev[n]],
              queue |-> s.queue \ {u}]

Search(edges, red) ==
    LET after[k \in 0..Cardinality(Nodes)] ==
            IF k = 0 THEN StartSearch ELSE Settle(edges, red, after[k - 1])
    IN  after[Cardinality(Nodes)]

\* The way that the search s ended with, from the destination back.
PathOf(s) ==
    LET back[k \in 0..Cardinality(Nodes)] ==
            IF k = 0 THEN <<To>>
            ELSE IF s.prev[Head(back[k - 1])] = NoNode THEN back[k - 1]
            ELSE <<s.prev[Head(back[k - 1])]>> \o back[k - 1]
    IN  back[Cardinality(Nodes)]

RouteOf(edges, path) == [nodes |-> path, total |-> Distance(edges, path)]

\* The nodes from the source, and the metres between them.
Answer(edges, s) ==
    IF s.dist[To] = INFINITY THEN NoRoute ELSE RouteOf(edges, PathOf(s))

computeRoute(graph, accessible, red) ==
    Answer(Usable(graph, accessible), Search(Usable(graph, accessible), red))

-----------------------------------------------------------------------------
\* The reference: every way from the source to the destination that visits no
\* node twice.
SimplePaths ==
    {p \in UNION {[1..k -> Nodes] : k \in 1..Cardinality(Nodes)} :
        /\ p[1] = From /\ p[Len(p)] = To
        /\ \A i, j \in DOMAIN p : p[i] = p[j] => i = j}

Walkable(edges, red, p) ==
    \A k \in 2..Len(p) : Between(edges, p[k - 1], p[k]) # {} /\ p[k] \notin red

\* No way is as long as the number that stands for unreachable.
ASSUME LengthAssumption ==
    \A g \in Graphs, accessible \in BOOLEAN : \A p \in SimplePaths :
        Walkable(Usable(g, accessible), {}, p) => Distance(Usable(g, accessible), p) < INFINITY

\* What is answered about a graph, and the ways there are.
Requests == [graph : Graphs, accessible : BOOLEAN, red : RedZones]

Answered(r) ==
    [edges |-> Usable(r.graph, r.accessible),
     route |-> computeRoute(r.graph, r.accessible, r.red),
     ways |-> {p \in SimplePaths : Walkable(Usable(r.graph, r.accessible), r.red, p)}]

\* The route answered is one of the ways that avoid red zones, and stairs in
\* accessibility mode, and no such way is shorter; there is no route only when
\* there is no such way.  (dijkstra.ts:22)
CheapestEverywhere ==
    \A a \in {Answered(r) : r \in Requests} :
        IF a.ways = {} THEN a.route = NoRoute
        ELSE /\ a.route.nodes \in a.ways
             /\ \A p \in a.ways : a.route.total <= Distance(a.edges, p)
=============================================================================
