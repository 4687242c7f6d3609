------------------------------- MODULE CaseViews -------------------------------
(***************************************************************************)
(* Two bounded views of a case: the graph of its entities around a focus,  *)
(* and the timeline of its observations, page by page.                     *)
(***************************************************************************)
EXTENDS Naturals, FiniteSets, FiniteSetsExt, Sequences, SequencesExt

CONSTANTS MaxNodes, MaxEdges, MaxDepth

Least(a, b) == IF a < b THEN a ELSE b
First(n, s) == SubSeq(s, 1, Least(n, Len(s)))

-----------------------------------------------------------------------------
(* The graph: entities 1 .. n in the order of their names, edges in the order of creation *)

\* Indexes of the relationships among those chosen, oldest first.
Where(edges, chosen) == SetToSortSeq({i \in DOMAIN edges : edges[i] \in chosen}, <)

Neighbours(edges, frontier) ==
  LET found == Where(edges, {e \in Range(edges) : {e[1], e[2]} \cap frontier # {}})
  IN [shown |-> First(MaxEdges, found), cut |-> Len(found) > MaxEdges]

\* One more step from the entities found last, until the graph is full.
Step(edges, max, s) ==
  LET found == Neighbours(edges, s.frontier)
      Add(x, e) == IF e \in Range(x.nodes) THEN x
                   ELSE IF Len(x.nodes) >= max THEN [x EXCEPT !.truncated = TRUE]
                   ELSE [x EXCEPT !.nodes = Append(@, e), !.frontier = @ \cup {e}]
      Follow(x, i) == Add(Add(x, edges[i][1]), edges[i][2])
  IN IF s.frontier = {} \/ Len(s.nodes) >= max THEN s
     ELSE FoldLeft(Follow, [s EXCEPT !.frontier = {}, !.truncated = @ \/ found.cut], found.shown)

Degree(edges, e) == Cardinality({i \in DOMAIN edges : edges[i][1] = e})
                    + Cardinality({i \in DOMAIN edges : edges[i][2] = e})

\* Without a focus, the entities with the most relationships.
Ranked(n, edges, max) ==
  First(max, SetToSortSeq(1 .. n, LAMBDA a, b : \/ Degree(edges, a) > Degree(edges, b)
                                                \/ Degree(edges, a) = Degree(edges, b) /\ a < b))

Clamp(low, value, high) == IF value < low THEN low ELSE Least(value, high)

BuildGraph(n, edges, focus, depth, max) ==
  LET bound == Clamp(1, max, MaxNodes)
      steps == Clamp(1, depth, MaxDepth)
      start == [nodes |-> <<focus>>, frontier |-> {focus}, truncated |-> FALSE]
      ranked == Ranked(n, edges, bound)
      found == IF focus = 0 THEN [nodes |-> ranked, truncated |-> n > Len(ranked)]
               ELSE FoldLeft(LAMBDA s, k : Step(edges, bound, s), start, [k \in 1 .. steps |-> k])
      shown == Where(edges, {e \in Range(edges) : {e[1], e[2]} \subseteq Range(found.nodes)})
  IN [nodes |-> found.nodes, edges |-> First(MaxEdges, shown),
      truncated |-> found.truncated \/ Len(shown) > MaxEdges]

\* Entities at most k relationships away from the focus.
Within(edges, focus, k) ==
  LET Grown(S) == S \cup UNION {{edges[i][1], edges[i][2]} : i \in
                     {j \in DOMAIN edges : {edges[j][1], edges[j][2]} \cap S # {}}}
      reach[j \in 0 .. k] == IF j = 0 THEN {focus} ELSE Grown(reach[j - 1])
  IN reach[k]

\* The graph shows at most what was asked for, with no edge to a hidden entity.  It is whole unless it
\* says that it is truncated, or has a focus and as many entities as it may have: then nothing more is
\* looked for and nothing is said (entities/graph.py build_graph, 43-44).
GraphIsTrue(n, edges, focus, depth, max) ==
  LET g == BuildGraph(n, edges, focus, depth, max)
      bound == Clamp(1, max, MaxNodes)
      shown == Range(g.nodes)
      near == IF focus = 0 THEN 1 .. n ELSE Within(edges, focus, Clamp(1, depth, MaxDepth))
  IN /\ Len(g.nodes) = Cardinality(shown) /\ Len(g.nodes) <= bound /\ Len(g.edges) <= MaxEdges
     /\ shown \subseteq near
     /\ focus # 0 => focus \in shown
     /\ \A i \in Range(g.edges) : {edges[i][1], edges[i][2]} \subseteq shown
     /\ ~ g.truncated =>
          /\ shown = near \/ (focus # 0 /\ Len(g.nodes) = bound)
          /\ Range(g.edges) = {i \in DOMAIN edges : {edges[i][1], edges[i][2]} \subseteq shown}
     /\ focus = 0 => \A a \in shown, b \in (1 .. n) \ shown : Degree(edges, a) >= Degree(edges, b)

-----------------------------------------------------------------------------
(* The timeline: an observation is [event, published, local, collected], 0 for what is unknown *)

Sections == {"dated", "local_time_only", "undated"}
Dated(o) == o.event # 0 \/ o.published # 0
Instant(o) == IF o.event # 0 THEN o.event ELSE o.published

InSection(o, section, start, end) ==
  CASE section = "dated" -> Dated(o) /\ (start # 0 => Instant(o) >= start) /\ (end # 0 => Instant(o) <= end)
    [] section = "local_time_only" -> ~ Dated(o) /\ o.local # 0
    [] section = "undated" -> ~ Dated(o) /\ o.local = 0

\* Mutant: observations of one moment are in no order.
OrderWithoutKey(observations, section, i) ==
  LET o == observations[i]
  IN CASE section = "dated" -> <<Instant(o), o.collected>>
       [] section = "local_time_only" -> <<o.local, o.collected>>
       [] section = "undated" -> <<o.collected, 0>>

\* What a section is ordered by; the idempotency key of an observation is its own.
Order(observations, section, i) ==
  LET o == observations[i]
  IN CASE section = "dated" -> <<Instant(o), o.collected, i>>
       [] section = "local_time_only" -> <<o.local, o.collected, i>>
       [] section = "undated" -> <<o.collected, i, 0>>

Before(a, b) == \E k \in DOMAIN a : a[k] < b[k] /\ \A j \in 1 .. k - 1 : a[j] = b[j]

\* One page. Rows that the order does not tell apart come in whichever order this query finds them.
TimelinePage(observations, section, start, end, limit, offset) ==
  LET rows == {i \in DOMAIN observations : InSection(observations[i], section, start, end)}
      Earlier(i, j) == LET a == Order(observations, section, i)  b == Order(observations, section, j)
                       IN Before(a, b) \/ (a = b /\ IF offset = 0 THEN i < j ELSE j < i)
      all == SetToSortSeq(rows, Earlier)
  IN SubSeq(all, offset + 1, Least(offset + limit, Len(all)))

Total(observations, section, start, end) ==
  Cardinality({i \in DOMAIN observations : InSection(observations[i], section, start, end)})

\* What a row says its time is based on.
Basis(o) == CASE o.event # 0 -> "event_time" [] o.event = 0 /\ o.published # 0 -> "source_published_at"
              [] ~ Dated(o) /\ o.local # 0 -> "local_time_without_timezone" [] OTHER -> "collected_at_only"

\* The pages of the sections together show every observation in the range exactly once, in the order of
\* its time, with the basis its section promises (entities/timeline.py:3-13).
TimelineIsWhole(observations, start, end, limit) ==
  LET Pages(section) ==
        FoldLeft(LAMBDA rows, k : rows \o TimelinePage(observations, section, start, end, limit, (k - 1) * limit),
                 <<>>, [k \in 1 .. Len(observations) |-> k])
      In(section) == {i \in DOMAIN observations : InSection(observations[i], section, start, end)}
  IN /\ \A s, t \in Sections : s # t => In(s) \cap In(t) = {}
     /\ UNION {In(s) : s \in Sections} =
          {i \in DOMAIN observations : LET o == observations[i] IN
             Dated(o) => (start # 0 => Instant(o) >= start) /\ (end # 0 => Instant(o) <= end)}
     /\ \A s \in Sections :
          LET rows == Pages(s)
          IN /\ Range(rows) = In(s) /\ Len(rows) = Total(observations, s, start, end)
             /\ s = "dated" => \A i, j \in DOMAIN rows : i < j => Instant(observations[rows[i]]) <= Instant(observations[rows[j]])
             /\ \A i \in In(s) : (Basis(observations[i]) \in {"event_time", "source_published_at"}) <=> s = "dated"
=================================================================================
