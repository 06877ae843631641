--------------------------- MODULE ContentSelects ---------------------------
(***************************************************************************)
(* catalog/v1/sqlite: the SELECT statements over the content tables, as    *)
(* functions of the database that a statement sees.                        *)
(***************************************************************************)
EXTENDS ContentTables

CONSTANT NoName  \* the empty string for the name of a package or of a graph

\* No graph has an empty name: graphPath refuses a path with one (writer.go:14).
ASSUME NamesAssumption == NoName \notin Segments

ChildrenOf(d, ids) == {g \in d.graphs : g.parent \in ids}

\* The rows of the recursive CTE "descendants": a level per round.
Descendants(d, id) ==
  LET below[n \in 0 .. Cardinality(d.graphs)] ==
        LET above == IF n = 0 THEN {id} ELSE {id} \cup below[n - 1]
        IN  {g.id : g \in ChildrenOf(d, above)}
  IN  below[Cardinality(d.graphs)]

\* The graphs that an UpdateGraph asks about: a composite asks about all below
\* it and not about its own row.
Scope(d, graph) == IF graph.composite THEN Descendants(d, graph.id) ELSE {graph.id}

\* A bundle that was only referred to has no version, and is not listed.
ListBundles(d, graph) ==
  {b \in d.bundles : /\ b.version # NoVersion
                     /\ \E m \in d.members : m.bundle = b.id /\ m.graph \in Scope(d, graph)}

\* What newGraphQuery and newCompositeGraphQuery keep of a row.
GraphOf(d, row) ==
  [id |-> row.id, catalog |-> row.catalog, path |-> row.path, import |-> row.import,
   composite |-> ChildrenOf(d, {row.id}) # {}]

\* The rows of ListPackages and GetPackage, of ListGraphs and GetGraph.
Packages(d, cat) == {g \in d.graphs : g.catalog = cat /\ g.parent = None}

\* Mutation: the children are looked up by path.
SubGraphsByPath(d, graph) ==
  {g \in d.graphs : g.catalog = graph.catalog /\ Front(g.path) = graph.path}

SubGraphs(d, graph) == ChildrenOf(d, {graph.id})

\* The rows of GetPackage and GetGraph, of which the first is taken.  The empty
\* name is no condition at all.
Named(rows, name) == {g \in rows : name = NoName \/ Last(g.path) = name}

\* SELECT id FROM content_bundles WHERE bundle_id = ?, as a scalar: one of the
\* rows that match, and the statement does not say which.
FromIds(d, b) ==
  LET matching == {r.id : r \in {x \in d.bundles : x.bundle = b}}
  IN  IF matching = {} THEN {None} ELSE matching

\* Mutation: the edges are not restricted to the graph.
EdgesFromAnywhere(d, graph, from) ==
  {b \in d.bundles : \E e \in d.edges : e.from = from /\ e.to = b.id}

EdgesFrom(d, graph, from) ==
  {b \in d.bundles : \E e \in d.edges : /\ e.graph \in Scope(d, graph)
                                        /\ e.from = from
                                        /\ e.to = b.id}

RangeRows(d, graph) ==
  {[bundle |-> b, range |-> r] :
     b \in d.bundles, r \in {x \in d.ranges : x.graph \in Scope(d, graph)}}

RangesOf(d, graph) == {p \in RangeRows(d, graph) : p.range.bundle = p.bundle.id}
=============================================================================
