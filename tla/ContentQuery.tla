---------------------------- MODULE ContentQuery ----------------------------
(***************************************************************************)
(* catalog/v1/sqlite: the queries of a reader over the content tables,     *)
(* with the writer replacing the content between them.  A reader keeps the *)
(* UpdateGraph it was given, which is no more than the id of a row, and    *)
(* every call on it is a query, or two, on a connection of its own: each   *)
(* query sees what was committed when it began.                            *)
(***************************************************************************)
EXTENDS ContentSelects

CONSTANTS
  Contents,   \* what importers may write: sequences of operations
  MaxCommits  \* bound: commits of the writer


ASSUME ContentsAreOperations ==
  \A ops \in Contents :
    Len(ops) \in Nat /\ \A i \in 1 .. Len(ops) : ops[i].op \in Operations

VARIABLES
  db,      \* the committed content tables
  commits, \* how many commits made it
  reader   \* the UpdateGraph of the reader and the stream it consumes

vars == <<db, commits, reader>>

-----------------------------------------------------------------------------
\* Mutation: the rows of the range query are not told from those yielded before.
YieldAgain(out, version, pair) ==
  IF version \notin pair.range.versions THEN out ELSE Append(out, pair.bundle)

\* One turn of the second loop: a bundle ID is yielded once, for the first of its
\* ranges that holds the version.
Yield(out, version, pair) ==
  IF \/ \E i \in DOMAIN out : out[i].bundle = pair.bundle.bundle
     \/ version \notin pair.range.versions
  THEN out
  ELSE Append(out, pair.bundle)

\* The stream after the first loop is out; the second turns over the pairs.
YieldAll(out, version, pairs) ==
  LET after[n \in 0 .. Len(pairs)] ==
        IF n = 0 THEN out ELSE Yield(after[n - 1], version, pairs[n])
  IN  after[Len(pairs)]

-----------------------------------------------------------------------------
NoReader == [step |-> "idle", graph |-> None, since |-> 0, bundle |-> None,
             version |-> None, out |-> <<>>]

Init == db = EmptyContent /\ commits = 0 /\ reader = NoReader

Commit(d) == db' = d /\ commits' = commits + 1

\* A Set with content commits; the Set of an importer that fails leaves nothing.
Import(cat, ops) ==
  LET d == Imported(db, cat, commits + 1, ops)
  IN  /\ commits < MaxCommits
      /\ d # Failed
      /\ Commit(d)
      /\ UNCHANGED reader

\* Store.Delete: the rows of the catalog cascade from its metadata.
Delete(cat) ==
  /\ commits < MaxCommits
  /\ \E g \in db.graphs : g.catalog = cat
  /\ Commit(DeleteAll(db, cat))
  /\ UNCHANGED reader

Holding(graph) == [NoReader EXCEPT !.graph = graph, !.since = commits]

\* Catalog.GetPackage; ListPackages yields the same rows.
GetPackage(cat, name) ==
  /\ reader.step = "idle"
  /\ \E row \in Named(Packages(db, cat), name) : reader' = Holding(GraphOf(db, row))
  /\ UNCHANGED <<db, commits>>

\* CompositeUpdateGraph.GetGraph; ListGraphs yields the same rows.
GetGraph(name) ==
  /\ reader.step = "idle"
  /\ reader.graph # None
  /\ reader.graph.composite
  /\ \E row \in Named(SubGraphs(db, reader.graph), name) : reader' = Holding(GraphOf(db, row))
  /\ UNCHANGED <<db, commits>>

\* UpdateGraph.Successors is ranged over: the query of the explicit edges, whose
\* rows come in an order that no ORDER BY fixes.
QueryEdges(b, version) ==
  /\ reader.step = "idle"
  /\ reader.graph # None
  /\ \E from \in FromIds(db, b) :
       reader' = [reader EXCEPT !.step = "ranges", !.bundle = b, !.version = version,
                                !.since = commits,
                                !.out = SetToSeq(EdgesFrom(db, reader.graph, from))]
  /\ UNCHANGED <<db, commits>>

\* The query of the predecessor ranges, on what is committed by now.
QueryRanges ==
  /\ reader.step = "ranges"
  /\ reader' = [reader EXCEPT
       !.step = "done",
       !.out = YieldAll(@, reader.version, SetToSeq(RangesOf(db, reader.graph)))]
  /\ UNCHANGED <<db, commits>>

\* The consumer stops, in the middle of the stream or at its end.
Leave ==
  /\ reader.step \in {"ranges", "done"}
  /\ reader' = [NoReader EXCEPT !.graph = reader.graph, !.since = commits]
  /\ UNCHANGED <<db, commits>>

Next ==
  \/ \E cat \in Catalogs : \/ \E ops \in Contents : Import(cat, ops)
                           \/ Delete(cat)
                           \/ \E name \in Segments \cup {NoName} : GetPackage(cat, name)
  \/ \E name \in Segments \cup {NoName} : GetGraph(name)
  \/ \E b \in Bundles, version \in Versions : QueryEdges(b, version)
  \/ QueryRanges
  \/ Leave

Spec == Init /\ [][Next]_vars

-----------------------------------------------------------------------------
(***************************************************************************)
(* Properties.                                                             *)
(***************************************************************************)

\* A row never refers across catalogs: the bundles of an edge, a member or a
\* range are of the catalog of its graph, and both are there.  AddEdge and
\* AddBundleToGraph look bundles up by name, and the schema alone would let
\* them find another catalog's.
ReferencesStayInCatalog ==
  LET graph(id) == {g.catalog : g \in {h \in db.graphs : h.id = id}}
      bundle(id) == {b.catalog : b \in {c \in db.bundles : c.id = id}}
      same(g, b) == graph(g) = bundle(b) /\ Cardinality(graph(g)) = 1
  IN  /\ \A m \in db.members : same(m.graph, m.bundle)
      /\ \A e \in db.edges : same(e.graph, e.from) /\ same(e.graph, e.to)
      /\ \A r \in db.ranges : same(r.graph, r.bundle)
      /\ \A p \in db.bundleProps : BundleIn(db, p.catalog, p.bundle) # {}

\* The content of a catalog is of a single Set: nothing that an earlier import
\* wrote outlives the one that replaced it.
ContentOfOneImport ==
  \A x, y \in {[catalog |-> r.catalog, import |-> r.import] : r \in db.graphs \cup db.bundles} :
    x.catalog = y.catalog => x.import = y.import

\* An UpdateGraph that outlives its content names no other graph: as long as the
\* table has a row with its id, that row is the one it was made from, with
\* children if and only if it was composite.  The ids are never given again.
StaleGraphNamesNoOther ==
  reader.graph # None =>
    \A g \in db.graphs : g.id = reader.graph.id => GraphOf(db, g) = reader.graph

\* A stream of successors yields no bundle ID twice, whether an edge and a range,
\* two ranges of two channels, or two imports name it.
NothingYieldedTwice ==
  \A i, j \in DOMAIN reader.out :
    reader.out[i].bundle = reader.out[j].bundle => i = j

\* The bundles of a stream are of the import that made the graph, although the
\* two queries may see different commits.
SuccessorsOfOneImport ==
  \A i \in DOMAIN reader.out : /\ reader.out[i].catalog = reader.graph.catalog
                               /\ reader.out[i].import = reader.graph.import

\* The graphs that the graph stands for by their paths, if it still exists.
StandsFor(d, graph) ==
  {g \in d.graphs : /\ \E h \in d.graphs : h.id = graph.id
                    /\ g.catalog = graph.catalog
                    /\ IF graph.composite
                       THEN IsPrefix(graph.path, g.path) /\ g.path # graph.path
                       ELSE g.path = graph.path}

\* What the graph's own catalog says are the successors of b at that version.
OwnSuccessors(d, graph, b, version) ==
  {to \in d.bundles : \E g \in StandsFor(d, graph) :
     \/ \E from \in BundleIn(d, graph.catalog, b) :
          [graph |-> g.id, from |-> from.id, to |-> to.id] \in d.edges
     \/ \E r \in d.ranges : r.graph = g.id /\ r.bundle = to.id /\ version \in r.versions}

\* A stream during which nothing is committed, read to its end.
Undisturbed == reader.step = "done" /\ reader.since = commits

Yielded == {reader.out[i] : i \in DOMAIN reader.out}

\* An undisturbed stream yields nothing that is not a successor, and all of the
\* successors if no other catalog has a bundle of that ID.
SuccessorsExactWhenUnshared ==
  Undisturbed =>
    LET own == OwnSuccessors(db, reader.graph, reader.bundle, reader.version)
    IN  /\ Yielded \subseteq own
        /\ (\A r \in db.bundles : r.bundle = reader.bundle =>
              r.catalog = reader.graph.catalog) => Yielded = own

\* What requirements.md promises: "Multiple catalogs in the same store are fully
\* isolated (no cross-contamination in queries)": the successors do not depend on
\* what another catalog has.
SuccessorsIsolated ==
  Undisturbed =>
    Yielded = OwnSuccessors(db, reader.graph, reader.bundle, reader.version)
=============================================================================
