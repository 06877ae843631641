--------------------------- MODULE ContentTables ---------------------------
(***************************************************************************)
(* catalog/v1/sqlite: the content tables and what contentWriter does to    *)
(* them inside the transaction of a Set.  A database here is the record of *)
(* the rows of these tables; an operation returns the next one, or Failed  *)
(* where the code returns an error.                                        *)
(***************************************************************************)
EXTENDS Naturals, Sequences, FiniteSets, SequencesExt

CONSTANTS
  Catalogs,  \* catalog names
  Segments,  \* valid segments of graph paths: packages, channels
  Bundles,   \* bundle IDs
  Versions,  \* bundle versions
  NoVersion, \* the empty version of a bundle that is only referred to
  None,      \* no parent, no deprecation
  Failed     \* an operation returned an error

\* NULL is no id.
ASSUME ContentAssumption == None \notin Nat

\* A path with a segment that is empty or holds a slash is refused.
ValidPath(path) == path # <<>> /\ path \in Seq(Segments)

\* The columns that the content tables have, and in import the number of the
\* Set that wrote a row, which no table has.
EmptyContent ==
  [graphs      |-> {},  \* id, catalog, path, parent, deprecation, import
   bundles     |-> {},  \* id, catalog, bundle, version, deprecation, import
   members     |-> {},  \* graph, bundle: content_graph_bundles
   edges       |-> {},  \* graph, from, to: content_successors
   ranges      |-> {},  \* graph, bundle, versions: content_predecessor_ranges
   graphProps  |-> {},  \* graph
   bundleProps |-> {},  \* catalog, bundle
   nextGraph   |-> 1,   \* sqlite_sequence of content_graphs
   nextBundle  |-> 1]   \* sqlite_sequence of content_bundles

GraphAt(d, cat, path) == {g \in d.graphs : g.catalog = cat /\ g.path = path}
BundleIn(d, cat, b) == {r \in d.bundles : r.catalog = cat /\ r.bundle = b}
IdOf(rows) == (CHOOSE r \in rows : TRUE).id

-----------------------------------------------------------------------------
(***************************************************************************)
(* The DELETEs of deleteAll and of Store.Delete.  A row goes with the row  *)
(* that its foreign key names.                                             *)
(***************************************************************************)
DeleteGraphs(d, gone) ==
  [d EXCEPT !.graphs     = {g \in @ : g.id \notin gone},
            !.members    = {m \in @ : m.graph \notin gone},
            !.edges      = {e \in @ : e.graph \notin gone},
            !.ranges     = {r \in @ : r.graph \notin gone},
            !.graphProps = {p \in @ : p.graph \notin gone}]

DeleteBundles(d, cat, gone) ==
  [d EXCEPT !.bundles     = {b \in @ : b.id \notin gone},
            !.members     = {m \in @ : m.bundle \notin gone},
            !.edges       = {e \in @ : e.from \notin gone /\ e.to \notin gone},
            !.ranges      = {r \in @ : r.bundle \notin gone},
            !.bundleProps = {p \in @ : p.catalog # cat}]

\* Mutation: the bundles of the catalog stay.
DeleteAllGraphs(d, cat) ==
  DeleteGraphs(d, {g.id : g \in {h \in d.graphs : h.catalog = cat}})

\* Mutation: without AUTOINCREMENT the ids of deleted rows are given again.
DeleteAllReusingIds(d, cat) ==
  LET e == DeleteBundles(
             DeleteGraphs(d, {g.id : g \in {h \in d.graphs : h.catalog = cat}}),
             cat, {b.id : b \in {c \in d.bundles : c.catalog = cat}})
  IN  [e EXCEPT !.nextGraph = IF e.graphs = {} THEN 1 ELSE @]

DeleteAll(d, cat) ==
  DeleteBundles(
    DeleteGraphs(d, {g.id : g \in {h \in d.graphs : h.catalog = cat}}),
    cat, {b.id : b \in {c \in d.bundles : c.catalog = cat}})

-----------------------------------------------------------------------------
(***************************************************************************)
(* The operations of contentWriter, in the import numbered k of cat.       *)
(***************************************************************************)

\* INSERT OR IGNORE: the first row of a bundle ID stays.
InsertBundle(d, cat, k, b, version) ==
  IF BundleIn(d, cat, b) # {}
  THEN d
  ELSE [d EXCEPT !.bundles = @ \cup {[id |-> d.nextBundle, catalog |-> cat, bundle |-> b,
                                      version |-> version, deprecation |-> None,
                                      import |-> k]},
                 !.nextBundle = @ + 1]

CreateGraph(d, cat, k, path) ==
  LET parent == GraphAt(d, cat, Front(path))
      row(p) == [id |-> d.nextGraph, catalog |-> cat, path |-> path, parent |-> p,
                 deprecation |-> None, import |-> k]
  IN  IF \/ ~ValidPath(path)
         \/ GraphAt(d, cat, path) # {}
         \/ Len(path) # 1 /\ parent = {}
      THEN Failed
      ELSE [d EXCEPT !.graphs = @ \cup {row(IF Len(path) = 1 THEN None ELSE IdOf(parent))},
                     !.nextGraph = @ + 1]

\* An unknown bundle is passed over; a second row of the same pair is an error.
AddBundleToGraph(d, cat, path, b) ==
  LET new == {[graph |-> IdOf(GraphAt(d, cat, path)), bundle |-> r.id] :
                r \in BundleIn(d, cat, b)}
  IN  IF ~ValidPath(path) \/ GraphAt(d, cat, path) = {} \/ new \cap d.members # {}
      THEN Failed
      ELSE [d EXCEPT !.members = @ \cup new]

\* Mutation: the bundles are looked up in every catalog.
AddEdgeUnscoped(d, cat, path, b, c) ==
  IF ~ValidPath(path) \/ GraphAt(d, cat, path) = {}
  THEN Failed
  ELSE [d EXCEPT !.edges = @ \cup
          {[graph |-> IdOf(GraphAt(d, cat, path)), from |-> r.id, to |-> s.id] :
             r \in {x \in d.bundles : x.bundle = b}, s \in {x \in d.bundles : x.bundle = c}}]

\* INSERT OR IGNORE: an edge with an unknown end is passed over.
AddEdge(d, cat, path, b, c) ==
  IF ~ValidPath(path) \/ GraphAt(d, cat, path) = {}
  THEN Failed
  ELSE [d EXCEPT !.edges = @ \cup
          {[graph |-> IdOf(GraphAt(d, cat, path)), from |-> r.id, to |-> s.id] :
             r \in BundleIn(d, cat, b), s \in BundleIn(d, cat, c)}]

\* A range that does not parse is None.
AddPredecessorRange(d, cat, path, b, versions) ==
  LET new == {[graph |-> IdOf(GraphAt(d, cat, path)), bundle |-> r.id, versions |-> versions] :
                r \in BundleIn(d, cat, b)}
  IN  IF \/ versions = None
         \/ ~ValidPath(path)
         \/ GraphAt(d, cat, path) = {}
         \/ BundleIn(d, cat, b) = {}
         \/ \E r \in d.ranges, n \in new : r.graph = n.graph /\ r.bundle = n.bundle
      THEN Failed
      ELSE [d EXCEPT !.ranges = @ \cup new]

\* INSERT OR REPLACE; the foreign key refuses the property of no bundle.
SetBundleProperty(d, cat, b) ==
  IF BundleIn(d, cat, b) = {}
  THEN Failed
  ELSE [d EXCEPT !.bundleProps = @ \cup {[catalog |-> cat, bundle |-> b]}]

SetGraphProperty(d, cat, path) ==
  IF ~ValidPath(path) \/ GraphAt(d, cat, path) = {}
  THEN Failed
  ELSE [d EXCEPT !.graphProps = @ \cup {[graph |-> IdOf(GraphAt(d, cat, path))]}]

\* UPDATE: what does not exist is passed over, and an empty message is refused.
SetGraphDeprecation(d, cat, path, message) ==
  IF \/ path # <<>> /\ ~ValidPath(path)
     \/ message = None /\ GraphAt(d, cat, path) # {}
  THEN Failed
  ELSE [d EXCEPT !.graphs = {IF g \in GraphAt(d, cat, path)
                             THEN [g EXCEPT !.deprecation = message] ELSE g : g \in @}]

SetBundleDeprecation(d, cat, b, message) ==
  IF message = None /\ BundleIn(d, cat, b) # {}
  THEN Failed
  ELSE [d EXCEPT !.bundles = {IF r \in BundleIn(d, cat, b)
                              THEN [r EXCEPT !.deprecation = message] ELSE r : r \in @}]

Operations == {"bundle", "graph", "member", "edge", "range", "bundle prop", "graph prop",
               "deprecate graph", "deprecate bundle"}

\* What an importer writes is a sequence of operations; this is one of them.
Apply(d, cat, k, o) ==
  CASE o.op = "bundle"      -> InsertBundle(d, cat, k, o.bundle, o.version)
    [] o.op = "graph"       -> CreateGraph(d, cat, k, o.path)
    [] o.op = "member"      -> AddBundleToGraph(d, cat, o.path, o.bundle)
    [] o.op = "edge"        -> AddEdge(d, cat, o.path, o.from, o.to)
    [] o.op = "range"       -> AddPredecessorRange(d, cat, o.path, o.bundle, o.versions)
    [] o.op = "bundle prop" -> SetBundleProperty(d, cat, o.bundle)
    [] o.op = "graph prop"  -> SetGraphProperty(d, cat, o.path)
    [] o.op = "deprecate graph"  -> SetGraphDeprecation(d, cat, o.path, o.message)
    [] o.op = "deprecate bundle" -> SetBundleDeprecation(d, cat, o.bundle, o.message)

\* After a write that fails there is no other: the importer returns the error and the
\* transaction is rolled back.
ApplyNext(acc, cat, k, o) == IF acc = Failed THEN Failed ELSE Apply(acc, cat, k, o)

\* The content of cat replaced by what the importer writes.
Imported(d, cat, k, ops) ==
  LET after[n \in 0 .. Len(ops)] ==
        IF n = 0 THEN DeleteAll(d, cat) ELSE ApplyNext(after[n - 1], cat, k, ops[n])
  IN  after[Len(ops)]
=============================================================================
