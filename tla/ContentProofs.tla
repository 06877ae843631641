---------------------------- MODULE ContentProofs ----------------------------
(***************************************************************************)
(* What the methods of contentWriter and deleteAll keep true of the        *)
(* content tables, for any catalogs and any number of rows, and what the   *)
(* queries over such tables return.  The proofs about ContentQuery and     *)
(* Resolver rest on these lemmas.                                          *)
(***************************************************************************)
EXTENDS ContentSelects, WellFoundedInduction, FiniteSetTheorems, SequenceTheorems, TLAPS

-----------------------------------------------------------------------------
(***************************************************************************)
(* Content that the writer may leave.                                      *)
(***************************************************************************)
Tables == {"graphs", "bundles", "members", "edges", "ranges", "graphProps", "bundleProps",
           "nextGraph", "nextBundle"}
GraphColumns  == {"id", "catalog", "path", "parent", "deprecation", "import"}
BundleColumns == {"id", "catalog", "bundle", "version", "deprecation", "import"}

Shape(d) ==
  /\ DOMAIN d = Tables
  /\ IsFiniteSet(d.graphs) /\ IsFiniteSet(d.bundles) /\ IsFiniteSet(d.ranges)
  /\ d.nextGraph \in Nat /\ d.nextBundle \in Nat
  /\ \A g \in d.graphs : DOMAIN g = GraphColumns
  /\ \A b \in d.bundles : DOMAIN b = BundleColumns

\* AUTOINCREMENT and the UNIQUE constraints.
GraphKeys(d) ==
  /\ \A g \in d.graphs : g.id \in Nat /\ g.id < d.nextGraph
  /\ \A g, h \in d.graphs : g.id = h.id => g = h

BundleKeys(d) ==
  /\ \A b \in d.bundles : b.id \in Nat /\ b.id < d.nextBundle
  /\ \A b, c \in d.bundles : b.id = c.id => b = c
  /\ \A b, c \in d.bundles : b.catalog = c.catalog /\ b.bundle = c.bundle => b = c

Parents(d) ==
  \A g \in d.graphs : \/ g.parent = None
                      \/ \E h \in d.graphs : h.id = g.parent /\ h.catalog = g.catalog

\* A graph and a bundle that are there, in one catalog.
Together(d, graph, bundle) ==
  \E g \in d.graphs, b \in d.bundles : g.id = graph /\ b.id = bundle /\ g.catalog = b.catalog

References(d) ==
  /\ \A m \in d.members : Together(d, m.graph, m.bundle)
  /\ \A e \in d.edges : Together(d, e.graph, e.from) /\ Together(d, e.graph, e.to)
  /\ \A r \in d.ranges : Together(d, r.graph, r.bundle)
  /\ \A p \in d.bundleProps : \E b \in d.bundles : b.catalog = p.catalog /\ b.bundle = p.bundle

\* A graph is below the one at the front of its path, and there is one at a path.
Placed(d) ==
  /\ \A g \in d.graphs : g.path \in Seq(Segments) /\ g.path # <<>>
  /\ \A g \in d.graphs : Len(g.path) = 1 => g.parent = None
  /\ \A g \in d.graphs : Len(g.path) # 1 =>
       \E h \in d.graphs : h.id = g.parent /\ h.catalog = g.catalog /\ h.path = Front(g.path)
  /\ \A g, h \in d.graphs : g.catalog = h.catalog /\ g.path = h.path => g = h

Records(d) ==
  /\ \A m \in d.members : m = [graph |-> m.graph, bundle |-> m.bundle]
  /\ \A e \in d.edges : e = [graph |-> e.graph, from |-> e.from, to |-> e.to]

GoodContent(d) ==
  /\ Shape(d) /\ GraphKeys(d) /\ BundleKeys(d) /\ Parents(d) /\ References(d)
  /\ Placed(d) /\ Records(d)

\* What the transaction of the import numbered k of cat has made of d.
Importing(d, cat, k, v) ==
  /\ \A g : g.catalog # cat => (g \in v.graphs <=> g \in d.graphs)
  /\ \A b : b.catalog # cat => (b \in v.bundles <=> b \in d.bundles)
  /\ \A g \in v.graphs : g.catalog = cat => g.import = k /\ g.id >= d.nextGraph
  /\ \A b \in v.bundles : b.catalog = cat => b.import = k
  /\ v.nextGraph >= d.nextGraph

\* All that there is of a catalog is of one import.
OneImport(d) ==
  \A x, y \in d.graphs \cup d.bundles : x.catalog = y.catalog => x.import = y.import

\* If a row has the id of the graph, the graph was made from it.
Names(d, graph) ==
  /\ graph.id \in Nat /\ graph.id < d.nextGraph
  /\ \A g \in d.graphs : g.id = graph.id => GraphOf(d, g) = graph

-----------------------------------------------------------------------------
(***************************************************************************)
(* The DELETEs.                                                            *)
(***************************************************************************)
LEMMA Deleted ==
  ASSUME NEW d, NEW cat, DOMAIN d = Tables, NEW e, e = DeleteAll(d, cat)
  PROVE  /\ DOMAIN e = Tables /\ e.nextGraph = d.nextGraph /\ e.nextBundle = d.nextBundle
         /\ e.graphs = {g \in d.graphs : \A h \in d.graphs : h.catalog = cat => h.id # g.id}
         /\ e.bundles = {b \in d.bundles : \A c \in d.bundles : c.catalog = cat => c.id # b.id}
         /\ e.members \subseteq d.members /\ e.edges \subseteq d.edges
         /\ e.ranges \subseteq d.ranges
         /\ \A h \in d.graphs : h.catalog = cat =>
              /\ \A m \in e.members : m.graph # h.id
              /\ \A x \in e.edges : x.graph # h.id
              /\ \A r \in e.ranges : r.graph # h.id
         /\ \A c \in d.bundles : c.catalog = cat =>
              /\ \A m \in e.members : m.bundle # c.id
              /\ \A x \in e.edges : x.from # c.id /\ x.to # c.id
              /\ \A r \in e.ranges : r.bundle # c.id
         /\ e.bundleProps = {p \in d.bundleProps : p.catalog # cat}
  <1> DEFINE goneG == {g.id : g \in {h \in d.graphs : h.catalog = cat}}
             goneB == {b.id : b \in {c \in d.bundles : c.catalog = cat}}
             f == DeleteGraphs(d, goneG)
  <1>1. /\ DOMAIN f = Tables /\ f.nextGraph = d.nextGraph /\ f.nextBundle = d.nextBundle
        /\ f.graphs = {g \in d.graphs : g.id \notin goneG} /\ f.bundles = d.bundles
        /\ f.members = {m \in d.members : m.graph \notin goneG}
        /\ f.edges = {x \in d.edges : x.graph \notin goneG}
        /\ f.ranges = {r \in d.ranges : r.graph \notin goneG}
        /\ f.bundleProps = d.bundleProps
    <2> HIDE DEF goneG
    <2> QED
      BY DEF DeleteGraphs, Tables
  <1>2. e = DeleteBundles(f, cat, goneB)
    BY DEF DeleteAll
  <1>3. /\ DOMAIN e = Tables /\ e.nextGraph = f.nextGraph /\ e.nextBundle = f.nextBundle
        /\ e.graphs = f.graphs
        /\ e.bundles = {b \in f.bundles : b.id \notin goneB}
        /\ e.members = {m \in f.members : m.bundle \notin goneB}
        /\ e.edges = {x \in f.edges : x.from \notin goneB /\ x.to \notin goneB}
        /\ e.ranges = {r \in f.ranges : r.bundle \notin goneB}
        /\ e.bundleProps = {p \in f.bundleProps : p.catalog # cat}
    <2> HIDE DEF f, goneB
    <2> QED
      BY <1>1, <1>2 DEF DeleteBundles, Tables
  <1>4. /\ \A h \in d.graphs : h.catalog = cat => h.id \in goneG
        /\ \A i \in goneG : \E h \in d.graphs : h.catalog = cat /\ h.id = i
        /\ \A c \in d.bundles : c.catalog = cat => c.id \in goneB
        /\ \A i \in goneB : \E c \in d.bundles : c.catalog = cat /\ c.id = i
    OBVIOUS
  <1> HIDE DEF f, goneG, goneB
  <1>5. /\ e.graphs = {g \in d.graphs : \A h \in d.graphs : h.catalog = cat => h.id # g.id}
        /\ e.bundles = {b \in d.bundles : \A c \in d.bundles : c.catalog = cat => c.id # b.id}
    BY <1>1, <1>3, <1>4
  <1>6. /\ \A h \in d.graphs : h.catalog = cat =>
              /\ \A m \in e.members : m.graph # h.id
              /\ \A x \in e.edges : x.graph # h.id
              /\ \A r \in e.ranges : r.graph # h.id
        /\ \A c \in d.bundles : c.catalog = cat =>
              /\ \A m \in e.members : m.bundle # c.id
              /\ \A x \in e.edges : x.from # c.id /\ x.to # c.id
              /\ \A r \in e.ranges : r.bundle # c.id
    BY <1>1, <1>3, <1>4
  <1> QED
    BY <1>1, <1>3, <1>5, <1>6

LEMMA DeleteKeeps ==
  ASSUME NEW d, NEW cat, NEW k, GoodContent(d), NEW e, e = DeleteAll(d, cat)
  PROVE  GoodContent(e) /\ Importing(d, cat, k, e)
  <1>1. /\ DOMAIN e = Tables /\ e.nextGraph = d.nextGraph /\ e.nextBundle = d.nextBundle
        /\ e.graphs = {g \in d.graphs : \A h \in d.graphs : h.catalog = cat => h.id # g.id}
        /\ e.bundles = {b \in d.bundles : \A c \in d.bundles : c.catalog = cat => c.id # b.id}
        /\ e.members \subseteq d.members /\ e.edges \subseteq d.edges
        /\ e.ranges \subseteq d.ranges
        /\ \A h \in d.graphs : h.catalog = cat =>
              /\ \A m \in e.members : m.graph # h.id
              /\ \A x \in e.edges : x.graph # h.id
              /\ \A r \in e.ranges : r.graph # h.id
        /\ \A c \in d.bundles : c.catalog = cat =>
              /\ \A m \in e.members : m.bundle # c.id
              /\ \A x \in e.edges : x.from # c.id /\ x.to # c.id
              /\ \A r \in e.ranges : r.bundle # c.id
        /\ e.bundleProps = {p \in d.bundleProps : p.catalog # cat}
    BY Deleted DEF GoodContent, Shape
  <1>2. /\ \A g : g \in e.graphs <=> g \in d.graphs /\ g.catalog # cat
        /\ \A b : b \in e.bundles <=> b \in d.bundles /\ b.catalog # cat
    <2>1. \A g, h \in d.graphs : h.catalog = cat /\ h.id = g.id => g.catalog = cat
      BY DEF GoodContent, GraphKeys
    <2>2. \A b, c \in d.bundles : c.catalog = cat /\ c.id = b.id => b.catalog = cat
      BY DEF GoodContent, BundleKeys
    <2> QED
      BY <1>1, <2>1, <2>2
  <1>3. Shape(e)
    <2>1. e.graphs \subseteq d.graphs /\ e.bundles \subseteq d.bundles
      BY <1>2
    <2>2. IsFiniteSet(e.graphs) /\ IsFiniteSet(e.bundles) /\ IsFiniteSet(e.ranges)
      BY <1>1, <2>1, FS_Subset DEF GoodContent, Shape
    <2> QED
      BY <1>1, <2>1, <2>2 DEF GoodContent, Shape
  <1>4. GraphKeys(e) /\ BundleKeys(e) /\ Parents(e)
    <2>1. GraphKeys(e)
      BY <1>1, <1>2 DEF GoodContent, GraphKeys
    <2>2. BundleKeys(e)
      BY <1>1, <1>2 DEF GoodContent, BundleKeys
    <2>3. Parents(e)
      BY <1>2 DEF GoodContent, Parents
    <2> QED
      BY <2>1, <2>2, <2>3
  <1>5. References(e)
    <2>1. ASSUME NEW g, NEW b, Together(d, g, b),
                 \A h \in d.graphs : h.catalog = cat => g # h.id,
                 \A c \in d.bundles : c.catalog = cat => b # c.id
          PROVE  Together(e, g, b)
      BY <1>2, <2>1 DEF Together
    <2>2. References(d)
      BY DEF GoodContent
    <2>3. \A m \in e.members : Together(e, m.graph, m.bundle)
      BY <1>1, <2>1, <2>2 DEF References
    <2>4. \A x \in e.edges : Together(e, x.graph, x.from) /\ Together(e, x.graph, x.to)
      BY <1>1, <2>1, <2>2 DEF References
    <2>5. \A r \in e.ranges : Together(e, r.graph, r.bundle)
      BY <1>1, <2>1, <2>2 DEF References
    <2>6. \A p \in e.bundleProps : \E b \in e.bundles : b.catalog = p.catalog /\ b.bundle = p.bundle
      BY <1>1, <1>2, <2>2 DEF References
    <2> QED
      BY <2>3, <2>4, <2>5, <2>6 DEF References
  <1>6. Importing(d, cat, k, e)
    BY <1>1, <1>2 DEF GoodContent, Shape, Importing
  <1>7. Placed(e)
    BY <1>2 DEF GoodContent, Placed
  <1>8. Records(e)
    BY <1>1 DEF GoodContent, Records
  <1> QED
    BY <1>3, <1>4, <1>5, <1>6, <1>7, <1>8 DEF GoodContent

-----------------------------------------------------------------------------
(***************************************************************************)
(* The methods of contentWriter.                                           *)
(***************************************************************************)

\* Rows that are there stay, with their keys: what refers to them goes on to.
LEMMA ReferencesKept ==
  ASSUME NEW v, NEW e, References(v),
         \A x \in v.graphs : \E y \in e.graphs : y.id = x.id /\ y.catalog = x.catalog,
         \A x \in v.bundles : \E y \in e.bundles :
           y.id = x.id /\ y.catalog = x.catalog /\ y.bundle = x.bundle,
         \A m \in e.members : m \in v.members \/ Together(e, m.graph, m.bundle),
         \A x \in e.edges :
           x \in v.edges \/ (Together(e, x.graph, x.from) /\ Together(e, x.graph, x.to)),
         \A r \in e.ranges : r \in v.ranges \/ Together(e, r.graph, r.bundle),
         \A p \in e.bundleProps :
           \/ p \in v.bundleProps
           \/ \E b \in e.bundles : b.catalog = p.catalog /\ b.bundle = p.bundle
  PROVE  References(e)
  <1>1. \A g, b : Together(v, g, b) => Together(e, g, b)
    BY DEF Together
  <1>2. \A m \in e.members : Together(e, m.graph, m.bundle)
    BY <1>1 DEF References
  <1>3. \A x \in e.edges : Together(e, x.graph, x.from) /\ Together(e, x.graph, x.to)
    BY <1>1 DEF References
  <1>4. \A r \in e.ranges : Together(e, r.graph, r.bundle)
    BY <1>1 DEF References
  <1>5. \A p \in e.bundleProps : \E b \in e.bundles : b.catalog = p.catalog /\ b.bundle = p.bundle
    <2>1. \A p \in v.bundleProps : \E b \in v.bundles : b.catalog = p.catalog /\ b.bundle = p.bundle
      BY DEF References
    <2> QED
      BY <2>1
  <1> QED
    BY <1>2, <1>3, <1>4, <1>5 DEF References

LEMMA InsertBundleKeeps ==
  ASSUME NEW d, NEW cat, NEW k, NEW v, GoodContent(v), Importing(d, cat, k, v),
         NEW b, NEW version, NEW e, e = InsertBundle(v, cat, k, b, version)
  PROVE  GoodContent(e) /\ Importing(d, cat, k, e)
  <1>1. CASE BundleIn(v, cat, b) # {}
    BY <1>1 DEF InsertBundle
  <1>2. CASE BundleIn(v, cat, b) = {}
    <2> DEFINE row == [id |-> v.nextBundle, catalog |-> cat, bundle |-> b,
                       version |-> version, deprecation |-> None, import |-> k]
    <2>1. /\ DOMAIN e = Tables /\ e.graphs = v.graphs /\ e.bundles = v.bundles \cup {row}
          /\ e.members = v.members /\ e.edges = v.edges /\ e.ranges = v.ranges
          /\ e.bundleProps = v.bundleProps
          /\ e.nextGraph = v.nextGraph /\ e.nextBundle = v.nextBundle + 1
      <3> HIDE DEF row
      <3>1. e = [v EXCEPT !.bundles = @ \cup {row}, !.nextBundle = @ + 1]
        BY <1>2 DEF InsertBundle, row
      <3> QED
        BY <3>1 DEF GoodContent, Shape, Tables
    <2>2. /\ row.id = v.nextBundle /\ row.catalog = cat /\ row.bundle = b /\ row.import = k
          /\ DOMAIN row = BundleColumns
      BY DEF BundleColumns
    <2> HIDE DEF row
    <2>3. Shape(e)
      <3>1. Shape(v)
        BY DEF GoodContent
      <3>2. IsFiniteSet(e.graphs) /\ IsFiniteSet(e.bundles) /\ IsFiniteSet(e.ranges)
        BY <2>1, <3>1, FS_AddElement DEF Shape
      <3>3. e.nextGraph \in Nat /\ e.nextBundle \in Nat
        BY <2>1, <3>1 DEF Shape
      <3>4. \A r \in e.bundles : DOMAIN r = BundleColumns
        BY <2>1, <2>2, <3>1 DEF Shape
      <3>5. \A g \in e.graphs : DOMAIN g = GraphColumns
        BY <2>1, <3>1 DEF Shape
      <3> QED
        BY <2>1, <3>2, <3>3, <3>4, <3>5 DEF Shape
    <2>4. BundleKeys(e)
      <3>1. \A r \in v.bundles : /\ r.id \in Nat /\ r.id < v.nextBundle
                                 /\ ~(r.catalog = cat /\ r.bundle = b)
        BY <1>2 DEF GoodContent, BundleKeys, BundleIn
      <3>2. v.nextBundle \in Nat
        BY DEF GoodContent, Shape
      <3>3. \A r \in e.bundles : r.id \in Nat /\ r.id < e.nextBundle
        BY <2>1, <2>2, <3>1, <3>2
      <3>4. \A r, s \in e.bundles : r.id = s.id => r = s
        BY <2>1, <2>2, <3>1, <3>2 DEF GoodContent, BundleKeys
      <3>5. \A r, s \in e.bundles : r.catalog = s.catalog /\ r.bundle = s.bundle => r = s
        BY <2>1, <2>2, <3>1 DEF GoodContent, BundleKeys
      <3> QED
        BY <3>3, <3>4, <3>5 DEF BundleKeys
    <2>5. GraphKeys(e) /\ Parents(e)
      BY <2>1 DEF GoodContent, GraphKeys, Parents
    <2>6. References(e)
      BY <2>1, ReferencesKept DEF GoodContent
    <2>7. Importing(d, cat, k, e)
      BY <2>1, <2>2 DEF Importing
    <2>8. Placed(e) /\ Records(e)
      BY <2>1 DEF GoodContent, Placed, Records
    <2> QED
      BY <2>3, <2>4, <2>5, <2>6, <2>7, <2>8 DEF GoodContent
  <1> QED
    BY <1>1, <1>2

LEMMA CreateGraphKeeps ==
  ASSUME NEW d, NEW cat, NEW k, NEW v, GoodContent(v), Importing(d, cat, k, v), d.nextGraph \in Nat,
         NEW path, NEW e, e = CreateGraph(v, cat, k, path), e # Failed
  PROVE  GoodContent(e) /\ Importing(d, cat, k, e)
  <1> DEFINE parent == GraphAt(v, cat, Front(path))
             p == IF Len(path) = 1 THEN None ELSE IdOf(parent)
             row == [id |-> v.nextGraph, catalog |-> cat, path |-> path, parent |-> p,
                     deprecation |-> None, import |-> k]
  <1>1. /\ e = [v EXCEPT !.graphs = @ \cup {row}, !.nextGraph = @ + 1]
        /\ ValidPath(path) /\ GraphAt(v, cat, path) = {} /\ ~(Len(path) # 1 /\ parent = {})
    BY DEF CreateGraph
  <1>2. /\ Len(path) = 1 => p = None
        /\ Len(path) # 1 => \E h \in v.graphs : h.id = p /\ h.catalog = cat /\ h.path = Front(path)
    <2>1. CASE Len(path) = 1
      BY <2>1
    <2>2. CASE Len(path) # 1
      <3>1. parent # {}
        BY <1>1, <2>2
      <3>2. \E h \in parent : IdOf(parent) = h.id
        BY <3>1 DEF IdOf
      <3> QED
        BY <2>2, <3>2 DEF GraphAt
    <2> QED
      BY <2>1, <2>2
  <1>3. /\ row.id = v.nextGraph /\ row.catalog = cat /\ row.import = k /\ row.parent = p
        /\ row.path = path /\ DOMAIN row = GraphColumns
    BY DEF GraphColumns
  <1> HIDE DEF row, p, parent
  <1>4. /\ DOMAIN e = Tables /\ e.graphs = v.graphs \cup {row} /\ e.bundles = v.bundles
        /\ e.members = v.members /\ e.edges = v.edges /\ e.ranges = v.ranges
        /\ e.bundleProps = v.bundleProps
        /\ e.nextGraph = v.nextGraph + 1 /\ e.nextBundle = v.nextBundle
    BY <1>1 DEF GoodContent, Shape, Tables
  <1>5. /\ v.nextGraph \in Nat
        /\ \A g \in v.graphs : g.id \in Nat /\ g.id < v.nextGraph
    BY DEF GoodContent, Shape, GraphKeys
  <1>6. Shape(e)
    <2>1. Shape(v)
      BY DEF GoodContent
    <2>2. IsFiniteSet(v.graphs) /\ IsFiniteSet(v.bundles) /\ IsFiniteSet(v.ranges)
      BY <2>1 DEF Shape
    <2>6. IsFiniteSet(v.graphs \cup {row})
      BY ONLY <2>2, FS_AddElement
    <2>7. IsFiniteSet(e.graphs) /\ IsFiniteSet(e.bundles) /\ IsFiniteSet(e.ranges)
      BY <1>4, <2>2, <2>6
    <2>3. e.nextGraph \in Nat /\ e.nextBundle \in Nat
      BY <1>4, <2>1 DEF Shape
    <2>4. \A g \in e.graphs : DOMAIN g = GraphColumns
      BY <1>3, <1>4, <2>1 DEF Shape
    <2>5. \A b \in e.bundles : DOMAIN b = BundleColumns
      BY <1>4, <2>1 DEF Shape
    <2> QED
      BY <1>4, <2>3, <2>4, <2>5, <2>7 DEF Shape
  <1>7. GraphKeys(e)
    <2>1. \A g \in e.graphs : g.id \in Nat /\ g.id < e.nextGraph
      BY <1>3, <1>4, <1>5
    <2>2. \A g, h \in e.graphs : g.id = h.id => g = h
      BY <1>3, <1>4, <1>5 DEF GoodContent, GraphKeys
    <2> QED
      BY <2>1, <2>2 DEF GraphKeys
  <1>8. BundleKeys(e)
    BY <1>4 DEF GoodContent, BundleKeys
  <1>9. Parents(e)
    BY <1>2, <1>3, <1>4 DEF GoodContent, Parents
  <1>10. References(e)
    BY <1>4, ReferencesKept DEF GoodContent
  <1>11. Importing(d, cat, k, e)
    BY <1>3, <1>4, <1>5 DEF Importing
  <1>12. Placed(e)
    <2>1. Placed(v) /\ path \in Seq(Segments) /\ path # <<>>
      BY <1>1 DEF GoodContent, ValidPath
    <2>2. \A g \in v.graphs : g.catalog = cat => g.path # path
      BY <1>1 DEF GraphAt
    <2>3. \A g \in e.graphs : g.path \in Seq(Segments) /\ g.path # <<>>
      BY <1>3, <1>4, <2>1 DEF Placed
    <2>4. \A g \in e.graphs : Len(g.path) = 1 => g.parent = None
      BY <1>2, <1>3, <1>4, <2>1 DEF Placed
    <2>5. \A g \in e.graphs : Len(g.path) # 1 =>
            \E h \in e.graphs : h.id = g.parent /\ h.catalog = g.catalog /\ h.path = Front(g.path)
      BY <1>2, <1>3, <1>4, <2>1 DEF Placed
    <2>6. \A g, h \in e.graphs : g.catalog = h.catalog /\ g.path = h.path => g = h
      BY <1>3, <1>4, <2>1, <2>2 DEF Placed
    <2> QED
      BY <2>3, <2>4, <2>5, <2>6 DEF Placed
  <1>13. Records(e)
    BY <1>4 DEF GoodContent, Records
  <1> QED
    BY <1>6, <1>7, <1>8, <1>9, <1>10, <1>11, <1>12, <1>13 DEF GoodContent

\* A row that refers to a graph and a bundle that the writer looked up by name.
LEMMA LookedUp ==
  ASSUME NEW v, NEW cat, NEW path, NEW b, NEW r \in BundleIn(v, cat, b), GraphAt(v, cat, path) # {}
  PROVE  Together(v, IdOf(GraphAt(v, cat, path)), r.id)
  <1>1. \E g \in GraphAt(v, cat, path) : IdOf(GraphAt(v, cat, path)) = g.id
    BY DEF IdOf
  <1> QED
    BY <1>1 DEF GraphAt, BundleIn, Together

\* Operations that touch neither graphs nor bundles.
LEMMA RowsKept ==
  ASSUME NEW d, NEW cat, NEW k, NEW v, GoodContent(v), Importing(d, cat, k, v),
         NEW e, DOMAIN e = Tables, References(e), Records(e),
         e.graphs = v.graphs, e.bundles = v.bundles, IsFiniteSet(e.ranges),
         e.nextGraph = v.nextGraph, e.nextBundle = v.nextBundle
  PROVE  GoodContent(e) /\ Importing(d, cat, k, e)
  <1>1. Shape(e)
    BY DEF GoodContent, Shape
  <1>2. GraphKeys(e) /\ Parents(e)
    BY DEF GoodContent, GraphKeys, Parents
  <1>3. BundleKeys(e)
    BY DEF GoodContent, BundleKeys
  <1>4. Importing(d, cat, k, e)
    BY DEF Importing
  <1>5. Placed(e)
    BY DEF GoodContent, Placed
  <1> QED
    BY <1>1, <1>2, <1>3, <1>4, <1>5 DEF GoodContent

LEMMA AddBundleToGraphKeeps ==
  ASSUME NEW d, NEW cat, NEW k, NEW v, GoodContent(v), Importing(d, cat, k, v),
         NEW path, NEW b, NEW e, e = AddBundleToGraph(v, cat, path, b), e # Failed
  PROVE  GoodContent(e) /\ Importing(d, cat, k, e)
  <1> DEFINE new == {[graph |-> IdOf(GraphAt(v, cat, path)), bundle |-> r.id] :
                       r \in BundleIn(v, cat, b)}
  <1>1. GraphAt(v, cat, path) # {} /\ e = [v EXCEPT !.members = @ \cup new]
    BY DEF AddBundleToGraph
  <1>2. \A m \in new : Together(v, m.graph, m.bundle)
    BY <1>1, LookedUp
  <1>6. \A m \in new : m = [graph |-> m.graph, bundle |-> m.bundle]
    OBVIOUS
  <1> HIDE DEF new
  <1>3. /\ DOMAIN e = Tables /\ e.graphs = v.graphs /\ e.bundles = v.bundles
        /\ e.members = v.members \cup new /\ e.edges = v.edges /\ e.ranges = v.ranges
        /\ e.bundleProps = v.bundleProps
        /\ e.nextGraph = v.nextGraph /\ e.nextBundle = v.nextBundle
    BY <1>1 DEF GoodContent, Shape, Tables
  <1>4. \A m \in new : Together(e, m.graph, m.bundle)
    BY <1>2, <1>3 DEF Together
  <1>5. References(e)
    BY <1>3, <1>4, ReferencesKept DEF GoodContent
  <1>7. Records(e)
    BY <1>3, <1>6 DEF GoodContent, Records
  <1> QED
    BY <1>3, <1>5, <1>7, RowsKept DEF GoodContent, Shape

LEMMA AddEdgeKeeps ==
  ASSUME NEW d, NEW cat, NEW k, NEW v, GoodContent(v), Importing(d, cat, k, v),
         NEW path, NEW b, NEW c, NEW e, e = AddEdge(v, cat, path, b, c), e # Failed
  PROVE  GoodContent(e) /\ Importing(d, cat, k, e)
  <1> DEFINE new == {[graph |-> IdOf(GraphAt(v, cat, path)), from |-> r.id, to |-> s.id] :
                       r \in BundleIn(v, cat, b), s \in BundleIn(v, cat, c)}
  <1>1. GraphAt(v, cat, path) # {} /\ e = [v EXCEPT !.edges = @ \cup new]
    BY DEF AddEdge
  <1>2. \A x \in new : Together(v, x.graph, x.from) /\ Together(v, x.graph, x.to)
    BY <1>1, LookedUp
  <1>6. \A x \in new : x = [graph |-> x.graph, from |-> x.from, to |-> x.to]
    OBVIOUS
  <1> HIDE DEF new
  <1>3. /\ DOMAIN e = Tables /\ e.graphs = v.graphs /\ e.bundles = v.bundles
        /\ e.members = v.members /\ e.edges = v.edges \cup new /\ e.ranges = v.ranges
        /\ e.bundleProps = v.bundleProps
        /\ e.nextGraph = v.nextGraph /\ e.nextBundle = v.nextBundle
    BY <1>1 DEF GoodContent, Shape, Tables
  <1>4. \A x \in new : Together(e, x.graph, x.from) /\ Together(e, x.graph, x.to)
    BY <1>2, <1>3 DEF Together
  <1>5. References(e)
    BY <1>3, <1>4, ReferencesKept DEF GoodContent
  <1>7. Records(e)
    BY <1>3, <1>6 DEF GoodContent, Records
  <1> QED
    BY <1>3, <1>5, <1>7, RowsKept DEF GoodContent, Shape

LEMMA AddPredecessorRangeKeeps ==
  ASSUME NEW d, NEW cat, NEW k, NEW v, GoodContent(v), Importing(d, cat, k, v),
         NEW path, NEW b, NEW versions,
         NEW e, e = AddPredecessorRange(v, cat, path, b, versions), e # Failed
  PROVE  GoodContent(e) /\ Importing(d, cat, k, e)
  <1> DEFINE new == {[graph |-> IdOf(GraphAt(v, cat, path)), bundle |-> r.id,
                      versions |-> versions] : r \in BundleIn(v, cat, b)}
  <1>1. GraphAt(v, cat, path) # {} /\ e = [v EXCEPT !.ranges = @ \cup new]
    BY DEF AddPredecessorRange
  <1>2. \A m \in new : Together(v, m.graph, m.bundle)
    BY <1>1, LookedUp
  <1>6. IsFiniteSet(new)
    <2> DEFINE row(r) == [graph |-> IdOf(GraphAt(v, cat, path)), bundle |-> r.id,
                          versions |-> versions]
               f == [r \in BundleIn(v, cat, b) |-> row(r)]
    <2>1. f \in Surjection(BundleIn(v, cat, b), new)
      <3> HIDE DEF row
      <3> QED
        BY DEF Surjection, row
    <2>2. IsFiniteSet(BundleIn(v, cat, b))
      BY FS_Subset DEF GoodContent, Shape, BundleIn
    <2> QED
      BY <2>1, <2>2, FS_Surjection
  <1> HIDE DEF new
  <1>3. /\ DOMAIN e = Tables /\ e.graphs = v.graphs /\ e.bundles = v.bundles
        /\ e.members = v.members /\ e.edges = v.edges /\ e.ranges = v.ranges \cup new
        /\ e.bundleProps = v.bundleProps
        /\ e.nextGraph = v.nextGraph /\ e.nextBundle = v.nextBundle
    BY <1>1 DEF GoodContent, Shape, Tables
  <1>4. \A m \in new : Together(e, m.graph, m.bundle)
    BY <1>2, <1>3 DEF Together
  <1>5. References(e)
    BY <1>3, <1>4, ReferencesKept DEF GoodContent
  <1>7. IsFiniteSet(e.ranges)
    <2>1. IsFiniteSet(v.ranges)
      BY DEF GoodContent, Shape
    <2>2. IsFiniteSet(v.ranges \cup new)
      BY <1>6, <2>1, FS_Union
    <2> QED
      BY <1>3, <2>2
  <1>8. Records(e)
    BY <1>3 DEF GoodContent, Records
  <1> QED
    BY <1>3, <1>5, <1>7, <1>8, RowsKept

LEMMA SetBundlePropertyKeeps ==
  ASSUME NEW d, NEW cat, NEW k, NEW v, GoodContent(v), Importing(d, cat, k, v),
         NEW b, NEW e, e = SetBundleProperty(v, cat, b), e # Failed
  PROVE  GoodContent(e) /\ Importing(d, cat, k, e)
  <1> DEFINE new == [catalog |-> cat, bundle |-> b]
  <1>1. BundleIn(v, cat, b) # {} /\ e = [v EXCEPT !.bundleProps = @ \cup {new}]
    BY DEF SetBundleProperty
  <1>2. \E r \in v.bundles : r.catalog = new.catalog /\ r.bundle = new.bundle
    BY <1>1 DEF BundleIn
  <1> HIDE DEF new
  <1>3. /\ DOMAIN e = Tables /\ e.graphs = v.graphs /\ e.bundles = v.bundles
        /\ e.members = v.members /\ e.edges = v.edges /\ e.ranges = v.ranges
        /\ e.bundleProps = v.bundleProps \cup {new}
        /\ e.nextGraph = v.nextGraph /\ e.nextBundle = v.nextBundle
    BY <1>1 DEF GoodContent, Shape, Tables
  <1>4. References(e)
    BY <1>2, <1>3, ReferencesKept DEF GoodContent
  <1>5. Records(e)
    BY <1>3 DEF GoodContent, Records
  <1> QED
    BY <1>3, <1>4, <1>5, RowsKept DEF GoodContent, Shape

LEMMA SetGraphPropertyKeeps ==
  ASSUME NEW d, NEW cat, NEW k, NEW v, GoodContent(v), Importing(d, cat, k, v),
         NEW path, NEW e, e = SetGraphProperty(v, cat, path), e # Failed
  PROVE  GoodContent(e) /\ Importing(d, cat, k, e)
  <1> DEFINE new == {[graph |-> IdOf(GraphAt(v, cat, path))]}
  <1>1. e = [v EXCEPT !.graphProps = @ \cup new]
    BY DEF SetGraphProperty
  <1> HIDE DEF new
  <1>2. /\ DOMAIN e = Tables /\ e.graphs = v.graphs /\ e.bundles = v.bundles
        /\ e.members = v.members /\ e.edges = v.edges /\ e.ranges = v.ranges
        /\ e.bundleProps = v.bundleProps
        /\ e.nextGraph = v.nextGraph /\ e.nextBundle = v.nextBundle
    BY <1>1 DEF GoodContent, Shape, Tables
  <1>3. References(e)
    BY <1>2, ReferencesKept DEF GoodContent
  <1>4. Records(e)
    BY <1>2 DEF GoodContent, Records
  <1> QED
    BY <1>2, <1>3, <1>4, RowsKept DEF GoodContent, Shape

\* An UPDATE of a column that is no key.
LEMMA SetGraphDeprecationKeeps ==
  ASSUME NEW d, NEW cat, NEW k, NEW v, GoodContent(v), Importing(d, cat, k, v),
         NEW path, NEW message, NEW e, e = SetGraphDeprecation(v, cat, path, message), e # Failed
  PROVE  GoodContent(e) /\ Importing(d, cat, k, e)
  <1> DEFINE Set(g) == IF g \in GraphAt(v, cat, path) THEN [g EXCEPT !.deprecation = message] ELSE g
             new == {Set(g) : g \in v.graphs}
  <1>1. e = [v EXCEPT !.graphs = new]
    BY DEF SetGraphDeprecation
  <1>2. \A g \in v.graphs : /\ DOMAIN Set(g) = GraphColumns
                            /\ Set(g).id = g.id /\ Set(g).catalog = g.catalog
                            /\ Set(g).parent = g.parent /\ Set(g).import = g.import
                            /\ Set(g).path = g.path
                            /\ g.catalog # cat => Set(g) = g
    BY DEF GoodContent, Shape, GraphColumns, GraphAt
  <1>3. IsFiniteSet(new)
    <2> DEFINE f == [g \in v.graphs |-> Set(g)]
    <2>1. f \in Surjection(v.graphs, new)
      <3> HIDE DEF Set
      <3> QED
        BY DEF Surjection
    <2> QED
      BY <2>1, FS_Surjection DEF GoodContent, Shape
  <1>4. \A x : x \in new <=> \E g \in v.graphs : x = Set(g)
    OBVIOUS
  <1> HIDE DEF Set, new
  <1>5. /\ DOMAIN e = Tables /\ e.graphs = new /\ e.bundles = v.bundles
        /\ e.members = v.members /\ e.edges = v.edges /\ e.ranges = v.ranges
        /\ e.bundleProps = v.bundleProps
        /\ e.nextGraph = v.nextGraph /\ e.nextBundle = v.nextBundle
    BY <1>1 DEF GoodContent, Shape, Tables
  <1>6. Shape(e)
    BY <1>2, <1>3, <1>4, <1>5 DEF GoodContent, Shape
  <1>7. GraphKeys(e)
    BY <1>2, <1>4, <1>5 DEF GoodContent, GraphKeys
  <1>8. BundleKeys(e)
    BY <1>5 DEF GoodContent, BundleKeys
  <1>9. Parents(e)
    BY <1>2, <1>4, <1>5 DEF GoodContent, Parents
  <1>10. References(e)
    BY <1>2, <1>4, <1>5, ReferencesKept DEF GoodContent
  <1>11. Importing(d, cat, k, e)
    BY <1>2, <1>4, <1>5 DEF Importing
  <1>12. Placed(e)
    BY <1>2, <1>4, <1>5 DEF GoodContent, Placed
  <1>13. Records(e)
    BY <1>5 DEF GoodContent, Records
  <1> QED
    BY <1>6, <1>7, <1>8, <1>9, <1>10, <1>11, <1>12, <1>13 DEF GoodContent

LEMMA SetBundleDeprecationKeeps ==
  ASSUME NEW d, NEW cat, NEW k, NEW v, GoodContent(v), Importing(d, cat, k, v),
         NEW b, NEW message, NEW e, e = SetBundleDeprecation(v, cat, b, message), e # Failed
  PROVE  GoodContent(e) /\ Importing(d, cat, k, e)
  <1> DEFINE Set(r) == IF r \in BundleIn(v, cat, b) THEN [r EXCEPT !.deprecation = message] ELSE r
             new == {Set(r) : r \in v.bundles}
  <1>1. e = [v EXCEPT !.bundles = new]
    BY DEF SetBundleDeprecation
  <1>2. \A r \in v.bundles : /\ DOMAIN Set(r) = BundleColumns
                             /\ Set(r).id = r.id /\ Set(r).catalog = r.catalog
                             /\ Set(r).bundle = r.bundle /\ Set(r).import = r.import
                             /\ r.catalog # cat => Set(r) = r
    BY DEF GoodContent, Shape, BundleColumns, BundleIn
  <1>3. IsFiniteSet(new)
    <2> DEFINE f == [r \in v.bundles |-> Set(r)]
    <2>1. f \in Surjection(v.bundles, new)
      <3> HIDE DEF Set
      <3> QED
        BY DEF Surjection
    <2> QED
      BY <2>1, FS_Surjection DEF GoodContent, Shape
  <1>4. \A x : x \in new <=> \E r \in v.bundles : x = Set(r)
    OBVIOUS
  <1> HIDE DEF Set, new
  <1>5. /\ DOMAIN e = Tables /\ e.graphs = v.graphs /\ e.bundles = new
        /\ e.members = v.members /\ e.edges = v.edges /\ e.ranges = v.ranges
        /\ e.bundleProps = v.bundleProps
        /\ e.nextGraph = v.nextGraph /\ e.nextBundle = v.nextBundle
    BY <1>1 DEF GoodContent, Shape, Tables
  <1>6. Shape(e)
    BY <1>2, <1>3, <1>4, <1>5 DEF GoodContent, Shape
  <1>7. BundleKeys(e)
    BY <1>2, <1>4, <1>5 DEF GoodContent, BundleKeys
  <1>8. GraphKeys(e) /\ Parents(e)
    BY <1>5 DEF GoodContent, GraphKeys, Parents
  <1>9. References(e)
    BY <1>2, <1>4, <1>5, ReferencesKept DEF GoodContent
  <1>10. Importing(d, cat, k, e)
    BY <1>2, <1>4, <1>5 DEF Importing
  <1>11. Placed(e) /\ Records(e)
    BY <1>5 DEF GoodContent, Placed, Records
  <1> QED
    BY <1>6, <1>7, <1>8, <1>9, <1>10, <1>11 DEF GoodContent

-----------------------------------------------------------------------------
(***************************************************************************)
(* An import: one operation after the other.                               *)
(***************************************************************************)
LEMMA ApplyKeeps ==
  ASSUME NEW d, NEW cat, NEW k, NEW v, GoodContent(v), Importing(d, cat, k, v), d.nextGraph \in Nat,
         NEW o, o.op \in Operations, NEW e, e = Apply(v, cat, k, o), e # Failed
  PROVE  GoodContent(e) /\ Importing(d, cat, k, e)
  <1>1. CASE o.op = "bundle"
    <2>1. e = InsertBundle(v, cat, k, o.bundle, o.version)
      BY <1>1 DEF Apply
    <2> QED
      BY <2>1, InsertBundleKeeps
  <1>2. CASE o.op = "graph"
    <2>1. e = CreateGraph(v, cat, k, o.path)
      BY <1>2 DEF Apply
    <2> QED
      BY <2>1, CreateGraphKeeps
  <1>3. CASE o.op = "member"
    <2>1. e = AddBundleToGraph(v, cat, o.path, o.bundle)
      BY <1>3 DEF Apply
    <2> QED
      BY <2>1, AddBundleToGraphKeeps
  <1>4. CASE o.op = "edge"
    <2>1. e = AddEdge(v, cat, o.path, o.from, o.to)
      BY <1>4 DEF Apply
    <2> QED
      BY <2>1, AddEdgeKeeps
  <1>5. CASE o.op = "range"
    <2>1. e = AddPredecessorRange(v, cat, o.path, o.bundle, o.versions)
      BY <1>5 DEF Apply
    <2> QED
      BY <2>1, AddPredecessorRangeKeeps
  <1>6. CASE o.op = "bundle prop"
    <2>1. e = SetBundleProperty(v, cat, o.bundle)
      BY <1>6 DEF Apply
    <2> QED
      BY <2>1, SetBundlePropertyKeeps
  <1>7. CASE o.op = "graph prop"
    <2>1. e = SetGraphProperty(v, cat, o.path)
      BY <1>7 DEF Apply
    <2> QED
      BY <2>1, SetGraphPropertyKeeps
  <1>8. CASE o.op = "deprecate graph"
    <2>1. e = SetGraphDeprecation(v, cat, o.path, o.message)
      BY <1>8 DEF Apply
    <2> QED
      BY <2>1, SetGraphDeprecationKeeps
  <1>9. CASE o.op = "deprecate bundle"
    <2>1. e = SetBundleDeprecation(v, cat, o.bundle, o.message)
      BY <1>9 DEF Apply
    <2> QED
      BY <2>1, SetBundleDeprecationKeeps
  <1> QED
    BY <1>1, <1>2, <1>3, <1>4, <1>5, <1>6, <1>7, <1>8, <1>9 DEF Operations

\* Induction up to N, for a set: the least number that is not in it has no predecessor.
LEMMA UpTo ==
  ASSUME NEW N \in Nat, NEW G, 0 \in G,
         \A m \in 0 .. N : m < N /\ m \in G => m + 1 \in G
  PROVE  \A m \in 0 .. N : m \in G
  <1> SUFFICES ASSUME NEW x \in 0 .. N, x \notin G
               PROVE  FALSE
    OBVIOUS
  <1> DEFINE out == {m \in 0 .. N : m \notin G}
  <1>1. out \subseteq Nat /\ out # {}
    OBVIOUS
  <1>2. PICK i \in out : \A j \in out : ~(<<j, i>> \in OpToRel(<, Nat))
    BY <1>1, NatLessThanWellFounded, WFMin
  <1>3. i \in Nat /\ i # 0 /\ i <= N /\ i \notin G
    BY i \in out
  <1>4. i - 1 \in 0 .. N /\ i - 1 < N /\ i - 1 < i /\ (i - 1) + 1 = i
    BY <1>3
  <1>5. i - 1 \notin out
    <2> SUFFICES ASSUME i - 1 \in out
                 PROVE  FALSE
      OBVIOUS
    <2> DEFINE pair == <<i - 1, i>>
    <2>1. pair \in Nat \X Nat /\ pair[1] = i - 1 /\ pair[2] = i
      BY <1>3, <1>4
    <2>2. pair \in OpToRel(<, Nat)
      BY <1>4, <2>1 DEF OpToRel
    <2> QED
      BY <1>2, <2>2
  <1>6. i - 1 \in G
    BY <1>4, <1>5
  <1> QED
    BY <1>3, <1>4, <1>6

\* The writes of an import have results, one from the other.
LEMMA ImportedSteps ==
  ASSUME NEW d, NEW cat, NEW k, NEW ops, Len(ops) \in Nat
  PROVE  \E f : /\ Imported(d, cat, k, ops) = f[Len(ops)]
                /\ f[0] = DeleteAll(d, cat)
                /\ \A n \in 1 .. Len(ops) : f[n] = ApplyNext(f[n - 1], cat, k, ops[n])
  <1> DEFINE N == Len(ops)
             base == DeleteAll(d, cat)
             Step(v, n) == ApplyNext(v, cat, k, ops[n])
             Body(f, m) == [n \in 0 .. m |-> IF n = 0 THEN base ELSE Step(f[n - 1], n)]
             G == {m \in 0 .. N : \E f : f = Body(f, m)}
  <1>1. Imported(d, cat, k, ops) = (CHOOSE f : f = Body(f, N))[N]
    BY DEF Imported
  <1>2. N \in Nat
    OBVIOUS
  <1> HIDE DEF N, base, Step
  <1>3. 0 \in G
    <2> DEFINE f == [n \in 0 .. 0 |-> base]
    <2>1. f = Body(f, 0)
      OBVIOUS
    <2> HIDE DEF f, Body
    <2> QED
      BY <1>2, <2>1
  <1>4. ASSUME NEW m \in 0 .. N, m < N, m \in G
        PROVE  m + 1 \in G
    <2>1. PICK f : f = Body(f, m)
      BY <1>4
    <2> DEFINE g == [n \in 0 .. (m + 1) |-> IF n <= m THEN f[n] ELSE Step(f[m], m + 1)]
    <2>2. \A n \in 0 .. m : f[n] = IF n = 0 THEN base ELSE Step(f[n - 1], n)
      BY <2>1
    <2>3. ASSUME NEW n \in 0 .. (m + 1)
          PROVE  g[n] = IF n = 0 THEN base ELSE Step(g[n - 1], n)
      <3>1. CASE n = 0
        BY <1>2, <2>2, <3>1
      <3>2. CASE n # 0 /\ n <= m
        <4>1. n - 1 \in 0 .. m /\ n \in 0 .. m /\ n - 1 \in 0 .. (m + 1)
          BY <1>2, <3>2
        <4>2. g[n - 1] = f[n - 1] /\ g[n] = f[n]
          BY <4>1
        <4> QED
          BY <2>2, <3>2, <4>1, <4>2
      <3>3. CASE n = m + 1
        <4>1. n - 1 = m /\ n - 1 \in 0 .. (m + 1) /\ ~(n <= m) /\ n # 0
          BY <1>2, <3>3
        <4>2. g[n - 1] = f[m] /\ g[n] = Step(f[m], m + 1)
          BY <4>1
        <4> QED
          BY <3>3, <4>1, <4>2
      <3> QED
        BY <1>2, <3>1, <3>2, <3>3
    <2>4. g = Body(g, m + 1)
      <3> DEFINE h == Body(g, m + 1)
      <3>1. \A n \in 0 .. (m + 1) : h[n] = g[n]
        BY <2>3
      <3>2. /\ h = [n \in 0 .. (m + 1) |-> h[n]]
            /\ g = [n \in 0 .. (m + 1) |-> g[n]]
        OBVIOUS
      <3> HIDE DEF g, h
      <3>3. g = h
        BY <3>1, <3>2
      <3> QED
        BY <3>3 DEF h
    <2>5. m + 1 \in 0 .. N
      BY <1>2, <1>4
    <2> HIDE DEF g, Body
    <2> QED
      BY <2>4, <2>5
  <1>5. N \in G
    <2> HIDE DEF G
    <2>1. \A m \in 0 .. N : m \in G
      BY <1>2, <1>3, <1>4, UpTo
    <2> QED
      BY <1>2, <2>1
  <1>6. PICK f : f = (CHOOSE h : h = Body(h, N)) /\ f = Body(f, N)
    <2>1. \E h : h = Body(h, N)
      <3> HIDE DEF Body
      <3> QED
        BY <1>5
    <2> HIDE DEF Body
    <2>2. (CHOOSE h : h = Body(h, N)) = Body(CHOOSE h : h = Body(h, N), N)
      BY <2>1, Zenon
    <2> DEFINE c == CHOOSE h : h = Body(h, N)
    <2>3. c = Body(c, N)
      BY <2>2
    <2> QED
      BY <2>3, Zenon
  <1>7. f[0] = base /\ \A n \in 1 .. N : f[n] = Step(f[n - 1], n)
    <2>1. f = Body(f, N)
      BY <1>6
    <2>2. \A n \in 0 .. N : f[n] = IF n = 0 THEN base ELSE Step(f[n - 1], n)
      BY <2>1
    <2> QED
      BY <1>2, <2>2
  <1>8. Imported(d, cat, k, ops) = f[N]
    BY <1>1, <1>6
  <1> QED
    BY <1>7, <1>8 DEF N, base, Step

\* store.Set with content: what an import that does not fail makes of the content.
LEMMA ImportedKeeps ==
  ASSUME NEW d, GoodContent(d), NEW cat, NEW k,
         NEW ops, Len(ops) \in Nat, \A i \in 1 .. Len(ops) : ops[i].op \in Operations,
         NEW e, e = Imported(d, cat, k, ops), e # Failed
  PROVE  GoodContent(e) /\ Importing(d, cat, k, e)
  <1>1. PICK f : /\ e = f[Len(ops)] /\ f[0] = DeleteAll(d, cat)
                 /\ \A n \in 1 .. Len(ops) : f[n] = ApplyNext(f[n - 1], cat, k, ops[n])
    BY ImportedSteps
  <1> DEFINE P(v) == v = Failed \/ (GoodContent(v) /\ Importing(d, cat, k, v))
             G == {n \in 0 .. Len(ops) : P(f[n])}
  <1>2. P(f[0])
    BY <1>1, DeleteKeeps
  <1>3. ASSUME NEW m \in 0 .. Len(ops), m < Len(ops), P(f[m])
        PROVE  P(f[m + 1])
    <2>1. m + 1 \in 1 .. Len(ops) /\ (m + 1) - 1 = m
      BY <1>3
    <2>2. f[m + 1] = ApplyNext(f[m], cat, k, ops[m + 1])
      BY <1>1, <2>1
    <2>3. CASE f[m] = Failed
      BY <2>2, <2>3 DEF ApplyNext
    <2>4. CASE f[m] # Failed
      <3>1. f[m + 1] = Apply(f[m], cat, k, ops[m + 1])
        BY <2>2, <2>4 DEF ApplyNext
      <3>2. GoodContent(f[m]) /\ Importing(d, cat, k, f[m]) /\ d.nextGraph \in Nat
        BY <1>3, <2>4 DEF GoodContent, Shape
      <3> QED
        BY <2>1, <3>1, <3>2, ApplyKeeps
    <2> QED
      BY <2>3, <2>4
  <1> HIDE DEF P
  <1>4. \A n \in 0 .. Len(ops) : n \in G
    <2>1. 0 \in G
      BY <1>2
    <2>2. \A m \in 0 .. Len(ops) : m < Len(ops) /\ m \in G => m + 1 \in G
      BY <1>3
    <2> HIDE DEF G
    <2> QED
      BY <2>1, <2>2, UpTo
  <1>5. P(f[Len(ops)])
    BY <1>4
  <1> QED
    BY <1>1, <1>5 DEF P

-----------------------------------------------------------------------------
(***************************************************************************)
(* What a commit does to the tables and to a graph that a reader holds.    *)
(***************************************************************************)
LEMMA EmptyIsGood == GoodContent(EmptyContent) /\ OneImport(EmptyContent)
  <1>1. Shape(EmptyContent)
    BY FS_EmptySet DEF Shape, EmptyContent, Tables
  <1> QED
    BY <1>1 DEF GoodContent, GraphKeys, BundleKeys, Parents, References, Placed, Records,
                OneImport, EmptyContent

LEMMA CommitKeepsOneImport ==
  ASSUME NEW d, NEW cat, NEW k, NEW e, OneImport(d), Importing(d, cat, k, e)
  PROVE  OneImport(e)
  <1>1. \A x \in e.graphs \cup e.bundles : IF x.catalog = cat THEN x.import = k
                                           ELSE x \in d.graphs \cup d.bundles
    BY DEF Importing
  <1> QED
    BY <1>1 DEF OneImport

\* The children of a graph of another catalog are what they were.
LEMMA CommitKeepsGraphs ==
  ASSUME NEW d, NEW cat, NEW k, NEW e, GoodContent(d), GoodContent(e), Importing(d, cat, k, e),
         NEW g \in e.graphs, g.id < d.nextGraph
  PROVE  g \in d.graphs /\ GraphOf(e, g) = GraphOf(d, g)
  <1>1. g.catalog # cat
    BY DEF Importing, GoodContent, Shape, GraphKeys
  <1>2. g \in d.graphs /\ g.id \in Nat
    BY <1>1 DEF Importing, GoodContent, GraphKeys
  <1>3. \A h \in d.graphs : h.parent = g.id => h.catalog = g.catalog
    BY <1>2, ContentAssumption DEF GoodContent, GraphKeys, Parents
  <1>4. \A h \in e.graphs : h.parent = g.id => h.catalog = g.catalog
    BY <1>2, ContentAssumption DEF GoodContent, GraphKeys, Parents
  <1>5. \A h : h \in ChildrenOf(e, {g.id}) <=> h \in ChildrenOf(d, {g.id})
    BY <1>1, <1>3, <1>4 DEF Importing, ChildrenOf
  <1>6. ChildrenOf(e, {g.id}) = ChildrenOf(d, {g.id})
    BY <1>5
  <1> QED
    BY <1>2, <1>6 DEF GraphOf

LEMMA CommitKeepsNames ==
  ASSUME NEW d, NEW cat, NEW k, NEW e, GoodContent(d), GoodContent(e), Importing(d, cat, k, e),
         NEW graph, Names(d, graph)
  PROVE  Names(e, graph)
  <1>1. graph.id \in Nat /\ graph.id < e.nextGraph
    BY DEF Names, Importing, GoodContent, Shape
  <1>2. ASSUME NEW g \in e.graphs, g.id = graph.id
        PROVE  GraphOf(e, g) = graph
    <2>1. g \in d.graphs /\ GraphOf(e, g) = GraphOf(d, g)
      BY <1>2, CommitKeepsGraphs DEF Names
    <2> QED
      BY <1>2, <2>1 DEF Names
  <1> QED
    BY <1>1, <1>2 DEF Names

LEMMA HoldsWhatItNames ==
  ASSUME NEW d, GoodContent(d), NEW row \in d.graphs
  PROVE  Names(d, GraphOf(d, row))
  BY DEF Names, GoodContent, GraphKeys, GraphOf

-----------------------------------------------------------------------------
(***************************************************************************)
(* The queries.                                                            *)
(***************************************************************************)

\* f[n] are the rows that the recursive CTE has found after round n.
Rounds(d, id, f) ==
  /\ Descendants(d, id) = f[Cardinality(d.graphs)]
  /\ f[0] = {g.id : g \in ChildrenOf(d, {id})}
  /\ \A n \in 1 .. Cardinality(d.graphs) :
       f[n] = {g.id : g \in ChildrenOf(d, {id} \cup f[n - 1])}

LEMMA DescendantRounds ==
  ASSUME NEW d, NEW id, IsFiniteSet(d.graphs)
  PROVE  \E f : Rounds(d, id, f)
  <1> DEFINE N == Cardinality(d.graphs)
             Below(ids) == {g.id : g \in ChildrenOf(d, ids)}
             Above(f, n) == IF n = 0 THEN {id} ELSE {id} \cup f[n - 1]
             Body(f, m) == [n \in 0 .. m |-> Below(Above(f, n))]
             G == {m \in 0 .. N : \E f : f = Body(f, m)}
  <1>1. Descendants(d, id) = (CHOOSE f : f = Body(f, N))[N]
    BY DEF Descendants
  <1>2. N \in Nat
    BY FS_CardinalityType
  <1>3. /\ \A f : Above(f, 0) = {id}
        /\ \A f : \A n \in Nat : n # 0 => Above(f, n) = {id} \cup f[n - 1]
    OBVIOUS
  <1> HIDE DEF N, Below, Above
  <1>4. 0 \in G
    <2> DEFINE f == [n \in 0 .. 0 |-> Below({id})]
    <2>1. f = Body(f, 0)
      BY <1>3
    <2> HIDE DEF f, Body
    <2> QED
      BY <1>2, <2>1
  <1>5. ASSUME NEW m \in 0 .. N, m < N, m \in G
        PROVE  m + 1 \in G
    <2>1. PICK f : f = Body(f, m)
      BY <1>5
    <2> DEFINE g == [n \in 0 .. (m + 1) |-> IF n <= m THEN f[n] ELSE Below({id} \cup f[m])]
    <2>2. \A n \in 0 .. m : f[n] = Below(Above(f, n))
      BY <2>1
    <2>3. ASSUME NEW n \in 0 .. (m + 1)
          PROVE  g[n] = Below(Above(g, n))
      <3>1. CASE n = 0
        <4>1. g[0] = f[0] /\ 0 \in 0 .. m
          BY <1>2
        <4>2. Above(g, 0) = Above(f, 0)
          BY <1>3
        <4> QED
          BY <2>2, <3>1, <4>1, <4>2
      <3>2. CASE n # 0 /\ n <= m
        <4>1. n \in Nat /\ n - 1 \in 0 .. m /\ n \in 0 .. m /\ n - 1 \in 0 .. (m + 1)
          BY <1>2, <3>2
        <4>2. g[n - 1] = f[n - 1] /\ g[n] = f[n]
          BY <4>1
        <4>3. Above(g, n) = Above(f, n)
          BY <1>3, <3>2, <4>1, <4>2
        <4> QED
          BY <2>2, <4>1, <4>2, <4>3
      <3>3. CASE n = m + 1
        <4>1. n \in Nat /\ n - 1 = m /\ n - 1 \in 0 .. (m + 1) /\ ~(n <= m) /\ n # 0
          BY <1>2, <3>3
        <4>2. g[n - 1] = f[m] /\ g[n] = Below({id} \cup f[m])
          BY <4>1
        <4>3. Above(g, n) = {id} \cup f[m]
          BY <1>3, <4>1, <4>2
        <4> QED
          BY <4>2, <4>3
      <3> QED
        BY <1>2, <3>1, <3>2, <3>3
    <2>4. g = Body(g, m + 1)
      <3> DEFINE h == Body(g, m + 1)
      <3>1. \A n \in 0 .. (m + 1) : h[n] = g[n]
        BY <2>3
      <3>2. /\ h = [n \in 0 .. (m + 1) |-> h[n]]
            /\ g = [n \in 0 .. (m + 1) |-> g[n]]
        OBVIOUS
      <3> HIDE DEF g, h
      <3>3. g = h
        BY <3>1, <3>2
      <3> QED
        BY <3>3 DEF h
    <2>5. m + 1 \in 0 .. N
      BY <1>2, <1>5
    <2> HIDE DEF g, Body
    <2> QED
      BY <2>4, <2>5
  <1>6. N \in G
    <2> HIDE DEF G
    <2>1. \A m \in 0 .. N : m \in G
      BY <1>2, <1>4, <1>5, UpTo
    <2> QED
      BY <1>2, <2>1
  <1>7. PICK f : f = (CHOOSE h : h = Body(h, N)) /\ f = Body(f, N)
    <2>1. \E h : h = Body(h, N)
      <3> HIDE DEF Body
      <3> QED
        BY <1>6
    <2> HIDE DEF Body
    <2>2. (CHOOSE h : h = Body(h, N)) = Body(CHOOSE h : h = Body(h, N), N)
      BY <2>1, Zenon
    <2> QED
      BY <2>2
  <1>8. f[0] = Below({id}) /\ \A n \in 1 .. N : f[n] = Below({id} \cup f[n - 1])
    <2>1. f = Body(f, N)
      BY <1>7
    <2>2. \A n \in 0 .. N : f[n] = Below(Above(f, n))
      BY <2>1
    <2>3. f[0] = Below({id})
      BY <1>2, <1>3, <2>2
    <2>4. ASSUME NEW n \in 1 .. N
          PROVE  f[n] = Below({id} \cup f[n - 1])
      <3>1. n \in Nat /\ n # 0 /\ n \in 0 .. N
        BY <1>2
      <3>2. Above(f, n) = {id} \cup f[n - 1]
        BY <1>3, <3>1
      <3> QED
        BY <2>2, <3>1, <3>2
    <2> QED
      BY <2>3, <2>4
  <1>9. Descendants(d, id) = f[N]
    BY <1>1, <1>7
  <1> QED
    BY <1>8, <1>9 DEF N, Below, Rounds

\* The rows below a graph are in one catalog with it.
LEMMA DescendantsInCatalog ==
  ASSUME NEW d, GoodContent(d), NEW id \in Nat,
         NEW h \in d.graphs, h.id \in Descendants(d, id)
  PROVE  \E r \in d.graphs : r.id = id /\ r.catalog = h.catalog
  <1> DEFINE N == Cardinality(d.graphs)
             Under(x) == \E r \in d.graphs : r.id = id /\ r.catalog = x.catalog
             good == {x.id : x \in {y \in d.graphs : Under(y)}}
  <1>1. IsFiniteSet(d.graphs) /\ N \in Nat
    BY FS_CardinalityType DEF GoodContent, Shape
  <1>2. PICK f : Rounds(d, id, f)
    BY <1>1, DescendantRounds
  <1>3. /\ Descendants(d, id) = f[N]
        /\ f[0] = {g.id : g \in ChildrenOf(d, {id})}
        /\ \A n \in 1 .. N : f[n] = {g.id : g \in ChildrenOf(d, {id} \cup f[n - 1])}
    BY <1>2 DEF Rounds
  <1>4. ASSUME NEW c \in d.graphs, c.parent = id \/ c.parent \in good
        PROVE  c.id \in good
    <2>1. c.parent \in Nat
      BY <1>4 DEF GoodContent, GraphKeys
    <2>2. PICK p \in d.graphs : p.id = c.parent /\ p.catalog = c.catalog
      BY <2>1, ContentAssumption DEF GoodContent, Parents
    <2>3. CASE c.parent = id
      BY <2>2, <2>3
    <2>4. CASE c.parent \in good
      <3>1. PICK x \in d.graphs : x.id = c.parent /\ Under(x)
        BY <2>4
      <3>2. x = p
        BY <2>2, <3>1 DEF GoodContent, GraphKeys
      <3> QED
        BY <2>2, <3>1, <3>2
    <2> QED
      BY <1>4, <2>3, <2>4
  <1> DEFINE G == {n \in 0 .. N : f[n] \subseteq good}
  <1> HIDE DEF good, N
  <1>5. 0 \in G
    BY <1>1, <1>3, <1>4 DEF ChildrenOf
  <1>6. ASSUME NEW m \in 0 .. N, m < N, m \in G
        PROVE  m + 1 \in G
    <2>1. m + 1 \in 1 .. N /\ (m + 1) - 1 = m /\ m + 1 \in 0 .. N
      BY <1>1, <1>6
    <2>2. f[m + 1] = {g.id : g \in ChildrenOf(d, {id} \cup f[m])}
      BY <1>3, <2>1
    <2>3. f[m] \subseteq good
      BY <1>6
    <2>4. f[m + 1] \subseteq good
      BY <1>4, <2>2, <2>3 DEF ChildrenOf
    <2> QED
      BY <2>1, <2>4
  <1>7. N \in G
    <2> HIDE DEF G
    <2>1. \A m \in 0 .. N : m \in G
      BY <1>1, <1>5, <1>6, UpTo
    <2> QED
      BY <1>1, <2>1
  <1>8. h.id \in good
    BY <1>3, <1>7
  <1>9. PICK x \in d.graphs : x.id = h.id /\ Under(x)
    BY <1>8 DEF good
  <1>10. x = h
    BY <1>9 DEF GoodContent, GraphKeys
  <1> QED
    BY <1>9, <1>10

\* The rows that a query asks about are in one catalog with the graph.
LEMMA ScopeInCatalog ==
  ASSUME NEW d, GoodContent(d), NEW graph, graph.id \in Nat,
         NEW h \in d.graphs, h.id \in Scope(d, graph)
  PROVE  \E r \in d.graphs : r.id = graph.id /\ r.catalog = h.catalog
  <1>1. CASE ~graph.composite
    BY <1>1 DEF Scope
  <1>2. CASE graph.composite
    BY <1>2, DescendantsInCatalog DEF Scope
  <1> QED
    BY <1>1, <1>2

\* A prefix, by its elements.
LEMMA PrefixIs ==
  ASSUME NEW S, NEW s \in Seq(S), NEW t \in Seq(S)
  PROVE  IsPrefix(s, t) <=> Len(s) <= Len(t) /\ \A i \in 1 .. Len(s) : s[i] = t[i]
  <1>1. Len(s) \in Nat /\ Len(t) \in Nat
    OBVIOUS
  <1>2. CASE Len(s) <= Len(t)
    <2>1. \A i \in 1 .. Len(s) : s[i] \in S /\ t[i] \in S
      BY <1>1, <1>2
    <2> DEFINE u == SubSeq(s, 1, Len(s))
               v == SubSeq(t, 1, Len(s))
    <2>2. u \in Seq(S) /\ Len(u) = Len(s) /\ \A i \in 1 .. Len(s) : u[i] = s[i]
      BY <1>1, <2>1, SubSeqProperties
    <2>3. v \in Seq(S) /\ Len(v) = Len(s) /\ \A i \in 1 .. Len(s) : v[i] = t[i]
      BY <1>1, <2>1, SubSeqProperties
    <2> HIDE DEF u, v
    <2>4. u = v <=> \A i \in 1 .. Len(s) : s[i] = t[i]
      BY <1>1, <2>2, <2>3, SeqEqual
    <2> QED
      BY <1>2, <2>4 DEF IsPrefix, u, v
  <1> QED
    BY <1>2 DEF IsPrefix

\* What is before all of a path is before its front.
LEMMA PrefixOfFront ==
  ASSUME NEW S, NEW s \in Seq(S), NEW t \in Seq(S), t # <<>>
  PROVE  /\ Front(t) \in Seq(S) /\ Len(t) \in Nat \ {0} /\ Len(Front(t)) = Len(t) - 1
         /\ IsPrefix(s, t) /\ s # t <=> IsPrefix(s, Front(t))
         /\ IsPrefix(s, s)
         /\ IsPrefix(s, t) => Len(s) <= Len(t) /\ (Len(s) = Len(t) => s = t)
  <1>1. Len(s) \in Nat /\ Len(t) \in Nat \ {0}
    OBVIOUS
  <1>2. /\ Front(t) \in Seq(S) /\ Len(Front(t)) = Len(t) - 1
        /\ \A i \in 1 .. Len(t) - 1 : Front(t)[i] = t[i]
    <2>1. PICK n \in Nat : n = Len(t) - 1
      BY <1>1
    <2>2. \A i \in 1 .. n : t[i] \in S
      BY <1>1, <2>1
    <2>3. PICK u : u = SubSeq(t, 1, n)
      OBVIOUS
    <2>4. /\ u \in Seq(S) /\ Len(u) = IF 1 <= n THEN n - 1 + 1 ELSE 0
          /\ \A i \in 1 .. n - 1 + 1 : u[i] = t[1 + i - 1]
      BY <2>2, <2>3, SubSeqProperties
    <2>5. Len(u) = n /\ \A i \in 1 .. n : u[i] = t[i]
      BY <2>4
    <2> QED
      BY <2>1, <2>3, <2>4, <2>5 DEF Front
  <1>4. IsPrefix(s, t) => Len(s) <= Len(t) /\ (Len(s) = Len(t) => s = t)
    BY <1>1, PrefixIs, SeqEqual
  <1>5. ASSUME IsPrefix(s, t), s # t
        PROVE  IsPrefix(s, Front(t))
    <2>1. Len(s) <= Len(t) - 1
      BY <1>1, <1>4, <1>5
    <2>2. \A i \in 1 .. Len(s) : s[i] = t[i] /\ i \in 1 .. Len(t) - 1
      BY <1>1, <1>5, <2>1, PrefixIs
    <2> QED
      BY <1>2, <2>1, <2>2, PrefixIs
  <1>6. ASSUME IsPrefix(s, Front(t))
        PROVE  IsPrefix(s, t) /\ s # t
    <2>1. Len(s) <= Len(t) - 1 /\ \A i \in 1 .. Len(s) : s[i] = Front(t)[i]
      BY <1>2, <1>6, PrefixIs
    <2>2. \A i \in 1 .. Len(s) : s[i] = t[i]
      BY <1>1, <1>2, <2>1
    <2> QED
      BY <1>1, <2>1, <2>2, PrefixIs
  <1> QED
    BY <1>1, <1>2, <1>4, <1>5, <1>6, PrefixIs

\* There are the graphs at all the fronts of a path.
LEMMA PathsFit ==
  ASSUME NEW d, GoodContent(d), NEW h \in d.graphs
  PROVE  Len(h.path) <= Cardinality(d.graphs)
  <1> DEFINE L == Len(h.path)
             Above(n, T) == /\ T \subseteq d.graphs /\ Cardinality(T) = n
                            /\ \A t \in T : Len(t.path) <= n
             G == {n \in 0 .. L : \A g \in d.graphs : Len(g.path) = n => \E T : Above(n, T)}
  <1>1. \A g \in d.graphs : g.path \in Seq(Segments) /\ g.path # <<>>
    BY DEF GoodContent, Placed
  <1>2. IsFiniteSet(d.graphs)
    BY DEF GoodContent, Shape
  <1>3. L \in Nat
    BY <1>1
  <1>4. 0 \in G
    BY <1>1, <1>3
  <1>5. ASSUME NEW m \in 0 .. L, m < L, m \in G
        PROVE  m + 1 \in G
    <2>1. ASSUME NEW g \in d.graphs, Len(g.path) = m + 1
          PROVE  \E T : Above(m + 1, T)
      <3>1. CASE m = 0
        <4>1. Above(1, {g})
          <5>1. Cardinality({g}) = 1 /\ Len(g.path) <= 1
            <6>1. Cardinality({g}) = 1
              BY FS_Singleton
            <6>2. Len(g.path) = 1
              BY <2>1, <3>1
            <6> QED
              BY <6>1, <6>2
          <5> QED
            BY <5>1
        <4> QED
          BY <3>1, <4>1
      <3>2. CASE m # 0
        <4>1. PICK p \in d.graphs : p.path = Front(g.path)
          <5>1. Len(g.path) # 1
            BY <1>3, <2>1, <3>2
          <5> QED
            BY <5>1 DEF GoodContent, Placed
        <4>2. Len(p.path) = m
          BY <1>1, <2>1, <4>1, PrefixOfFront
        <4>3. PICK T : Above(m, T)
          BY <1>5, <4>2
        <4>4. IsFiniteSet(T) /\ g \notin T
          BY <1>2, <2>1, <4>3, FS_Subset
        <4>5. Cardinality(T \cup {g}) = m + 1
          BY <4>3, <4>4, FS_AddElement
        <4>6. Above(m + 1, T \cup {g})
          BY <1>1, <1>3, <2>1, <4>3, <4>5
        <4> QED
          BY <4>6
      <3> QED
        BY <3>1, <3>2
    <2> HIDE DEF Above
    <2> QED
      BY <1>3, <1>5, <2>1
  <1>6. L \in G
    <2> HIDE DEF G
    <2>1. \A m \in 0 .. L : m \in G
      BY <1>3, <1>4, <1>5, UpTo
    <2> QED
      BY <1>3, <2>1
  <1>7. PICK T : Above(L, T)
    BY <1>6
  <1> QED
    BY <1>2, <1>7, FS_Subset, FS_CardinalityType

\* h is below r, by their paths.
Beneath(r, h) == h.catalog = r.catalog /\ IsPrefix(r.path, h.path) /\ h.path # r.path

\* So it is by their parents: at its front is r or a graph below r.
LEMMA ParentBeneath ==
  ASSUME NEW d, GoodContent(d), NEW r \in d.graphs, NEW h \in d.graphs
  PROVE  /\ h.parent = r.id => Beneath(r, h)
         /\ \A p \in d.graphs : h.parent = p.id /\ Beneath(r, p) => Beneath(r, h)
         /\ Beneath(r, h) => \E p \in d.graphs : /\ h.parent = p.id /\ Len(p.path) = Len(h.path) - 1
                                                 /\ p = r \/ Beneath(r, p)
         /\ Beneath(r, h) => Len(r.path) < Len(h.path)
  <1>1. /\ r.path \in Seq(Segments) /\ h.path \in Seq(Segments) /\ h.path # <<>> /\ r.path # <<>>
        /\ \A p \in d.graphs : p.path \in Seq(Segments) /\ p.id # None
    BY ContentAssumption DEF GoodContent, Placed, GraphKeys
  <1>2. ASSUME NEW p \in d.graphs, h.parent = p.id
        PROVE  p.catalog = h.catalog /\ p.path = Front(h.path)
    <2>1. Len(h.path) # 1
      BY <1>1, <1>2 DEF GoodContent, Placed
    <2>2. PICK q \in d.graphs : q.id = h.parent /\ q.catalog = h.catalog /\ q.path = Front(h.path)
      BY <2>1 DEF GoodContent, Placed
    <2>3. q = p
      BY <1>2, <2>2 DEF GoodContent, GraphKeys
    <2> QED
      BY <2>2, <2>3
  <1>3. Beneath(r, h) <=> h.catalog = r.catalog /\ IsPrefix(r.path, Front(h.path))
    BY <1>1, PrefixOfFront DEF Beneath
  <1>4. h.parent = r.id => Beneath(r, h)
    BY <1>1, <1>2, <1>3, PrefixOfFront
  <1>5. ASSUME NEW p \in d.graphs, h.parent = p.id, Beneath(r, p)
        PROVE  Beneath(r, h)
    BY <1>2, <1>3, <1>5 DEF Beneath
  <1>6. ASSUME Beneath(r, h)
        PROVE  /\ \E p \in d.graphs : /\ h.parent = p.id /\ Len(p.path) = Len(h.path) - 1
                                      /\ p = r \/ Beneath(r, p)
               /\ Len(r.path) < Len(h.path)
    <2>1. /\ Len(Front(h.path)) = Len(h.path) - 1 /\ Len(h.path) \in Nat \ {0} /\ Len(r.path) \in Nat \ {0}
          /\ Front(h.path) \in Seq(Segments)
      BY <1>1, PrefixOfFront
    <2>2. IsPrefix(r.path, Front(h.path)) /\ Len(r.path) <= Len(Front(h.path))
      BY <1>1, <1>3, <1>6, <2>1, PrefixIs
    <2>3. PICK p \in d.graphs : p.id = h.parent /\ p.catalog = h.catalog /\ p.path = Front(h.path)
      BY <2>1, <2>2 DEF GoodContent, Placed
    <2>4. p.path = r.path => p = r
      BY <1>6, <2>3 DEF GoodContent, Placed, Beneath
    <2>5. p = r \/ Beneath(r, p)
      BY <1>6, <2>2, <2>3, <2>4 DEF Beneath
    <2> QED
      BY <2>1, <2>2, <2>3, <2>5
  <1> QED
    BY <1>4, <1>5, <1>6

\* The recursive SELECT finds the graphs below a graph, and all of them.
LEMMA DescendantsAreBeneath ==
  ASSUME NEW d, GoodContent(d), NEW r \in d.graphs, NEW h \in d.graphs
  PROVE  h.id \in Descendants(d, r.id) <=> Beneath(r, h)
  <1> DEFINE N == Cardinality(d.graphs)
             good == {x.id : x \in {y \in d.graphs : Beneath(r, y)}}
             within(n) == {x.id : x \in {y \in d.graphs :
                                           Beneath(r, y) /\ Len(y.path) <= Len(r.path) + n + 1}}
  <1>1. IsFiniteSet(d.graphs) /\ N \in Nat
    BY FS_CardinalityType DEF GoodContent, Shape
  <1>2. PICK f : Rounds(d, r.id, f)
    BY <1>1, DescendantRounds
  <1>3. /\ Descendants(d, r.id) = f[N]
        /\ f[0] = {g.id : g \in ChildrenOf(d, {r.id})}
        /\ \A n \in 1 .. N : f[n] = {g.id : g \in ChildrenOf(d, {r.id} \cup f[n - 1])}
    BY <1>2 DEF Rounds
  <1>4. Len(r.path) \in Nat /\ \A x \in d.graphs : Len(x.path) \in Nat
    BY DEF GoodContent, Placed
  <1>5. ASSUME NEW c \in d.graphs, c.parent = r.id \/ c.parent \in good
        PROVE  c.id \in good
    BY <1>5, ParentBeneath
  <1>6. ASSUME NEW c \in d.graphs, Beneath(r, c), NEW n \in Nat, Len(c.path) <= Len(r.path) + n + 1
        PROVE  c.parent = r.id \/ (n # 0 /\ c.parent \in within(n - 1))
    <2>1. PICK p \in d.graphs : /\ c.parent = p.id /\ Len(p.path) = Len(c.path) - 1
                                /\ p = r \/ Beneath(r, p)
      BY <1>6, ParentBeneath
    <2>2. Beneath(r, p) => Len(r.path) < Len(p.path)
      BY ParentBeneath
    <2>3. CASE Beneath(r, p)
      <3>1. n # 0 /\ n - 1 \in Nat /\ Len(p.path) <= Len(r.path) + (n - 1) + 1
        BY <1>4, <1>6, <2>1, <2>2, <2>3
      <3> QED
        BY <2>1, <2>3, <3>1
    <2> QED
      BY <2>1, <2>3
  <1>7. \A n \in Nat : \A x \in within(n) :
          \E c \in d.graphs : x = c.id /\ Beneath(r, c) /\ Len(c.path) <= Len(r.path) + n + 1
    OBVIOUS
  <1>8. h.id \in good <=> Beneath(r, h)
    BY DEF GoodContent, GraphKeys
  <1>9. Beneath(r, h) => h.id \in within(N)
    <2>1. Len(h.path) <= N
      BY PathsFit
    <2> QED
      BY <1>1, <1>4, <2>1
  <1> DEFINE G == {n \in 0 .. N : f[n] \subseteq good /\ within(n) \subseteq f[n]}
  <1> HIDE DEF good, within, N
  <1>10. 0 \in G
    <2>1. f[0] \subseteq good
      BY <1>3, <1>5 DEF ChildrenOf
    <2>2. within(0) \subseteq f[0]
      BY <1>3, <1>6, <1>7 DEF ChildrenOf
    <2> QED
      BY <1>1, <2>1, <2>2
  <1>11. ASSUME NEW m \in 0 .. N, m < N, m \in G
         PROVE  m + 1 \in G
    <2>1. m + 1 \in 1 .. N /\ (m + 1) - 1 = m /\ m + 1 \in 0 .. N /\ m + 1 \in Nat
      BY <1>1, <1>11
    <2>2. f[m + 1] = {g.id : g \in ChildrenOf(d, {r.id} \cup f[m])}
      BY <1>3, <2>1
    <2>3. f[m] \subseteq good /\ within(m) \subseteq f[m]
      BY <1>11
    <2>4. f[m + 1] \subseteq good
      BY <1>5, <2>2, <2>3 DEF ChildrenOf
    <2>5. within(m + 1) \subseteq f[m + 1]
      <3> SUFFICES ASSUME NEW x \in within(m + 1)
                   PROVE  x \in f[m + 1]
        OBVIOUS
      <3>1. PICK c \in d.graphs :
              x = c.id /\ Beneath(r, c) /\ Len(c.path) <= Len(r.path) + (m + 1) + 1
        BY <1>7, <2>1
      <3>2. c.parent = r.id \/ c.parent \in within(m)
        BY <1>6, <2>1, <3>1
      <3> QED
        BY <2>2, <2>3, <3>1, <3>2 DEF ChildrenOf
    <2> QED
      BY <2>1, <2>4, <2>5
  <1>12. N \in G
    <2> HIDE DEF G
    <2>1. \A m \in 0 .. N : m \in G
      BY <1>1, <1>10, <1>11, UpTo
    <2> QED
      BY <1>1, <2>1
  <1> QED
    BY <1>3, <1>8, <1>9, <1>12

\* The rows that a query asks about, by paths.
LEMMA ScopeByPath ==
  ASSUME NEW d, GoodContent(d), NEW graph, graph.id \in Nat, NEW h \in d.graphs
  PROVE  h.id \in Scope(d, graph) <=>
           \E r \in d.graphs : r.id = graph.id /\ IF graph.composite THEN Beneath(r, h) ELSE h = r
  <1>1. h.id \in Scope(d, graph) => \E r \in d.graphs : r.id = graph.id
    BY ScopeInCatalog
  <1>2. ASSUME NEW r \in d.graphs, r.id = graph.id
        PROVE  h.id \in Scope(d, graph) <=> IF graph.composite THEN Beneath(r, h) ELSE h = r
    <2>1. CASE graph.composite
      BY <1>2, <2>1, DescendantsAreBeneath DEF Scope
    <2>2. CASE ~graph.composite
      BY <1>2, <2>2 DEF Scope, GoodContent, GraphKeys
    <2> QED
      BY <2>1, <2>2
  <1> QED
    BY <1>1, <1>2

\* A path by its first name and its last.
LEMMA PathParts ==
  ASSUME NEW S, NEW a \in Seq(S), NEW left \in Seq(S), left # <<>>
  PROVE  /\ <<Head(left)>> \in Seq(S) /\ Head(left) \in S /\ Tail(left) \in Seq(S)
         /\ a \o left = (a \o <<Head(left)>>) \o Tail(left)
         /\ a \o <<Head(left)>> \in Seq(S)
         /\ IsPrefix(a \o <<Head(left)>>, a \o left)
         /\ Len(left) # 1 => Tail(left) # <<>>
  <1>1. Head(left) \in S /\ Tail(left) \in Seq(S) /\ Len(left) \in Nat \ {0} /\ Len(a) \in Nat
        /\ Len(Tail(left)) = Len(left) - 1
    BY HeadTailProperties
  <1>2. PICK h \in Seq(S) : h = <<Head(left)>> /\ Len(h) = 1 /\ h[1] = left[1]
    <2>1. PICK x \in S : x = Head(left)
      BY <1>1
    <2>2. <<x>> \in Seq(S) /\ Len(<<x>>) = 1 /\ <<x>>[1] = x
      OBVIOUS
    <2>3. x = left[1]
      BY <2>1
    <2> QED
      BY <2>1, <2>2, <2>3
  <1>3. /\ h \o Tail(left) \in Seq(S) /\ Len(h \o Tail(left)) = Len(left)
        /\ \A i \in 1 .. Len(left) : (h \o Tail(left))[i] = left[i]
    <2>1. /\ h \o Tail(left) \in Seq(S) /\ Len(h \o Tail(left)) = Len(h) + Len(Tail(left))
          /\ \A i \in 1 .. Len(h) + Len(Tail(left)) :
               (h \o Tail(left))[i] = IF i <= Len(h) THEN h[i] ELSE Tail(left)[i - Len(h)]
      BY <1>1, <1>2, ConcatProperties
    <2>2. Len(h) + Len(Tail(left)) = Len(left)
      BY <1>1, <1>2
    <2>3. ASSUME NEW i \in 1 .. Len(left)
          PROVE  (h \o Tail(left))[i] = left[i]
      <3>1. CASE i = 1
        BY <1>1, <1>2, <2>1, <2>2, <3>1
      <3>2. CASE i # 1
        <4>1. i - 1 \in 1 .. Len(Tail(left)) /\ ~(i <= 1)
          BY <1>1, <3>2
        <4>2. Tail(left)[i - 1] = left[(i - 1) + 1]
          BY <4>1, HeadTailProperties
        <4> QED
          BY <1>1, <1>2, <2>1, <2>2, <4>1, <4>2
      <3> QED
        BY <3>1, <3>2
    <2> QED
      BY <2>1, <2>2, <2>3
  <1>4. h \o Tail(left) = left
    BY <1>3, SeqEqual
  <1>5. (a \o h) \o Tail(left) = a \o left
    BY <1>1, <1>2, <1>4, ConcatAssociative
  <1>6. /\ a \o h \in Seq(S) /\ Len(a \o h) = Len(a) + 1
        /\ \A i \in 1 .. Len(a) + 1 : (a \o h)[i] = IF i <= Len(a) THEN a[i] ELSE h[i - Len(a)]
    BY <1>2, ConcatProperties
  <1>7. /\ a \o left \in Seq(S) /\ Len(a \o left) = Len(a) + Len(left)
        /\ \A i \in 1 .. Len(a) + Len(left) : (a \o left)[i] = IF i <= Len(a) THEN a[i] ELSE left[i - Len(a)]
    BY ConcatProperties
  <1>8. IsPrefix(a \o h, a \o left)
    <2>1. ASSUME NEW i \in 1 .. Len(a) + 1
          PROVE  (a \o h)[i] = (a \o left)[i]
      <3>1. i \in 1 .. Len(a) + Len(left)
        BY <1>1
      <3>2. CASE i <= Len(a)
        BY <1>6, <1>7, <3>1, <3>2
      <3>3. CASE ~(i <= Len(a))
        <4>1. i - Len(a) = 1
          BY <1>1, <3>3
        <4> QED
          BY <1>2, <1>6, <1>7, <3>1, <3>3, <4>1
      <3> QED
        BY <3>2, <3>3
    <2>2. Len(a \o h) <= Len(a \o left)
      BY <1>1, <1>6, <1>7
    <2> QED
      BY <1>6, <1>7, <2>1, <2>2, PrefixIs
  <1>9. Len(left) # 1 => Tail(left) # <<>>
    <2>1. Len(left) # 1 => Len(Tail(left)) # 0
      BY <1>1
    <2>2. Len(<<>>) = 0
      OBVIOUS
    <2> QED
      BY <2>1, <2>2, Zenon
  <1> QED
    BY <1>1, <1>2, <1>5, <1>6, <1>8, <1>9

LEMMA LastName ==
  ASSUME NEW S, NEW left \in Seq(S), Len(left) = 1, NEW name, name = Head(left)
  PROVE  left = <<name>>
  <1>1. name \in S /\ name = left[1]
    OBVIOUS
  <1>2. PICK t \in Seq(S) : t = <<name>> /\ Len(t) = 1 /\ t[1] = name
    BY <1>1
  <1>3. \A i \in 1 .. Len(left) : left[i] = t[i]
    BY <1>1, <1>2
  <1>4. left = t
    BY <1>2, <1>3, SeqEqual
  <1> QED
    BY <1>2, <1>4

\* A path with one name more.
LEMMA PathEnds ==
  ASSUME NEW S, NEW a \in Seq(S), NEW name \in S, NEW path \in Seq(S), path # <<>>
  PROVE  /\ path = a \o <<name>> <=> Front(path) = a /\ Last(path) = name
         /\ path = <<name>> <=> Len(path) = 1 /\ Last(path) = name
         /\ Len(a \o <<name>>) = Len(a) + 1 /\ a \o <<name>> \in Seq(S) /\ a \o <<name>> # <<>>
  <1>1. PICK h \in Seq(S) : h = <<name>> /\ Len(h) = 1 /\ h[1] = name
    <2>1. <<name>> \in Seq(S) /\ Len(<<name>>) = 1 /\ <<name>>[1] = name
      OBVIOUS
    <2> QED
      BY <2>1
  <1>2. PICK u \in Seq(S) : u = a \o h
    BY ConcatProperties
  <1>3. /\ Len(u) = Len(a) + 1 /\ Len(a) \in Nat
        /\ \A i \in 1 .. Len(a) + 1 : u[i] = IF i <= Len(a) THEN a[i] ELSE h[i - Len(a)]
    BY <1>1, <1>2, ConcatProperties
  <1>4. \A i \in 1 .. Len(a) : u[i] = a[i]
    BY <1>3
  <1>5. u[Len(a) + 1] = name
    <2>1. Len(a) + 1 \in 1 .. Len(a) + 1 /\ ~(Len(a) + 1 <= Len(a)) /\ (Len(a) + 1) - Len(a) = 1
      BY <1>3
    <2> QED
      BY <1>1, <1>3, <2>1
  <1>6. Len(path) \in Nat \ {0}
    BY EmptySeq
  <1>7. PICK n \in Nat : n = Len(path) - 1
    BY <1>6
  <1>8. PICK f : f = SubSeq(path, 1, n) /\ f = Front(path)
    BY <1>7 DEF Front
  <1>9. f \in Seq(S) /\ Len(f) = n /\ \A i \in 1 .. n : f[i] = path[i]
    <2>1. \A i \in 1 .. n : path[i] \in S
      BY <1>6, <1>7
    <2>2. /\ f \in Seq(S) /\ Len(f) = IF 1 <= n THEN n - 1 + 1 ELSE 0
          /\ \A i \in 1 .. n - 1 + 1 : f[i] = path[1 + i - 1]
      BY <1>8, <2>1, SubSeqProperties
    <2>3. \A i \in 1 .. n : i \in 1 .. n - 1 + 1 /\ 1 + i - 1 = i
      BY <1>7
    <2> QED
      BY <2>2, <2>3
  <1>10. ASSUME path = u
         PROVE  f = a /\ Last(path) = name
    <2>1. n = Len(a) /\ Len(path) = Len(a) + 1
      BY <1>3, <1>7, <1>10
    <2>2. f = a
      BY <1>4, <1>9, <1>10, <2>1, SeqEqual
    <2> QED
      BY <1>5, <1>10, <2>1, <2>2 DEF Last
  <1>11. ASSUME f = a, Last(path) = name
         PROVE  path = u
    <2>1. Len(path) = Len(u) /\ Len(path) = n + 1
      BY <1>3, <1>6, <1>7, <1>9, <1>11
    <2>2. ASSUME NEW i \in 1 .. Len(path)
          PROVE  path[i] = u[i]
      <3>1. CASE i = Len(path)
        BY <1>5, <1>3, <1>11, <2>1, <3>1 DEF Last
      <3>2. CASE i # Len(path)
        <4>1. i \in 1 .. n /\ i \in 1 .. Len(a)
          BY <1>6, <1>7, <1>9, <1>11, <3>2
        <4> QED
          BY <1>4, <1>9, <1>11, <4>1
      <3> QED
        BY <3>1, <3>2
    <2> QED
      BY <2>1, <2>2, SeqEqual
  <1>12. path = h <=> Len(path) = 1 /\ Last(path) = name
    <2>1. path = h => Len(path) = 1 /\ Last(path) = name
      BY <1>1 DEF Last
    <2>2. ASSUME Len(path) = 1, Last(path) = name
          PROVE  path = h
      <3>1. \A i \in 1 .. Len(path) : path[i] = h[i]
        BY <1>1, <2>2 DEF Last
      <3> QED
        BY <1>1, <2>2, <3>1, SeqEqual
    <2> QED
      BY <2>1, <2>2
  <1>13. u # <<>>
    BY <1>3, EmptySeq
  <1> QED
    BY <1>1, <1>2, <1>3, <1>8, <1>10, <1>11, <1>12, <1>13

\* A graph is not there without those on the way to it.
LEMMA WayIsThere ==
  ASSUME NEW d, GoodContent(d), NEW path \in Seq(Segments), path # <<>>,
         NEW g \in d.graphs, IsPrefix(path, g.path)
  PROVE  GraphAt(d, g.catalog, path) # {}
  <1> DEFINE P(n) == \A h \in d.graphs :
                       h.catalog = g.catalog /\ IsPrefix(path, h.path) /\ Len(h.path) = Len(path) + n
                         => GraphAt(d, g.catalog, path) # {}
  <1>1. /\ \A h \in d.graphs : h.path \in Seq(Segments) /\ h.path # <<>> /\ Len(h.path) \in Nat
        /\ Len(path) \in Nat \ {0}
    BY EmptySeq DEF GoodContent, Placed
  <1>2. P(0)
    <2> SUFFICES ASSUME NEW h \in d.graphs, h.catalog = g.catalog, IsPrefix(path, h.path),
                        Len(h.path) = Len(path)
                 PROVE  GraphAt(d, g.catalog, path) # {}
      BY <1>1
    <2>1. h.path = path
      BY <1>1, PrefixOfFront
    <2> QED
      BY <2>1 DEF GraphAt
  <1>3. ASSUME NEW m \in Nat, P(m)
        PROVE  P(m + 1)
    <2> SUFFICES ASSUME NEW h \in d.graphs, h.catalog = g.catalog, IsPrefix(path, h.path),
                        Len(h.path) = Len(path) + (m + 1)
                 PROVE  GraphAt(d, g.catalog, path) # {}
      OBVIOUS
    <2>1. h.path # path /\ Len(h.path) # 1
      BY <1>1
    <2>2. PICK q \in d.graphs : q.catalog = h.catalog /\ q.path = Front(h.path)
      BY <2>1 DEF GoodContent, Placed
    <2>3. IsPrefix(path, q.path) /\ Len(q.path) = Len(h.path) - 1
      <3>1. h.path \in Seq(Segments) /\ h.path # <<>>
        BY <1>1
      <3>2. IsPrefix(path, Front(h.path)) /\ Len(Front(h.path)) = Len(h.path) - 1
        BY <2>1, <3>1, PrefixOfFront
      <3> QED
        BY <2>2, <3>2
    <2>4. Len(q.path) = Len(path) + m
      BY <1>1, <2>3
    <2> QED
      BY <1>3, <2>2, <2>3, <2>4
  <1>4. Len(path) <= Len(g.path)
    BY <1>1, PrefixOfFront
  <1>5. PICK N \in Nat : Len(g.path) = Len(path) + N
    <2>1. Len(g.path) - Len(path) \in Nat /\ Len(g.path) = Len(path) + (Len(g.path) - Len(path))
      BY <1>1, <1>4
    <2> QED
      BY <2>1
  <1> DEFINE G == {n \in 0 .. N : P(n)}
  <1>6. N \in G
    <2> HIDE DEF P
    <2>1. 0 \in G /\ \A m \in 0 .. N : m < N /\ m \in G => m + 1 \in G
      BY <1>2, <1>3
    <2> HIDE DEF G
    <2>2. \A m \in 0 .. N : m \in G
      BY <2>1, UpTo
    <2> QED
      BY <2>2
  <1> QED
    BY <1>5, <1>6

\* The same of a path that is given.
LEMMA PathIs ==
  ASSUME NEW a \in Seq(Segments), NEW name \in Segments, NEW path \in Seq(Segments), path # <<>>,
         NEW longer, longer = a \o <<name>>
  PROVE  /\ path = longer => Front(path) = a /\ Last(path) = name
         /\ Front(path) = a /\ Last(path) = name => path = longer
         /\ Len(longer) = Len(a) + 1
<1>1. path = longer <=> Front(path) = a /\ Last(path) = name
  BY PathEnds
<1>2. Len(longer) = Len(a) + 1
  BY PathEnds
<1> QED BY <1>1, <1>2

\* A path is what is left of it and its last name.
LEMMA PathRebuilt ==
  ASSUME NEW path \in Seq(Segments), path # <<>>,
         NEW a \in Seq(Segments), a = Front(path), NEW name \in Segments, name = Last(path),
         NEW longer, longer = a \o <<name>>
  PROVE  path = longer
<1> QED BY PathIs

\* A path of one name.
LEMMA NameAlone ==
  ASSUME NEW S, NEW name \in S, NEW path \in Seq(S), path # <<>>, NEW alone, alone = <<name>>
  PROVE  path = alone <=> Len(path) = 1 /\ Last(path) = name
<1>1. <<>> \in Seq(S)
  BY EmptySeq
<1> QED BY <1>1, PathEnds

\* A graph is composite if and only if there are graphs below its path.
LEMMA CompositeByPath ==
  ASSUME NEW d, GoodContent(d), NEW r \in d.graphs
  PROVE  ChildrenOf(d, {r.id}) # {} <=> \E h \in d.graphs : Beneath(r, h)
  <1>1. ASSUME NEW h \in ChildrenOf(d, {r.id})
        PROVE  h \in d.graphs /\ Beneath(r, h)
    <2>1. h \in d.graphs /\ h.parent = r.id
      BY DEF ChildrenOf
    <2> QED
      BY <2>1, ParentBeneath
  <1>2. ASSUME NEW h \in d.graphs, Beneath(r, h)
        PROVE  ChildrenOf(d, {r.id}) # {}
    <2> DEFINE P(n) == \A x \in d.graphs : Beneath(r, x) /\ Len(x.path) = n => ChildrenOf(d, {r.id}) # {}
    <2>1. \A x \in d.graphs : Len(x.path) \in Nat \ {0}
      BY EmptySeq DEF GoodContent, Placed
    <2>2. P(0)
      BY <2>1
    <2>3. ASSUME NEW m \in Nat, P(m)
          PROVE  P(m + 1)
      <3> SUFFICES ASSUME NEW x \in d.graphs, Beneath(r, x), Len(x.path) = m + 1
                   PROVE  ChildrenOf(d, {r.id}) # {}
        OBVIOUS
      <3>1. PICK q \in d.graphs : /\ x.parent = q.id /\ Len(q.path) = Len(x.path) - 1
                                  /\ q = r \/ Beneath(r, q)
        BY ParentBeneath
      <3>2. CASE q = r
        BY <3>1, <3>2 DEF ChildrenOf
      <3>3. CASE Beneath(r, q)
        <4>1. Len(q.path) = m
          BY <2>1, <3>1
        <4> QED
          BY <2>3, <3>3, <4>1
      <3> QED
        BY <3>1, <3>2, <3>3
    <2>4. PICK N \in Nat : N = Len(h.path)
      BY <2>1
    <2> DEFINE G == {n \in 0 .. N : P(n)}
    <2>5. N \in G
      <3> HIDE DEF P
      <3>1. 0 \in G /\ \A m \in 0 .. N : m < N /\ m \in G => m + 1 \in G
        BY <2>2, <2>3
      <3> HIDE DEF G
      <3>2. \A m \in 0 .. N : m \in G
        BY <3>1, UpTo
      <3> QED
        BY <3>2
    <2> QED
      BY <1>2, <2>4, <2>5
  <1> QED
    BY <1>1, <1>2

\* The child of a name is at the path with that name.
LEMMA ChildByPath ==
  ASSUME NEW d, GoodContent(d), NEW a \in d.graphs, NEW name \in Segments
  PROVE  Named(ChildrenOf(d, {a.id}), name) = GraphAt(d, a.catalog, a.path \o <<name>>)
  <1>1. /\ name # NoName /\ a.path \in Seq(Segments) /\ a.path # <<>> /\ a.id # None
        /\ Len(a.path) \in Nat \ {0}
    BY NamesAssumption, ContentAssumption, EmptySeq DEF GoodContent, Placed, GraphKeys
  <1>2. ASSUME NEW h \in d.graphs
        PROVE  h.parent = a.id /\ Last(h.path) = name <=>
                 h.catalog = a.catalog /\ h.path = a.path \o <<name>>
    <2>1. h.path \in Seq(Segments) /\ h.path # <<>>
      BY DEF GoodContent, Placed
    <2>2. /\ h.path = a.path \o <<name>> <=> Front(h.path) = a.path /\ Last(h.path) = name
          /\ Len(a.path \o <<name>>) = Len(a.path) + 1
      <3>1. PICK path \in Seq(Segments), p \in Seq(Segments) :
              path = h.path /\ path # <<>> /\ p = a.path
        BY <1>1, <2>1
      <3>2. PICK longer : longer = p \o <<name>>
        OBVIOUS
      <3>3. path = longer => Front(path) = p /\ Last(path) = name
        BY ONLY <3>1, <3>2, name \in Segments, PathIs
      <3>4. ASSUME Front(path) = p, Last(path) = name
            PROVE  path = longer
        BY ONLY <3>1, <3>2, <3>4, name \in Segments, PathRebuilt
      <3>5. Len(longer) = Len(p) + 1
        BY ONLY <3>1, <3>2, name \in Segments, PathIs
      <3> QED
        BY <3>1, <3>2, <3>3, <3>4, <3>5
    <2>3. ASSUME h.parent = a.id
          PROVE  h.catalog = a.catalog /\ Front(h.path) = a.path
      <3>1. Len(h.path) # 1
        BY <1>1, <2>3 DEF GoodContent, Placed
      <3>2. PICK q \in d.graphs : q.id = h.parent /\ q.catalog = h.catalog /\ q.path = Front(h.path)
        BY <3>1 DEF GoodContent, Placed
      <3>3. q = a
        BY <2>3, <3>2 DEF GoodContent, GraphKeys
      <3> QED
        BY <3>2, <3>3
    <2>4. ASSUME h.catalog = a.catalog, h.path = a.path \o <<name>>
          PROVE  h.parent = a.id
      <3>1. Len(h.path) # 1 /\ Front(h.path) = a.path
        BY <1>1, <2>2, <2>4
      <3>2. PICK q \in d.graphs : q.id = h.parent /\ q.catalog = h.catalog /\ q.path = Front(h.path)
        BY <3>1 DEF GoodContent, Placed
      <3>3. q = a
        BY <2>4, <3>1, <3>2 DEF GoodContent, Placed
      <3> QED
        BY <3>2, <3>3
    <2> QED
      BY <2>2, <2>3, <2>4
  <1> QED
    BY <1>1, <1>2 DEF Named, ChildrenOf, GraphAt

\* The package of a name is at the path of that name alone.
LEMMA PackageByPath ==
  ASSUME NEW d, GoodContent(d), NEW cat, NEW name \in Segments
  PROVE  Named(Packages(d, cat), name) = GraphAt(d, cat, <<name>>)
  <1>1. name # NoName
    BY NamesAssumption
  <1>2. ASSUME NEW h \in d.graphs
        PROVE  h.parent = None /\ Last(h.path) = name <=> h.path = <<name>>
    <2>1. h.path \in Seq(Segments) /\ h.path # <<>>
      BY DEF GoodContent, Placed
    <2>2. h.path = <<name>> <=> Len(h.path) = 1 /\ Last(h.path) = name
      <3>1. PICK path \in Seq(Segments) : path = h.path /\ path # <<>>
        BY <2>1
      <3>2. PICK alone : alone = <<name>>
        OBVIOUS
      <3>3. path = alone <=> Len(path) = 1 /\ Last(path) = name
        BY ONLY <3>1, <3>2, name \in Segments, NameAlone
      <3> QED
        BY <3>1, <3>2, <3>3
    <2>3. h.parent = None <=> Len(h.path) = 1
      BY ContentAssumption DEF GoodContent, Placed, GraphKeys
    <2> QED
      BY <2>2, <2>3
  <1> QED
    BY <1>1, <1>2 DEF Named, Packages, GraphAt

\* A bundle in the catalog of a graph that is still there.
InCatalogOf(d, graph, b) ==
  b \in d.bundles /\ \E r \in d.graphs : r.id = graph.id /\ r.catalog = b.catalog

LEMMA TogetherInCatalog ==
  ASSUME NEW d, GoodContent(d), NEW graph, graph.id \in Nat,
         NEW i \in Scope(d, graph), NEW b \in d.bundles, Together(d, i, b.id)
  PROVE  InCatalogOf(d, graph, b)
  <1>1. PICK g \in d.graphs, c \in d.bundles : g.id = i /\ c.id = b.id /\ g.catalog = c.catalog
    BY DEF Together
  <1>2. c = b
    BY <1>1 DEF GoodContent, BundleKeys
  <1> QED
    BY <1>1, <1>2, ScopeInCatalog DEF InCatalogOf

\* What UpdateGraph.Successors and ListBundles find is in the catalog of the graph.
LEMMA FoundInCatalog ==
  ASSUME NEW d, GoodContent(d), NEW graph, graph.id \in Nat
  PROVE  /\ \A from : \A b \in EdgesFrom(d, graph, from) : InCatalogOf(d, graph, b)
         /\ \A p \in RangesOf(d, graph) : InCatalogOf(d, graph, p.bundle)
         /\ \A b \in ListBundles(d, graph) : InCatalogOf(d, graph, b)
  <1>1. ASSUME NEW from, NEW b \in EdgesFrom(d, graph, from)
        PROVE  InCatalogOf(d, graph, b)
    <2>1. b \in d.bundles /\ \E e \in d.edges : e.graph \in Scope(d, graph) /\ e.to = b.id
      BY DEF EdgesFrom
    <2> QED
      BY <2>1, TogetherInCatalog DEF GoodContent, References
  <1>2. ASSUME NEW p \in RangesOf(d, graph)
        PROVE  InCatalogOf(d, graph, p.bundle)
    <2>1. /\ p.bundle \in d.bundles /\ p.range \in d.ranges /\ p.range.graph \in Scope(d, graph)
          /\ p.range.bundle = p.bundle.id
      BY DEF RangesOf, RangeRows
    <2> QED
      BY <2>1, TogetherInCatalog DEF GoodContent, References
  <1>3. ASSUME NEW b \in ListBundles(d, graph)
        PROVE  InCatalogOf(d, graph, b)
    <2>1. b \in d.bundles /\ \E m \in d.members : m.bundle = b.id /\ m.graph \in Scope(d, graph)
      BY DEF ListBundles
    <2> QED
      BY <2>1, TogetherInCatalog DEF GoodContent, References
  <1> QED
    BY <1>1, <1>2, <1>3

\* Bundles in the catalog of one graph differ in their bundle IDs.
LEMMA OneOfAnId ==
  ASSUME NEW d, GoodContent(d), NEW graph, NEW b, NEW c,
         InCatalogOf(d, graph, b), InCatalogOf(d, graph, c), b.bundle = c.bundle
  PROVE  b = c
  BY DEF InCatalogOf, GoodContent, GraphKeys, BundleKeys

\* What a query about a graph finds is of the import that made the graph.
LEMMA FoundOfImport ==
  ASSUME NEW d, GoodContent(d), OneImport(d), NEW graph, Names(d, graph),
         NEW b, InCatalogOf(d, graph, b)
  PROVE  b.catalog = graph.catalog /\ b.import = graph.import
  <1>1. PICK r \in d.graphs : r.id = graph.id /\ r.catalog = b.catalog
    BY DEF InCatalogOf
  <1>2. GraphOf(d, r) = graph
    BY <1>1 DEF Names
  <1>3. graph.catalog = r.catalog /\ graph.import = r.import
    BY <1>2 DEF GraphOf
  <1>4. b.import = r.import
    BY <1>1 DEF OneImport, InCatalogOf
  <1> QED
    BY <1>1, <1>3, <1>4

\* So is a graph below it.
LEMMA SubGraphsOfImport ==
  ASSUME NEW d, GoodContent(d), OneImport(d), NEW graph, Names(d, graph),
         NEW row \in SubGraphs(d, graph)
  PROVE  row \in d.graphs /\ row.catalog = graph.catalog /\ row.import = graph.import
  <1>1. row \in d.graphs /\ row.parent = graph.id /\ graph.id \in Nat
    BY DEF SubGraphs, ChildrenOf, Names
  <1>2. PICK h \in d.graphs : h.id = graph.id /\ h.catalog = row.catalog
    BY <1>1, ContentAssumption DEF GoodContent, Parents
  <1>3. graph.catalog = h.catalog /\ graph.import = h.import
    <2>1. GraphOf(d, h) = graph
      BY <1>2 DEF Names
    <2> QED
      BY <2>1 DEF GraphOf
  <1> QED
    BY <1>1, <1>2, <1>3 DEF OneImport

\* The rows of a query, one after the other.
LEMMA RowsInOrder ==
  ASSUME NEW S, IsFiniteSet(S)
  PROVE  /\ SetToSeq(S) \in [1 .. Cardinality(S) -> S]
         /\ Cardinality(S) \in Nat /\ Len(SetToSeq(S)) = Cardinality(S)
         /\ \A i, j \in 1 .. Cardinality(S) : SetToSeq(S)[i] = SetToSeq(S)[j] => i = j
  <1>1. Cardinality(S) \in Nat /\ ExistsBijection(1 .. Cardinality(S), S)
    BY FS_CardinalityType
  <1>2. \E f \in [1 .. Cardinality(S) -> S] : IsInjective(f)
    BY <1>1 DEF ExistsBijection, Bijection, Injection, IsInjective
  <1>3. SetToSeq(S) \in [1 .. Cardinality(S) -> S] /\ IsInjective(SetToSeq(S))
    BY <1>2, Zenon DEF SetToSeq
  <1>4. Len(SetToSeq(S)) = Cardinality(S)
    BY <1>1, <1>3
  <1> QED
    BY <1>1, <1>3, <1>4 DEF IsInjective

\* All of the rows of a set are read.
LEMMA RowsAllRead ==
  ASSUME NEW S, IsFiniteSet(S)
  PROVE  \E n \in Nat : /\ DOMAIN SetToSeq(S) = 1 .. n
                        /\ \A i \in 1 .. n : SetToSeq(S)[i] \in S
                        /\ \A i, j \in 1 .. n : SetToSeq(S)[i] = SetToSeq(S)[j] => i = j
                        /\ \A r \in S : \E i \in 1 .. n : SetToSeq(S)[i] = r
  <1>1. PICK n, f : n = Cardinality(S) /\ f = SetToSeq(S)
    OBVIOUS
  <1>2. /\ f \in [1 .. n -> S] /\ n \in Nat
        /\ \A i, j \in 1 .. n : f[i] = f[j] => i = j
    BY <1>1, RowsInOrder
  <1>3. f \in Injection(1 .. n, S)
    BY <1>2 DEF Injection, IsInjective
  <1>4. IsFiniteSet(1 .. n) /\ Cardinality(1 .. n) = Cardinality(S)
    <2>1. IsFiniteSet(1 .. n) /\ Cardinality(1 .. n) = IF 1 > n THEN 0 ELSE n - 1 + 1
      BY <1>2, FS_Interval
    <2> QED
      BY <1>1, <1>2, <2>1
  <1>5. f \in Surjection(1 .. n, S)
    BY <1>3, <1>4, FS_Injection
  <1>6. \A r \in S : \E i \in 1 .. n : f[i] = r
    BY <1>5 DEF Surjection
  <1> QED
    BY <1>1, <1>2, <1>6

LEMMA FiniteResults ==
  ASSUME NEW d, GoodContent(d), NEW graph
  PROVE  /\ \A from : IsFiniteSet(EdgesFrom(d, graph, from))
         /\ IsFiniteSet(RangesOf(d, graph))
  <1>1. \A from : IsFiniteSet(EdgesFrom(d, graph, from))
    BY FS_Subset DEF EdgesFrom, GoodContent, Shape
  <1>2. IsFiniteSet(RangesOf(d, graph))
    <2> DEFINE R == {x \in d.ranges : x.graph \in Scope(d, graph)}
               f == [p \in d.bundles \X R |-> [bundle |-> p[1], range |-> p[2]]]
    <2>1. IsFiniteSet(d.bundles \X R)
      BY FS_Subset, FS_Product DEF GoodContent, Shape
    <2>2. f \in Surjection(d.bundles \X R, RangeRows(d, graph))
      <3>1. \A p \in d.bundles \X R : f[p] \in RangeRows(d, graph)
        BY DEF RangeRows
      <3>2. \A x \in RangeRows(d, graph) : \E p \in d.bundles \X R : f[p] = x
        <4>1. ASSUME NEW b \in d.bundles, NEW r \in R
              PROVE  \E p \in d.bundles \X R : f[p] = [bundle |-> b, range |-> r]
          <5>1. <<b, r>> \in d.bundles \X R
            OBVIOUS
          <5>2. f[<<b, r>>] = [bundle |-> b, range |-> r]
            BY <5>1
          <5> HIDE DEF f, R
          <5> QED
            BY <5>1, <5>2, Zenon
        <4>2. \A x \in RangeRows(d, graph) :
                \E b \in d.bundles, r \in R : x = [bundle |-> b, range |-> r]
          BY DEF RangeRows
        <4> HIDE DEF f, R
        <4> QED
          BY <4>1, <4>2
      <3> QED
        BY <3>1, <3>2 DEF Surjection
    <2>3. IsFiniteSet(RangeRows(d, graph))
      BY <2>1, <2>2, FS_Surjection
    <2> QED
      BY <2>3, FS_Subset DEF RangesOf
  <1> QED
    BY <1>1, <1>2

=============================================================================
