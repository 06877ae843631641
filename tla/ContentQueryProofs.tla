-------------------------- MODULE ContentQueryProofs --------------------------
(***************************************************************************)
(* Safety of the content queries for any catalogs, contents and number of  *)
(* commits.  The inductive invariant says of the tables what an import     *)
(* keeps (GoodContent), and of the reader that the id it holds was given   *)
(* before and never to another graph: from this follows what a stream that *)
(* two commits feed may yield.  That it yields all it should is another    *)
(* invariant (ExactInv), and rests on the recursive SELECT finding exactly *)
(* the graphs below the path of another.                                   *)
(***************************************************************************)
EXTENDS ContentQuery, ContentProofs

-----------------------------------------------------------------------------
(***************************************************************************)
(* The inductive invariant.                                                *)
(***************************************************************************)
\* A sequence, of bundles with different IDs.
Stream(out) ==
  /\ Len(out) \in Nat
  /\ out \in [1 .. Len(out) -> {out[i] : i \in 1 .. Len(out)}]
  /\ \A i, j \in 1 .. Len(out) : out[i].bundle = out[j].bundle => i = j

OfImport(out, graph) ==
  \A i \in 1 .. Len(out) : out[i].catalog = graph.catalog /\ out[i].import = graph.import

ReaderFields == {"step", "graph", "since", "bundle", "version", "out"}

ReaderInv ==
  /\ DOMAIN reader = ReaderFields
  /\ reader.graph # None => Names(db, reader.graph)
  /\ reader.step = "idle" => reader.out = <<>>
  /\ reader.step # "idle" => reader.graph # None
  /\ Stream(reader.out)
  /\ OfImport(reader.out, reader.graph)

QueryInv == GoodContent(db) /\ OneImport(db) /\ ReaderInv

\* The bundles that a range of the graph yields for that version.
RangedTo(d, graph, version) ==
  {p.bundle : p \in {q \in RangesOf(d, graph) : version \in q.range.versions}}

\* What is yielded by the first loop of a stream, and after its last turn by the
\* second, as long as nothing has been committed since the first query.
ExactInv ==
  /\ commits \in Nat /\ reader.since \in Nat /\ reader.since <= commits
  /\ reader.step # "idle" /\ reader.since = commits =>
       \E from \in FromIds(db, reader.bundle) :
         Yielded = EdgesFrom(db, reader.graph, from)
                     \cup IF reader.step = "done" THEN RangedTo(db, reader.graph, reader.version)
                          ELSE {}

Elements(out) == {out[i] : i \in 1 .. Len(out)}

-----------------------------------------------------------------------------
(***************************************************************************)
(* The streams.                                                            *)
(***************************************************************************)

\* The first loop of Successors.
LEMMA EdgesStream ==
  ASSUME NEW d, GoodContent(d), OneImport(d), NEW graph, Names(d, graph), NEW from,
         NEW out, out = SetToSeq(EdgesFrom(d, graph, from))
  PROVE  Stream(out) /\ OfImport(out, graph)
  <1>1. PICK S : S = EdgesFrom(d, graph, from)
    OBVIOUS
  <1>2. IsFiniteSet(S)
    BY <1>1, FiniteResults
  <1>3. PICK n \in Nat : /\ n = Len(out)
                         /\ out \in [1 .. n -> S]
                         /\ \A i, j \in 1 .. n : out[i] = out[j] => i = j
    BY <1>1, <1>2, RowsInOrder
  <1>4. \A b \in S : InCatalogOf(d, graph, b)
    BY <1>1, FoundInCatalog DEF Names
  <1>5. OfImport(out, graph)
    BY <1>3, <1>4, FoundOfImport DEF OfImport
  <1>6. out \in [1 .. n -> {out[i] : i \in 1 .. n}]
    BY <1>3
  <1>7. \A i, j \in 1 .. n : out[i].bundle = out[j].bundle => i = j
    BY <1>3, <1>4, OneOfAnId
  <1> QED
    BY <1>3, <1>5, <1>6, <1>7 DEF Stream

\* A turn of the second loop.
LEMMA YieldKeeps ==
  ASSUME NEW out, NEW graph, Stream(out), OfImport(out, graph), NEW version,
         NEW pair, pair.bundle.catalog = graph.catalog, pair.bundle.import = graph.import,
         NEW next, next = Yield(out, version, pair)
  PROVE  Stream(next) /\ OfImport(next, graph)
  <1> DEFINE n == Len(out)
             S == {out[i] : i \in 1 .. n} \cup {pair.bundle}
  <1>1. n \in Nat /\ out \in [1 .. n -> {out[i] : i \in 1 .. n}] /\ DOMAIN out = 1 .. n
    BY DEF Stream
  <1>2. CASE next = out
    BY <1>2
  <1>3. CASE /\ \A i \in 1 .. n : out[i].bundle # pair.bundle.bundle
             /\ next = Append(out, pair.bundle)
    <2>1. \A i \in 1 .. n : out[i] \in S
      OBVIOUS
    <2>2. out \in Seq(S) /\ pair.bundle \in S
      BY <1>1, <2>1
    <2> HIDE DEF S
    <2>3. /\ next \in Seq(S) /\ Len(next) = n + 1
          /\ \A i \in 1 .. n : next[i] = out[i]
          /\ next[n + 1] = pair.bundle
      BY <1>1, <1>3, <2>2
    <2>4. \A i \in 1 .. (n + 1) : i \in 1 .. n \/ i = n + 1
      BY <1>1
    <2>5. next \in [1 .. Len(next) -> {next[i] : i \in 1 .. Len(next)}]
      BY <2>3
    <2>6. \A i, j \in 1 .. (n + 1) : next[i].bundle = next[j].bundle => i = j
      BY <1>3, <2>3, <2>4 DEF Stream
    <2>7. OfImport(next, graph)
      BY <2>3, <2>4 DEF OfImport
    <2> QED
      BY <1>1, <2>3, <2>5, <2>6, <2>7 DEF Stream
  <1> QED
    BY <1>1, <1>2, <1>3 DEF Yield

\* f[n] is the stream after turn n of the second loop.
Turns(out, version, pairs, f) ==
  /\ YieldAll(out, version, pairs) = f[Len(pairs)]
  /\ f[0] = out
  /\ \A n \in 1 .. Len(pairs) : f[n] = Yield(f[n - 1], version, pairs[n])

LEMMA YieldAllSteps ==
  ASSUME NEW out, NEW version, NEW pairs, Len(pairs) \in Nat
  PROVE  \E f : Turns(out, version, pairs, f)
  <1> DEFINE N == Len(pairs)
             base == out
             Step(v, n) == Yield(v, version, pairs[n])
             Body(f, m) == [n \in 0 .. m |-> IF n = 0 THEN base ELSE Step(f[n - 1], n)]
             G == {m \in 0 .. N : \E f : f = Body(f, m)}
  <1>1. YieldAll(out, version, pairs) = (CHOOSE f : f = Body(f, N))[N]
    BY DEF YieldAll
  <1>2. N \in Nat
    OBVIOUS
  <1> HIDE DEF N, base, Step
  <1>3. 0 \in G
    <2> DEFINE f == [n \in 0 .. 0 |-> base]
    <2>1. f = Body(f, 0)
      OBVIOUS
    <2> HIDE DEF f, Body
    <2> QED
      BY <1>2, <2>1
  <1>4. ASSUME NEW m \in 0 .. N, m < N, m \in G
        PROVE  m + 1 \in G
    <2>1. PICK f : f = Body(f, m)
      BY <1>4
    <2> DEFINE g == [n \in 0 .. (m + 1) |-> IF n <= m THEN f[n] ELSE Step(f[m], m + 1)]
    <2>2. \A n \in 0 .. m : f[n] = IF n = 0 THEN base ELSE Step(f[n - 1], n)
      BY <2>1
    <2>3. ASSUME NEW n \in 0 .. (m + 1)
          PROVE  g[n] = IF n = 0 THEN base ELSE Step(g[n - 1], n)
      <3>1. CASE n = 0
        BY <1>2, <2>2, <3>1
      <3>2. CASE n # 0 /\ n <= m
        <4>1. n - 1 \in 0 .. m /\ n \in 0 .. m /\ n - 1 \in 0 .. (m + 1)
          BY <1>2, <3>2
        <4>2. g[n - 1] = f[n - 1] /\ g[n] = f[n]
          BY <4>1
        <4> QED
          BY <2>2, <3>2, <4>1, <4>2
      <3>3. CASE n = m + 1
        <4>1. n - 1 = m /\ n - 1 \in 0 .. (m + 1) /\ ~(n <= m) /\ n # 0
          BY <1>2, <3>3
        <4>2. g[n - 1] = f[m] /\ g[n] = Step(f[m], m + 1)
          BY <4>1
        <4> QED
          BY <3>3, <4>1, <4>2
      <3> QED
        BY <1>2, <3>1, <3>2, <3>3
    <2>4. g = Body(g, m + 1)
      <3> DEFINE h == Body(g, m + 1)
      <3>1. \A n \in 0 .. (m + 1) : h[n] = g[n]
        BY <2>3
      <3>2. /\ h = [n \in 0 .. (m + 1) |-> h[n]]
            /\ g = [n \in 0 .. (m + 1) |-> g[n]]
        OBVIOUS
      <3> HIDE DEF g, h
      <3>3. g = h
        BY <3>1, <3>2
      <3> QED
        BY <3>3 DEF h
    <2>5. m + 1 \in 0 .. N
      BY <1>2, <1>4
    <2> HIDE DEF g, Body
    <2> QED
      BY <2>4, <2>5
  <1>5. N \in G
    <2> HIDE DEF G
    <2>1. \A m \in 0 .. N : m \in G
      BY <1>2, <1>3, <1>4, UpTo
    <2> QED
      BY <1>2, <2>1
  <1>6. PICK f : f = (CHOOSE h : h = Body(h, N)) /\ f = Body(f, N)
    <2>1. \E h : h = Body(h, N)
      <3> HIDE DEF Body
      <3> QED
        BY <1>5
    <2> HIDE DEF Body
    <2>2. (CHOOSE h : h = Body(h, N)) = Body(CHOOSE h : h = Body(h, N), N)
      BY <2>1, Zenon
    <2> DEFINE c == CHOOSE h : h = Body(h, N)
    <2>3. c = Body(c, N)
      BY <2>2
    <2> QED
      BY <2>3, Zenon
  <1>7. f[0] = base /\ \A n \in 1 .. N : f[n] = Step(f[n - 1], n)
    <2>1. f = Body(f, N)
      BY <1>6
    <2>2. \A n \in 0 .. N : f[n] = IF n = 0 THEN base ELSE Step(f[n - 1], n)
      BY <2>1
    <2> QED
      BY <1>2, <2>2
  <1>8. YieldAll(out, version, pairs) = f[N]
    BY <1>1, <1>6
  <1> QED
    BY <1>7, <1>8 DEF N, base, Step, Turns

\* The second loop of Successors, after the first or after commits in between.
LEMMA RangesStream ==
  ASSUME NEW d, GoodContent(d), OneImport(d), NEW graph, Names(d, graph),
         NEW out, Stream(out), OfImport(out, graph), NEW version,
         NEW next, next = YieldAll(out, version, SetToSeq(RangesOf(d, graph)))
  PROVE  Stream(next) /\ OfImport(next, graph)
  <1>1. PICK pairs : pairs = SetToSeq(RangesOf(d, graph))
    OBVIOUS
  <1>2. Len(pairs) \in Nat /\ \A n \in 1 .. Len(pairs) : pairs[n] \in RangesOf(d, graph)
    <2>1. PICK S : S = RangesOf(d, graph)
      OBVIOUS
    <2>2. IsFiniteSet(S) /\ pairs = SetToSeq(S)
      BY <1>1, <2>1, FiniteResults
    <2> QED
      BY <2>1, <2>2, RowsInOrder
  <1>3. PICK f : Turns(out, version, pairs, f)
    BY <1>2, YieldAllSteps
  <1> DEFINE P(o) == Stream(o) /\ OfImport(o, graph)
             G == {n \in 0 .. Len(pairs) : P(f[n])}
  <1>4. ASSUME NEW m \in 0 .. Len(pairs), m < Len(pairs), P(f[m])
        PROVE  P(f[m + 1])
    <2>1. m + 1 \in 1 .. Len(pairs) /\ (m + 1) - 1 = m
      BY <1>2, <1>4
    <2>2. f[m + 1] = Yield(f[m], version, pairs[m + 1])
      BY <1>3, <2>1 DEF Turns
    <2>3. InCatalogOf(d, graph, pairs[m + 1].bundle)
      BY <1>2, <2>1, FoundInCatalog DEF Names
    <2>4. /\ pairs[m + 1].bundle.catalog = graph.catalog
          /\ pairs[m + 1].bundle.import = graph.import
      BY <2>3, FoundOfImport
    <2> QED
      BY <1>4, <2>2, <2>4, YieldKeeps
  <1>5. P(f[0])
    BY <1>3 DEF Turns
  <1> HIDE DEF P
  <1>6. \A n \in 0 .. Len(pairs) : n \in G
    <2>1. 0 \in G
      BY <1>2, <1>5
    <2>2. \A m \in 0 .. Len(pairs) : m < Len(pairs) /\ m \in G => m + 1 \in G
      BY <1>2, <1>4
    <2> HIDE DEF G
    <2> QED
      BY <1>2, <2>1, <2>2, UpTo
  <1>7. P(f[Len(pairs)])
    BY <1>2, <1>6
  <1> QED
    BY <1>1, <1>3, <1>7 DEF P, Turns

\* The first loop yields all that its query has found.
LEMMA EdgesAllYielded ==
  ASSUME NEW d, GoodContent(d), NEW graph, NEW from,
         NEW out, out = SetToSeq(EdgesFrom(d, graph, from))
  PROVE  Elements(out) = EdgesFrom(d, graph, from)
  <1>1. PICK S : S = EdgesFrom(d, graph, from)
    OBVIOUS
  <1>2. IsFiniteSet(S) /\ out = SetToSeq(S)
    BY <1>1, FiniteResults
  <1>3. PICK n \in Nat : /\ DOMAIN out = 1 .. n
                         /\ \A i \in 1 .. n : out[i] \in S
                         /\ \A r \in S : \E i \in 1 .. n : out[i] = r
    BY <1>2, RowsAllRead
  <1>4. Len(out) = n
    BY <1>2, <1>3, RowsInOrder
  <1> QED
    BY <1>1, <1>3, <1>4 DEF Elements

\* A turn of the second loop adds the bundle of a range that holds the version,
\* which is the one yielded before if that has its ID.
LEMMA YieldAdds ==
  ASSUME NEW d, GoodContent(d), NEW graph, NEW out, Stream(out),
         \A b \in Elements(out) : InCatalogOf(d, graph, b),
         NEW version, NEW pair, InCatalogOf(d, graph, pair.bundle)
  PROVE  Elements(Yield(out, version, pair))
           = Elements(out) \cup IF version \in pair.range.versions THEN {pair.bundle} ELSE {}
  <1> DEFINE n == Len(out)
             S == Elements(out) \cup {pair.bundle}
  <1>1. n \in Nat /\ out \in [1 .. n -> S] /\ DOMAIN out = 1 .. n
    BY DEF Stream, Elements
  <1>2. CASE version \notin pair.range.versions
    BY <1>2 DEF Yield
  <1>3. CASE version \in pair.range.versions /\ \E i \in 1 .. n : out[i].bundle = pair.bundle.bundle
    <2>1. PICK i \in 1 .. n : out[i].bundle = pair.bundle.bundle
      BY <1>3
    <2>2. out[i] \in Elements(out)
      BY DEF Elements
    <2>3. out[i] = pair.bundle
      BY <2>1, <2>2, OneOfAnId
    <2>4. Yield(out, version, pair) = out
      BY <1>1, <2>1 DEF Yield
    <2> QED
      BY <1>3, <2>2, <2>3, <2>4
  <1>4. CASE version \in pair.range.versions /\ \A i \in 1 .. n : out[i].bundle # pair.bundle.bundle
    <2>1. PICK next : next = Append(out, pair.bundle)
      OBVIOUS
    <2>2. Yield(out, version, pair) = next
      BY <1>1, <1>4, <2>1 DEF Yield
    <2>3. out \in Seq(S) /\ pair.bundle \in S
      BY <1>1
    <2>4. /\ Len(next) = n + 1 /\ \A i \in 1 .. n : next[i] = out[i]
          /\ next[n + 1] = pair.bundle
      <3> HIDE DEF S
      <3> QED
        BY <1>1, <2>1, <2>3
    <2>5. \A x : x \in Elements(next) <=> \E i \in 1 .. n + 1 : x = next[i]
      BY <2>4 DEF Elements
    <2>6. \A i \in 1 .. (n + 1) : i \in 1 .. n \/ i = n + 1
      BY <1>1
    <2>7. \A i \in 1 .. n : i \in 1 .. (n + 1)
      BY <1>1
    <2>8. n + 1 \in 1 .. (n + 1)
      BY <1>1
    <2>9. \A x : x \in Elements(next) <=> x = pair.bundle \/ \E i \in 1 .. n : x = out[i]
      BY <2>4, <2>5, <2>6, <2>7, <2>8
    <2>10. Elements(next) = Elements(out) \cup {pair.bundle}
      BY <2>9 DEF Elements
    <2> QED
      BY <1>4, <2>2, <2>10
  <1> QED
    BY <1>2, <1>3, <1>4

\* The second loop yields what the ranges say and no more.
LEMMA RangesAllYielded ==
  ASSUME NEW d, GoodContent(d), OneImport(d), NEW graph, Names(d, graph),
         NEW out, Stream(out), OfImport(out, graph),
         \A b \in Elements(out) : InCatalogOf(d, graph, b), NEW version,
         NEW next, next = YieldAll(out, version, SetToSeq(RangesOf(d, graph)))
  PROVE  Elements(next) = Elements(out) \cup RangedTo(d, graph, version)
  <1>1. PICK S : S = RangesOf(d, graph)
    OBVIOUS
  <1>2. PICK pairs : pairs = SetToSeq(S)
    OBVIOUS
  <1>3. IsFiniteSet(S) /\ \A p \in S : InCatalogOf(d, graph, p.bundle)
    BY <1>1, FiniteResults, FoundInCatalog DEF Names
  <1>4. PICK N \in Nat : /\ N = Len(pairs)
                         /\ \A n \in 1 .. N : pairs[n] \in S
                         /\ \A p \in S : \E n \in 1 .. N : pairs[n] = p
    <2>1. PICK N \in Nat : /\ DOMAIN pairs = 1 .. N
                           /\ \A n \in 1 .. N : pairs[n] \in S
                           /\ \A p \in S : \E n \in 1 .. N : pairs[n] = p
      BY <1>2, <1>3, RowsAllRead
    <2>2. Len(pairs) = N
      BY <1>2, <1>3, <2>1, RowsInOrder
    <2> QED
      BY <2>1, <2>2
  <1>5. PICK f : Turns(out, version, pairs, f)
    BY <1>4, YieldAllSteps
  <1>6. /\ next = f[N] /\ f[0] = out
        /\ \A n \in 1 .. N : f[n] = Yield(f[n - 1], version, pairs[n])
    BY <1>1, <1>2, <1>4, <1>5 DEF Turns
  <1> DEFINE Ranged(n) == {x \in {p.bundle : p \in S} :
                             \E j \in 1 .. n : pairs[j].bundle = x /\ version \in pairs[j].range.versions}
             P(n) == /\ Stream(f[n]) /\ OfImport(f[n], graph)
                     /\ Elements(f[n]) = Elements(out) \cup Ranged(n)
             G == {n \in 0 .. N : P(n)}
  <1>7. P(0)
    BY <1>6
  <1>8. ASSUME NEW m \in 0 .. N, m < N, P(m)
        PROVE  P(m + 1)
    <2>1. m + 1 \in 1 .. N /\ (m + 1) - 1 = m /\ m \in Nat
      BY <1>4, <1>8
    <2>2. PICK pair \in S : pair = pairs[m + 1]
      BY <1>4, <2>1
    <2>3. f[m + 1] = Yield(f[m], version, pair)
      BY <1>6, <2>1, <2>2
    <2>4. InCatalogOf(d, graph, pair.bundle)
      BY <1>3
    <2>5. pair.bundle.catalog = graph.catalog /\ pair.bundle.import = graph.import
      BY <2>4, FoundOfImport
    <2>6. Stream(f[m + 1]) /\ OfImport(f[m + 1], graph)
      <3> HIDE DEF Ranged
      <3> QED
        BY <1>8, <2>3, <2>5, YieldKeeps
    <2>7. \A b \in Elements(f[m]) : InCatalogOf(d, graph, b)
      BY <1>3, <1>8
    <2>8. Elements(f[m + 1])
            = Elements(f[m]) \cup IF version \in pair.range.versions THEN {pair.bundle} ELSE {}
      <3>1. PICK o : o = f[m] /\ Stream(o)
        BY <1>8
      <3>2. \A b \in Elements(o) : InCatalogOf(d, graph, b)
        BY <2>7, <3>1
      <3> HIDE DEF Ranged, P
      <3>3. Elements(Yield(o, version, pair))
              = Elements(o) \cup IF version \in pair.range.versions THEN {pair.bundle} ELSE {}
        BY <2>4, <3>1, <3>2, YieldAdds
      <3> QED
        BY <2>3, <3>1, <3>3
    <2>9. \A j \in 1 .. (m + 1) : j \in 1 .. m \/ j = m + 1
      BY <2>1
    <2>10. m + 1 \in 1 .. (m + 1) /\ \A j \in 1 .. m : j \in 1 .. (m + 1)
      BY <2>1
    <2>11. Ranged(m + 1)
             = Ranged(m) \cup IF version \in pair.range.versions THEN {pair.bundle} ELSE {}
      BY <2>2, <2>9, <2>10
    <2>12. Elements(f[m]) = Elements(out) \cup Ranged(m)
      BY <1>8
    <2> HIDE DEF Ranged
    <2>13. Elements(f[m + 1]) = Elements(out) \cup Ranged(m + 1)
      BY <2>8, <2>11, <2>12
    <2> QED
      BY <2>6, <2>13
  <1>9. Ranged(N) = RangedTo(d, graph, version)
    BY <1>1, <1>4 DEF RangedTo
  <1> HIDE DEF P
  <1>10. \A n \in 0 .. N : n \in G
    <2>1. 0 \in G
      BY <1>7
    <2>2. \A m \in 0 .. N : m < N /\ m \in G => m + 1 \in G
      BY <1>8
    <2> HIDE DEF G
    <2> QED
      BY <2>1, <2>2, UpTo
  <1>11. P(N)
    BY <1>10
  <1> QED
    BY <1>6, <1>9, <1>11 DEF P

-----------------------------------------------------------------------------
(***************************************************************************)
(* What is found, by the paths of the graphs.                              *)
(***************************************************************************)

\* The graphs that the queries ask about are those that the graph stands for.
LEMMA ScopeStandsFor ==
  ASSUME NEW d, GoodContent(d), NEW graph, Names(d, graph), NEW h \in d.graphs
  PROVE  h.id \in Scope(d, graph) <=> h \in StandsFor(d, graph)
  <1>1. h.id \in Scope(d, graph) <=>
          \E r \in d.graphs : r.id = graph.id /\ IF graph.composite THEN Beneath(r, h) ELSE h = r
    BY ScopeByPath DEF Names
  <1>2. \A r \in d.graphs : r.id = graph.id => r.catalog = graph.catalog /\ r.path = graph.path
    <2> SUFFICES ASSUME NEW r \in d.graphs, r.id = graph.id
                 PROVE  r.catalog = graph.catalog /\ r.path = graph.path
      OBVIOUS
    <2>1. GraphOf(d, r) = graph
      BY DEF Names
    <2> QED
      BY <2>1 DEF GraphOf
  <1>3. CASE graph.composite
    BY <1>1, <1>2, <1>3 DEF StandsFor, Beneath
  <1>4. CASE ~graph.composite
    BY <1>1, <1>2, <1>4 DEF StandsFor, GoodContent, Placed
  <1> QED
    BY <1>3, <1>4

\* No edge leads to a graph that is gone, or from a bundle that is.
LEMMA FoundIsOwn ==
  ASSUME NEW d, GoodContent(d), NEW graph, Names(d, graph), NEW b, NEW from \in FromIds(d, b),
         NEW version
  PROVE  EdgesFrom(d, graph, from) \cup RangedTo(d, graph, version)
           \subseteq OwnSuccessors(d, graph, b, version)
  <1>1. \A h \in d.graphs : h.id \in Scope(d, graph) => h \in StandsFor(d, graph)
    BY ScopeStandsFor
  <1>2. ASSUME NEW to \in EdgesFrom(d, graph, from)
        PROVE  to \in OwnSuccessors(d, graph, b, version)
    <2>1. PICK e \in d.edges : e.graph \in Scope(d, graph) /\ e.from = from /\ e.to = to.id
      BY DEF EdgesFrom
    <2>2. to \in d.bundles
      BY DEF EdgesFrom
    <2>3. PICK g \in d.graphs, c \in d.bundles :
            g.id = e.graph /\ c.id = from /\ g.catalog = c.catalog
      BY <2>1 DEF GoodContent, References, Together
    <2>4. g \in StandsFor(d, graph)
      BY <1>1, <2>1, <2>3
    <2>5. g.catalog = graph.catalog
      BY <2>4 DEF StandsFor
    <2>6. c.bundle = b
      <3>1. from \in Nat
        BY <2>3 DEF GoodContent, BundleKeys
      <3>2. PICK r \in d.bundles : r.bundle = b /\ r.id = from
        BY <3>1, ContentAssumption DEF FromIds
      <3> QED
        BY <2>3, <3>2 DEF GoodContent, BundleKeys
    <2>7. c \in BundleIn(d, graph.catalog, b)
      BY <2>3, <2>5, <2>6 DEF BundleIn
    <2>8. [graph |-> g.id, from |-> c.id, to |-> to.id] \in d.edges
      BY <2>1, <2>3 DEF GoodContent, Records
    <2> QED
      BY <2>2, <2>4, <2>7, <2>8 DEF OwnSuccessors
  <1>3. ASSUME NEW to \in RangedTo(d, graph, version)
        PROVE  to \in OwnSuccessors(d, graph, b, version)
    <2>1. PICK r \in d.ranges : /\ r.graph \in Scope(d, graph) /\ r.bundle = to.id
                                /\ version \in r.versions
      BY DEF RangedTo, RangesOf, RangeRows
    <2>2. to \in d.bundles
      BY DEF RangedTo, RangesOf, RangeRows
    <2>3. PICK g \in d.graphs : g.id = r.graph
      BY <2>1 DEF GoodContent, References, Together
    <2>4. g \in StandsFor(d, graph)
      BY <1>1, <2>1, <2>3
    <2> QED
      BY <2>1, <2>2, <2>3, <2>4 DEF OwnSuccessors
  <1> QED
    BY <1>2, <1>3

LEMMA OwnIsFound ==
  ASSUME NEW d, GoodContent(d), NEW graph, Names(d, graph), NEW b, NEW from \in FromIds(d, b),
         NEW version, \A r \in d.bundles : r.bundle = b => r.catalog = graph.catalog
  PROVE  OwnSuccessors(d, graph, b, version)
           \subseteq EdgesFrom(d, graph, from) \cup RangedTo(d, graph, version)
  <1> SUFFICES ASSUME NEW to \in OwnSuccessors(d, graph, b, version)
               PROVE  to \in EdgesFrom(d, graph, from) \cup RangedTo(d, graph, version)
    OBVIOUS
  <1>1. PICK g \in StandsFor(d, graph) :
          \/ \E c \in BundleIn(d, graph.catalog, b) :
               [graph |-> g.id, from |-> c.id, to |-> to.id] \in d.edges
          \/ \E r \in d.ranges : r.graph = g.id /\ r.bundle = to.id /\ version \in r.versions
    BY DEF OwnSuccessors
  <1>2. to \in d.bundles /\ g.id \in Scope(d, graph)
    BY ScopeStandsFor DEF OwnSuccessors, StandsFor
  <1>3. ASSUME NEW c \in BundleIn(d, graph.catalog, b),
               [graph |-> g.id, from |-> c.id, to |-> to.id] \in d.edges
        PROVE  to \in EdgesFrom(d, graph, from)
    <2>1. PICK e \in d.edges : e.graph = g.id /\ e.from = c.id /\ e.to = to.id
      BY <1>3
    <2>2. c \in d.bundles /\ c.bundle = b /\ c.catalog = graph.catalog
      BY DEF BundleIn
    <2>3. \A r \in d.bundles : r.bundle = b => r = c
      BY <2>2 DEF GoodContent, BundleKeys
    <2>4. from = c.id
      BY <2>2, <2>3 DEF FromIds
    <2> QED
      BY <1>2, <2>1, <2>4 DEF EdgesFrom
  <1>4. ASSUME NEW r \in d.ranges, r.graph = g.id, r.bundle = to.id, version \in r.versions
        PROVE  to \in RangedTo(d, graph, version)
    <2>1. PICK p : p = [bundle |-> to, range |-> r]
      OBVIOUS
    <2>2. p.bundle = to /\ p.range = r
      BY <2>1
    <2>3. p \in RangeRows(d, graph)
      BY <1>2, <1>4, <2>1 DEF RangeRows
    <2>4. p \in RangesOf(d, graph)
      BY <1>4, <2>2, <2>3 DEF RangesOf
    <2> QED
      BY <1>4, <2>2, <2>4 DEF RangedTo
  <1> QED
    BY <1>1, <1>3, <1>4

-----------------------------------------------------------------------------
(***************************************************************************)
(* The invariant is inductive.                                             *)
(***************************************************************************)
LEMMA InitQueryInv == Init => QueryInv
  <1> SUFFICES ASSUME Init
               PROVE  QueryInv
    OBVIOUS
  <1>1. db = EmptyContent /\ reader = NoReader
    BY DEF Init
  <1>2. Stream(<<>>) /\ \A graph : OfImport(<<>>, graph)
    BY DEF Stream, OfImport
  <1>3. ReaderInv
    BY <1>1, <1>2 DEF ReaderInv, NoReader, ReaderFields
  <1> QED
    BY <1>1, <1>3, EmptyIsGood DEF QueryInv

\* A reader that holds a graph and has no stream.
LEMMA HoldingKeeps ==
  ASSUME QueryInv, UNCHANGED db, NEW row \in db.graphs, reader' = Holding(GraphOf(db, row))
  PROVE  QueryInv'
  <1>1. PICK graph : graph = GraphOf(db, row)
    OBVIOUS
  <1>2. Names(db, graph)
    BY <1>1, HoldsWhatItNames DEF QueryInv
  <1>3. /\ DOMAIN reader' = ReaderFields /\ reader'.graph = graph
        /\ reader'.step = "idle" /\ reader'.out = <<>>
    BY <1>1 DEF Holding, NoReader, ReaderFields
  <1>4. Stream(<<>>) /\ OfImport(<<>>, graph)
    BY DEF Stream, OfImport
  <1> QED
    BY <1>2, <1>3, <1>4 DEF QueryInv, ReaderInv

LEMMA CommitKeeps ==
  ASSUME QueryInv, UNCHANGED reader, NEW cat, NEW k, GoodContent(db'), Importing(db, cat, k, db')
  PROVE  QueryInv'
  <1>1. OneImport(db')
    BY CommitKeepsOneImport DEF QueryInv
  <1>2. reader.graph # None => Names(db', reader.graph)
    BY CommitKeepsNames DEF QueryInv, ReaderInv
  <1> QED
    BY <1>1, <1>2 DEF QueryInv, ReaderInv

LEMMA NextQueryInv == QueryInv /\ [Next]_vars => QueryInv'
  <1> SUFFICES ASSUME QueryInv, [Next]_vars
               PROVE  QueryInv'
    OBVIOUS
  <1>1. ASSUME NEW cat \in Catalogs, NEW ops \in Contents, Import(cat, ops)
        PROVE  QueryInv'
    <2>1. /\ db' = Imported(db, cat, commits + 1, ops) /\ db' # Failed
          /\ UNCHANGED reader
      BY <1>1 DEF Import, Commit
    <2>2. GoodContent(db') /\ Importing(db, cat, commits + 1, db')
      BY <2>1, ImportedKeeps, ContentsAreOperations DEF QueryInv
    <2> QED
      BY <2>1, <2>2, CommitKeeps
  <1>2. ASSUME NEW cat \in Catalogs, Delete(cat)
        PROVE  QueryInv'
    <2>1. db' = DeleteAll(db, cat) /\ UNCHANGED reader
      BY <1>2 DEF Delete, Commit
    <2>2. GoodContent(db') /\ Importing(db, cat, commits, db')
      BY <2>1, DeleteKeeps DEF QueryInv
    <2> QED
      BY <2>1, <2>2, CommitKeeps
  <1>3. ASSUME NEW cat \in Catalogs, NEW name, GetPackage(cat, name)
        PROVE  QueryInv'
    <2>1. PICK row \in Named(Packages(db, cat), name) : reader' = Holding(GraphOf(db, row))
      BY <1>3 DEF GetPackage
    <2>2. row \in db.graphs /\ UNCHANGED db
      BY <1>3, <2>1 DEF GetPackage, Named, Packages
    <2> QED
      BY <2>1, <2>2, HoldingKeeps
  <1>4. ASSUME NEW name, GetGraph(name)
        PROVE  QueryInv'
    <2>1. PICK row \in Named(SubGraphs(db, reader.graph), name) :
            reader' = Holding(GraphOf(db, row))
      BY <1>4 DEF GetGraph
    <2>2. row \in db.graphs /\ UNCHANGED db
      BY <1>4, <2>1 DEF GetGraph, Named, SubGraphs, ChildrenOf
    <2> QED
      BY <2>1, <2>2, HoldingKeeps
  <1>5. ASSUME NEW b, NEW version, QueryEdges(b, version)
        PROVE  QueryInv'
    <2>1. PICK from \in FromIds(db, b) :
            reader' = [reader EXCEPT !.step = "ranges", !.bundle = b, !.version = version,
                                     !.since = commits,
                                     !.out = SetToSeq(EdgesFrom(db, reader.graph, from))]
      BY <1>5 DEF QueryEdges
    <2>2. PICK out : out = SetToSeq(EdgesFrom(db, reader.graph, from))
      OBVIOUS
    <2>3. /\ DOMAIN reader' = ReaderFields /\ reader'.step = "ranges"
          /\ reader'.graph = reader.graph /\ reader'.out = out
      BY <2>1, <2>2 DEF QueryInv, ReaderInv, ReaderFields
    <2>4. UNCHANGED db /\ reader.graph # None
      BY <1>5 DEF QueryEdges
    <2>5. Stream(out) /\ OfImport(out, reader.graph)
      BY <2>2, <2>4, EdgesStream DEF QueryInv, ReaderInv
    <2> QED
      BY <2>3, <2>4, <2>5 DEF QueryInv, ReaderInv
  <1>6. ASSUME QueryRanges
        PROVE  QueryInv'
    <2>1. PICK out :
            out = YieldAll(reader.out, reader.version, SetToSeq(RangesOf(db, reader.graph)))
      OBVIOUS
    <2>2. /\ DOMAIN reader' = ReaderFields /\ reader'.step = "done"
          /\ reader'.graph = reader.graph /\ reader'.out = out
      BY <1>6, <2>1 DEF QueryRanges, QueryInv, ReaderInv, ReaderFields
    <2>3. UNCHANGED db /\ reader.graph # None
      BY <1>6 DEF QueryRanges, QueryInv, ReaderInv
    <2>4. Stream(out) /\ OfImport(out, reader.graph)
      BY <2>1, <2>3, RangesStream DEF QueryInv, ReaderInv
    <2> QED
      BY <2>2, <2>3, <2>4 DEF QueryInv, ReaderInv
  <1>7. ASSUME Leave
        PROVE  QueryInv'
    <2>1. /\ DOMAIN reader' = ReaderFields /\ reader'.graph = reader.graph
          /\ reader'.step = "idle" /\ reader'.out = <<>> /\ UNCHANGED db
      BY <1>7 DEF Leave, NoReader, ReaderFields
    <2>2. Stream(<<>>) /\ OfImport(<<>>, reader.graph)
      BY DEF Stream, OfImport
    <2> QED
      BY <2>1, <2>2 DEF QueryInv, ReaderInv
  <1>8. CASE UNCHANGED vars
    BY <1>8 DEF vars, QueryInv, ReaderInv
  <1> QED
    BY <1>1, <1>2, <1>3, <1>4, <1>5, <1>6, <1>7, <1>8 DEF Next

LEMMA QueryInvariant == Spec => []QueryInv
  BY InitQueryInv, NextQueryInv, PTL DEF Spec

LEMMA InitExactInv == Init => ExactInv
  BY DEF Init, ExactInv, NoReader

\* Between two queries nothing changes what a reader has read, but a commit counts.
LEMMA NextExactInv == QueryInv /\ ExactInv /\ [Next]_vars => ExactInv'
  <1> SUFFICES ASSUME QueryInv, ExactInv, [Next]_vars
               PROVE  ExactInv'
    OBVIOUS
  <1>1. commits \in Nat /\ reader.since \in Nat /\ reader.since <= commits
    BY DEF ExactInv
  <1>2. ASSUME reader'.step = "idle", reader'.since = commits, UNCHANGED commits
        PROVE  ExactInv'
    BY <1>1, <1>2 DEF ExactInv
  <1>3. ASSUME NEW d, Commit(d), UNCHANGED reader
        PROVE  ExactInv'
    BY <1>1, <1>3 DEF ExactInv, Commit
  <1>4. ASSUME NEW cat \in Catalogs, NEW ops \in Contents, Import(cat, ops)
        PROVE  ExactInv'
    BY <1>3, <1>4 DEF Import
  <1>5. ASSUME NEW cat \in Catalogs, Delete(cat)
        PROVE  ExactInv'
    BY <1>3, <1>5 DEF Delete
  <1>6. \A graph : Holding(graph).step = "idle" /\ Holding(graph).since = commits
    BY DEF Holding, NoReader
  <1>7. ASSUME NEW cat \in Catalogs, NEW name, GetPackage(cat, name)
        PROVE  ExactInv'
    BY <1>2, <1>6, <1>7 DEF GetPackage
  <1>8. ASSUME NEW name, GetGraph(name)
        PROVE  ExactInv'
    BY <1>2, <1>6, <1>8 DEF GetGraph
  <1>9. ASSUME NEW b, NEW version, QueryEdges(b, version)
        PROVE  ExactInv'
    <2>1. PICK from \in FromIds(db, b) :
            reader' = [reader EXCEPT !.step = "ranges", !.bundle = b, !.version = version,
                                     !.since = commits,
                                     !.out = SetToSeq(EdgesFrom(db, reader.graph, from))]
      BY <1>9 DEF QueryEdges
    <2>2. PICK out : out = SetToSeq(EdgesFrom(db, reader.graph, from))
      OBVIOUS
    <2>3. /\ reader'.step = "ranges" /\ reader'.bundle = b /\ reader'.since = commits
          /\ reader'.graph = reader.graph /\ reader'.out = out
      BY <2>1, <2>2 DEF QueryInv, ReaderInv, ReaderFields
    <2>4. UNCHANGED <<db, commits>> /\ reader.graph # None
      BY <1>9 DEF QueryEdges
    <2>5. Stream(out) /\ Elements(out) = EdgesFrom(db, reader.graph, from)
      BY <2>2, <2>4, EdgesStream, EdgesAllYielded DEF QueryInv, ReaderInv
    <2>6. Yielded' = EdgesFrom(db, reader.graph, from)
      BY <2>3, <2>5 DEF Yielded, Elements, Stream
    <2> QED
      BY <1>1, <2>3, <2>4, <2>6 DEF ExactInv
  <1>10. ASSUME QueryRanges
         PROVE  ExactInv'
    <2>1. PICK out :
            out = YieldAll(reader.out, reader.version, SetToSeq(RangesOf(db, reader.graph)))
      OBVIOUS
    <2>2. /\ reader'.step = "done" /\ reader'.bundle = reader.bundle
          /\ reader'.since = reader.since /\ reader'.version = reader.version
          /\ reader'.graph = reader.graph /\ reader'.out = out
      BY <1>10, <2>1 DEF QueryRanges, QueryInv, ReaderInv, ReaderFields
    <2>3. UNCHANGED <<db, commits>> /\ reader.graph # None /\ reader.step = "ranges"
      BY <1>10 DEF QueryRanges, QueryInv, ReaderInv
    <2>4. Names(db, reader.graph) /\ GoodContent(db) /\ OneImport(db) /\ Stream(reader.out)
      BY <2>3 DEF QueryInv, ReaderInv
    <2>5. ASSUME reader.since = commits
          PROVE  \E from \in FromIds(db, reader.bundle) :
                   Yielded' = EdgesFrom(db, reader.graph, from)
                                \cup RangedTo(db, reader.graph, reader.version)
      <3>1. PICK from \in FromIds(db, reader.bundle) : Yielded = EdgesFrom(db, reader.graph, from)
        BY <2>3, <2>5 DEF ExactInv
      <3>2. Elements(reader.out) = EdgesFrom(db, reader.graph, from)
        BY <2>4, <3>1 DEF Yielded, Elements, Stream
      <3>3. \A b \in Elements(reader.out) : InCatalogOf(db, reader.graph, b)
        BY <2>4, <3>2, FoundInCatalog DEF Names
      <3>4. /\ Stream(out)
            /\ Elements(out) = Elements(reader.out) \cup RangedTo(db, reader.graph, reader.version)
        BY <2>1, <2>4, <3>3, RangesStream, RangesAllYielded DEF QueryInv, ReaderInv
      <3>5. Yielded' = Elements(out)
        BY <2>2, <3>4 DEF Yielded, Elements, Stream
      <3> QED
        BY <3>2, <3>4, <3>5
    <2> QED
      BY <1>1, <2>2, <2>3, <2>5 DEF ExactInv
  <1>11. ASSUME Leave
         PROVE  ExactInv'
    <2>1. reader'.step = "idle" /\ reader'.since = commits
      BY <1>11 DEF Leave, NoReader
    <2> QED
      BY <1>2, <1>11, <2>1 DEF Leave
  <1>12. CASE UNCHANGED vars
    BY <1>12 DEF vars, ExactInv, Yielded
  <1> QED
    BY <1>4, <1>5, <1>7, <1>8, <1>9, <1>10, <1>11, <1>12 DEF Next

LEMMA ExactInvariant == Spec => [](QueryInv /\ ExactInv)
  <1>1. Init => QueryInv /\ ExactInv
    BY InitQueryInv, InitExactInv
  <1>2. QueryInv /\ ExactInv /\ [Next]_vars => (QueryInv /\ ExactInv)'
    BY NextQueryInv, NextExactInv
  <1> QED
    BY <1>1, <1>2, PTL DEF Spec

-----------------------------------------------------------------------------
(***************************************************************************)
(* The theorems.                                                           *)
(***************************************************************************)
\* No edge, member or range of the content tables refers across catalogs or to a row that
\* is gone, and every bundle property has its bundle: whatever importers write, and
\* whatever was replaced or deleted before.
THEOREM ReferencesStay == Spec => []ReferencesStayInCatalog
  <1>1. QueryInv => ReferencesStayInCatalog
    <2> SUFFICES ASSUME QueryInv
                 PROVE  ReferencesStayInCatalog
      OBVIOUS
    <2> DEFINE graph(id) == {g.catalog : g \in {h \in db.graphs : h.id = id}}
               bundle(id) == {b.catalog : b \in {c \in db.bundles : c.id = id}}
               same(g, b) == graph(g) = bundle(b) /\ Cardinality(graph(g)) = 1
    <2>1. ASSUME NEW i, NEW j, Together(db, i, j)
          PROVE  same(i, j)
      <3>1. PICK g \in db.graphs, b \in db.bundles :
              g.id = i /\ b.id = j /\ g.catalog = b.catalog
        BY <2>1 DEF Together
      <3>2. graph(i) = {g.catalog}
        BY <3>1 DEF QueryInv, GoodContent, GraphKeys
      <3>3. bundle(j) = {g.catalog}
        BY <3>1 DEF QueryInv, GoodContent, BundleKeys
      <3> HIDE DEF graph, bundle
      <3> QED
        BY <3>2, <3>3, FS_Singleton
    <2> HIDE DEF same
    <2>2. /\ \A m \in db.members : same(m.graph, m.bundle)
          /\ \A e \in db.edges : same(e.graph, e.from) /\ same(e.graph, e.to)
          /\ \A r \in db.ranges : same(r.graph, r.bundle)
      BY <2>1 DEF QueryInv, GoodContent, References
    <2>3. \A p \in db.bundleProps : BundleIn(db, p.catalog, p.bundle) # {}
      BY DEF QueryInv, GoodContent, References, BundleIn
    <2> QED
      BY <2>2, <2>3 DEF ReferencesStayInCatalog, same
  <1> QED
    BY <1>1, QueryInvariant, PTL

\* Nothing of an import outlives the one that replaced it.
THEOREM OneImportAtATime == Spec => []ContentOfOneImport
  <1>1. QueryInv => ContentOfOneImport
    BY DEF QueryInv, OneImport, ContentOfOneImport
  <1> QED
    BY <1>1, QueryInvariant, PTL

\* An UpdateGraph whose content was replaced or deleted names no other graph than its own,
\* because AUTOINCREMENT gives no id twice.
THEOREM StaleGraphs == Spec => []StaleGraphNamesNoOther
  <1>1. QueryInv => StaleGraphNamesNoOther
    BY DEF QueryInv, ReaderInv, Names, StaleGraphNamesNoOther
  <1> QED
    BY <1>1, QueryInvariant, PTL

\* Successors yields no bundle ID twice, although its two queries may see different commits.
THEOREM YieldsOnce == Spec => []NothingYieldedTwice
  <1>1. QueryInv => NothingYieldedTwice
    BY DEF QueryInv, ReaderInv, Stream, NothingYieldedTwice
  <1> QED
    BY <1>1, QueryInvariant, PTL

\* All that Successors yields is of the import that made the graph it is asked of.
THEOREM SuccessorsOfTheImport == Spec => []SuccessorsOfOneImport
  <1>1. QueryInv => SuccessorsOfOneImport
    BY DEF QueryInv, ReaderInv, Stream, OfImport, SuccessorsOfOneImport
  <1> QED
    BY <1>1, QueryInvariant, PTL

\* A stream of successors that no commit disturbs yields only successors, and all of them
\* if no other catalog has the bundle: the recursive SELECT of Successors finds every
\* graph below a package and no other, at any depth.
THEOREM SuccessorsExact == Spec => []SuccessorsExactWhenUnshared
  <1>1. QueryInv /\ ExactInv => SuccessorsExactWhenUnshared
    <2> SUFFICES ASSUME QueryInv, ExactInv, Undisturbed
                 PROVE  LET own == OwnSuccessors(db, reader.graph, reader.bundle, reader.version)
                        IN  /\ Yielded \subseteq own
                            /\ (\A r \in db.bundles : r.bundle = reader.bundle =>
                                  r.catalog = reader.graph.catalog) => Yielded = own
      BY DEF SuccessorsExactWhenUnshared
    <2>1. reader.step = "done" /\ reader.since = commits
      BY DEF Undisturbed
    <2>2. GoodContent(db) /\ Names(db, reader.graph)
      BY <2>1 DEF QueryInv, ReaderInv
    <2>3. PICK from \in FromIds(db, reader.bundle) :
            Yielded = EdgesFrom(db, reader.graph, from)
                        \cup RangedTo(db, reader.graph, reader.version)
      BY <2>1 DEF ExactInv
    <2>4. Yielded \subseteq OwnSuccessors(db, reader.graph, reader.bundle, reader.version)
      BY <2>2, <2>3, FoundIsOwn
    <2>5. ASSUME \A r \in db.bundles : r.bundle = reader.bundle => r.catalog = reader.graph.catalog
          PROVE  OwnSuccessors(db, reader.graph, reader.bundle, reader.version) \subseteq Yielded
      BY <2>2, <2>3, <2>5, OwnIsFound
    <2> QED
      BY <2>4, <2>5
  <1> QED
    BY <1>1, ExactInvariant, PTL
==============================================================================
