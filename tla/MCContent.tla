----------------------------- MODULE MCContent -----------------------------
(* What importers write, for TLC: two channels that share a bundle, a nested *)
(* graph, a bundle that is only referred to, and an import that fails.       *)
EXTENDS ContentQuery

CONSTANTS p, c1, c2, slash, b1, b2, b3, v1, v2, catA, catB

Bundle(b, v)    == [op |-> "bundle", bundle |-> b, version |-> v]
Graph(path)     == [op |-> "graph", path |-> path]
Member(path, b) == [op |-> "member", path |-> path, bundle |-> b]
Edge(path, b, c) == [op |-> "edge", path |-> path, from |-> b, to |-> c]
RangeOf(path, b, vs) == [op |-> "range", path |-> path, bundle |-> b, versions |-> vs]

\* A package with two channels: b1 -> b2 by an edge of one channel and by a
\* range of both, and b3 that only an edge names.
TwoChannels ==
  << Graph(<<p>>), Graph(<<p, c1>>), Graph(<<p, c2>>),
     Bundle(b1, v1), Bundle(b2, v2), Bundle(b1, v2), Bundle(b3, NoVersion),
     Member(<<p, c1>>, b1), Member(<<p, c1>>, b2), Member(<<p, c2>>, b2),
     Edge(<<p, c1>>, b1, b2), Edge(<<p, c2>>, b3, b2),
     RangeOf(<<p, c1>>, b2, {v1}), RangeOf(<<p, c2>>, b2, {v1, v2}),
     [op |-> "bundle prop", bundle |-> b2], [op |-> "graph prop", path |-> <<p>>],
     [op |-> "deprecate graph", path |-> <<p, c1>>, message |-> "old"],
     [op |-> "deprecate bundle", bundle |-> b1, message |-> "old"] >>

\* A graph below a graph below a package, of another importer than fbc's.
Nested ==
  << Graph(<<p>>), Graph(<<p, c1>>), Graph(<<p, c1, c2>>),
     Bundle(b1, v1), Bundle(b2, v1), Bundle(b3, v2),
     Member(<<p, c1, c2>>, b1), Member(<<p, c1>>, b3),
     Edge(<<p, c1, c2>>, b1, b3), RangeOf(<<p, c1>>, b2, {v2}) >>

\* A package without channels, whose row is a leaf.
Flat ==
  << Graph(<<p>>), Bundle(b2, v2), Member(<<p>>, b2), Edge(<<p>>, b1, b2),
     Bundle(b3, v1), Edge(<<p>>, b2, b3) >>

\* Fails on its third write, after the old content was deleted.
Failing == << Graph(<<p>>), Bundle(b1, v1), Graph(<<c1, c2>>) >>

\* A segment with a slash in it fails as well.
Slashed == << Graph(<<p>>), Graph(<<p, slash>>) >>

MCContents == {TwoChannels, Nested, Flat, Failing, Slashed}
=============================================================================
