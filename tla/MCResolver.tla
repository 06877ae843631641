----------------------------- MODULE MCResolver -----------------------------
(* What importers write and what callers ask for, for TLC: the package and     *)
(* another one; everything, a path that resolves and one that does not, none   *)
(* that resolves, and the successors of a bundle by two paths.                 *)
EXTENDS Resolver, TLC

CONSTANTS p, q, stable, fast, b1, b2, b3, b4, catA, catB, catC

Bundle(b, v)     == [op |-> "bundle", bundle |-> b, version |-> v]
Graph(path)      == [op |-> "graph", path |-> path]
Member(path, b)  == [op |-> "member", path |-> path, bundle |-> b]
Edge(path, b, c) == [op |-> "edge", path |-> path, from |-> b, to |-> c]

V1 == [name |-> 1, version |-> 1, release |-> <<>>]
V2 == [name |-> 1, version |-> 2, release |-> <<>>]
V2Release == [name |-> 1, version |-> 2, release |-> <<[numeric |-> TRUE, place |-> 1]>>]
MCVersions == {V1, V2, V2Release}

\* A channel, and one with a graph below it.  b2, deprecated, is in two of the
\* graphs and follows b1 by an edge, as does a bundle that is only referred to; b3
\* follows version 1 by a range.
Package ==
  << Graph(<<p>>), Graph(<<p, stable>>), Graph(<<p, fast>>), Graph(<<p, fast, stable>>),
     Bundle(b1, V1), Bundle(b2, V2), Bundle(b3, V2Release), Bundle(b4, NoVersion),
     Member(<<p, stable>>, b1), Member(<<p, stable>>, b2),
     Member(<<p, fast>>, b1), Member(<<p, fast, stable>>, b2), Member(<<p, fast, stable>>, b3),
     Edge(<<p, stable>>, b1, b2), Edge(<<p, fast, stable>>, b1, b4),
     [op |-> "range", path |-> <<p, fast, stable>>, bundle |-> b3, versions |-> {1}],
     [op |-> "deprecate bundle", bundle |-> b2, message |-> "old"] >>

OtherPackage == << Graph(<<q>>) >>

MCContents == {Package, OtherPackage}

Ask(paths, from, allowed, prefer) ==
  [package |-> p, paths |-> paths, from |-> from, allowed |-> allowed,
   preferNonDeprecated |-> prefer]

All == {0, 1, 2}
B1  == [bundle |-> b1, version |-> 1]

MCRequests ==
  { Ask(<<>>, None, All, TRUE),
    Ask(<< <<stable, fast>>, <<fast, stable>> >>, None, {1, 2}, FALSE),
    Ask(<< <<stable, fast>> >>, None, All, FALSE),
    Ask(<< <<fast>>, <<stable>> >>, B1, {0, 2}, FALSE) }

Symmetry == Permutations(Catalogs)
=============================================================================
