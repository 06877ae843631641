------------------------------ MODULE MCImport ------------------------------
(* Files for TLC: two, read at once by two walkers. *)
EXTENDS FbcImport

CONSTANTS p, q, c, slash, b1, b2, b3, v1, v2, cat

Package(pkg)      == [kind |-> "package", pkg |-> pkg, name |-> pkg]
BundleBlob(pkg, b, v) == [kind |-> "bundle", pkg |-> pkg, name |-> b, version |-> v]
Channel(pkg, name, entries) ==
  [kind |-> "channel", pkg |-> pkg, name |-> name, entries |-> entries]
Deprecation(pkg, schema, name, message) ==
  [kind |-> "deprecation", pkg |-> pkg, schema |-> schema, name |-> name, message |-> message]
Malformed(pkg)    == [kind |-> "malformed", pkg |-> pkg, name |-> None]
Other(pkg)        == [kind |-> "other", pkg |-> pkg, name |-> None]
Entry(b, replaces, range) ==
  [bundle |-> b, replaces |-> replaces, skips |-> {}, range |-> range]

\* p is valid and split over the files; q has a malformed bundle.
OneMalformed ==
  << << Package(p), BundleBlob(p, b1, v1),
        Channel(p, c, <<Entry(b1, None, None), Entry(b2, b1, {v1})>>), Malformed(q) >>,
     << BundleBlob(p, b2, v2), Package(q), BundleBlob(q, b3, v1),
        Deprecation(p, "bundle", b1, "old") >> >>

\* A package twice, and more rows after it than the channel has room for.
Clash ==
  << << Package(p), Package(p), BundleBlob(p, b1, v1), BundleBlob(p, b2, v1), Other(p) >>,
     << Package(q) >> >>

\* A blob without package that does not parse.
Unreadable ==
  << << Package(p), Malformed(NoPackage), BundleBlob(p, b1, v1) >>,
     << BundleBlob(q, b3, v1), Package(q), Other(q) >> >>

\* A channel of q has a slash in its name: q fails after its first writes.
Slash ==
  << << Package(q), BundleBlob(q, b3, v1), Channel(q, slash, <<Entry(b3, None, None)>>) >>,
     << BundleBlob(p, b1, v1),
        Channel(p, c, <<[Entry(b1, None, None) EXCEPT !.skips = {b2}]>>), Package(p),
        Deprecation(p, "channel", c, "old") >> >>

\* p replaces a bundle of q, and the channel of q names a bundle it does not have.
Shared ==
  << << Package(p), BundleBlob(p, b1, v1), Channel(p, c, <<Entry(b1, b3, None)>>) >>,
     << Package(q), BundleBlob(q, b3, v1), Channel(q, c, <<Entry(b2, None, None)>>) >> >>

\* An entry twice in a channel, a skip range that does not parse.
TwoEntries ==
  << << Package(p), BundleBlob(p, b1, v1) >>,
     << Channel(p, c, <<Entry(b1, None, {v1}), Entry(b1, None, None)>>) >> >>

BadRange ==
  << << Package(p), BundleBlob(p, b1, v1), Channel(p, c, <<Entry(b1, None, Failed)>>) >>,
     << Package(q), BundleBlob(q, b3, Failed), Deprecation(q, "package", None, "old") >> >>

\* A package, and the channel of a deprecation, with a slash in their names.
BadNames ==
  << << Package(slash), BundleBlob(slash, b3, v1), Package(q) >>,
     << Package(p), BundleBlob(p, b1, v1), Channel(p, c, <<Entry(b1, None, {v1})>>),
        Deprecation(p, "channel", slash, "old"), Deprecation(q, "other", None, "old") >> >>

MCInputs == {OneMalformed, Clash, Unreadable, Slash, Shared, TwoEntries, BadRange, BadNames}
=============================================================================
