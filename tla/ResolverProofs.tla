--------------------------- MODULE ResolverProofs ---------------------------
(***************************************************************************)
(* The order in which Resolve returns the bundles; what a call that has    *)
(* returned says of the catalogs, whatever was committed meanwhile; and    *)
(* that it leaves nothing out when nothing was.                            *)
(***************************************************************************)
EXTENDS Resolver, ContentProofs

-----------------------------------------------------------------------------
(***************************************************************************)
(* Identifiers, and the end of a release as an identifier below them all.  *)
(***************************************************************************)
CompareAt(r, o, i) ==
  IF i > Len(r) THEN IF i > Len(o) THEN 0 ELSE -1
  ELSE IF i > Len(o) THEN 1 ELSE CompareIdentifiers(r[i], o[i])

LEMMA IdentifierOrder ==
  ASSUME NEW a \in Identifier, NEW b \in Identifier, NEW c \in Identifier
  PROVE  /\ CompareIdentifiers(a, b) \in {-1, 0, 1}
         /\ CompareIdentifiers(a, b) = -CompareIdentifiers(b, a)
         /\ CompareIdentifiers(a, b) = 0 <=> a = b
         /\ CompareIdentifiers(a, b) <= 0 /\ CompareIdentifiers(b, c) <= 0
              => CompareIdentifiers(a, c) <= 0
BY DEF Identifier, CompareIdentifiers, ComparePlaces

LEMMA PositionOrder ==
  ASSUME NEW r \in Release, NEW s \in Release, NEW t \in Release, NEW i \in Nat \ {0}
  PROVE  /\ CompareAt(r, s, i) \in {-1, 0, 1}
         /\ CompareAt(r, s, i) = -CompareAt(s, r, i)
         /\ CompareAt(r, s, i) <= 0 /\ CompareAt(s, t, i) <= 0 => CompareAt(r, t, i) <= 0
         /\ CompareAt(r, s, i) = 0 => CompareAt(r, t, i) = CompareAt(s, t, i)
         /\ CompareAt(s, t, i) = 0 => CompareAt(r, t, i) = CompareAt(r, s, i)
<1>1. \A x \in {r, s, t} : i <= Len(x) => x[i] \in Identifier
  BY DEF Release
<1>2. \A x \in {r, s, t} : Len(x) \in Nat
  BY DEF Release
<1> QED BY <1>1, <1>2, IdentifierOrder DEF CompareAt

-----------------------------------------------------------------------------
(***************************************************************************)
(* Two releases are the same, or their comparison is that at a first       *)
(* position where they differ.                                             *)
(***************************************************************************)
LEMMA FirstIsLeast ==
  ASSUME NEW positions \in SUBSET Nat, positions # {}
  PROVE  /\ First(positions) \in positions
         /\ \A j \in positions : First(positions) <= j
<1>1. PICK i \in positions : \A j \in positions : ~(<<j, i>> \in OpToRel(<, Nat))
  BY NatLessThanWellFounded, WFMin
<1>2. \A j \in positions : i <= j
  <2> SUFFICES ASSUME NEW j \in positions, j < i PROVE FALSE
    OBVIOUS
  <2> DEFINE pair == <<j, i>>
  <2>1. pair \in Nat \X Nat /\ pair[1] = j /\ pair[2] = i
    OBVIOUS
  <2>2. pair[1] < pair[2]
    BY <2>1
  <2>3. pair \in OpToRel(<, Nat)
    BY <2>1, <2>2 DEF OpToRel
  <2> QED BY <1>1, <2>3
<1> QED BY <1>2 DEF First

DecidedAt(r, o, k) ==
  /\ k \in Nat \ {0}
  /\ \A i \in 1 .. k - 1 : CompareAt(r, o, i) = 0
  /\ CompareAt(r, o, k) # 0
  /\ CompareReleases(r, o) = CompareAt(r, o, k)

LEMMA Decided ==
  ASSUME NEW r \in Release, NEW o \in Release, r # o
  PROVE  \E k \in Nat \ {0} : DecidedAt(r, o, k)
<1>1. /\ Len(r) \in Nat /\ r = [i \in 1 .. Len(r) |-> r[i]]
      /\ Len(o) \in Nat /\ o = [i \in 1 .. Len(o) |-> o[i]]
      /\ \A i \in 1 .. Len(r) : r[i] \in Identifier
      /\ \A i \in 1 .. Len(o) : o[i] \in Identifier
  BY DEF Release
<1>2. CASE Differences(r, o) # {}
  <2> DEFINE k == First(Differences(r, o))
  <2>0. Differences(r, o) \in SUBSET Nat
    BY <1>1 DEF Differences
  <2>1. k \in Differences(r, o) /\ \A j \in Differences(r, o) : k <= j
    BY <1>2, <2>0, FirstIsLeast
  <2>2. k \in 1 .. Len(r) /\ k <= Len(o) /\ CompareIdentifiers(r[k], o[k]) # 0
    BY <2>1 DEF Differences
  <2>3. CompareReleases(r, o) = CompareAt(r, o, k)
    <3>1. CompareReleases(r, o) = CompareIdentifiers(r[k], o[k])
      BY <1>2 DEF CompareReleases
    <3>2. k \in Nat /\ ~(k > Len(r)) /\ ~(k > Len(o))
      BY <1>1, <2>2
    <3> QED BY <3>1, <3>2 DEF CompareAt
  <2>4. \A i \in 1 .. k - 1 : CompareAt(r, o, i) = 0
    <3> SUFFICES ASSUME NEW i \in 1 .. k - 1
                 PROVE  CompareAt(r, o, i) = 0
      OBVIOUS
    <3>1. i \in 1 .. Len(r) /\ i <= Len(o) /\ ~(k <= i)
      BY <1>1, <2>2
    <3>2. CompareIdentifiers(r[i], o[i]) = 0
      BY <2>1, <3>1 DEF Differences
    <3>3. ~(i > Len(r)) /\ ~(i > Len(o))
      BY <1>1, <3>1
    <3> QED BY <3>2, <3>3 DEF CompareAt
  <2>5. DecidedAt(r, o, k)
    BY <1>1, <2>2, <2>3, <2>4 DEF DecidedAt, CompareAt
  <2> QED BY <2>2, <2>5, <1>1
<1>3. CASE Differences(r, o) = {}
  <2>1. \A i \in 1 .. Len(r) : i <= Len(o) => r[i] = o[i] /\ CompareAt(r, o, i) = 0
    <3> SUFFICES ASSUME NEW i \in 1 .. Len(r), i <= Len(o)
                 PROVE  r[i] = o[i] /\ CompareAt(r, o, i) = 0
      OBVIOUS
    <3>1. CompareIdentifiers(r[i], o[i]) = 0
      BY <1>3 DEF Differences
    <3>2. r[i] \in Identifier /\ o[i] \in Identifier /\ ~(i > Len(r)) /\ ~(i > Len(o))
      BY <1>1
    <3> QED BY <3>1, <3>2, IdentifierOrder DEF CompareAt
  <2>2. Len(r) # Len(o)
    <3> SUFFICES ASSUME Len(r) = Len(o) PROVE FALSE
      OBVIOUS
    <3>1. [i \in 1 .. Len(r) |-> r[i]] = [i \in 1 .. Len(r) |-> o[i]]
      BY <1>1, <2>1
    <3> QED BY <1>1, <3>1
  <2>3. CASE Len(r) < Len(o)
    <3>1. DecidedAt(r, o, Len(r) + 1)
      BY <1>1, <1>3, <2>1, <2>3 DEF DecidedAt, CompareReleases, ComparePlaces, CompareAt
    <3> QED BY <3>1, <1>1
  <2>4. CASE Len(o) < Len(r)
    <3>0. \A i \in 1 .. Len(o) : CompareAt(r, o, i) = 0
      BY <1>1, <2>1, <2>4
    <3>1. DecidedAt(r, o, Len(o) + 1)
      <4>1. CompareReleases(r, o) = 1
        BY <1>1, <1>3, <2>4 DEF CompareReleases, ComparePlaces
      <4>2. CompareAt(r, o, Len(o) + 1) = 1
        BY <1>1, <2>4 DEF CompareAt
      <4> QED BY <1>1, <3>0, <4>1, <4>2 DEF DecidedAt
    <3> QED BY <3>1, <1>1
  <2>5. Len(r) \in Nat /\ Len(o) \in Nat
    BY <1>1
  <2> QED BY <2>2, <2>3, <2>4, <2>5
<1> QED BY <1>2, <1>3

LEMMA Reflexive ==
  ASSUME NEW r \in Release
  PROVE  CompareReleases(r, r) = 0
<1>1. Len(r) \in Nat /\ \A i \in 1 .. Len(r) : r[i] \in Identifier
  BY DEF Release
<1>2. Differences(r, r) = {}
  BY <1>1, IdentifierOrder DEF Differences
<1> QED BY <1>1, <1>2 DEF CompareReleases, ComparePlaces

-----------------------------------------------------------------------------
(***************************************************************************)
(* The theorems.                                                           *)
(***************************************************************************)

\* Release.Compare of two releases, the other way round, is the opposite, and it
\* calls no two releases equal that are not.
THEOREM ReleasesAntisymmetric ==
  ASSUME NEW r \in Release, NEW o \in Release
  PROVE  /\ CompareReleases(r, o) \in {-1, 0, 1}
         /\ CompareReleases(o, r) = -CompareReleases(r, o)
         /\ CompareReleases(r, o) = 0 <=> r = o
<1>1. CASE r = o
  BY <1>1, Reflexive
<1>2. CASE r # o
  <2>1. PICK k \in Nat \ {0} : DecidedAt(r, o, k)
    BY <1>2, Decided
  <2>2. PICK l \in Nat \ {0} : DecidedAt(o, r, l)
    BY <1>2, Decided
  <2>3. k = l
    <3>1. ~(k < l)
      <4> SUFFICES ASSUME k < l PROVE FALSE
        OBVIOUS
      <4>1. k \in 1 .. l - 1
        OBVIOUS
      <4> QED BY <4>1, <2>1, <2>2, PositionOrder DEF DecidedAt
    <3>2. ~(l < k)
      <4> SUFFICES ASSUME l < k PROVE FALSE
        OBVIOUS
      <4>1. l \in 1 .. k - 1
        OBVIOUS
      <4> QED BY <4>1, <2>1, <2>2, PositionOrder DEF DecidedAt
    <3> QED BY <3>1, <3>2
  <2> QED BY <1>2, <2>1, <2>2, <2>3, PositionOrder DEF DecidedAt
<1> QED BY <1>1, <1>2

\* Release.Compare is transitive, through releases of any lengths.
THEOREM ReleasesTransitive ==
  ASSUME NEW r \in Release, NEW s \in Release, NEW t \in Release,
         CompareReleases(r, s) <= 0, CompareReleases(s, t) <= 0
  PROVE  CompareReleases(r, t) <= 0
<1>1. CASE r = s \/ s = t \/ r = t
  BY <1>1, Reflexive
<1>2. CASE r # s /\ s # t /\ r # t
  <2>1. PICK k \in Nat \ {0} : DecidedAt(r, s, k)
    BY <1>2, Decided
  <2>2. PICK l \in Nat \ {0} : DecidedAt(s, t, l)
    BY <1>2, Decided
  <2>3. PICK m \in Nat \ {0} : DecidedAt(r, t, m)
    BY <1>2, Decided
  <2>4. CompareAt(r, s, k) <= 0 /\ CompareAt(s, t, l) <= 0
    BY <2>1, <2>2 DEF DecidedAt
  <2>5. /\ \A i \in Nat \ {0} : i < k => CompareAt(r, s, i) = 0
        /\ \A i \in Nat \ {0} : i < l => CompareAt(s, t, i) = 0
        /\ \A i \in Nat \ {0} : i < m => CompareAt(r, t, i) = 0
    BY <2>1, <2>2, <2>3 DEF DecidedAt
  <2>6. CASE m < k /\ m < l
    BY <2>3, <2>5, <2>6, PositionOrder DEF DecidedAt
  <2>7. CASE ~(m < k) /\ k < l
    <3>1. CompareAt(r, t, k) = CompareAt(r, s, k)
      BY <2>5, <2>7, PositionOrder
    <3>2. m = k
      BY <2>1, <2>5, <2>7, <3>1 DEF DecidedAt
    <3> QED BY <2>3, <2>4, <3>1, <3>2 DEF DecidedAt
  <2>8. CASE ~(m < l) /\ l < k
    <3>1. CompareAt(r, t, l) = CompareAt(s, t, l)
      BY <2>5, <2>8, PositionOrder
    <3>2. m = l
      BY <2>2, <2>5, <2>8, <3>1 DEF DecidedAt
    <3> QED BY <2>3, <2>4, <3>1, <3>2 DEF DecidedAt
  <2>9. CASE ~(m < k) /\ k = l
    <3>1. CompareAt(r, t, k) <= 0
      BY <2>4, <2>9, PositionOrder
    <3>2. CompareAt(r, t, k) # 0
      <4> SUFFICES ASSUME CompareAt(r, t, k) = 0 PROVE FALSE
        OBVIOUS
      <4>1. CompareAt(t, s, k) <= 0 /\ CompareAt(s, r, k) >= 0 /\ CompareAt(t, r, k) = 0
        BY <2>4, <2>9, PositionOrder
      <4> QED BY <2>1, <2>4, <2>9, <4>1, PositionOrder DEF DecidedAt
    <3>3. m = k
      BY <2>5, <2>9, <3>2
    <3> QED BY <2>3, <3>1, <3>3 DEF DecidedAt
  <2> QED BY <2>6, <2>7, <2>8, <2>9
<1> QED BY <1>1, <1>2

\* VersionRelease.Compare is antisymmetric and transitive as well, of whatever has a
\* version and a release.
LEMMA VersionReleasesOrdered ==
  ASSUME NEW u, NEW v, NEW w,
         \A x \in {u, v, w} : x.version \in Nat /\ x.release \in Release
  PROVE  /\ CompareVersionReleases(u, v) \in {-1, 0, 1}
         /\ CompareVersionReleases(v, u) = -CompareVersionReleases(u, v)
         /\ CompareVersionReleases(u, v) = 0 <=> u.version = v.version /\ u.release = v.release
         /\ CompareVersionReleases(u, v) <= 0 /\ CompareVersionReleases(v, w) <= 0
              => CompareVersionReleases(u, w) <= 0
<1>1. \A r, s \in {u.release, v.release, w.release} :
        /\ CompareReleases(r, s) \in {-1, 0, 1}
        /\ CompareReleases(s, r) = -CompareReleases(r, s)
        /\ CompareReleases(r, s) = 0 <=> r = s
  BY ReleasesAntisymmetric
<1>2. CompareReleases(u.release, v.release) <= 0 /\ CompareReleases(v.release, w.release) <= 0
        => CompareReleases(u.release, w.release) <= 0
  BY ReleasesTransitive
<1> QED BY <1>1, <1>2 DEF CompareVersionReleases, ComparePlaces

\* So is NameVersionRelease.Compare, which Resolve sorts by: whatever packages, versions
\* and releases the bundles have, and where some have neither name nor version.
THEOREM NameVersionReleasesOrdered ==
  ASSUME NEW u \in NameVersionRelease, NEW v \in NameVersionRelease,
         NEW w \in NameVersionRelease
  PROVE  /\ CompareNameVersionReleases(u, v) \in {-1, 0, 1}
         /\ CompareNameVersionReleases(v, u) = -CompareNameVersionReleases(u, v)
         /\ CompareNameVersionReleases(u, v) = 0 <=> u = v
         /\ CompareNameVersionReleases(u, v) <= 0 /\ CompareNameVersionReleases(v, w) <= 0
              => CompareNameVersionReleases(u, w) <= 0
<1>1. \A x \in {u, v, w} : x.name \in Nat /\ x.version \in Nat /\ x.release \in Release
  BY DEF NameVersionRelease
<1>2. u = v <=> u.name = v.name /\ u.version = v.version /\ u.release = v.release
  BY DEF NameVersionRelease
<1>3. /\ CompareVersionReleases(u, v) \in {-1, 0, 1}
      /\ CompareVersionReleases(v, u) = -CompareVersionReleases(u, v)
      /\ CompareVersionReleases(u, v) = 0 <=> u.version = v.version /\ u.release = v.release
      /\ CompareVersionReleases(u, v) <= 0 /\ CompareVersionReleases(v, w) <= 0
           => CompareVersionReleases(u, w) <= 0
  BY <1>1, VersionReleasesOrdered
<1> QED BY <1>1, <1>2, <1>3 DEF CompareNameVersionReleases, ComparePlaces

\* sortBundles gives slices.SortFunc a strict weak order, with the preference for
\* bundles that are not deprecated and without: of two bundles one may go before the
\* other, both may only if neither their deprecation nor package and version tell them
\* apart, and what may go before goes on through a third.
THEOREM SortIsAnOrder ==
  ASSUME NEW r, r.preferNonDeprecated \in BOOLEAN,
         NEW a, NEW b, NEW c,
         VersionOf(a) \in NameVersionRelease,
         VersionOf(b) \in NameVersionRelease,
         VersionOf(c) \in NameVersionRelease
  PROVE  /\ Before(r, a, b) \/ Before(r, b, a)
         /\ Before(r, a, b) /\ Before(r, b, a) =>
              /\ VersionOf(a) = VersionOf(b)
              /\ r.preferNonDeprecated => (a.deprecation = None <=> b.deprecation = None)
         /\ Before(r, a, b) /\ Before(r, b, c) => Before(r, a, c)
<1> DEFINE Higher(x, y) == CompareNameVersionReleases(VersionOf(y), VersionOf(x)) <= 0
           Fresh(x) == x.deprecation = None
<1>1. /\ Higher(a, b) \/ Higher(b, a)
      /\ Higher(a, b) /\ Higher(b, a) => VersionOf(a) = VersionOf(b)
      /\ Higher(a, b) /\ Higher(b, c) => Higher(a, c)
  <2>1. /\ CompareNameVersionReleases(VersionOf(b), VersionOf(a)) \in {-1, 0, 1}
        /\ CompareNameVersionReleases(VersionOf(a), VersionOf(b))
             = -CompareNameVersionReleases(VersionOf(b), VersionOf(a))
        /\ CompareNameVersionReleases(VersionOf(b), VersionOf(a)) = 0 => VersionOf(a) = VersionOf(b)
    BY NameVersionReleasesOrdered
  <2>2. Higher(a, b) /\ Higher(b, c) => Higher(a, c)
    BY NameVersionReleasesOrdered
  <2> QED BY <2>1, <2>2
<1>2. \A x, y : Before(r, x, y) <=>
        IF r.preferNonDeprecated /\ ~(Fresh(x) <=> Fresh(y)) THEN Fresh(x) ELSE Higher(x, y)
  BY DEF Before
<1> HIDE DEF Higher, Fresh
<1>3. r.preferNonDeprecated => (Before(r, a, b) /\ Before(r, b, a) => (Fresh(a) <=> Fresh(b)))
  BY <1>2
<1>4. (Before(r, a, b) \/ Before(r, b, a))
  BY <1>1, <1>2
<1>5. Before(r, a, b) /\ Before(r, b, a) => VersionOf(a) = VersionOf(b)
  BY <1>1, <1>2
<1>6. Before(r, a, b) /\ Before(r, b, c) => Before(r, a, c)
  BY <1>1, <1>2
<1> QED BY <1>3, <1>4, <1>5, <1>6 DEF Fresh

-----------------------------------------------------------------------------
(***************************************************************************)
(* The inductive invariant of Resolve: what a call knows, whatever the     *)
(* writers have committed since.                                           *)
(***************************************************************************)
CallFields ==
  {"step", "request", "status", "listed", "left", "matches", "paths", "walk", "graphs",
   "bundles", "result", "since", "faulty", "lacked", "had"}

\* A call that has listed the catalogs and not failed.
Live(c) == c.step # "idle" /\ ~(c.step = "done" /\ c.status = "error")

\* The catalogs still to be asked are none above one that was asked.
Groups(c) ==
  /\ c.left \subseteq c.listed
  /\ \A x \in c.listed : x.name \in Catalogs /\ x.priority \in Int
  /\ \A x \in c.listed \ c.left, y \in c.left : x.priority >= y.priority

\* The packages found are of catalogs of one group, one of each.
Matches(d, c) ==
  /\ IsFiniteSet(c.matches)
  /\ \A m \in c.matches : /\ m.catalog \in c.listed \ c.left
                          /\ m.catalog.name \in c.had
                          /\ m.graph.catalog = m.catalog.name
                          /\ Names(d, m.graph)
  /\ \A m, n \in c.matches : /\ m.catalog.priority = n.catalog.priority
                             /\ m.catalog = n.catalog => m = n

\* lacked and had account for what is committed now.
Witnessed(d, c) ==
  /\ Having(d, c.request.package) \subseteq c.had
  /\ Catalogs \ Having(d, c.request.package) \subseteq c.lacked

\* A catalog that was asked, and whose package was not found, had none.
Accounted(c) ==
  \A y \in c.listed \ c.left : (\E m \in c.matches : m.catalog = y) \/ y.name \in c.lacked

\* One package was selected, and its group was asked to the end.
One(c) == \E m \in c.matches : c.matches = {m} /\ \A y \in c.left : y.priority # m.catalog.priority

Searching == {"graphs", "bundles", "ranges"}

Progress(c) ==
  /\ c.step \in Searching \cup {"packages", "done"}
  /\ c.step = "packages" => \A m \in c.matches : \E y \in c.left : y.priority = m.catalog.priority
  /\ c.step \in Searching => One(c)
  /\ c.step = "done" =>
       \/ c.status = "found" /\ One(c)
       \/ c.status = "none" /\ c.matches = {} /\ c.left = {}
       \/ c.status = "ambiguous" /\ Cardinality(c.matches) > 1

\* A graph or a bundle of the import that made the selected package.
Of(c, x) == x.catalog = Selected(c).catalog.name /\ x.import = Selected(c).graph.import

\* The graphs whose bundles are still to be read.
Held(d, c, graphs) ==
  /\ Len(graphs) \in Nat
  /\ graphs \in [1 .. Len(graphs) -> {graphs[i] : i \in 1 .. Len(graphs)}]
  /\ \A i \in 1 .. Len(graphs) : Names(d, graphs[i]) /\ Of(c, graphs[i])

Collection(c, bundles) ==
  /\ \A b \in bundles : Of(c, b)
  /\ \A a, b \in bundles : a.bundle = b.bundle => a = b

Result(c, result) ==
  \A i, j \in DOMAIN result : /\ Of(c, result[i])
                              /\ result[i].bundle = result[j].bundle => i = j

Search(d, c) ==
  /\ c.step = "packages" => c.graphs = <<>>
  /\ c.step \in {"packages", "graphs"} => c.bundles = {}
  /\ c.step \in Searching \cup {"packages"} => c.result = <<>>
  /\ c.step \in Searching => Held(d, c, c.graphs) /\ Collection(c, c.bundles)
  /\ c.step \in {"bundles", "ranges"} => c.graphs # <<>>
  /\ c.step = "graphs" => Names(d, c.walk.at) /\ Of(c, c.walk.at)
  /\ c.step = "done" /\ c.status = "found" => Result(c, c.result)

CallInv(d, c) == Groups(c) /\ Matches(d, c) /\ Progress(c) /\ Search(d, c)

ResolveInv ==
  /\ GoodContent(db) /\ OneImport(db)
  /\ priority \in [Catalogs -> Priorities \cup {None}]
  /\ DOMAIN call = CallFields
  /\ Live(call) => /\ CallInv(db, call)
                   /\ Witnessed(db, call)
                   /\ ~call.faulty => Accounted(call)

-----------------------------------------------------------------------------
(***************************************************************************)
(* Writers.                                                                *)
(***************************************************************************)

\* Nothing of a call that is still true of what is committed now is lost by a commit.
LEMMA CommitKeepsCall ==
  ASSUME NEW d, NEW e, \A g : Names(d, g) => Names(e, g), NEW c, CallInv(d, c), NEW f,
         f.step = c.step, f.status = c.status, f.listed = c.listed, f.left = c.left,
         f.matches = c.matches, f.walk = c.walk, f.graphs = c.graphs, f.bundles = c.bundles,
         f.result = c.result, c.had \subseteq f.had
  PROVE  CallInv(e, f)
  <1>1. Groups(f) /\ Progress(f)
    BY DEF CallInv, Groups, Progress, One
  <1>2. Matches(e, f)
    BY DEF CallInv, Matches
  <1>3. Search(e, f)
    <2>1. \A x : Of(c, x) <=> Of(f, x)
      BY DEF Of, Selected
    <2>2. Held(d, c, c.graphs) => Held(e, f, f.graphs)
      BY <2>1 DEF Held
    <2>3. Collection(c, c.bundles) => Collection(f, f.bundles)
      BY <2>1 DEF Collection
    <2>4. Result(c, c.result) => Result(f, f.result)
      BY <2>1 DEF Result
    <2> QED
      BY <2>1, <2>2, <2>3, <2>4 DEF CallInv, Search
  <1> QED
    BY <1>1, <1>2, <1>3 DEF CallInv

LEMMA CommitKeeps ==
  ASSUME ResolveInv, MayCommit, NEW d, Commit(d), GoodContent(d), OneImport(d),
         \A g : Names(db, g) => Names(d, g),
         priority' \in [Catalogs -> Priorities \cup {None}]
  PROVE  ResolveInv'
  <1>1. db' = d /\ call' = Witness(d)
    BY DEF Commit
  <1>2. GoodContent(db') /\ OneImport(db')
    BY <1>1
  <1>3. CASE call.step = "idle"
    BY <1>1, <1>2, <1>3 DEF Witness, ResolveInv, Live
  <1>4. CASE call.step # "idle"
    <2> DEFINE having == Having(d, call.request.package)
    <2>1. /\ DOMAIN call' = CallFields /\ call'.request = call.request
          /\ call'.step = call.step /\ call'.status = call.status /\ call'.listed = call.listed
          /\ call'.left = call.left /\ call'.matches = call.matches /\ call'.walk = call.walk
          /\ call'.graphs = call.graphs /\ call'.bundles = call.bundles
          /\ call'.result = call.result /\ call'.faulty = call.faulty
          /\ call'.lacked = call.lacked \cup (Catalogs \ having)
          /\ call'.had = call.had \cup having
      <3> HIDE DEF having
      <3>1. call' = [call EXCEPT !.lacked = @ \cup (Catalogs \ having), !.had = @ \cup having]
        BY <1>1, <1>4 DEF Witness, having
      <3> QED
        BY <3>1 DEF ResolveInv, CallFields
    <2>2. Live(call)
      BY <1>4 DEF Live, MayCommit
    <2>3. CallInv(db', call')
      <3>1. CallInv(db, call) /\ GoodContent(db) /\ call.had \subseteq call'.had
        BY <2>1, <2>2 DEF ResolveInv
      <3>2. \A g : Names(db, g) => Names(db', g)
        BY <1>1
      <3> QED
        BY <2>1, <3>1, <3>2, CommitKeepsCall
    <2>4. Witnessed(db', call')
      BY <1>1, <2>1 DEF Witnessed
    <2>5. ~call'.faulty => Accounted(call')
      BY <2>1, <2>2 DEF ResolveInv, Accounted
    <2> QED
      BY <1>2, <2>1, <2>3, <2>4, <2>5 DEF ResolveInv
  <1> QED
    BY <1>3, <1>4

-----------------------------------------------------------------------------
(***************************************************************************)
(* What Resolve computes between two reads.                                *)
(***************************************************************************)

\* The same catalogs and packages.
Same(c, e) ==
  /\ DOMAIN e = CallFields
  /\ e.request = c.request /\ e.listed = c.listed /\ e.left = c.left
  /\ e.matches = c.matches /\ e.lacked = c.lacked /\ e.had = c.had /\ e.since = c.since

LEMMA SameKeeps ==
  ASSUME NEW d, NEW c, NEW e, Same(c, e)
  PROVE  /\ Groups(c) => Groups(e)
         /\ Matches(d, c) => Matches(d, e)
         /\ Witnessed(d, c) => Witnessed(d, e)
         /\ Accounted(c) => Accounted(e)
         /\ One(c) => One(e)
         /\ \A x : Of(e, x) <=> Of(c, x)
         /\ \A graphs : Held(d, c, graphs) => Held(d, e, graphs)
         /\ \A bundles : Collection(c, bundles) => Collection(e, bundles)
  <1>1. Groups(c) => Groups(e)
    BY DEF Same, Groups
  <1>2. Matches(d, c) => Matches(d, e)
    BY DEF Same, Matches
  <1>3. Witnessed(d, c) => Witnessed(d, e)
    BY DEF Same, Witnessed
  <1>4. Accounted(c) => Accounted(e)
    BY DEF Same, Accounted
  <1>5. One(c) => One(e)
    BY DEF Same, One
  <1>6. \A x : Of(e, x) <=> Of(c, x)
    BY DEF Same, Of, Selected
  <1>7. \A graphs : Held(d, c, graphs) => Held(d, e, graphs)
    BY <1>6 DEF Held
  <1>8. \A bundles : Collection(c, bundles) => Collection(e, bundles)
    BY <1>6 DEF Collection
  <1> QED
    BY <1>1, <1>2, <1>3, <1>4, <1>5, <1>6, <1>7, <1>8

\* A call of which only the search goes on is of the same catalogs and packages.
LEMMA SearchGoesOn ==
  ASSUME NEW c, NEW e, DOMAIN e = CallFields,
         \A x \in CallFields \ {"step", "paths", "graphs", "bundles", "result"} : e[x] = c[x]
  PROVE  Same(c, e) /\ e.faulty = c.faulty
  <1>1. /\ "request" \in CallFields /\ "listed" \in CallFields /\ "left" \in CallFields
        /\ "matches" \in CallFields /\ "lacked" \in CallFields /\ "had" \in CallFields
        /\ "faulty" \in CallFields /\ "since" \in CallFields
    BY DEF CallFields
  <1>2. /\ e.request = c.request /\ e.listed = c.listed /\ e.left = c.left
        /\ e.matches = c.matches
    BY <1>1
  <1>3. e.lacked = c.lacked /\ e.had = c.had /\ e.faulty = c.faulty /\ e.since = c.since
    BY <1>1
  <1> QED
    BY <1>2, <1>3 DEF Same

LEMMA DoneIs ==
  ASSUME NEW c, DOMAIN c = CallFields, NEW status, NEW e, e = Done(c, status)
  PROVE  /\ Same(c, e) /\ e.faulty = c.faulty
         /\ e.step = "done" /\ e.status = status /\ e.result = c.result
  BY DEF Done, Same, CallFields

\* The package that was selected is the one that was found.
LEMMA SelectedIsTheOne ==
  ASSUME NEW d, NEW c, Matches(d, c), One(c)
  PROVE  /\ Selected(c) \in c.matches
         /\ Names(d, Selected(c).graph) /\ Of(c, Selected(c).graph)
  <1>1. Selected(c) \in c.matches
    BY DEF One, Selected
  <1> QED
    BY <1>1 DEF Matches, Of

\* What the search for graphs and bundles may hand on.
Searched(d, c, e) ==
  Same(c, e) /\ e.faulty = c.faulty /\ Progress(e) /\ Search(d, e) /\ Live(e)

LEMMA NextPathKeeps ==
  ASSUME NEW d, NEW c, DOMAIN c = CallFields, Matches(d, c), One(c), c.step = "graphs",
         Held(d, c, c.graphs), c.bundles = {}, c.result = <<>>, NEW e, e = NextPath(c)
  PROVE  Searched(d, c, e)
  <1> DEFINE package == Selected(c).graph
  <1>1. Names(d, package) /\ Of(c, package)
    BY SelectedIsTheOne
  <1> HIDE DEF package
  <1>2. CASE c.paths # <<>>
    <2>1. PICK w : w = [at |-> package, left |-> Head(c.paths)]
      OBVIOUS
    <2>2. /\ Same(c, e) /\ e.faulty = c.faulty /\ e.step = "graphs"
          /\ e.walk.at = package /\ e.graphs = c.graphs /\ e.bundles = {} /\ e.result = <<>>
      <3>1. e = [c EXCEPT !.walk = w, !.paths = Tail(@)]
        BY <1>2, <2>1 DEF NextPath, package
      <3>2. /\ Same(c, e) /\ e.faulty = c.faulty /\ e.step = "graphs" /\ e.walk = w
            /\ e.graphs = c.graphs /\ e.bundles = {} /\ e.result = <<>>
        BY <3>1 DEF Same, CallFields
      <3> QED
        BY <2>1, <3>2
    <2>3. One(e) /\ Held(d, e, e.graphs)
      BY <2>2, SameKeeps
    <2>4. Of(e, package)
      BY <1>1, <2>2 DEF Same, Of, Selected
    <2> QED
      BY <1>1, <2>2, <2>3, <2>4 DEF Searched, Progress, Searching, Search, Collection, Live
  <1>3. CASE c.paths = <<>> /\ c.graphs = <<>>
    <2>1. e = Done(c, "found")
      BY <1>3 DEF NextPath
    <2>2. /\ Same(c, e) /\ e.faulty = c.faulty
          /\ e.step = "done" /\ e.status = "found" /\ e.result = <<>>
      BY <2>1, DoneIs
    <2>3. One(e)
      BY <2>2, SameKeeps
    <2>4. Result(e, <<>>)
      BY DEF Result
    <2> QED
      BY <2>2, <2>3, <2>4 DEF Searched, Progress, Searching, Search, Live
  <1>4. CASE c.paths = <<>> /\ c.graphs # <<>>
    <2>1. e = [c EXCEPT !.step = "bundles"]
      BY <1>4 DEF NextPath
    <2>2. /\ Same(c, e) /\ e.faulty = c.faulty /\ e.step = "bundles"
          /\ e.graphs = c.graphs /\ e.bundles = {} /\ e.result = <<>>
      BY <2>1 DEF Same, CallFields
    <2>3. One(e) /\ Held(d, e, e.graphs)
      BY <2>2, SameKeeps
    <2> QED
      BY <1>4, <2>2, <2>3 DEF Searched, Progress, Searching, Search, Collection, Live
  <1> QED
    BY <1>2, <1>3, <1>4

\* A graph that has been found joins those that were found before.
LEMMA HeldAppend ==
  ASSUME NEW d, NEW c, NEW graphs, Held(d, c, graphs), NEW g, Names(d, g), Of(c, g)
  PROVE  Held(d, c, Append(graphs, g)) /\ Append(graphs, g) # <<>>
  <1> DEFINE n == Len(graphs)
             S == {graphs[i] : i \in 1 .. n} \cup {g}
             next == Append(graphs, g)
  <1>1. n \in Nat /\ graphs \in [1 .. n -> {graphs[i] : i \in 1 .. n}]
    BY DEF Held
  <1>2. \A i \in 1 .. n : graphs[i] \in S
    OBVIOUS
  <1>3. graphs \in Seq(S) /\ g \in S
    BY <1>1, <1>2
  <1> HIDE DEF S
  <1>4. /\ next \in Seq(S) /\ Len(next) = n + 1 /\ next[n + 1] = g
        /\ \A i \in 1 .. n : next[i] = graphs[i]
    BY <1>1, <1>3
  <1> HIDE DEF next
  <1>5. \A i \in 1 .. (n + 1) : i \in 1 .. n \/ i = n + 1
    BY <1>1
  <1>6. next \in [1 .. Len(next) -> {next[i] : i \in 1 .. Len(next)}]
    BY <1>4
  <1>7. \A i \in 1 .. Len(next) : Names(d, next[i]) /\ Of(c, next[i])
    BY <1>4, <1>5 DEF Held
  <1>8. next # <<>>
    BY <1>1, <1>4
  <1>9. Held(d, c, next)
    BY <1>1, <1>4, <1>6, <1>7 DEF Held
  <1> QED
    BY <1>8, <1>9 DEF next

\* The next graph to be read, and those that are left after it.
LEMMA HeldRest ==
  ASSUME NEW d, NEW c, NEW graphs, Held(d, c, graphs), graphs # <<>>
  PROVE  /\ Names(d, Head(graphs)) /\ Of(c, Head(graphs))
         /\ Held(d, c, Tail(graphs))
  <1> DEFINE n == Len(graphs)
             S == {graphs[i] : i \in 1 .. n}
             rest == Tail(graphs)
  <1>1. n \in Nat /\ graphs \in [1 .. n -> S]
    BY DEF Held
  <1>2. graphs \in Seq(S)
    BY <1>1
  <1> HIDE DEF S
  <1>3. n # 0 /\ Head(graphs) = graphs[1]
    BY <1>2
  <1>4. /\ rest \in Seq(S) /\ Len(rest) = n - 1
        /\ \A i \in 1 .. n - 1 : rest[i] = graphs[i + 1]
    BY <1>1, <1>2, <1>3
  <1> HIDE DEF rest
  <1>5. rest \in [1 .. Len(rest) -> {rest[i] : i \in 1 .. Len(rest)}]
    BY <1>4
  <1>6. \A i \in 1 .. Len(rest) : Names(d, rest[i]) /\ Of(c, rest[i])
    <2>1. \A i \in 1 .. n - 1 : i + 1 \in 1 .. n
      BY <1>1
    <2> QED
      BY <1>4, <2>1 DEF Held
  <1>7. Names(d, Head(graphs)) /\ Of(c, Head(graphs))
    BY <1>1, <1>3 DEF Held
  <1> QED
    BY <1>1, <1>3, <1>4, <1>5, <1>6, <1>7 DEF Held, rest

\* selectGraphs of the package that was selected.
LEMMA SelectGraphsKeeps ==
  ASSUME NEW d, NEW c, DOMAIN c = CallFields, Matches(d, c), One(c), c.step = "packages",
         c.graphs = <<>>, c.bundles = {}, c.result = <<>>, NEW e, e = SelectGraphs(c)
  PROVE  Searched(d, c, e)
  <1> DEFINE package == Selected(c).graph
  <1>1. Names(d, package) /\ Of(c, package)
    BY SelectedIsTheOne
  <1>2. Held(d, c, <<>>)
    BY DEF Held
  <1>3. CASE c.request.paths = <<>>
    <2>1. PICK graphs : graphs = Append(<<>>, package)
      OBVIOUS
    <2>2. Held(d, c, graphs) /\ graphs # <<>>
      BY <1>1, <1>2, <2>1, HeldAppend
    <2>3. e = [c EXCEPT !.step = "bundles", !.graphs = graphs]
      BY <1>3, <2>1 DEF SelectGraphs
    <2>4. /\ Same(c, e) /\ e.faulty = c.faulty /\ e.step = "bundles"
          /\ e.graphs = graphs /\ e.bundles = {} /\ e.result = <<>>
      BY <2>3 DEF Same, CallFields
    <2>5. One(e) /\ Held(d, e, e.graphs)
      BY <2>2, <2>4, SameKeeps
    <2> QED
      BY <2>2, <2>4, <2>5 DEF Searched, Progress, Searching, Search, Collection, Live
  <1>4. CASE c.request.paths # <<>>
    <2>1. PICK f : f = [c EXCEPT !.step = "graphs", !.paths = c.request.paths]
      OBVIOUS
    <2>2. /\ Same(c, f) /\ f.faulty = c.faulty /\ f.step = "graphs"
          /\ f.graphs = <<>> /\ f.bundles = {} /\ f.result = <<>>
      <3>1. /\ DOMAIN f = CallFields
            /\ \A x \in CallFields \ {"step", "paths"} : f[x] = c[x]
        BY <2>1
      <3>2. Same(c, f) /\ f.faulty = c.faulty
        BY <3>1, SearchGoesOn
      <3>3. {"step", "graphs", "bundles", "result"} \subseteq CallFields
        BY DEF CallFields
      <3>4. f.step = "graphs"
        BY <2>1, <3>3
      <3>5. /\ "graphs" \in CallFields \ {"step", "paths"}
            /\ "bundles" \in CallFields \ {"step", "paths"}
            /\ "result" \in CallFields \ {"step", "paths"}
        BY <3>3
      <3>6. f.graphs = c.graphs /\ f.bundles = c.bundles /\ f.result = c.result
        BY ONLY <3>1, <3>5
      <3>7. c.graphs = <<>> /\ c.bundles = {} /\ c.result = <<>>
        OBVIOUS
      <3> QED
        BY ONLY <3>2, <3>4, <3>6, <3>7, Zenon
    <2>3. Matches(d, f) /\ One(f) /\ Held(d, f, f.graphs)
      <3>1. Matches(d, f) /\ One(f) /\ Held(d, f, <<>>)
        BY <1>2, <2>2, SameKeeps, Zenon
      <3> QED
        BY ONLY <2>2, <3>1, Zenon
    <2>4. e = NextPath(f)
      BY <1>4, <2>1 DEF SelectGraphs
    <2>5. Searched(d, f, e)
      BY <2>2, <2>3, <2>4, NextPathKeeps DEF Same
    <2> QED
      BY <2>2, <2>5 DEF Searched, Same
  <1> QED
    BY <1>3, <1>4

\* The call after a catalog was taken out of its group.
TakenOut(d, c, x, matches, n) ==
  /\ DOMAIN n = CallFields /\ n.request = c.request /\ n.listed = c.listed
  /\ n.left = c.left \ {x} /\ n.matches = matches /\ n.lacked = c.lacked
  /\ n.had = c.had /\ n.faulty = c.faulty /\ n.since = c.since /\ n.step = "packages"
  /\ n.graphs = <<>> /\ n.bundles = {} /\ n.result = <<>>
  /\ Groups(n) /\ Matches(d, n) /\ \A m \in matches : m.catalog.priority = x.priority
  /\ ~(\E y \in n.left : y.priority = x.priority) /\ matches # {} /\ ~(Cardinality(matches) > 1)
       => One(n)

LEMMA AskedNext ==
  ASSUME NEW d, NEW c, DOMAIN c = CallFields, CallInv(d, c), c.step = "packages",
         NEW x \in TopGroup(c.left), NEW matches,
         \/ matches = c.matches
         \/ \E g : /\ matches = c.matches \cup {[catalog |-> x, graph |-> g]}
                   /\ Names(d, g) /\ g.catalog = x.name /\ x.name \in c.had,
         NEW n, n = [c EXCEPT !.left = @ \ {x}, !.matches = matches]
  PROVE  TakenOut(d, c, x, matches, n)
  <1>2. /\ DOMAIN n = CallFields /\ n.request = c.request /\ n.listed = c.listed
        /\ n.left = c.left \ {x} /\ n.matches = matches /\ n.lacked = c.lacked
        /\ n.had = c.had /\ n.faulty = c.faulty /\ n.since = c.since /\ n.step = "packages"
        /\ n.graphs = <<>> /\ n.bundles = {} /\ n.result = <<>>
    BY DEF CallFields, CallInv, Search, Searching
  <1>3. x \in c.left /\ x \in c.listed /\ \A y \in c.left : x.priority >= y.priority
    BY DEF TopGroup, CallInv, Groups
  <1>4. \A m \in c.matches : m.catalog.priority = x.priority /\ m.catalog # x
    BY <1>3 DEF CallInv, Groups, Matches, Progress
  <1>5. Groups(n)
    BY <1>2, <1>3 DEF CallInv, Groups
  <1>6. /\ \A m \in matches : m.catalog.priority = x.priority
        /\ Matches(d, n)
    <2>1. CASE matches = c.matches
      BY <1>2, <1>4, <2>1 DEF CallInv, Matches
    <2>2. ASSUME NEW g, matches = c.matches \cup {[catalog |-> x, graph |-> g]},
                 Names(d, g), g.catalog = x.name, x.name \in c.had
          PROVE  /\ \A m \in matches : m.catalog.priority = x.priority
                 /\ Matches(d, n)
      <3>1. PICK new : new = [catalog |-> x, graph |-> g]
        OBVIOUS
      <3>2. new.catalog = x /\ new.graph = g
        BY <3>1
      <3>3. matches = c.matches \cup {new}
        BY <2>2, <3>1
      <3>4. IsFiniteSet(matches)
        BY <3>3, FS_AddElement DEF CallInv, Matches
      <3>5. \A m \in matches : m \in c.matches \/ m = new
        BY <3>3
      <3> QED
        BY <1>2, <1>3, <1>4, <2>2, <3>2, <3>4, <3>5 DEF CallInv, Matches
    <2> QED
      BY <2>1, <2>2
  <1>7. ASSUME ~ \E y \in n.left : y.priority = x.priority, matches # {}, ~(Cardinality(matches) > 1)
        PROVE  One(n)
    <2>1. IsFiniteSet(matches)
      BY <1>2, <1>6 DEF Matches
    <2>2. Cardinality(matches) \in Nat /\ Cardinality(matches) # 0
      BY <1>7, <2>1, FS_CardinalityType, FS_EmptySet
    <2>3. Cardinality(matches) = 1
      BY <1>7, <2>2
    <2>4. \E m : matches = {m}
      BY <2>1, <2>3, FS_Singleton
    <2> QED
      BY <1>2, <1>6, <1>7, <2>4 DEF One
  <1> QED
    BY <1>2, <1>5, <1>6, <1>7 DEF TakenOut

\* selectPackage, of what GetPackage of the catalog x gave.
LEMMA AskedKeeps ==
  ASSUME NEW d, NEW c, DOMAIN c = CallFields, CallInv(d, c), Witnessed(d, c), c.step = "packages",
         NEW x \in TopGroup(c.left), NEW matches,
         \/ matches = c.matches
         \/ \E g : /\ matches = c.matches \cup {[catalog |-> x, graph |-> g]}
                   /\ Names(d, g) /\ g.catalog = x.name /\ x.name \in c.had,
         NEW e, e = Asked(c, x, matches)
  PROVE  /\ DOMAIN e = CallFields /\ CallInv(d, e) /\ Witnessed(d, e) /\ Live(e)
         /\ e.faulty = c.faulty /\ e.request = c.request /\ e.listed = c.listed
         /\ e.lacked = c.lacked /\ e.had = c.had /\ e.since = c.since
         /\ Accounted(c) /\ ((\E m \in matches : m.catalog = x) \/ x.name \in c.lacked)
              => Accounted(e)
  <1>1. PICK n : n = [c EXCEPT !.left = @ \ {x}, !.matches = matches]
    OBVIOUS
  <1>2. /\ DOMAIN n = CallFields /\ n.request = c.request /\ n.listed = c.listed
        /\ n.left = c.left \ {x} /\ n.matches = matches /\ n.lacked = c.lacked
        /\ n.had = c.had /\ n.faulty = c.faulty /\ n.since = c.since /\ n.step = "packages"
        /\ n.graphs = <<>> /\ n.bundles = {} /\ n.result = <<>>
        /\ Groups(n) /\ Matches(d, n) /\ \A m \in matches : m.catalog.priority = x.priority
        /\ ~(\E y \in n.left : y.priority = x.priority) /\ matches # {} /\ ~(Cardinality(matches) > 1)
             => One(n)
    <2>1. TakenOut(d, c, x, matches, n)
      BY <1>1, AskedNext
    <2> QED
      BY <2>1 DEF TakenOut
  <1>3. Witnessed(d, n)
    BY <1>2 DEF Witnessed
  <1>4. Accounted(c) /\ ((\E m \in matches : m.catalog = x) \/ x.name \in c.lacked)
          => Accounted(n)
    <2>1. \A m \in c.matches : m \in matches
      OBVIOUS
    <2> QED
      BY <1>2, <2>1 DEF Accounted
  <1>5. CASE \E y \in n.left : y.priority = x.priority
    <2>1. e = n
      BY <1>1, <1>5 DEF Asked
    <2>2. Progress(n) /\ Search(d, n) /\ Live(n)
      BY <1>2, <1>5 DEF Progress, Search, Searching, Live
    <2> QED
      BY <1>2, <1>3, <1>4, <2>1, <2>2 DEF CallInv
  <1>6. CASE ~ \E y \in n.left : y.priority = x.priority
    <2>1. SUFFICES Searched(d, n, e)
      BY <1>2, <1>3, <1>4, SameKeeps DEF Searched, CallInv, Same
    <2>2. CASE Cardinality(matches) > 1
      <3>1. e = Done(n, "ambiguous")
        BY <1>1, <1>6, <2>2 DEF Asked
      <3>2. /\ Same(n, e) /\ e.faulty = n.faulty /\ e.step = "done" /\ e.status = "ambiguous"
        BY <1>2, <3>1, DoneIs
      <3>3. e.matches = matches
        BY <1>2, <3>2 DEF Same
      <3> QED
        BY <2>2, <3>2, <3>3 DEF Searched, Progress, Search, Searching, Live
    <2>3. CASE ~(Cardinality(matches) > 1) /\ matches # {}
      <3>1. e = SelectGraphs(n)
        BY <1>1, <1>6, <2>3 DEF Asked
      <3>2. One(n)
        BY <1>2, <1>6, <2>3
      <3> QED
        BY <1>2, <3>1, <3>2, SelectGraphsKeeps
    <2>4. CASE matches = {} /\ n.left = {}
      <3>1. ~(Cardinality(matches) > 1)
        BY <2>4, FS_EmptySet
      <3>2. e = Done(n, "none")
        BY <1>1, <1>6, <2>4, <3>1 DEF Asked
      <3>3. /\ Same(n, e) /\ e.faulty = n.faulty /\ e.step = "done" /\ e.status = "none"
        BY <1>2, <3>2, DoneIs
      <3>4. e.matches = {} /\ e.left = {}
        BY <1>2, <2>4, <3>3 DEF Same
      <3> QED
        BY <3>3, <3>4 DEF Searched, Progress, Search, Searching, Live
    <2>5. CASE matches = {} /\ n.left # {}
      <3>1. ~(Cardinality(matches) > 1)
        BY <2>5, FS_EmptySet
      <3>2. e = n
        BY <1>1, <1>6, <2>5, <3>1 DEF Asked
      <3> QED
        BY <1>2, <2>5, <3>2 DEF Searched, Same, Progress, Search, Searching, Live
    <2> QED
      BY <2>2, <2>3, <2>4, <2>5
  <1> QED
    BY <1>5, <1>6

-----------------------------------------------------------------------------
(***************************************************************************)
(* The bundles.                                                            *)
(***************************************************************************)

\* What a query about a graph of the import finds.
LEMMA FoundCollection ==
  ASSUME NEW d, GoodContent(d), OneImport(d), NEW c, NEW graph, Names(d, graph), Of(c, graph),
         NEW rows, \A b \in rows : InCatalogOf(d, graph, b)
  PROVE  Collection(c, rows)
  <1>1. \A b \in rows : Of(c, b)
    BY FoundOfImport DEF Of
  <1>2. \A a, b \in rows : a.bundle = b.bundle => a = b
    BY OneOfAnId
  <1> QED
    BY <1>1, <1>2 DEF Collection

LEMMA CollectKeeps ==
  ASSUME NEW c, NEW seen, Collection(c, seen), NEW rows, Collection(c, rows)
  PROVE  Collection(c, Collect(seen, rows))
  BY DEF Collection, Collect

\* The result is what is left of the bundles, each once, in some order.
LEMMA CollectedKeeps ==
  ASSUME NEW d, NEW c, DOMAIN c = CallFields, One(c), c.step \in {"bundles", "ranges"},
         Held(d, c, c.graphs), Collection(c, c.bundles), c.result = <<>>,
         NEW e \in Collected(c)
  PROVE  Searched(d, c, e)
  <1>1. CASE c.graphs # <<>>
    <2>1. e = [c EXCEPT !.step = "bundles"]
      BY <1>1 DEF Collected
    <2>2. /\ Same(c, e) /\ e.faulty = c.faulty /\ e.step = "bundles"
          /\ e.graphs = c.graphs /\ e.bundles = c.bundles /\ e.result = <<>>
      BY <2>1 DEF Same, CallFields
    <2>3. One(e) /\ Held(d, e, e.graphs) /\ Collection(e, e.bundles)
      BY <2>2, SameKeeps
    <2> QED
      BY <1>1, <2>2, <2>3 DEF Searched, Progress, Searching, Search, Live
  <1>2. CASE c.graphs = <<>>
    <2>1. PICK kept : kept = {b \in c.bundles : VersionOf(b).version \in c.request.allowed}
      OBVIOUS
    <2>2. PICK s \in Sorted(c.request, kept) : e = Done([c EXCEPT !.result = s], "found")
      BY <1>2, <2>1 DEF Collected
    <2>3. PICK f : f = [c EXCEPT !.result = s]
      OBVIOUS
    <2>4. DOMAIN f = CallFields /\ Same(c, f) /\ f.faulty = c.faulty /\ f.result = s
      BY <2>3 DEF Same, CallFields
    <2>5. /\ Same(f, e) /\ e.faulty = f.faulty
          /\ e.step = "done" /\ e.status = "found" /\ e.result = s
      <3>1. e = Done(f, "found")
        BY <2>2, <2>3
      <3> QED
        BY <2>4, <3>1, DoneIs
    <2>6. Same(c, e) /\ e.faulty = c.faulty
      BY <2>4, <2>5 DEF Same
    <2>7. One(e) /\ Collection(e, c.bundles)
      BY <2>6, SameKeeps
    <2>8. /\ \A i \in DOMAIN s : s[i] \in c.bundles
          /\ \A i, j \in DOMAIN s : s[i] = s[j] => i = j
      <3>1. s \in SetToSeqs(kept)
        BY DEF Sorted
      <3>2. /\ \A i \in DOMAIN s : s[i] \in kept
            /\ \A i, j \in DOMAIN s : i # j => s[i] # s[j]
        BY <3>1 DEF SetToSeqs
      <3> QED
        BY <2>1, <3>2
    <2>9. Result(e, e.result)
      BY <2>5, <2>7, <2>8 DEF Collection, Result
    <2>10. Search(d, e)
      BY <2>5, <2>9 DEF Searching, Search
    <2> QED
      BY <2>5, <2>6, <2>7, <2>10 DEF Searched, Progress, Searching, Live
  <1> QED
    BY <1>1, <1>2

-----------------------------------------------------------------------------
(***************************************************************************)
(* The invariant is inductive.                                             *)
(***************************************************************************)
LEMMA InitResolveInv == Init => ResolveInv
  <1> SUFFICES ASSUME Init
               PROVE  ResolveInv
    OBVIOUS
  <1>1. /\ db = EmptyContent /\ call = Idle /\ priority = [c \in Catalogs |-> None]
    BY DEF Init
  <1>2. DOMAIN call = CallFields /\ call.step = "idle"
    BY <1>1 DEF Idle, CallFields
  <1> QED
    BY <1>1, <1>2, EmptyIsGood DEF ResolveInv, Live

\* A read that goes on with the search.
LEMMA ReadKeeps ==
  ASSUME ResolveInv, Live(call), Read(call'), Searched(db, call, call')
  PROVE  ResolveInv'
  <1>1. UNCHANGED <<db, priority>>
    BY DEF Read
  <1>2. DOMAIN call' = CallFields /\ Live(call') /\ call'.faulty = call.faulty
    BY DEF Searched, Same
  <1>3. CallInv(db, call') /\ Witnessed(db, call')
    BY SameKeeps DEF ResolveInv, CallInv, Searched
  <1>4. ~call'.faulty => Accounted(call')
    BY <1>2, SameKeeps DEF ResolveInv, Searched
  <1> QED
    BY <1>1, <1>2, <1>3, <1>4 DEF ResolveInv

\* An error of GetPackage or of GetGraph that the call goes on after.
LEMMA FaultKeeps ==
  ASSUME ResolveInv, NEW c, DOMAIN c = CallFields, CallInv(db, c), Witnessed(db, c), Fault(c)
  PROVE  ResolveInv'
  <1>1. UNCHANGED <<db, priority>> /\ call' = [c EXCEPT !.faulty = TRUE]
    BY DEF Fault
  <1>2. /\ Same(c, call') /\ call'.faulty = TRUE
        /\ call'.step = c.step /\ call'.status = c.status /\ call'.walk = c.walk
        /\ call'.graphs = c.graphs /\ call'.bundles = c.bundles /\ call'.result = c.result
    BY <1>1 DEF Same, CallFields
  <1>3. PICK e : e = call'
    OBVIOUS
  <1>4. /\ Groups(e) /\ Matches(db, e) /\ Witnessed(db, e)
        /\ \A x : Of(e, x) <=> Of(c, x)
    BY <1>2, <1>3, SameKeeps DEF CallInv
  <1>5. Progress(e)
    BY <1>2, <1>3 DEF CallInv, Progress, One, Same
  <1>6. Search(db, e)
    BY <1>2, <1>3, <1>4 DEF CallInv, Search, Held, Collection, Result
  <1> QED
    BY <1>1, <1>2, <1>3, <1>4, <1>5, <1>6 DEF ResolveInv, CallInv, Same

LEMMA ListKeeps ==
  ASSUME ResolveInv, NEW r, List(r)
  PROVE  ResolveInv'
  <1> DEFINE left == {[name |-> c, priority |-> priority[c]] : c \in Listed}
             having == Having(db, r.package)
  <1>1. PICK c : c = [Idle EXCEPT !.request = r, !.step = "packages", !.listed = left,
                                  !.left = left, !.since = commits,
                                  !.lacked = Catalogs \ having, !.had = having]
    OBVIOUS
  <1>2. Read(IF left = {} THEN Done(c, "none") ELSE c)
    BY <1>1 DEF List
  <1>3. \A x \in left : x.name \in Catalogs /\ x.priority \in Int
    <2>1. \A cat \in Listed : cat \in Catalogs /\ priority[cat] \in Int
      BY ValuesAreOrdered DEF Listed, ResolveInv
    <2> QED
      BY <2>1
  <1> HIDE DEF left, having
  <1>4. /\ DOMAIN c = CallFields /\ c.request = r /\ c.step = "packages" /\ c.listed = left
        /\ c.left = left /\ c.lacked = Catalogs \ having /\ c.had = having /\ c.matches = {}
        /\ c.graphs = <<>> /\ c.bundles = {} /\ c.result = <<>> /\ c.faulty = FALSE
    BY <1>1 DEF Idle, CallFields
  <1>5. Groups(c) /\ Matches(db, c) /\ Accounted(c)
    BY <1>3, <1>4, FS_EmptySet DEF Groups, Matches, Accounted
  <1>6. Witnessed(db, c)
    BY <1>4 DEF Witnessed, having
  <1>7. UNCHANGED <<db, priority>>
    BY <1>2 DEF Read
  <1>8. CASE left = {}
    <2>1. PICK e : e = call'
      OBVIOUS
    <2>2. e = Done(c, "none")
      BY <1>2, <1>8, <2>1 DEF Read
    <2>3. /\ Same(c, e) /\ e.faulty = c.faulty /\ e.step = "done" /\ e.status = "none"
      BY <1>4, <2>2, DoneIs
    <2>4. Groups(e) /\ Matches(db, e) /\ Accounted(e) /\ Witnessed(db, e)
      BY <1>5, <1>6, <2>3, SameKeeps
    <2>5. Progress(e) /\ Search(db, e)
      BY <1>4, <1>8, <2>3 DEF Progress, Search, Searching, Same
    <2> QED
      BY <1>7, <2>1, <2>3, <2>4, <2>5 DEF ResolveInv, CallInv, Same
  <1>9. CASE left # {}
    <2>1. call' = c
      BY <1>2, <1>9 DEF Read
    <2>2. Progress(c) /\ Search(db, c)
      BY <1>4 DEF Progress, Search, Searching
    <2> QED
      BY <1>4, <1>5, <1>6, <1>7, <2>1, <2>2 DEF ResolveInv, CallInv
  <1> QED
    BY <1>8, <1>9

LEMMA GetPackageKeeps ==
  ASSUME ResolveInv, NEW x, GetPackage(x)
  PROVE  ResolveInv'
  <1> DEFINE rows == Named(Packages(db, x.name), call.request.package)
  <1>1. call.step = "packages" /\ x \in TopGroup(call.left)
    BY DEF GetPackage
  <1>2. Live(call) /\ x.name \in Catalogs
    BY <1>1 DEF Live, ResolveInv, CallInv, Groups, TopGroup
  <1>3. IF rows = {} THEN x.name \in call.lacked ELSE x.name \in call.had
    BY <1>2 DEF ResolveInv, Witnessed, Having
  <1>4. \E matches :
          /\ \/ matches = call.matches
             \/ \E g : /\ matches = call.matches \cup {[catalog |-> x, graph |-> g]}
                       /\ Names(db, g) /\ g.catalog = x.name /\ x.name \in call.had
          /\ (\E m \in matches : m.catalog = x) \/ x.name \in call.lacked
          /\ Read(Asked(call, x, matches))
    <2>1. CASE rows = {} /\ Read(Asked(call, x, call.matches))
      BY <1>3, <2>1
    <2>2. ASSUME NEW row \in rows,
                 Read(Asked(call, x, call.matches \cup {[catalog |-> x, graph |-> GraphOf(db, row)]}))
          PROVE  \E matches :
                   /\ \/ matches = call.matches
                      \/ \E g : /\ matches = call.matches \cup {[catalog |-> x, graph |-> g]}
                                /\ Names(db, g) /\ g.catalog = x.name /\ x.name \in call.had
                   /\ (\E m \in matches : m.catalog = x) \/ x.name \in call.lacked
                   /\ Read(Asked(call, x, matches))
      <3>1. row \in db.graphs /\ row.catalog = x.name
        BY DEF Named, Packages
      <3>2. PICK g : g = GraphOf(db, row)
        OBVIOUS
      <3>3. Names(db, g) /\ g.catalog = x.name
        BY <3>1, <3>2, HoldsWhatItNames DEF ResolveInv, GraphOf
      <3>4. x.name \in call.had
        BY <1>3
      <3>5. PICK new : new = [catalog |-> x, graph |-> g]
        OBVIOUS
      <3>6. new.catalog = x
        BY <3>5
      <3>7. PICK matches : matches = call.matches \cup {new}
        OBVIOUS
      <3>8. Read(Asked(call, x, matches))
        BY <2>2, <3>2, <3>5, <3>7
      <3> QED
        BY <3>3, <3>4, <3>5, <3>6, <3>7, <3>8
    <2> QED
      BY <2>1, <2>2 DEF GetPackage
  <1> QED
    <2>1. PICK matches :
            /\ \/ matches = call.matches
               \/ \E g : /\ matches = call.matches \cup {[catalog |-> x, graph |-> g]}
                         /\ Names(db, g) /\ g.catalog = x.name /\ x.name \in call.had
            /\ (\E m \in matches : m.catalog = x) \/ x.name \in call.lacked
            /\ Read(Asked(call, x, matches))
      BY <1>4
    <2>2. PICK d : d = db
      OBVIOUS
    <2>3. PICK c : c = call
      OBVIOUS
    <2>4. PICK e : e = call'
      OBVIOUS
    <2>5. e = Asked(c, x, matches) /\ UNCHANGED <<db, priority>>
      BY <2>1, <2>3, <2>4 DEF Read
    <2>6. DOMAIN c = CallFields /\ CallInv(d, c) /\ Witnessed(d, c) /\ (~c.faulty => Accounted(c))
      BY <1>2, <2>2, <2>3 DEF ResolveInv
    <2>7. /\ DOMAIN e = CallFields /\ CallInv(d, e) /\ Witnessed(d, e)
          /\ e.faulty = c.faulty /\ (Accounted(c) => Accounted(e))
      BY <1>1, <2>1, <2>2, <2>3, <2>5, <2>6, AskedKeeps
    <2> QED
      BY <2>2, <2>4, <2>5, <2>6, <2>7 DEF ResolveInv

LEMMA GetPackageFailsKeeps ==
  ASSUME ResolveInv, NEW x, GetPackageFails(x)
  PROVE  ResolveInv'
  <1>1. /\ call.step = "packages" /\ x \in TopGroup(call.left)
        /\ Fault(Asked(call, x, call.matches))
    BY DEF GetPackageFails
  <1>2. DOMAIN call = CallFields /\ CallInv(db, call) /\ Witnessed(db, call)
    BY <1>1 DEF ResolveInv, Live
  <1>3. PICK d : d = db
    OBVIOUS
  <1>4. PICK c : c = call
    OBVIOUS
  <1>5. PICK e : e = Asked(c, x, c.matches)
    OBVIOUS
  <1>6. DOMAIN e = CallFields /\ CallInv(d, e) /\ Witnessed(d, e)
    BY <1>1, <1>2, <1>3, <1>4, <1>5, AskedKeeps
  <1>7. Fault(e)
    BY <1>1, <1>4, <1>5
  <1> QED
    BY <1>3, <1>6, <1>7, FaultKeeps

LEMMA GetGraphSearches ==
  ASSUME ResolveInv, GetGraph
  PROVE  Live(call) /\ Read(call') /\ Searched(db, call, call')
  <1> DEFINE walk == call.walk
  <1>1. PICK d : d = db
    OBVIOUS
  <1>2. PICK c : c = call
    OBVIOUS
  <1>3. PICK e : e = call'
    OBVIOUS
  <1>4. c.step = "graphs" /\ Live(call)
    BY <1>2 DEF GetGraph, Live
  <1>5. GoodContent(d) /\ OneImport(d) /\ DOMAIN c = CallFields /\ CallInv(d, c)
    BY <1>1, <1>2, <1>4 DEF ResolveInv
  <1>6. /\ Matches(d, c) /\ One(c) /\ Held(d, c, c.graphs) /\ c.bundles = {} /\ c.result = <<>>
        /\ Names(d, c.walk.at) /\ Of(c, c.walk.at)
    BY <1>4, <1>5 DEF CallInv, Progress, Search, Searching
  <1>7. Read(call') /\ \/ e = NextPath(c)
                       \/ \E row \in SubGraphs(d, c.walk.at) : e = Arrived(c, row)
    <2>1. \A name : Named(SubGraphs(db, walk.at), name) \subseteq SubGraphs(db, walk.at)
      BY DEF Named
    <2> QED
      BY <1>1, <1>2, <1>3, <2>1 DEF GetGraph, Read
  <1>8. ASSUME e = NextPath(c)
        PROVE  Searched(d, c, e)
    BY <1>4, <1>5, <1>6, <1>8, NextPathKeeps
  <1>9. ASSUME NEW row \in SubGraphs(d, c.walk.at), e = Arrived(c, row)
        PROVE  Searched(d, c, e)
    <2>1. PICK g : g = GraphOf(d, row)
      OBVIOUS
    <2>2. row \in d.graphs /\ row.catalog = c.walk.at.catalog /\ row.import = c.walk.at.import
      BY <1>5, <1>6, SubGraphsOfImport
    <2>3. Names(d, g)
      BY <1>5, <2>1, <2>2, HoldsWhatItNames
    <2>4. Of(c, g)
      BY <1>6, <2>1, <2>2 DEF Of, GraphOf
    <2>5. CASE Len(c.walk.left) = 1
      <3>1. PICK graphs : graphs = Append(c.graphs, g)
        OBVIOUS
      <3>2. Held(d, c, graphs)
        BY <1>6, <2>3, <2>4, <3>1, HeldAppend
      <3>3. PICK f : f = [c EXCEPT !.graphs = graphs]
        OBVIOUS
      <3>4. /\ DOMAIN f = CallFields /\ Same(c, f) /\ f.faulty = c.faulty /\ f.step = "graphs"
            /\ f.graphs = graphs /\ f.bundles = {} /\ f.result = <<>>
        BY <1>4, <1>5, <1>6, <3>3 DEF Same, CallFields
      <3>5. Matches(d, f) /\ One(f) /\ Held(d, f, f.graphs)
        BY <1>6, <3>2, <3>4, SameKeeps
      <3>6. e = NextPath(f)
        BY <1>1, <1>9, <2>1, <2>5, <3>1, <3>3 DEF Arrived
      <3>7. Searched(d, f, e)
        BY <3>4, <3>5, <3>6, NextPathKeeps
      <3> QED
        BY <3>4, <3>7 DEF Searched, Same
    <2>6. CASE Len(c.walk.left) # 1
      <3>1. PICK w : w = [at |-> g, left |-> Tail(c.walk.left)]
        OBVIOUS
      <3>2. e = [c EXCEPT !.walk = w]
        BY <1>1, <1>9, <2>1, <2>6, <3>1 DEF Arrived
      <3>3. /\ Same(c, e) /\ e.faulty = c.faulty /\ e.step = "graphs" /\ e.walk = w
            /\ e.graphs = c.graphs /\ e.bundles = {} /\ e.result = <<>>
        BY <1>4, <1>5, <1>6, <3>2 DEF Same, CallFields
      <3>4. e.walk.at = g
        BY <3>1, <3>3
      <3>5. One(e) /\ Held(d, e, e.graphs)
        BY <1>6, <3>3, SameKeeps
      <3>6. Of(e, g)
        BY <2>4, <3>3 DEF Same, Of, Selected
      <3> QED
        BY <2>3, <3>3, <3>4, <3>5, <3>6 DEF Searched, Progress, Searching, Search, Collection, Live
    <2> QED
      BY <2>5, <2>6
  <1>10. Searched(d, c, e)
    BY <1>7, <1>8, <1>9
  <1>11. Searched(db, call, call')
    BY <1>1, <1>2, <1>3, <1>10
  <1>12. Read(call')
    BY <1>7
  <1> QED
    BY <1>4, <1>11, <1>12

LEMMA GetGraphFailsKeeps ==
  ASSUME ResolveInv, GetGraphFails
  PROVE  ResolveInv'
  <1>1. PICK d : d = db
    OBVIOUS
  <1>2. PICK c : c = call
    OBVIOUS
  <1>3. PICK e : e = NextPath(c)
    OBVIOUS
  <1>4. c.step = "graphs" /\ Live(call) /\ Fault(e)
    BY <1>2, <1>3 DEF GetGraphFails, Live
  <1>5. DOMAIN c = CallFields /\ CallInv(d, c) /\ Witnessed(d, c)
    BY <1>1, <1>2, <1>4 DEF ResolveInv
  <1>6. Matches(d, c) /\ One(c) /\ Held(d, c, c.graphs) /\ c.bundles = {} /\ c.result = <<>>
    BY <1>4, <1>5 DEF CallInv, Progress, Search, Searching
  <1>7. Searched(d, c, e)
    BY <1>3, <1>4, <1>5, <1>6, NextPathKeeps
  <1>8. Groups(e) /\ Matches(d, e) /\ Witnessed(d, e)
    BY <1>5, <1>7, SameKeeps DEF CallInv, Searched
  <1>9. DOMAIN e = CallFields /\ CallInv(d, e)
    BY <1>7, <1>8 DEF CallInv, Searched, Same
  <1> QED
    BY <1>1, <1>4, <1>8, <1>9, FaultKeeps

\* The bundles of the next graph, of a query that ends the reading of the graph.
LEMMA CollectRowsSearches ==
  ASSUME ResolveInv, call.step \in {"bundles", "ranges"},
         NEW rows, \A b \in rows : InCatalogOf(db, Head(call.graphs), b),
         \E c \in Collected([call EXCEPT !.bundles = Collect(@, rows), !.graphs = Tail(@)]) : Read(c)
  PROVE  Live(call) /\ Read(call') /\ Searched(db, call, call')
  <1>1. PICK d : d = db
    OBVIOUS
  <1>2. PICK c : c = call
    OBVIOUS
  <1>3. PICK e : e = call'
    OBVIOUS
  <1>4. c.step \in {"bundles", "ranges"} /\ Live(call)
    BY <1>2 DEF Live
  <1>5. GoodContent(d) /\ OneImport(d) /\ DOMAIN c = CallFields /\ CallInv(d, c)
    BY <1>1, <1>2, <1>4 DEF ResolveInv
  <1>6. /\ One(c) /\ Held(d, c, c.graphs) /\ Collection(c, c.bundles)
        /\ c.result = <<>> /\ c.graphs # <<>>
    BY <1>4, <1>5 DEF CallInv, Progress, Search, Searching
  <1>7. Names(d, Head(c.graphs)) /\ Of(c, Head(c.graphs)) /\ Held(d, c, Tail(c.graphs))
    BY <1>6, HeldRest
  <1>8. Collection(c, Collect(c.bundles, rows))
    BY <1>1, <1>2, <1>5, <1>6, <1>7, FoundCollection, CollectKeeps
  <1>9. PICK f : f = [c EXCEPT !.bundles = Collect(@, rows), !.graphs = Tail(@)]
    OBVIOUS
  <1>10. /\ DOMAIN f = CallFields /\ Same(c, f) /\ f.faulty = c.faulty /\ f.step = c.step
         /\ f.graphs = Tail(c.graphs) /\ f.bundles = Collect(c.bundles, rows) /\ f.result = <<>>
    <2>1. /\ DOMAIN f = CallFields
          /\ \A x \in CallFields \ {"bundles", "graphs"} : f[x] = c[x]
      BY <1>5, <1>9
    <2>2. Same(c, f) /\ f.faulty = c.faulty
      BY <2>1, SearchGoesOn
    <2>3. {"step", "graphs", "bundles", "result"} \subseteq CallFields
      BY DEF CallFields
    <2>4. f.graphs = Tail(c.graphs) /\ f.bundles = Collect(c.bundles, rows)
      BY <1>5, <1>9, <2>3
    <2>5. "step" \in CallFields \ {"bundles", "graphs"} /\ "result" \in CallFields \ {"bundles", "graphs"}
      BY <2>3
    <2>6. f.step = c.step /\ f.result = c.result
      BY ONLY <2>1, <2>5
    <2>7. c.result = <<>>
      BY <1>6
    <2> QED
      BY ONLY <2>1, <2>2, <2>4, <2>6, <2>7, Zenon
  <1>11. One(f) /\ Held(d, f, f.graphs) /\ Collection(f, f.bundles)
    <2>1. /\ One(f) /\ Held(d, f, Tail(c.graphs))
          /\ Collection(f, Collect(c.bundles, rows))
      BY ONLY <1>6, <1>7, <1>8, <1>10, SameKeeps, Zenon
    <2> QED
      BY ONLY <1>10, <2>1, Zenon
  <1>12. e \in Collected(f) /\ Read(call')
    BY <1>2, <1>3, <1>9 DEF Read
  <1>13. Searched(d, f, e)
    BY <1>4, <1>10, <1>11, <1>12, CollectedKeeps
  <1>14. Searched(d, c, e)
    BY <1>10, <1>13 DEF Searched, Same
  <1>15. Searched(db, call, call') /\ Read(call')
    BY <1>1, <1>2, <1>3, <1>12, <1>14
  <1> QED
    BY <1>4, <1>15

LEMMA CollectBundlesSearches ==
  ASSUME ResolveInv, CollectBundles
  PROVE  Live(call) /\ Read(call') /\ Searched(db, call, call')
  <1>1. call.step = "bundles" /\ Live(call)
    BY DEF CollectBundles, Live
  <1>2. PICK rows : rows = ListBundles(db, Head(call.graphs))
    OBVIOUS
  <1>3. GoodContent(db) /\ Names(db, Head(call.graphs))
    BY <1>1, HeldRest DEF ResolveInv, CallInv, Search, Searching
  <1>4. \A b \in rows : InCatalogOf(db, Head(call.graphs), b)
    BY <1>2, <1>3, FoundInCatalog DEF Names
  <1>5. \E c \in Collected([call EXCEPT !.bundles = Collect(@, rows), !.graphs = Tail(@)]) : Read(c)
    BY <1>2 DEF CollectBundles
  <1> QED
    BY <1>1, <1>4, <1>5, CollectRowsSearches

LEMMA CollectRangesSearches ==
  ASSUME ResolveInv, CollectRanges
  PROVE  Live(call) /\ Read(call') /\ Searched(db, call, call')
  <1> DEFINE pairs == {p \in RangesOf(db, Head(call.graphs)) :
                         call.request.from.version \in p.range.versions}
  <1>1. call.step = "ranges" /\ Live(call)
    BY DEF CollectRanges, Live
  <1>2. PICK rows : rows = {p.bundle : p \in pairs}
    OBVIOUS
  <1>3. GoodContent(db) /\ Names(db, Head(call.graphs))
    BY <1>1, HeldRest DEF ResolveInv, CallInv, Search, Searching
  <1>4. \A b \in rows : InCatalogOf(db, Head(call.graphs), b)
    BY <1>2, <1>3, FoundInCatalog DEF Names
  <1>5. \E c \in Collected([call EXCEPT !.bundles = Collect(@, rows), !.graphs = Tail(@)]) : Read(c)
    BY <1>2 DEF CollectRanges
  <1> QED
    BY <1>1, <1>4, <1>5, CollectRowsSearches

LEMMA CollectEdgesSearches ==
  ASSUME ResolveInv, CollectEdges
  PROVE  Live(call) /\ Read(call') /\ Searched(db, call, call')
  <1>1. PICK from \in FromIds(db, call.request.from.bundle) :
          Read([call EXCEPT !.step = "ranges",
                  !.bundles = Collect(@, EdgesFrom(db, Head(call.graphs), from))])
    BY DEF CollectEdges
  <1>2. PICK d : d = db
    OBVIOUS
  <1>3. PICK c : c = call
    OBVIOUS
  <1>4. PICK e : e = call'
    OBVIOUS
  <1>5. PICK rows : rows = EdgesFrom(d, Head(c.graphs), from)
    OBVIOUS
  <1>6. c.step = "bundles" /\ Live(call)
    BY <1>3 DEF CollectEdges, Live
  <1>7. GoodContent(d) /\ OneImport(d) /\ DOMAIN c = CallFields /\ CallInv(d, c)
    BY <1>2, <1>3, <1>6 DEF ResolveInv
  <1>8. /\ One(c) /\ Held(d, c, c.graphs) /\ Collection(c, c.bundles)
        /\ c.result = <<>> /\ c.graphs # <<>>
    BY <1>6, <1>7 DEF CallInv, Progress, Search, Searching
  <1>9. Names(d, Head(c.graphs)) /\ Of(c, Head(c.graphs))
    BY <1>8, HeldRest
  <1>10. \A b \in rows : InCatalogOf(d, Head(c.graphs), b)
    BY <1>5, <1>7, <1>9, FoundInCatalog DEF Names
  <1>11. Collection(c, Collect(c.bundles, rows))
    BY <1>7, <1>8, <1>9, <1>10, FoundCollection, CollectKeeps
  <1>12. e = [c EXCEPT !.step = "ranges", !.bundles = Collect(@, rows)] /\ Read(call')
    BY <1>1, <1>2, <1>3, <1>4, <1>5 DEF Read
  <1>13. /\ Same(c, e) /\ e.faulty = c.faulty /\ e.step = "ranges" /\ e.graphs = c.graphs
         /\ e.bundles = Collect(c.bundles, rows) /\ e.result = <<>>
    BY <1>7, <1>8, <1>12 DEF Same, CallFields
  <1>14. One(e) /\ Held(d, e, e.graphs) /\ Collection(e, e.bundles)
    BY <1>8, <1>11, <1>13, SameKeeps
  <1>15. Searched(d, c, e)
    BY <1>8, <1>13, <1>14 DEF Searched, Progress, Searching, Search, Live
  <1>16. Searched(db, call, call') /\ Read(call')
    BY <1>2, <1>3, <1>4, <1>12, <1>15
  <1> QED
    BY <1>6, <1>16

LEMMA ReadFailsKeeps ==
  ASSUME ResolveInv, ReadFails
  PROVE  ResolveInv'
  <1>1. UNCHANGED <<db, priority>> /\ call' = [Done(call, "error") EXCEPT !.faulty = TRUE]
    BY DEF ReadFails, Fault
  <1>2. PICK c : c = Done(call, "error")
    OBVIOUS
  <1>3. DOMAIN c = CallFields /\ c.step = "done" /\ c.status = "error"
    BY <1>2, DoneIs DEF ResolveInv, Same
  <1>4. DOMAIN call' = CallFields /\ call'.step = "done" /\ call'.status = "error"
    BY <1>1, <1>2, <1>3 DEF CallFields
  <1> QED
    BY <1>1, <1>4 DEF ResolveInv, Live

LEMMA NextResolveInv == ResolveInv /\ [Next]_vars => ResolveInv'
  <1> SUFFICES ASSUME ResolveInv, [Next]_vars
               PROVE  ResolveInv'
    OBVIOUS
  <1>1. ASSUME NEW cat \in Catalogs, NEW p \in Priorities, NEW ops \in Contents, Set(cat, p, ops)
        PROVE  ResolveInv'
    <2>1. PICK d : d = Imported(db, cat, commits + 1, ops)
      OBVIOUS
    <2>2. /\ MayCommit /\ d # Failed /\ Commit(d)
          /\ priority' = [priority EXCEPT ![cat] = p]
      BY <1>1, <2>1 DEF Set
    <2>3. GoodContent(d) /\ Importing(db, cat, commits + 1, d)
      BY <2>1, <2>2, ImportedKeeps, ContentsAreOperations DEF ResolveInv
    <2>4. priority' \in [Catalogs -> Priorities \cup {None}]
      BY <2>2 DEF ResolveInv
    <2>5. OneImport(d) /\ \A g : Names(db, g) => Names(d, g)
      BY <2>3, CommitKeepsOneImport, CommitKeepsNames DEF ResolveInv
    <2> QED
      BY <2>2, <2>3, <2>4, <2>5, CommitKeeps
  <1>2. ASSUME NEW cat \in Catalogs, NEW p \in Priorities, SetPriority(cat, p)
        PROVE  ResolveInv'
    <2>1. MayCommit /\ Commit(db) /\ priority' = [priority EXCEPT ![cat] = p]
      BY <1>2 DEF SetPriority
    <2>2. priority' \in [Catalogs -> Priorities \cup {None}]
      BY <2>1 DEF ResolveInv
    <2> QED
      BY <2>1, <2>2, CommitKeeps DEF ResolveInv
  <1>3. ASSUME NEW cat \in Catalogs, Delete(cat)
        PROVE  ResolveInv'
    <2>1. PICK d : d = DeleteAll(db, cat)
      OBVIOUS
    <2>2. MayCommit /\ Commit(d) /\ priority' = [priority EXCEPT ![cat] = None]
      BY <1>3, <2>1 DEF Delete
    <2>3. GoodContent(d) /\ Importing(db, cat, commits, d)
      BY <2>1, DeleteKeeps DEF ResolveInv
    <2>4. priority' \in [Catalogs -> Priorities \cup {None}]
      BY <2>2 DEF ResolveInv
    <2>5. OneImport(d) /\ \A g : Names(db, g) => Names(d, g)
      BY <2>3, CommitKeepsOneImport, CommitKeepsNames DEF ResolveInv
    <2> QED
      BY <2>2, <2>3, <2>4, <2>5, CommitKeeps
  <1>4. ASSUME NEW r \in Requests, List(r)
        PROVE  ResolveInv'
    BY <1>4, ListKeeps
  <1>5. ASSUME NEW x \in call.left, GetPackage(x)
        PROVE  ResolveInv'
    BY <1>5, GetPackageKeeps
  <1>6. ASSUME NEW x \in call.left, GetPackageFails(x)
        PROVE  ResolveInv'
    BY <1>6, GetPackageFailsKeeps
  <1>7. CASE GetGraph
    BY <1>7, GetGraphSearches, ReadKeeps
  <1>8. CASE GetGraphFails
    BY <1>8, GetGraphFailsKeeps
  <1>9. CASE CollectBundles
    BY <1>9, CollectBundlesSearches, ReadKeeps
  <1>10. CASE CollectEdges
    BY <1>10, CollectEdgesSearches, ReadKeeps
  <1>11. CASE CollectRanges
    BY <1>11, CollectRangesSearches, ReadKeeps
  <1>12. CASE ReadFails
    BY <1>12, ReadFailsKeeps
  <1>13. CASE UNCHANGED vars
    BY <1>13 DEF vars, ResolveInv
  <1> QED
    BY <1>1, <1>2, <1>3, <1>4, <1>5, <1>6, <1>7, <1>8, <1>9, <1>10, <1>11, <1>12, <1>13 DEF Next

LEMMA ResolveInvariant == Spec => []ResolveInv
  BY InitResolveInv, NextResolveInv, PTL DEF Spec

LEMMA HighestSelected == ResolveInv => SelectedOverLacking
  <1> SUFFICES ASSUME ResolveInv, Returned({"found", "none", "ambiguous"}), ~call.faulty
               PROVE  SelectedOverLacking
    BY DEF SelectedOverLacking
  <1>1. Live(call)
    BY DEF Returned, Live
  <1>2. Groups(call) /\ Matches(db, call) /\ Progress(call) /\ Accounted(call)
    BY <1>1 DEF ResolveInv, CallInv
  <1>3. \A x \in Chosen : /\ x \in call.listed \ call.left /\ x.name \in call.had
                          /\ x.priority \in Int /\ \A y \in Chosen : y.priority = x.priority
    <2>1. \A x \in Chosen : \E m \in call.matches : x = m.catalog
      BY DEF Chosen
    <2>2. \A m \in call.matches : /\ m.catalog \in call.listed \ call.left
                                  /\ m.catalog.name \in call.had
                                  /\ m.catalog.priority \in Int
      BY <1>2 DEF Matches, Groups
    <2>3. \A m, n \in call.matches : m.catalog.priority = n.catalog.priority
      BY <1>2 DEF Matches
    <2>4. \A x, y \in Chosen : y.priority = x.priority
      BY <2>1, <2>3
    <2> QED
      BY <2>1, <2>2, <2>4
  <1>4. \A y \in call.listed \ call.left : y \in Chosen \/ y.name \in call.lacked
    BY <1>2 DEF Chosen, Accounted
  <1>5. \A x \in Chosen, y \in call.listed :
          /\ x.name \in call.had
          /\ y.priority > x.priority => y.name \in call.lacked
          /\ y \in Chosen => y.priority = x.priority
    <2> SUFFICES ASSUME NEW x \in Chosen, NEW y \in call.listed, y.priority > x.priority
                 PROVE  y.name \in call.lacked
      BY <1>3
    <2>1. y.priority \in Int /\ x.priority \in Int
      BY <1>2, <1>3 DEF Groups
    <2>2. y \notin Chosen
      BY <1>3, <2>1
    <2>3. y \notin call.left
      BY <1>2, <1>3, <2>1 DEF Groups
    <2> QED
      BY <1>4, <2>2, <2>3
  <1>6. call.status = "none" => \A y \in call.listed : y.name \in call.lacked
    <2> SUFFICES ASSUME call.status = "none"
                 PROVE  \A y \in call.listed : y.name \in call.lacked
      OBVIOUS
    <2>1. call.matches = {} /\ call.left = {}
      BY <1>2 DEF Progress, Returned
    <2> QED
      BY <1>4, <2>1 DEF Chosen
  <1>7. call.status = "found" =>
          \A x \in Chosen, y \in call.listed :
            y.priority = x.priority /\ y # x => y.name \in call.lacked
    <2> SUFFICES ASSUME call.status = "found", NEW x \in Chosen, NEW y \in call.listed,
                        y.priority = x.priority, y # x
                 PROVE  y.name \in call.lacked
      OBVIOUS
    <2>1. PICK m \in call.matches : /\ call.matches = {m}
                                    /\ \A z \in call.left : z.priority # m.catalog.priority
      BY <1>2 DEF Progress, Returned, One
    <2>2. x = m.catalog /\ y \notin Chosen
      BY <2>1 DEF Chosen
    <2>3. y \notin call.left
      BY <2>1, <2>2
    <2> QED
      BY <1>4, <2>2, <2>3
  <1>8. call.status = "ambiguous" => Cardinality(Chosen) > 1
    <2> SUFFICES ASSUME call.status = "ambiguous"
                 PROVE  Cardinality(Chosen) > 1
      OBVIOUS
    <2>1. Cardinality(call.matches) > 1
      BY <1>2 DEF Progress, Returned
    <2>2. PICK S : S = call.matches
      OBVIOUS
    <2>3. PICK T : T = Chosen
      OBVIOUS
    <2> DEFINE f == [m \in S |-> m.catalog]
    <2>4. f \in Surjection(S, T)
      BY <2>2, <2>3 DEF Surjection, Chosen
    <2>5. f \in Injection(S, T)
      <3>1. \A m, n \in S : f[m] = f[n] => m = n
        BY <1>2, <2>2 DEF Matches
      <3>2. f \in [S -> T]
        BY <2>4 DEF Surjection
      <3> HIDE DEF f
      <3> QED
        BY <3>1, <3>2 DEF Injection, IsInjective
    <2>6. IsFiniteSet(S)
      BY <1>2, <2>2 DEF Matches
    <2> HIDE DEF f
    <2>7. Cardinality(T) = Cardinality(S)
      BY <2>4, <2>5, <2>6, FS_Surjection
    <2> QED
      BY <2>1, <2>2, <2>3, <2>7
  <1> QED
    BY <1>5, <1>6, <1>7, <1>8 DEF SelectedOverLacking

\* A call that has returned without a fault has selected the package of a catalog that had it,
\* over catalogs of a higher priority and over peers that were without it at some moment of
\* the call: whatever is committed meanwhile, for any number of catalogs and priorities.
THEOREM SelectsTheHighest == Spec => []SelectedOverLacking
  BY HighestSelected, ResolveInvariant, PTL

\* The bundles that Resolve returns are of the import that made the selected package, each ID
\* once: no result mixes two contents, whatever is imported or deleted between the queries.
THEOREM ResultsOfTheImport == Spec => []BundlesOfOneImport
  <1>1. ResolveInv => BundlesOfOneImport
    <2> SUFFICES ASSUME ResolveInv, Returned({"found"})
                 PROVE  BundlesOfOneImport
      BY DEF BundlesOfOneImport
    <2>1. Live(call)
      BY DEF Returned, Live
    <2>2. Result(call, call.result)
      BY <2>1 DEF ResolveInv, CallInv, Search, Returned
    <2> QED
      BY <2>2 DEF Result, Of, BundlesOfOneImport
  <1> QED
    BY <1>1, ResolveInvariant, PTL

-----------------------------------------------------------------------------
(***************************************************************************)
(* A call that nothing disturbs: while no read has failed and no import    *)
(* was committed since it began, what it holds is what the content of now  *)
(* answers, so that its result leaves nothing out.                         *)
(***************************************************************************)
\* The paths from the top that a request asks for, and the graphs at some of them.
Fulls(r, paths) == {<<r.package>> \o paths[i] : i \in DOMAIN paths}

Targets(r) == IF r.paths = <<>> THEN {<<r.package>>} ELSE Fulls(r, r.paths)

At(d, cat, paths) == {GraphOf(d, g) : g \in {h \in d.graphs : h.catalog = cat /\ h.path \in paths}}

\* The bundles that the queries of a graph yield, where one bundle has the ID.
OfEdges(d, g, r) ==
  {b \in d.bundles : \E from \in FromIds(d, r.from.bundle) : b \in EdgesFrom(d, g, from)}

OfRanges(d, g, r) ==
  {x.bundle : x \in {y \in RangesOf(d, g) : r.from.version \in y.range.versions}}

Asking(d, g, r) ==
  IF r.from = None THEN ListBundles(d, g) ELSE OfEdges(d, g, r) \cup OfRanges(d, g, r)

AskingAll(d, graphs, r) == UNION {Asking(d, g, r) : g \in graphs}

Unshared(d, r) ==
  r.from = None \/ Cardinality({b \in d.bundles : b.bundle = r.from.bundle}) < 2

\* The catalog whose package was selected, and the graphs that its paths lead to.
Cat(c) == Selected(c).catalog.name
Goal(d, c) == At(d, Cat(c), Targets(c.request))

\* The paths that have been walked to their end led to the graphs that are held.
Walked(d, c, done) == ToSet(c.graphs) = At(d, Cat(c), done)

\* On the way: the rest of a path is left from the graph that was reached.
Walking(d, c) ==
  /\ c.paths \in Seq(Seq(Segments) \ {<<>>}) /\ c.walk.left \in Seq(Segments) \ {<<>>}
  /\ \E done, row :
       /\ Walked(d, c, done)
       /\ row \in d.graphs /\ row.catalog = Cat(c) /\ c.walk.at = GraphOf(d, row)
       /\ done \cup {row.path \o c.walk.left} \cup Fulls(c.request, c.paths) = Targets(c.request)

\* Some of the graphs have been read, and of the next one the edges.
Reading(d, c) ==
  /\ c.step = "ranges" => c.request.from # None
  /\ \E read :
       /\ read \cup ToSet(c.graphs) = Goal(d, c)
       /\ Unshared(d, c.request) =>
            c.bundles = AskingAll(d, read, c.request)
                          \cup IF c.step = "ranges" THEN OfEdges(d, Head(c.graphs), c.request) ELSE {}

Delivered(d, c) ==
  Unshared(d, c.request) =>
    ToSet(c.result) = {b \in AskingAll(d, Goal(d, c), c.request) :
                         VersionOf(b).version \in c.request.allowed}

Picked(d, c) ==
  /\ c.request \in Requests
  /\ \A m \in c.matches : m.graph \in At(d, m.catalog.name, {<<c.request.package>>})

Exactly(d, c) ==
  /\ Picked(d, c)
  /\ c.step = "graphs" => Walking(d, c)
  /\ c.step \in {"bundles", "ranges"} => Reading(d, c)
  /\ c.step = "done" /\ c.status = "found" => Delivered(d, c)

\* Nothing has been committed since the call began, and no read of it has failed.
Still == call.step # "idle" /\ call.since = commits /\ ~call.faulty

Unmoved ==
  /\ call.listed = {[name |-> n, priority |-> priority[n]] : n \in Listed}
  /\ call.lacked = Catalogs \ Having(db, call.request.package)
  /\ call.had = Having(db, call.request.package)

ExactInv ==
  /\ commits \in Nat /\ call.since \in Nat /\ call.since <= commits
  /\ Still => Unmoved /\ Exactly(db, call)
\* What is in a list, when an element is appended and when its head is taken.
LEMMA ListElements ==
  ASSUME NEW S, NEW s \in Seq(S)
  PROVE  /\ \A e \in S : ToSet(Append(s, e)) = ToSet(s) \cup {e}
         /\ s # <<>> => ToSet(s) = {Head(s)} \cup ToSet(Tail(s))
  <1>1. Len(s) \in Nat /\ DOMAIN s = 1 .. Len(s)
    BY LenProperties
  <1>2. ASSUME NEW e \in S
        PROVE  ToSet(Append(s, e)) = ToSet(s) \cup {e}
    <2>1. PICK t \in Seq(S) : t = Append(s, e)
      BY AppendProperties
    <2>2. /\ Len(t) = Len(s) + 1 /\ t[Len(s) + 1] = e /\ \A i \in 1 .. Len(s) : t[i] = s[i]
          /\ DOMAIN t = 1 .. (Len(s) + 1)
      BY <2>1, AppendProperties, LenProperties
    <2>3. \A i \in 1 .. (Len(s) + 1) : i \in 1 .. Len(s) \/ i = Len(s) + 1
      BY <1>1
    <2>4. Len(s) + 1 \in 1 .. (Len(s) + 1) /\ \A i \in 1 .. Len(s) : i \in 1 .. (Len(s) + 1)
      BY <1>1
    <2>5. \A x : (\E i \in DOMAIN t : x = t[i]) <=> x = e \/ \E i \in DOMAIN s : x = s[i]
      BY <1>1, <2>2, <2>3, <2>4
    <2> QED
      BY <2>1, <2>5 DEF ToSet
  <1>3. ASSUME s # <<>>
        PROVE  ToSet(s) = {Head(s)} \cup ToSet(Tail(s))
    <2>1. PICK t \in Seq(S) : t = Tail(s)
      BY <1>3, HeadTailProperties
    <2>2. /\ Len(s) \in Nat \ {0} /\ Len(t) = Len(s) - 1 /\ DOMAIN t = 1 .. Len(t)
          /\ \A i \in 1 .. Len(t) : t[i] = s[i + 1]
      BY <1>3, <2>1, HeadTailProperties, EmptySeq, LenProperties
    <2>3. Head(s) = s[1]
      BY <1>3
    <2>4. \A i \in 1 .. Len(s) : i = 1 \/ (i - 1 \in 1 .. Len(t) /\ (i - 1) + 1 = i)
      BY <2>2
    <2>5. 1 \in 1 .. Len(s) /\ \A i \in 1 .. Len(t) : i + 1 \in 1 .. Len(s)
      BY <2>2
    <2>6. \A x : (\E i \in DOMAIN s : x = s[i]) <=> x = s[1] \/ \E i \in DOMAIN t : x = t[i]
      <3>1. ASSUME NEW i \in 1 .. Len(s)
            PROVE  s[i] = s[1] \/ \E j \in DOMAIN t : s[i] = t[j]
        <4>1. CASE i # 1
          <5>1. PICK j \in 1 .. Len(t) : j + 1 = i
            BY <2>4, <4>1
          <5> QED
            BY <2>2, <5>1
        <4> QED
          BY <4>1
      <3>2. ASSUME NEW j \in 1 .. Len(t)
            PROVE  \E i \in DOMAIN s : t[j] = s[i]
        BY <1>1, <2>2, <2>5
      <3> QED
        BY <1>1, <2>2, <2>5, <3>1, <3>2
    <2> QED
      BY <2>1, <2>3, <2>6 DEF ToSet
  <1> QED
    BY <1>2, <1>3

LEMMA HeldIsList ==
  ASSUME NEW d, NEW c, NEW graphs, Held(d, c, graphs)
  PROVE  /\ graphs \in Seq(ToSet(graphs))
         /\ \A g \in ToSet(graphs) : Names(d, g) /\ Of(c, g)
  <1>1. DOMAIN graphs = 1 .. Len(graphs) /\ Len(graphs) \in Nat
    BY DEF Held
  <1> QED
    BY <1>1 DEF Held, ToSet

\* The graphs at several paths, and where none is.
LEMMA AtPaths ==
  ASSUME NEW d, NEW cat, NEW ps, NEW qs
  PROVE  At(d, cat, ps \cup qs) = At(d, cat, ps) \cup At(d, cat, qs)
  BY DEF At

LEMMA AtNone ==
  ASSUME NEW d, NEW cat
  PROVE  /\ At(d, cat, {}) = {}
         /\ \A path : GraphAt(d, cat, path) = {} => At(d, cat, {path}) = {}
  BY DEF At, GraphAt

LEMMA AtItsPath ==
  ASSUME NEW d, GoodContent(d), NEW row \in d.graphs
  PROVE  At(d, row.catalog, {row.path}) = {GraphOf(d, row)}
  <1>1. \A h \in d.graphs : h.catalog = row.catalog /\ h.path \in {row.path} <=> h = row
    BY DEF GoodContent, Placed
  <1> QED
    BY <1>1 DEF At

\* Where no child has the next name, nothing is at the end of the path.
LEMMA WayIsBlocked ==
  ASSUME NEW d, GoodContent(d), NEW row \in d.graphs, NEW left \in Seq(Segments), left # <<>>,
         Named(ChildrenOf(d, {row.id}), Head(left)) = {}
  PROVE  At(d, row.catalog, {row.path \o left}) = {}
  <1>1. row.path \in Seq(Segments) /\ row.path # <<>>
    BY DEF GoodContent, Placed
  <1>2. PICK name \in Segments : name = Head(left)
    BY PathParts
  <1>3. PICK path \in Seq(Segments) : path = row.path \o <<name>>
    BY <1>1, <1>2, PathParts
  <1>4. IsPrefix(path, row.path \o left)
    BY <1>1, <1>2, <1>3, PathParts
  <1>5. path # <<>>
    BY <1>1, <1>2, <1>3, PathEnds
  <1>6. GraphAt(d, row.catalog, path) = {}
    BY <1>2, <1>3, ChildByPath
  <1>7. GraphAt(d, row.catalog, row.path \o left) = {}
    <2> SUFFICES ASSUME NEW g \in d.graphs, g.catalog = row.catalog, g.path = row.path \o left
                 PROVE  FALSE
      BY DEF GraphAt
    <2>1. IsPrefix(path, g.path)
      BY <1>4
    <2>2. GraphAt(d, g.catalog, path) # {}
      BY <1>5, <2>1, WayIsThere
    <2> QED
      BY <1>6, <2>2
  <1> QED
    BY <1>7, AtNone

\* The paths that are left, when the next one is taken.
LEMMA FullsRest ==
  ASSUME NEW r, NEW S, NEW paths \in Seq(S), paths # <<>>
  PROVE  Fulls(r, paths) = {<<r.package>> \o Head(paths)} \cup Fulls(r, Tail(paths))
  <1>1. ToSet(paths) = {Head(paths)} \cup ToSet(Tail(paths))
    BY ListElements
  <1>2. \A s : Fulls(r, s) = {<<r.package>> \o x : x \in ToSet(s)}
    BY DEF Fulls, ToSet
  <1> QED
    BY <1>1, <1>2

\* Of the request: the paths it asks for have names.
NamesGiven == \A r \in Requests : \A i \in DOMAIN r.paths : NoName \notin ToSet(r.paths[i])

LEMMA PathsGiven ==
  ASSUME NamesGiven, NEW r \in Requests
  PROVE  /\ r.package \in Segments /\ r.paths \in Seq(Seq(Segments) \ {<<>>})
         /\ \A path \in Targets(r) : path \in Seq(Segments) /\ path # <<>>
  <1>1. r.package \in Segments /\ r.paths \in Seq(Seq(Segments \cup {NoName}) \ {<<>>})
    BY RequestsAreRequests
  <1>2. ASSUME NEW i \in 1 .. Len(r.paths)
        PROVE  r.paths[i] \in Seq(Segments) \ {<<>>}
    <2>1. PICK p \in Seq(Segments \cup {NoName}) : p = r.paths[i] /\ p # <<>>
      BY <1>1, ElementOfSeq
    <2>2. NoName \notin ToSet(p)
      BY <1>1, <2>1, LenProperties DEF NamesGiven
    <2>3. \A j \in 1 .. Len(p) : p[j] \in Segments
      <3>1. DOMAIN p = 1 .. Len(p) /\ \A j \in 1 .. Len(p) : p[j] \in Segments \cup {NoName}
        BY LenProperties, ElementOfSeq
      <3> QED
        BY <2>2, <3>1 DEF ToSet
    <2>4. p \in Seq(Segments)
      BY <2>3
    <2> QED
      BY <2>1, <2>4
  <1>3. r.paths \in Seq(Seq(Segments) \ {<<>>})
    <2> DEFINE T == Seq(Segments) \ {<<>>}
    <2>1. \A i \in 1 .. Len(r.paths) : r.paths[i] \in T
      BY <1>2
    <2>2. r.paths \in [1 .. Len(r.paths) -> Seq(Segments \cup {NoName}) \ {<<>>}] /\ Len(r.paths) \in Nat
      BY <1>1, LenProperties
    <2> HIDE DEF T
    <2>3. r.paths \in Seq(T)
      BY <2>1, <2>2
    <2> QED
      BY <2>3 DEF T
  <1>4. \A p \in Seq(Segments) : <<r.package>> \o p \in Seq(Segments) /\ <<r.package>> \o p # <<>>
    <2>1. <<r.package>> \in Seq(Segments) /\ <<r.package>> # <<>>
      BY <1>1
    <2> QED
      BY <2>1, ConcatProperties, ConcatEqualIffEmpty
  <1>5. \A path \in Targets(r) : path \in Seq(Segments) /\ path # <<>>
    <2>1. CASE r.paths = <<>>
      <3>1. PICK p \in Segments : p = r.package
        BY <1>1
      <3>2. <<p>> \in Seq(Segments) /\ <<p>> # <<>>
        OBVIOUS
      <3> QED
        BY <2>1, <3>1, <3>2 DEF Targets
    <2>2. CASE r.paths # <<>>
      BY <1>2, <1>3, <1>4, <2>2, LenProperties DEF Targets, Fulls
    <2> QED
      BY <2>1, <2>2
  <1> QED
    BY <1>1, <1>3, <1>5

\* A call of the same catalogs and packages has picked the same.
LEMMA SamePicks ==
  ASSUME NEW d, NEW c, NEW e, Same(c, e)
  PROVE  /\ Picked(d, c) => Picked(d, e)
         /\ Cat(e) = Cat(c) /\ Selected(e) = Selected(c) /\ Goal(d, e) = Goal(d, c)
         /\ \A done : e.graphs = c.graphs => (Walked(d, e, done) <=> Walked(d, c, done))
  <1>1. Cat(e) = Cat(c) /\ Selected(e) = Selected(c) /\ Goal(d, e) = Goal(d, c)
    BY DEF Same, Cat, Selected, Goal
  <1>2. Picked(d, c) => Picked(d, e)
    BY DEF Same, Picked
  <1> QED
    BY <1>1, <1>2 DEF Walked

\* The package that was selected is a row at its path.
LEMMA PackageIsAtItsPath ==
  ASSUME NEW d, NEW c, GoodContent(d), Picked(d, c), One(c)
  PROVE  /\ At(d, Cat(c), {<<c.request.package>>}) = {Selected(c).graph}
         /\ \E row \in d.graphs : /\ row.catalog = Cat(c) /\ row.path = <<c.request.package>>
                                  /\ Selected(c).graph = GraphOf(d, row)
  <1>1. Selected(c) \in c.matches
    BY DEF One, Selected
  <1>2. Selected(c).graph \in At(d, Cat(c), {<<c.request.package>>})
    BY <1>1 DEF Picked, Cat
  <1>3. PICK row \in d.graphs : /\ row.catalog = Cat(c) /\ row.path = <<c.request.package>>
                                /\ Selected(c).graph = GraphOf(d, row)
    BY <1>2 DEF At
  <1>4. At(d, row.catalog, {row.path}) = {GraphOf(d, row)}
    BY AtItsPath
  <1> QED
    BY <1>3, <1>4

\* The next path is taken, or the graphs that were found are read, or none was found.
LEMMA NextPathExact ==
  ASSUME NEW d, GoodContent(d), NEW c, DOMAIN c = CallFields, One(c), Picked(d, c),
         c.step = "graphs", c.bundles = {}, c.result = <<>>,
         c.paths \in Seq(Seq(Segments) \ {<<>>}),
         NEW done, Walked(d, c, done), done \cup Fulls(c.request, c.paths) = Targets(c.request),
         NEW e, e = NextPath(c)
  PROVE  Exactly(d, e)
  <1> DEFINE package == Selected(c).graph
  <1>1. CASE c.paths # <<>>
    <2>1. PICK left, rest : left = Head(c.paths) /\ rest = Tail(c.paths)
      OBVIOUS
    <2>2. PICK w : w = [at |-> package, left |-> left]
      OBVIOUS
    <2>3. e = [c EXCEPT !.walk = w, !.paths = rest]
      BY <1>1, <2>1, <2>2 DEF NextPath
    <2>4. /\ Same(c, e) /\ e.step = "graphs" /\ e.walk = w /\ e.paths = rest /\ e.graphs = c.graphs
      BY <2>3 DEF Same, CallFields
    <2>5. /\ rest \in Seq(Seq(Segments) \ {<<>>}) /\ left \in Seq(Segments) \ {<<>>}
          /\ Fulls(c.request, c.paths) = {<<c.request.package>> \o left} \cup Fulls(c.request, rest)
      <3>1. PICK T : T = Seq(Segments) \ {<<>>}
        OBVIOUS
      <3>2. c.paths \in Seq(T)
        BY <3>1
      <3>3. left \in T /\ rest \in Seq(T)
        BY <1>1, <2>1, <3>2, HeadTailProperties
      <3>4. Fulls(c.request, c.paths) = {<<c.request.package>> \o left} \cup Fulls(c.request, rest)
        BY <1>1, <2>1, <3>2, FullsRest
      <3> QED
        BY <3>1, <3>3, <3>4
    <2>6. PICK row \in d.graphs : /\ row.catalog = Cat(c) /\ row.path = <<c.request.package>>
                                  /\ package = GraphOf(d, row)
      BY PackageIsAtItsPath
    <2>7. done \cup {row.path \o left} \cup Fulls(c.request, rest) = Targets(c.request)
      BY <2>5, <2>6
    <2>8. Picked(d, e) /\ Cat(e) = Cat(c) /\ Walked(d, e, done) /\ e.request = c.request
      BY <2>4, SamePicks DEF Same
    <2>9. e.walk.at = package /\ e.walk.left = left
      BY <2>2, <2>4
    <2>10. /\ Walked(d, e, done) /\ row.catalog = Cat(e) /\ e.walk.at = GraphOf(d, row)
           /\ done \cup {row.path \o e.walk.left} \cup Fulls(e.request, e.paths) = Targets(e.request)
      BY <2>4, <2>6, <2>7, <2>8, <2>9
    <2>11. Walking(d, e)
      BY <2>4, <2>5, <2>9, <2>10 DEF Walking
    <2> QED
      BY <2>4, <2>8, <2>11 DEF Exactly
  <1>2. CASE c.paths = <<>>
    <2>1. done = Targets(c.request)
      <3>1. Fulls(c.request, <<>>) = {}
        BY DEF Fulls
      <3> QED
        BY <1>2, <3>1
    <2>2. ToSet(c.graphs) = Goal(d, c)
      BY <2>1 DEF Walked, Goal
    <2>3. CASE c.graphs = <<>>
      <3>1. e = Done(c, "found")
        BY <1>2, <2>3 DEF NextPath
      <3>2. Same(c, e) /\ e.step = "done" /\ e.status = "found" /\ e.result = <<>>
        BY <3>1, DoneIs
      <3>3. Picked(d, e) /\ Goal(d, e) = {}
        <4>1. Goal(d, c) = {}
          BY <2>2, <2>3 DEF ToSet
        <4> QED
          BY <3>2, <4>1, SamePicks
      <3>4. Delivered(d, e)
        <4>1. ToSet(e.result) = {}
          BY <3>2 DEF ToSet
        <4>2. AskingAll(d, Goal(d, e), e.request) = {}
          BY <3>3 DEF AskingAll
        <4> QED
          BY <4>1, <4>2 DEF Delivered
      <3> QED
        BY <3>2, <3>3, <3>4 DEF Exactly
    <2>4. CASE c.graphs # <<>>
      <3>1. e = [c EXCEPT !.step = "bundles"]
        BY <1>2, <2>4 DEF NextPath
      <3>2. /\ Same(c, e) /\ e.step = "bundles" /\ e.graphs = c.graphs /\ e.bundles = {}
        BY <3>1 DEF Same, CallFields
      <3>3. Picked(d, e) /\ Goal(d, e) = Goal(d, c)
        BY <3>2, SamePicks
      <3>4. {} \cup ToSet(e.graphs) = Goal(d, e)
        BY <2>2, <3>2, <3>3
      <3>5. e.bundles = AskingAll(d, {}, e.request) \cup {}
        BY <3>2 DEF AskingAll
      <3>6. Reading(d, e)
        BY <3>2, <3>4, <3>5 DEF Reading
      <3> QED
        BY <3>2, <3>3, <3>6 DEF Exactly
    <2> QED
      BY <2>3, <2>4
  <1> QED
    BY <1>1, <1>2

\* selectGraphs of the package that was selected.
LEMMA SelectGraphsExact ==
  ASSUME NEW d, GoodContent(d), NamesGiven, NEW c, DOMAIN c = CallFields, One(c), Picked(d, c),
         c.step = "packages", c.graphs = <<>>, c.bundles = {}, c.result = <<>>,
         NEW e, e = SelectGraphs(c)
  PROVE  Exactly(d, e)
  <1>1. At(d, Cat(c), {<<c.request.package>>}) = {Selected(c).graph}
    BY PackageIsAtItsPath
  <1>2. CASE c.request.paths = <<>>
    <2>1. PICK graphs : graphs = <<Selected(c).graph>>
      OBVIOUS
    <2>2. e = [c EXCEPT !.step = "bundles", !.graphs = graphs]
      BY <1>2, <2>1 DEF SelectGraphs
    <2>3. Same(c, e) /\ e.step = "bundles" /\ e.graphs = graphs /\ e.bundles = {}
      BY <2>2 DEF Same, CallFields
    <2>4. Picked(d, e) /\ Goal(d, e) = Goal(d, c)
      BY <2>3, SamePicks
    <2>5. Goal(d, c) = {Selected(c).graph}
      BY <1>1, <1>2 DEF Goal, Targets
    <2>6. ToSet(graphs) = {Selected(c).graph}
      BY <2>1 DEF ToSet
    <2>7. {} \cup ToSet(e.graphs) = Goal(d, e)
      BY <2>3, <2>4, <2>5, <2>6
    <2>8. e.bundles = AskingAll(d, {}, e.request) \cup {}
      BY <2>3 DEF AskingAll
    <2>9. Reading(d, e)
      BY <2>3, <2>7, <2>8 DEF Reading
    <2> QED
      BY <2>3, <2>4, <2>9 DEF Exactly
  <1>3. CASE c.request.paths # <<>>
    <2>1. PICK f : f = [c EXCEPT !.step = "graphs", !.paths = c.request.paths]
      OBVIOUS
    <2>2. e = NextPath(f)
      BY <1>3, <2>1 DEF SelectGraphs
    <2>3. /\ Same(c, f) /\ f.step = "graphs" /\ f.graphs = <<>> /\ f.bundles = {} /\ f.result = <<>>
          /\ f.paths = c.request.paths
      <3>1. /\ DOMAIN f = CallFields
            /\ \A x \in CallFields \ {"step", "paths"} : f[x] = c[x]
            /\ "step" \in CallFields /\ "paths" \in CallFields
        BY <2>1 DEF CallFields
      <3>2. Same(c, f)
        BY <3>1, SearchGoesOn
      <3>3. f.step = "graphs" /\ f.paths = c.request.paths
        BY <2>1, <3>1
      <3>4. /\ "graphs" \in CallFields \ {"step", "paths"}
            /\ "bundles" \in CallFields \ {"step", "paths"}
            /\ "result" \in CallFields \ {"step", "paths"}
        BY DEF CallFields
      <3>5. f.graphs = c.graphs /\ f.bundles = c.bundles /\ f.result = c.result
        BY ONLY <3>1, <3>4
      <3> QED
        BY <3>2, <3>3, <3>5
    <2>4. Picked(d, f) /\ One(f) /\ f.request = c.request
      BY <2>3, SamePicks, SameKeeps DEF Same
    <2>5. f.paths \in Seq(Seq(Segments) \ {<<>>})
      BY <2>3, PathsGiven DEF Picked
    <2>6. {} \cup Fulls(f.request, f.paths) = Targets(f.request)
      BY <1>3, <2>3, <2>4 DEF Targets
    <2>7. Walked(d, f, {})
      BY <2>3, AtNone DEF Walked, ToSet
    <2>8. DOMAIN f = CallFields
      BY <2>3 DEF Same
    <2> HIDE DEF Picked
    <2> QED
      BY <2>2, <2>3, <2>4, <2>5, <2>6, <2>7, <2>8, NextPathExact
  <1> QED
    BY <1>2, <1>3

\* selectPackage, of what GetPackage of the catalog x gave.
LEMMA AskedExact ==
  ASSUME NEW d, GoodContent(d), NamesGiven, NEW c, DOMAIN c = CallFields, CallInv(d, c), Picked(d, c),
         c.step = "packages", NEW x \in TopGroup(c.left), NEW matches,
         \/ matches = c.matches
         \/ \E g : /\ matches = c.matches \cup {[catalog |-> x, graph |-> g]}
                   /\ Names(d, g) /\ g.catalog = x.name /\ x.name \in c.had,
         \A m \in matches : m.graph \in At(d, m.catalog.name, {<<c.request.package>>}),
         NEW e, e = Asked(c, x, matches)
  PROVE  Exactly(d, e)
  <1>1. PICK n : n = [c EXCEPT !.left = @ \ {x}, !.matches = matches]
    OBVIOUS
  <1>2. /\ DOMAIN n = CallFields /\ n.request = c.request
        /\ n.left = c.left \ {x} /\ n.matches = matches /\ n.step = "packages"
        /\ n.graphs = <<>> /\ n.bundles = {} /\ n.result = <<>>
        /\ ~(\E y \in n.left : y.priority = x.priority) /\ matches # {} /\ ~(Cardinality(matches) > 1)
             => One(n)
    <2>1. TakenOut(d, c, x, matches, n)
      BY <1>1, AskedNext
    <2> QED
      BY <2>1 DEF TakenOut
  <1>3. Picked(d, n)
    BY <1>2 DEF Picked
  <1>4. CASE e = n
    BY <1>2, <1>3, <1>4 DEF Exactly
  <1>5. ASSUME NEW status \in {"ambiguous", "none"}, e = Done(n, status)
        PROVE  Exactly(d, e)
    <2>1. Same(n, e) /\ e.step = "done" /\ e.status = status
      BY <1>2, <1>5, DoneIs
    <2>2. Picked(d, e)
      BY <1>3, <2>1, SamePicks
    <2> QED
      BY <2>1, <2>2 DEF Exactly
  <1>6. ASSUME e = SelectGraphs(n), One(n)
        PROVE  Exactly(d, e)
    BY <1>2, <1>3, <1>6, SelectGraphsExact
  <1> QED
    BY <1>1, <1>2, <1>4, <1>5, <1>6 DEF Asked

-----------------------------------------------------------------------------
(***************************************************************************)
(* What is read.                                                           *)
(***************************************************************************)
LEMMA AskedAreBundles ==
  ASSUME NEW d, NEW graphs, NEW g, NEW r
  PROVE  AskingAll(d, graphs, r) \cup OfEdges(d, g, r) \subseteq d.bundles
  <1>1. \A x : Asking(d, x, r) \subseteq d.bundles
    BY DEF Asking, ListBundles, OfEdges, OfRanges, RangesOf, RangeRows
  <1> QED
    BY <1>1 DEF AskingAll, OfEdges

\* What is yielded for one more graph is added, where it is not there already.
LEMMA CollectAdds ==
  ASSUME NEW d, GoodContent(d), OneImport(d), NEW c, NEW seen, Collection(c, seen),
         seen \subseteq d.bundles, NEW graph, Names(d, graph), Of(c, graph),
         NEW rows, \A b \in rows : InCatalogOf(d, graph, b)
  PROVE  Collect(seen, rows) = seen \cup rows
  <1>1. Collection(c, rows)
    BY FoundCollection
  <1>2. ASSUME NEW b \in rows, NEW s \in seen, s.bundle = b.bundle
        PROVE  s = b
    <2>1. s.catalog = b.catalog
      BY <1>1 DEF Collection, Of
    <2>2. s \in d.bundles /\ b \in d.bundles
      BY DEF InCatalogOf
    <2> QED
      BY <1>2, <2>1, <2>2 DEF GoodContent, BundleKeys
  <1> QED
    BY <1>2 DEF Collect

\* The scalar subquery has one row where one bundle has the ID.
LEMMA FromTheOne ==
  ASSUME NEW d, GoodContent(d), NEW r, Unshared(d, r), r.from # None,
         NEW from \in FromIds(d, r.from.bundle), NEW g
  PROVE  EdgesFrom(d, g, from) = OfEdges(d, g, r)
  <1> DEFINE X == {b \in d.bundles : b.bundle = r.from.bundle}
  <1>1. IsFiniteSet(X) /\ Cardinality(X) \in Nat /\ Cardinality(X) < 2
    BY FS_Subset, FS_CardinalityType DEF GoodContent, Shape, Unshared
  <1>2. X = {} \/ \E b : X = {b}
    <2>1. Cardinality(X) = 0 \/ Cardinality(X) = 1
      BY <1>1
    <2> QED
      BY <1>1, <2>1, FS_EmptySet, FS_Singleton
  <1>3. FromIds(d, r.from.bundle) = {from}
    <2> DEFINE ids == {x.id : x \in X}
    <2>1. FromIds(d, r.from.bundle) = IF ids = {} THEN {None} ELSE ids
      BY DEF FromIds
    <2>2. ids = {} \/ \E i : ids = {i}
      BY <1>2
    <2> HIDE DEF ids
    <2> QED
      BY <2>1, <2>2
  <1>4. \A f \in FromIds(d, r.from.bundle) : EdgesFrom(d, g, f) \subseteq d.bundles
    BY DEF EdgesFrom
  <1> QED
    BY <1>3, <1>4 DEF OfEdges

\* A sequence of the bundles, each once, has all of them.
LEMMA SortedHasAll ==
  ASSUME NEW S, IsFiniteSet(S), NEW r, NEW s \in Sorted(r, S)
  PROVE  ToSet(s) = S
  <1>1. PICK n \in Nat : n = Cardinality(S)
    BY FS_CardinalityType
  <1>2. s \in [1 .. n -> S] /\ \A i, j \in 1 .. n : i # j => s[i] # s[j]
    BY <1>1 DEF Sorted, SetToSeqs
  <1>3. s \in Injection(1 .. n, S)
    BY <1>2 DEF Injection, IsInjective
  <1>4. IsFiniteSet(1 .. n) /\ Cardinality(1 .. n) = Cardinality(S)
    <2>1. IsFiniteSet(1 .. n) /\ Cardinality(1 .. n) = IF 1 > n THEN 0 ELSE n - 1 + 1
      BY FS_Interval
    <2> QED
      BY <1>1, <2>1
  <1>5. s \in Surjection(1 .. n, S)
    BY <1>3, <1>4, FS_Injection
  <1>6. DOMAIN s = 1 .. n /\ \A x \in S : \E i \in 1 .. n : s[i] = x
    BY <1>2, <1>5 DEF Surjection
  <1> QED
    BY <1>2, <1>6 DEF ToSet

\* When a graph has been read: the next one, or the result.
LEMMA CollectedExact ==
  ASSUME NEW d, GoodContent(d), NEW c, DOMAIN c = CallFields, Picked(d, c),
         c.step \in {"bundles", "ranges"}, c.result = <<>>,
         NEW read, read \cup ToSet(c.graphs) = Goal(d, c),
         Unshared(d, c.request) => c.bundles = AskingAll(d, read, c.request),
         NEW e \in Collected(c)
  PROVE  Exactly(d, e)
  <1>1. CASE c.graphs # <<>>
    <2>1. e = [c EXCEPT !.step = "bundles"]
      BY <1>1 DEF Collected
    <2>2. Same(c, e) /\ e.step = "bundles" /\ e.graphs = c.graphs /\ e.bundles = c.bundles
      BY <2>1 DEF Same, CallFields
    <2>3. Picked(d, e) /\ Goal(d, e) = Goal(d, c) /\ e.request = c.request
      BY <2>2, SamePicks DEF Same
    <2>4. /\ read \cup ToSet(e.graphs) = Goal(d, e)
          /\ Unshared(d, e.request) => e.bundles = AskingAll(d, read, e.request) \cup {}
      BY <2>2, <2>3
    <2>5. Reading(d, e)
      BY <2>2, <2>4 DEF Reading
    <2> QED
      BY <2>2, <2>3, <2>5 DEF Exactly
  <1>2. CASE c.graphs = <<>>
    <2>1. PICK kept : kept = {b \in c.bundles : VersionOf(b).version \in c.request.allowed}
      OBVIOUS
    <2>2. PICK s \in Sorted(c.request, kept) : e = Done([c EXCEPT !.result = s], "found")
      BY <1>2, <2>1 DEF Collected
    <2>3. PICK f : f = [c EXCEPT !.result = s]
      OBVIOUS
    <2>4. DOMAIN f = CallFields /\ Same(c, f) /\ f.result = s
      BY <2>3 DEF Same, CallFields
    <2>5. e = Done(f, "found")
      BY <2>2, <2>3
    <2>6. Same(f, e) /\ e.step = "done" /\ e.status = "found" /\ e.result = s
      BY <2>4, <2>5, DoneIs
    <2>7. Same(c, e)
      BY <2>4, <2>6 DEF Same
    <2>8. Picked(d, e) /\ Goal(d, e) = Goal(d, c) /\ e.request = c.request
      BY <2>7, SamePicks DEF Same
    <2>9. read = Goal(d, c)
      <3>1. ToSet(<<>>) = {}
        BY DEF ToSet
      <3> QED
        BY <1>2, <3>1
    <2>10. ASSUME Unshared(d, c.request)
           PROVE  ToSet(s) = {b \in AskingAll(d, Goal(d, c), c.request) :
                                VersionOf(b).version \in c.request.allowed}
      <3>1. c.bundles = AskingAll(d, Goal(d, c), c.request)
        BY <2>9, <2>10
      <3>2. IsFiniteSet(kept)
        <4>1. AskingAll(d, Goal(d, c), c.request) \subseteq d.bundles
          BY AskedAreBundles
        <4>2. kept \subseteq d.bundles
          BY <2>1, <3>1, <4>1
        <4> QED
          BY <4>2, FS_Subset DEF GoodContent, Shape
      <3>3. ToSet(s) = kept
        BY <2>2, <3>2, SortedHasAll
      <3> QED
        BY <2>1, <3>1, <3>3
    <2>11. Delivered(d, e)
      BY <2>6, <2>8, <2>10 DEF Delivered
    <2> QED
      BY <2>6, <2>8, <2>11 DEF Exactly
  <1> QED
    BY <1>1, <1>2

-----------------------------------------------------------------------------
(***************************************************************************)
(* Exactness is inductive.                                                 *)
(***************************************************************************)
LEMMA InitExactInv == Init => ExactInv
  BY DEF Init, Idle, ExactInv, Still

\* A commit leaves nothing to be exact about.
LEMMA CommitExact ==
  ASSUME ExactInv, ResolveInv, NEW d, Commit(d)
  PROVE  ExactInv'
  <1>1. call' = Witness(d) /\ commits' = commits + 1
    BY DEF Commit
  <1>2. call'.since = call.since /\ call'.step = call.step
    <2>1. DOMAIN call = CallFields /\ "since" \in CallFields /\ "step" \in CallFields
      BY DEF ResolveInv, CallFields
    <2>2. CASE call.step = "idle"
      BY <1>1, <2>2 DEF Witness
    <2>3. CASE call.step # "idle"
      BY <1>1, <2>1, <2>3 DEF Witness
    <2> QED
      BY <2>2, <2>3
  <1>3. commits' \in Nat /\ call'.since \in Nat /\ call'.since < commits'
    BY <1>1, <1>2 DEF ExactInv
  <1> QED
    BY <1>3 DEF ExactInv, Still

\* A read that goes on with the call.
LEMMA ReadExact ==
  ASSUME ExactInv, Read(call'), call.step # "idle",
         call'.request = call.request, call'.listed = call.listed, call'.lacked = call.lacked,
         call'.had = call.had, call'.since = call.since, call'.faulty = call.faulty,
         Still => Exactly(db, call')
  PROVE  ExactInv'
  <1>1. db' = db /\ priority' = priority /\ commits' = commits
    BY DEF Read
  <1>2. Still' => Still
    BY <1>1 DEF Still
  <1>3. Unmoved => Unmoved'
    BY <1>1 DEF Unmoved, Listed
  <1>4. Exactly(db, call') <=> Exactly(db', call')
    BY <1>1
  <1> QED
    BY <1>1, <1>2, <1>3, <1>4 DEF ExactInv

LEMMA SearchExact ==
  ASSUME ExactInv, Live(call), Read(call'), Searched(db, call, call'), Still => Exactly(db, call')
  PROVE  ExactInv'
  <1>1. Same(call, call') /\ call'.faulty = call.faulty /\ call.step # "idle"
    BY DEF Searched, Live
  <1> QED
    BY <1>1, ReadExact DEF Same

\* A call with a read that failed is not spoken of.
LEMMA FaultExact ==
  ASSUME ExactInv, NEW c, DOMAIN c = CallFields, c.since \in Nat, c.since <= commits, Fault(c)
  PROVE  ExactInv'
  <1>1. call' = [c EXCEPT !.faulty = TRUE] /\ commits' = commits
    BY DEF Fault
  <1>2. call'.faulty = TRUE /\ call'.since = c.since
    BY <1>1 DEF CallFields
  <1> QED
    BY <1>1, <1>2 DEF ExactInv, Still

LEMMA ListExact ==
  ASSUME ExactInv, NEW r \in Requests, List(r)
  PROVE  ExactInv'
  <1> DEFINE left == {[name |-> c, priority |-> priority[c]] : c \in Listed}
             having == Having(db, r.package)
  <1>1. PICK c : c = [Idle EXCEPT !.request = r, !.step = "packages", !.listed = left,
                                  !.left = left, !.since = commits,
                                  !.lacked = Catalogs \ having, !.had = having]
    OBVIOUS
  <1>2. Read(IF left = {} THEN Done(c, "none") ELSE c)
    BY <1>1 DEF List
  <1> HIDE DEF left, having
  <1>3. /\ DOMAIN c = CallFields /\ c.request = r /\ c.step = "packages" /\ c.listed = left
        /\ c.lacked = Catalogs \ having /\ c.had = having /\ c.matches = {} /\ c.since = commits
    BY <1>1 DEF Idle, CallFields
  <1>4. PICK e : e = call'
    OBVIOUS
  <1>5. Same(c, e) /\ (e.step = "packages" \/ (e.step = "done" /\ e.status = "none"))
    <2>1. CASE left = {}
      <3>1. e = Done(c, "none")
        BY <1>2, <1>4, <2>1 DEF Read
      <3> QED
        BY <1>3, <3>1, DoneIs
    <2>2. CASE left # {}
      <3>1. e = c
        BY <1>2, <1>4, <2>2 DEF Read
      <3> QED
        BY <1>3, <3>1 DEF Same
    <2> QED
      BY <2>1, <2>2
  <1>6. db' = db /\ priority' = priority /\ commits' = commits
    BY <1>2 DEF Read
  <1>7. /\ e.request = r /\ e.listed = left /\ e.lacked = Catalogs \ having /\ e.had = having
        /\ e.matches = {} /\ e.since = commits
    BY <1>3, <1>5 DEF Same
  <1>8. Unmoved'
    BY <1>4, <1>6, <1>7 DEF Unmoved, Listed, left, having
  <1>9. Exactly(db', call')
    BY <1>4, <1>5, <1>7 DEF Exactly, Picked
  <1>10. commits' \in Nat /\ call'.since \in Nat /\ call'.since <= commits'
    BY <1>4, <1>6, <1>7 DEF ExactInv
  <1> QED
    BY <1>8, <1>9, <1>10 DEF ExactInv

\* selectPackage goes on with the package at its path, or with none.
LEMMA GetPackageExact ==
  ASSUME ResolveInv, ExactInv, NamesGiven, NEW x, GetPackage(x)
  PROVE  ExactInv'
  <1> DEFINE rows == Named(Packages(db, x.name), call.request.package)
  <1>1. call.step = "packages" /\ x \in TopGroup(call.left)
    BY DEF GetPackage
  <1>2. x.name \in Catalogs /\ Live(call)
    BY <1>1 DEF Live, ResolveInv, CallInv, Groups, TopGroup
  <1>3. \E matches :
          /\ \/ matches = call.matches
             \/ \E g : /\ matches = call.matches \cup {[catalog |-> x, graph |-> g]}
                       /\ Names(db, g) /\ g.catalog = x.name /\ x.name \in call.had
          /\ Still => \A m \in matches : m.graph \in At(db, m.catalog.name, {<<call.request.package>>})
          /\ Read(Asked(call, x, matches))
    <2>1. Still => \A m \in call.matches : m.graph \in At(db, m.catalog.name, {<<call.request.package>>})
      BY DEF ExactInv, Exactly, Picked
    <2>2. CASE Read(Asked(call, x, call.matches))
      BY <2>1, <2>2
    <2>3. ASSUME NEW row \in rows,
                 Read(Asked(call, x, call.matches \cup {[catalog |-> x, graph |-> GraphOf(db, row)]}))
          PROVE  \E matches :
                   /\ \/ matches = call.matches
                      \/ \E g : /\ matches = call.matches \cup {[catalog |-> x, graph |-> g]}
                                /\ Names(db, g) /\ g.catalog = x.name /\ x.name \in call.had
                   /\ Still => \A m \in matches :
                                m.graph \in At(db, m.catalog.name, {<<call.request.package>>})
                   /\ Read(Asked(call, x, matches))
      <3>1. row \in db.graphs /\ row.catalog = x.name
        BY DEF Named, Packages
      <3>2. PICK g : g = GraphOf(db, row)
        OBVIOUS
      <3>3. Names(db, g) /\ g.catalog = x.name
        BY <3>1, <3>2, HoldsWhatItNames DEF ResolveInv, GraphOf
      <3>4. x.name \in call.had
        BY <1>2 DEF ResolveInv, Witnessed, Having
      <3>5. PICK new : new = [catalog |-> x, graph |-> g]
        OBVIOUS
      <3>6. new.catalog = x /\ new.graph = g
        BY <3>5
      <3>7. PICK matches : matches = call.matches \cup {new}
        OBVIOUS
      <3>8. Read(Asked(call, x, matches))
        BY <2>3, <3>2, <3>5, <3>7
      <3>9. ASSUME Still
            PROVE  g \in At(db, x.name, {<<call.request.package>>})
        <4>1. PICK name \in Segments : name = call.request.package
          BY <3>9, PathsGiven DEF ExactInv, Exactly, Picked
        <4>2. row \in GraphAt(db, x.name, <<name>>)
          <5>1. Named(Packages(db, x.name), name) = GraphAt(db, x.name, <<name>>)
            BY PackageByPath DEF ResolveInv
          <5> QED
            BY <4>1, <5>1
        <4> QED
          BY <3>2, <4>1, <4>2 DEF At, GraphAt
      <3>10. Still => \A m \in matches : m.graph \in At(db, m.catalog.name, {<<call.request.package>>})
        BY <2>1, <3>6, <3>7, <3>9
      <3> HIDE DEF rows
      <3> QED
        BY <3>3, <3>4, <3>5, <3>7, <3>8, <3>10
    <2> QED
      BY <2>2, <2>3 DEF GetPackage
  <1>4. PICK matches :
          /\ \/ matches = call.matches
             \/ \E g : /\ matches = call.matches \cup {[catalog |-> x, graph |-> g]}
                       /\ Names(db, g) /\ g.catalog = x.name /\ x.name \in call.had
          /\ Still => \A m \in matches : m.graph \in At(db, m.catalog.name, {<<call.request.package>>})
          /\ Read(Asked(call, x, matches))
    BY <1>3
  <1>5. PICK d : d = db
    OBVIOUS
  <1>6. PICK c : c = call
    OBVIOUS
  <1>7. PICK e : e = call'
    OBVIOUS
  <1>8. e = Asked(c, x, matches) /\ Read(e)
    BY <1>4, <1>6, <1>7 DEF Read
  <1>9. GoodContent(d) /\ DOMAIN c = CallFields /\ CallInv(d, c) /\ Witnessed(d, c)
    BY <1>2, <1>5, <1>6 DEF ResolveInv
  <1>10. /\ e.faulty = c.faulty /\ e.request = c.request /\ e.listed = c.listed
         /\ e.lacked = c.lacked /\ e.had = c.had /\ e.since = c.since
    BY <1>1, <1>4, <1>5, <1>6, <1>8, <1>9, AskedKeeps
  <1>11. ASSUME Still
         PROVE  Exactly(d, e)
    <2>1. /\ Picked(d, c)
          /\ \A m \in matches : m.graph \in At(d, m.catalog.name, {<<c.request.package>>})
      BY <1>4, <1>5, <1>6, <1>11 DEF ExactInv, Exactly
    <2> HIDE DEF rows, Still
    <2> QED
      BY <1>1, <1>4, <1>5, <1>6, <1>8, <1>9, <2>1, AskedExact
  <1> QED
    BY <1>1, <1>5, <1>6, <1>7, <1>8, <1>10, <1>11, ReadExact

LEMMA FaultsExact ==
  ASSUME ResolveInv, ExactInv,
         (\E x : GetPackageFails(x)) \/ GetGraphFails \/ ReadFails
  PROVE  ExactInv'
  <1>1. PICK d, c : d = db /\ c = call
    OBVIOUS
  <1>2. DOMAIN c = CallFields /\ (Live(c) => CallInv(d, c) /\ Witnessed(d, c))
        /\ c.since \in Nat /\ c.since <= commits
    BY <1>1 DEF ResolveInv, ExactInv
  <1>3. ASSUME NEW x, GetPackageFails(x)
        PROVE  ExactInv'
    <2>1. PICK e : e = Asked(c, x, c.matches)
      OBVIOUS
    <2>2. c.step = "packages" /\ x \in TopGroup(c.left) /\ Fault(e)
      BY <1>1, <1>3, <2>1 DEF GetPackageFails
    <2>3. DOMAIN e = CallFields /\ e.since = c.since
      BY <1>2, <2>1, <2>2, AskedKeeps DEF Live
    <2> QED
      BY <1>2, <2>2, <2>3, FaultExact
  <1>4. CASE GetGraphFails
    <2>1. PICK e : e = NextPath(c)
      OBVIOUS
    <2>2. c.step = "graphs" /\ Fault(e)
      BY <1>1, <1>4, <2>1 DEF GetGraphFails
    <2>3. Matches(d, c) /\ One(c) /\ Held(d, c, c.graphs) /\ c.bundles = {} /\ c.result = <<>>
      BY <1>2, <2>2 DEF Live, CallInv, Progress, Search, Searching
    <2>4. Same(c, e)
      BY <1>2, <2>1, <2>2, <2>3, NextPathKeeps DEF Searched
    <2>5. DOMAIN e = CallFields /\ e.since = c.since
      BY <2>4 DEF Same
    <2> QED
      BY <1>2, <2>2, <2>5, FaultExact
  <1>5. CASE ReadFails
    <2>1. PICK e : e = Done(c, "error")
      OBVIOUS
    <2>2. Fault(e)
      BY <1>1, <1>5, <2>1 DEF ReadFails
    <2>3. Same(c, e)
      BY <1>2, <2>1, DoneIs
    <2>4. DOMAIN e = CallFields /\ e.since = c.since
      BY <2>3 DEF Same
    <2> QED
      BY <1>2, <2>2, <2>4, FaultExact
  <1> QED
    BY <1>3, <1>4, <1>5

\* A path whose next name is taken.
LEMMA NameTaken ==
  ASSUME NEW S, NEW a \in Seq(S), NEW left \in Seq(S), left # <<>>,
         NEW name, name = Head(left), NEW rest, rest = Tail(left), NEW path, path = a \o <<name>>
  PROVE  /\ rest \in Seq(S) /\ a \o left = path \o rest
         /\ Len(left) = 1 => a \o left = path
         /\ Len(left) # 1 => rest # <<>>
  <1>1. rest \in Seq(S) /\ (Len(left) # 1 => rest # <<>>)
    BY PathParts
  <1>2. a \o left = path \o rest
    <2>1. a \o left = (a \o <<Head(left)>>) \o Tail(left)
      BY PathParts
    <2> QED
      BY <2>1
  <1>3. Len(left) = 1 => a \o left = path
    BY LastName
  <1> QED
    BY <1>1, <1>2, <1>3

\* walkPath, where no child has the next name, and where one has.
LEMMA BlockedExact ==
  ASSUME NEW d, GoodContent(d), NEW c, DOMAIN c = CallFields, One(c), Picked(d, c), Walking(d, c),
         c.step = "graphs", c.bundles = {}, c.result = <<>>,
         c.walk.at.composite => Named(SubGraphs(d, c.walk.at), Head(c.walk.left)) = {},
         NEW e, e = NextPath(c)
  PROVE  Exactly(d, e)
  <1>1. PICK left : left = c.walk.left /\ left \in Seq(Segments) /\ left # <<>>
    BY DEF Walking
  <1>2. PICK done, row :
          /\ Walked(d, c, done)
          /\ row \in d.graphs /\ row.catalog = Cat(c) /\ c.walk.at = GraphOf(d, row)
          /\ done \cup {row.path \o left} \cup Fulls(c.request, c.paths) = Targets(c.request)
    BY <1>1 DEF Walking
  <1>3. Named(ChildrenOf(d, {row.id}), Head(left)) = {}
    <2>1. c.walk.at.composite = (ChildrenOf(d, {row.id}) # {}) /\ c.walk.at.id = row.id
      BY <1>2 DEF GraphOf
    <2>2. CASE ChildrenOf(d, {row.id}) = {}
      BY <2>2 DEF Named
    <2>3. CASE ChildrenOf(d, {row.id}) # {}
      BY <1>1, <2>1, <2>3 DEF SubGraphs
    <2> QED
      BY <2>2, <2>3
  <1>4. At(d, Cat(c), {row.path \o left}) = {}
    BY <1>1, <1>2, <1>3, WayIsBlocked
  <1>5. PICK next : next = done \cup {row.path \o left}
    OBVIOUS
  <1>6. Walked(d, c, next)
    <2>1. PICK cat, end : cat = Cat(c) /\ end = {row.path \o left}
      OBVIOUS
    <2>2. next = done \cup end
      BY <1>5, <2>1
    <2>3. At(d, cat, next) = At(d, cat, done) \cup At(d, cat, end)
      BY ONLY <2>2, AtPaths
    <2> QED
      BY <1>2, <1>4, <2>1, <2>3 DEF Walked
  <1>7. next \cup Fulls(c.request, c.paths) = Targets(c.request)
    BY <1>2, <1>5
  <1>8. c.paths \in Seq(Seq(Segments) \ {<<>>})
    BY DEF Walking
  <1> QED
    BY <1>6, <1>7, <1>8, NextPathExact

LEMMA ArrivedExact ==
  ASSUME NEW d, GoodContent(d), NEW c, DOMAIN c = CallFields, One(c), Picked(d, c), Walking(d, c),
         c.step = "graphs", c.bundles = {}, c.result = <<>>, Held(d, c, c.graphs),
         NEW child \in Named(SubGraphs(d, c.walk.at), Head(c.walk.left)),
         NEW e, NEW g, g = GraphOf(d, child),
         e = IF Len(c.walk.left) = 1
             THEN NextPath([c EXCEPT !.graphs = Append(@, g)])
             ELSE [c EXCEPT !.walk = [at |-> g, left |-> Tail(c.walk.left)]]
  PROVE  Exactly(d, e)
  <1>1. PICK left : left = c.walk.left /\ left \in Seq(Segments) /\ left # <<>>
    BY DEF Walking
  <1>2. PICK done, row :
          /\ Walked(d, c, done)
          /\ row \in d.graphs /\ row.catalog = Cat(c) /\ c.walk.at = GraphOf(d, row)
          /\ done \cup {row.path \o left} \cup Fulls(c.request, c.paths) = Targets(c.request)
    BY <1>1 DEF Walking
  <1>3. PICK name \in Segments : name = Head(left)
    BY <1>1, PathParts
  <1>4. row.path \in Seq(Segments)
    BY <1>2 DEF GoodContent, Placed
  <1>5. child \in d.graphs /\ child.catalog = Cat(c) /\ child.path = row.path \o <<name>>
    <2>1. SubGraphs(d, c.walk.at) = ChildrenOf(d, {row.id})
      BY <1>2 DEF SubGraphs, GraphOf
    <2>2. child \in Named(ChildrenOf(d, {row.id}), name)
      BY <1>1, <1>3, <2>1
    <2>3. child \in GraphAt(d, Cat(c), row.path \o <<name>>)
      BY <1>2, <2>2, ChildByPath
    <2> QED
      BY <2>3 DEF GraphAt
  <1>6. c.paths \in Seq(Seq(Segments) \ {<<>>})
    BY DEF Walking
  <1> DEFINE rest == Tail(left)
  <1>7. /\ rest \in Seq(Segments) /\ row.path \o left = child.path \o rest
        /\ Len(left) = 1 => row.path \o left = child.path
        /\ Len(left) # 1 => rest # <<>>
    <2>1. PICK a : a = row.path
      OBVIOUS
    <2>2. a \in Seq(Segments)
      BY <1>4, <2>1
    <2>3. PICK path : path = child.path
      OBVIOUS
    <2>4. path = a \o <<name>>
      BY <1>5, <2>1, <2>3
    <2>5. left \in Seq(Segments) /\ left # <<>> /\ name = Head(left)
      BY <1>1, <1>3
    <2> HIDE DEF rest
    <2>6. PICK t : t = Tail(left)
      OBVIOUS
    <2>7. t \in Seq(Segments) /\ (Len(left) # 1 => t # <<>>)
      <3>1. Tail(left) \in Seq(Segments)
        BY ONLY <2>2, <2>5, PathParts
      <3>2. Len(left) # 1 => Tail(left) # <<>>
        BY ONLY <2>2, <2>5, PathParts
      <3> QED
        BY <2>6, <3>1, <3>2
    <2>8. a \o left = path \o t
      BY ONLY <2>2, <2>4, <2>5, <2>6, NameTaken
    <2>9. Len(left) = 1 => a \o left = path
      BY ONLY <2>2, <2>4, <2>5, <2>6, NameTaken
    <2> QED
      BY <2>1, <2>3, <2>6, <2>7, <2>8, <2>9 DEF rest
  <1> HIDE DEF rest
  <1>8. CASE Len(left) = 1
    <2>1. row.path \o left = child.path
      BY <1>8, <1>7
    <2>2. PICK graphs : graphs = Append(c.graphs, g)
      OBVIOUS
    <2>3. PICK f : f = [c EXCEPT !.graphs = graphs]
      OBVIOUS
    <2>4. /\ DOMAIN f = CallFields /\ Same(c, f) /\ f.step = "graphs" /\ f.graphs = graphs
          /\ f.bundles = {} /\ f.result = <<>> /\ f.paths = c.paths
      BY <2>3 DEF Same, CallFields
    <2>5. e = NextPath(f)
      BY <1>1, <1>8, <2>2, <2>3
    <2>6. Picked(d, f) /\ One(f) /\ Cat(f) = Cat(c) /\ f.request = c.request
      BY <2>4, SamePicks, SameKeeps DEF Same
    <2>7. ToSet(graphs) = ToSet(c.graphs) \cup {g}
      <3>1. PICK S : S = ToSet(c.graphs) \cup {g}
        OBVIOUS
      <3>2. c.graphs \in Seq(ToSet(c.graphs))
        BY HeldIsList
      <3>3. c.graphs \in Seq(S) /\ g \in S
        BY <3>1, <3>2
      <3> QED
        BY <2>2, <3>3, ListElements
    <2>8. At(d, Cat(c), {child.path}) = {g}
      BY <1>5, AtItsPath
    <2>9. PICK next : next = done \cup {row.path \o left}
      OBVIOUS
    <2>10. Walked(d, f, next)
      <3>1. ToSet(graphs) = At(d, Cat(c), next)
        <4>1. PICK cat : cat = Cat(c)
          OBVIOUS
        <4>2. At(d, cat, next) = At(d, cat, done) \cup At(d, cat, {child.path})
          BY ONLY <2>1, <2>9, AtPaths
        <4> QED
          BY <1>2, <2>7, <2>8, <4>1, <4>2 DEF Walked
      <3> QED
        BY <2>4, <2>6, <3>1 DEF Walked
    <2>11. next \cup Fulls(f.request, f.paths) = Targets(f.request)
      BY <1>2, <2>4, <2>6, <2>9
    <2>12. f.paths \in Seq(Seq(Segments) \ {<<>>})
      BY <1>6, <2>4
    <2> QED
      BY <2>4, <2>5, <2>6, <2>10, <2>11, <2>12, NextPathExact
  <1>9. CASE Len(left) # 1
    <2>1. /\ rest \in Seq(Segments) \ {<<>>}
          /\ row.path \o left = child.path \o rest
      BY <1>9, <1>7
    <2>2. PICK w : w = [at |-> g, left |-> rest]
      OBVIOUS
    <2>3. e = [c EXCEPT !.walk = w]
      BY <1>1, <1>9, <2>2 DEF rest
    <2>4. /\ Same(c, e) /\ e.step = "graphs" /\ e.walk = w /\ e.paths = c.paths /\ e.graphs = c.graphs
      BY <2>3 DEF Same, CallFields
    <2>5. Picked(d, e) /\ Cat(e) = Cat(c) /\ Walked(d, e, done) /\ e.request = c.request
      BY <1>2, <2>4, SamePicks DEF Same
    <2>6. e.walk.at = g /\ e.walk.left = rest
      BY <2>2, <2>4
    <2>7. done \cup {child.path \o e.walk.left} \cup Fulls(e.request, e.paths) = Targets(e.request)
      BY <1>2, <2>1, <2>4, <2>5, <2>6
    <2>8. Walking(d, e)
      <3>1. e.paths \in Seq(Seq(Segments) \ {<<>>})
        BY <1>6, <2>4
      <3>2. e.walk.left \in Seq(Segments) \ {<<>>}
        BY <2>1, <2>6
      <3>3. child \in d.graphs /\ child.catalog = Cat(e) /\ e.walk.at = GraphOf(d, child)
        BY <1>5, <2>5, <2>6
      <3> QED
        BY <2>5, <2>7, <3>1, <3>2, <3>3 DEF Walking
    <2> QED
      BY <2>4, <2>5, <2>8 DEF Exactly
  <1> QED
    BY <1>8, <1>9

LEMMA GetGraphExact ==
  ASSUME ResolveInv, ExactInv, GetGraph
  PROVE  ExactInv'
  <1>1. PICK d, c : d = db /\ c = call
    OBVIOUS
  <1>2. PICK e : e = call'
    OBVIOUS
  <1>3. c.step = "graphs" /\ Live(call)
    BY <1>1 DEF GetGraph, Live
  <1>4. Live(call) /\ Read(call') /\ Searched(db, call, call')
    BY GetGraphSearches
  <1>5. ASSUME Still
        PROVE  Exactly(d, e)
    <2>1. GoodContent(d) /\ DOMAIN c = CallFields /\ CallInv(d, c) /\ Exactly(d, c)
      BY <1>1, <1>3, <1>5 DEF ResolveInv, ExactInv
    <2>2. /\ One(c) /\ Held(d, c, c.graphs) /\ c.bundles = {} /\ c.result = <<>>
          /\ Picked(d, c) /\ Walking(d, c)
      BY <1>3, <2>1 DEF CallInv, Progress, Search, Searching, Exactly
    <2>3. CASE /\ c.walk.at.composite => Named(SubGraphs(d, c.walk.at), Head(c.walk.left)) = {}
               /\ e = NextPath(c)
      BY <1>3, <2>1, <2>2, <2>3, BlockedExact
    <2>4. ASSUME NEW child \in Named(SubGraphs(d, c.walk.at), Head(c.walk.left)), e = Arrived(c, child)
          PROVE  Exactly(d, e)
      <3>1. PICK g : g = GraphOf(d, child)
        OBVIOUS
      <3>2. e = IF Len(c.walk.left) = 1
                THEN NextPath([c EXCEPT !.graphs = Append(@, g)])
                ELSE [c EXCEPT !.walk = [at |-> g, left |-> Tail(c.walk.left)]]
        BY <1>1, <2>4, <3>1 DEF Arrived
      <3> QED
        BY <1>3, <2>1, <2>2, <3>1, <3>2, ArrivedExact
    <2>5. \/ /\ c.walk.at.composite => Named(SubGraphs(d, c.walk.at), Head(c.walk.left)) = {}
             /\ e = NextPath(c)
          \/ \E child \in Named(SubGraphs(d, c.walk.at), Head(c.walk.left)) : e = Arrived(c, child)
      <3>1. PICK rows : rows = IF c.walk.at.composite
                               THEN Named(SubGraphs(d, c.walk.at), Head(c.walk.left)) ELSE {}
        OBVIOUS
      <3>2. \/ rows = {} /\ e = NextPath(c)
            \/ \E row \in rows : e = Arrived(c, row)
        BY <1>1, <1>2, <3>1 DEF GetGraph, Read
      <3> QED
        BY <3>1, <3>2
    <2> QED
      BY <2>3, <2>4, <2>5
  <1> QED
    BY <1>1, <1>2, <1>4, <1>5, SearchExact

\* The rows of a query that ends the reading of the graph.
LEMMA CollectRowsExact ==
  ASSUME NEW d, GoodContent(d), OneImport(d), NEW c, DOMAIN c = CallFields, Picked(d, c), Reading(d, c),
         c.step \in {"bundles", "ranges"}, c.result = <<>>, c.graphs # <<>>,
         Held(d, c, c.graphs), Collection(c, c.bundles),
         NEW rows, \A b \in rows : InCatalogOf(d, Head(c.graphs), b),
         Unshared(d, c.request) =>
           Asking(d, Head(c.graphs), c.request) =
             rows \cup IF c.step = "ranges" THEN OfEdges(d, Head(c.graphs), c.request) ELSE {},
         NEW e \in Collected([c EXCEPT !.bundles = Collect(@, rows), !.graphs = Tail(@)])
  PROVE  Exactly(d, e)
  <1>1. PICK g, rest : g = Head(c.graphs) /\ rest = Tail(c.graphs)
    OBVIOUS
  <1>2. PICK X : X = IF c.step = "ranges" THEN OfEdges(d, g, c.request) ELSE {}
    OBVIOUS
  <1>3. PICK read : /\ read \cup ToSet(c.graphs) = Goal(d, c)
                    /\ Unshared(d, c.request) => c.bundles = AskingAll(d, read, c.request) \cup X
    BY <1>1, <1>2 DEF Reading
  <1>4. PICK bundles : bundles = Collect(c.bundles, rows)
    OBVIOUS
  <1>5. PICK f : f = [c EXCEPT !.bundles = bundles, !.graphs = rest]
    OBVIOUS
  <1>6. /\ DOMAIN f = CallFields /\ Same(c, f) /\ f.step = c.step /\ f.graphs = rest
        /\ f.bundles = bundles /\ f.result = <<>>
    BY <1>5 DEF Same, CallFields
  <1>7. Picked(d, f) /\ Goal(d, f) = Goal(d, c) /\ f.request = c.request
    BY <1>6, SamePicks DEF Same
  <1>8. PICK next : next = read \cup {g}
    OBVIOUS
  <1>9. next \cup ToSet(f.graphs) = Goal(d, f)
    <2>1. c.graphs \in Seq(ToSet(c.graphs))
      BY HeldIsList
    <2>2. ToSet(c.graphs) = {g} \cup ToSet(rest)
      BY <1>1, <2>1, ListElements
    <2> QED
      BY <1>3, <1>6, <1>7, <1>8, <2>2
  <1>10. ASSUME Unshared(d, c.request)
         PROVE  bundles = AskingAll(d, next, c.request)
    <2>1. c.bundles \subseteq d.bundles
      <3>1. AskingAll(d, read, c.request) \cup OfEdges(d, g, c.request) \subseteq d.bundles
        BY AskedAreBundles
      <3> QED
        BY <1>2, <1>3, <1>10, <3>1
    <2>2. Names(d, g) /\ Of(c, g)
      BY <1>1, HeldRest
    <2>3. bundles = c.bundles \cup rows
      BY <1>1, <1>4, <2>1, <2>2, CollectAdds
    <2>4. Asking(d, g, c.request) = rows \cup X
      BY <1>1, <1>2, <1>10
    <2>5. AskingAll(d, next, c.request) = AskingAll(d, read, c.request) \cup Asking(d, g, c.request)
      BY <1>8 DEF AskingAll
    <2> QED
      BY <1>3, <1>10, <2>3, <2>4, <2>5
  <1>11. e \in Collected(f)
    BY <1>1, <1>4, <1>5
  <1>12. Unshared(d, f.request) => f.bundles = AskingAll(d, next, f.request)
    BY <1>6, <1>7, <1>10
  <1> QED
    BY <1>6, <1>7, <1>9, <1>11, <1>12, CollectedExact

\* A query that ends the reading of a graph, or the one for the edges.
LEMMA CollectExact ==
  ASSUME ResolveInv, ExactInv, CollectBundles \/ CollectRanges \/ CollectEdges
  PROVE  ExactInv'
  <1>1. PICK d, c : d = db /\ c = call
    OBVIOUS
  <1>2. PICK e : e = call'
    OBVIOUS
  <1>3. c.step \in {"bundles", "ranges"} /\ Live(call)
    BY <1>1 DEF CollectBundles, CollectRanges, CollectEdges, Live
  <1>4. Live(call) /\ Read(call') /\ Searched(db, call, call')
    BY CollectBundlesSearches, CollectRangesSearches, CollectEdgesSearches
  <1>5. ASSUME Still
        PROVE  Exactly(d, e)
    <2>1. /\ GoodContent(d) /\ OneImport(d) /\ DOMAIN c = CallFields
          /\ CallInv(d, c) /\ Exactly(d, c)
      BY <1>1, <1>3, <1>5 DEF ResolveInv, ExactInv
    <2>2. /\ Held(d, c, c.graphs) /\ Collection(c, c.bundles) /\ c.graphs # <<>> /\ c.result = <<>>
          /\ Picked(d, c) /\ Reading(d, c)
      BY <1>3, <2>1 DEF CallInv, Search, Searching, Exactly
    <2>3. PICK g : g = Head(c.graphs)
      OBVIOUS
    <2>4. Names(d, g)
      BY <2>2, <2>3, HeldRest
    <2>5. ASSUME CollectBundles
          PROVE  Exactly(d, e)
      <3>1. PICK rows : rows = ListBundles(d, g)
        OBVIOUS
      <3>2. \A b \in rows : InCatalogOf(d, g, b)
        BY <2>1, <2>4, <3>1, FoundInCatalog DEF Names
      <3>3. c.step = "bundles" /\ c.request.from = None
        BY <1>1, <2>5 DEF CollectBundles
      <3>4. Asking(d, g, c.request) = rows \cup {}
        BY <3>1, <3>3 DEF Asking
      <3>5. e \in Collected([c EXCEPT !.bundles = Collect(@, rows), !.graphs = Tail(@)])
        BY <1>1, <1>2, <2>3, <2>5, <3>1 DEF CollectBundles, Read
      <3> QED
        BY <2>1, <2>2, <2>3, <3>2, <3>3, <3>4, <3>5, CollectRowsExact
    <2>6. ASSUME CollectRanges
          PROVE  Exactly(d, e)
      <3>1. PICK rows : rows = OfRanges(d, g, c.request)
        OBVIOUS
      <3>2. \A b \in rows : InCatalogOf(d, g, b)
        BY <2>1, <2>4, <3>1, FoundInCatalog DEF Names, OfRanges
      <3>3. c.step = "ranges"
        BY <1>1, <2>6 DEF CollectRanges
      <3>4. Asking(d, g, c.request) = rows \cup OfEdges(d, g, c.request)
        BY <2>2, <3>1, <3>3 DEF Asking, Reading
      <3>5. e \in Collected([c EXCEPT !.bundles = Collect(@, rows), !.graphs = Tail(@)])
        <4>1. rows = {p.bundle : p \in {q \in RangesOf(db, Head(call.graphs)) :
                                          call.request.from.version \in q.range.versions}}
          BY <1>1, <2>3, <3>1 DEF OfRanges
        <4> QED
          BY <1>1, <1>2, <2>6, <4>1 DEF CollectRanges, Read
      <3> QED
        BY <2>1, <2>2, <2>3, <3>2, <3>3, <3>4, <3>5, CollectRowsExact
    <2>7. ASSUME CollectEdges
          PROVE  Exactly(d, e)
      <3>1. /\ c.step = "bundles" /\ c.request.from # None
            /\ \E from \in FromIds(d, c.request.from.bundle) :
                 e = [c EXCEPT !.step = "ranges", !.bundles = Collect(@, EdgesFrom(d, g, from))]
        BY <1>1, <1>2, <2>3, <2>7 DEF CollectEdges, Read
      <3>2. PICK from \in FromIds(d, c.request.from.bundle) :
              e = [c EXCEPT !.step = "ranges", !.bundles = Collect(@, EdgesFrom(d, g, from))]
        BY <3>1
      <3>3. PICK rows : rows = EdgesFrom(d, g, from)
        OBVIOUS
      <3>4. PICK bundles : bundles = Collect(c.bundles, rows)
        OBVIOUS
      <3>5. e = [c EXCEPT !.step = "ranges", !.bundles = bundles]
        BY <3>2, <3>3, <3>4
      <3>6. Same(c, e) /\ e.step = "ranges" /\ e.graphs = c.graphs /\ e.bundles = bundles
        BY <2>1, <3>5 DEF Same, CallFields
      <3>7. Picked(d, e) /\ Goal(d, e) = Goal(d, c) /\ e.request = c.request
        BY <2>2, <3>6, SamePicks DEF Same
      <3>8. PICK read : /\ read \cup ToSet(c.graphs) = Goal(d, c)
                        /\ Unshared(d, c.request) => c.bundles = AskingAll(d, read, c.request)
        BY <2>2, <3>1 DEF Reading
      <3>9. ASSUME Unshared(d, c.request)
            PROVE  bundles = AskingAll(d, read, c.request) \cup OfEdges(d, g, c.request)
        <4>1. rows = OfEdges(d, g, c.request)
          BY <2>1, <3>1, <3>3, <3>9, FromTheOne
        <4>2. AskingAll(d, read, c.request) \cup OfEdges(d, g, c.request) \subseteq d.bundles
          BY AskedAreBundles
        <4>3. c.bundles \subseteq d.bundles
          BY <3>8, <3>9, <4>2
        <4>4. \A b \in rows : InCatalogOf(d, g, b)
          BY <2>1, <2>4, <3>3, FoundInCatalog DEF Names
        <4>5. Of(c, g)
          BY <2>2, <2>3, HeldRest
        <4>6. bundles = c.bundles \cup rows
          BY <2>1, <2>2, <2>4, <3>4, <4>3, <4>4, <4>5, CollectAdds
        <4> QED
          BY <3>8, <3>9, <4>1, <4>6
      <3>10. Reading(d, e)
        BY <2>3, <3>1, <3>6, <3>7, <3>8, <3>9 DEF Reading
      <3> QED
        BY <3>6, <3>7, <3>10 DEF Exactly
    <2> QED
      BY <2>5, <2>6, <2>7
  <1> QED
    BY <1>1, <1>2, <1>4, <1>5, SearchExact

\* The invariant is inductive, where the requests have names for their paths.
LEMMA NextExactInv ==
  ASSUME NamesGiven, ResolveInv, ExactInv, [Next]_vars
  PROVE  ExactInv'
  <1>1. ASSUME NEW cat \in Catalogs, NEW p \in Priorities, NEW ops \in Contents, Set(cat, p, ops)
        PROVE  ExactInv'
    BY <1>1, CommitExact DEF Set
  <1>2. ASSUME NEW cat \in Catalogs, NEW p \in Priorities, SetPriority(cat, p)
        PROVE  ExactInv'
    BY <1>2, CommitExact DEF SetPriority
  <1>3. ASSUME NEW cat \in Catalogs, Delete(cat)
        PROVE  ExactInv'
    BY <1>3, CommitExact DEF Delete
  <1>4. ASSUME NEW r \in Requests, List(r)
        PROVE  ExactInv'
    BY <1>4, ListExact
  <1>5. ASSUME NEW x \in call.left, GetPackage(x)
        PROVE  ExactInv'
    BY <1>5, GetPackageExact
  <1>6. ASSUME NEW x \in call.left, GetPackageFails(x)
        PROVE  ExactInv'
    BY <1>6, FaultsExact
  <1>7. CASE GetGraph
    BY <1>7, GetGraphExact
  <1>8. CASE GetGraphFails \/ ReadFails
    BY <1>8, FaultsExact
  <1>9. CASE CollectBundles \/ CollectEdges \/ CollectRanges
    BY <1>9, CollectExact
  <1>10. CASE UNCHANGED vars
    <2>1. db' = db /\ priority' = priority /\ commits' = commits /\ call' = call
      BY <1>10 DEF vars
    <2> QED
      BY <2>1 DEF ExactInv, Still, Unmoved, Listed
  <1> QED
    BY <1>1, <1>2, <1>3, <1>4, <1>5, <1>6, <1>7, <1>8, <1>9, <1>10 DEF Next

LEMMA ExactInvariant ==
  ASSUME NamesGiven
  PROVE  Spec => [](ResolveInv /\ ExactInv)
  <1>1. Init => ResolveInv /\ ExactInv
    BY InitResolveInv, InitExactInv
  <1>2. ResolveInv /\ ExactInv /\ [Next]_vars => (ResolveInv /\ ExactInv)'
    BY NextResolveInv, NextExactInv
  <1> QED
    BY <1>1, <1>2, PTL DEF Spec

-----------------------------------------------------------------------------
(***************************************************************************)
(* By paths: the graphs that the queries ask about are those that the      *)
(* paths stand for, and what they yield is what is wanted.                 *)
(***************************************************************************)
Below(d, cat, path) == {g \in d.graphs : g.catalog = cat /\ g.path # path /\ IsPrefix(path, g.path)}

LEMMA ScopeOfPath ==
  ASSUME NEW d, GoodContent(d), NEW cat, NEW path \in Seq(Segments), path # <<>>,
         NEW h \in d.graphs
  PROVE  h \in (IF Below(d, cat, path) = {} THEN GraphAt(d, cat, path) ELSE Below(d, cat, path))
           <=> \E g \in At(d, cat, {path}) : h.id \in Scope(d, g)
  <1>1. CASE GraphAt(d, cat, path) = {}
    <2>1. At(d, cat, {path}) = {}
      BY <1>1, AtNone
    <2>2. \A g \in d.graphs : ~(g.catalog = cat /\ IsPrefix(path, g.path))
      BY <1>1, WayIsThere
    <2>3. Below(d, cat, path) = {}
      BY <2>2 DEF Below
    <2> QED
      BY <1>1, <2>1, <2>3
  <1>2. ASSUME NEW row \in GraphAt(d, cat, path)
        PROVE  h \in (IF Below(d, cat, path) = {} THEN GraphAt(d, cat, path) ELSE Below(d, cat, path))
                 <=> \E g \in At(d, cat, {path}) : h.id \in Scope(d, g)
    <2>1. row \in d.graphs /\ row.catalog = cat /\ row.path = path
      BY DEF GraphAt
    <2>2. PICK g : g = GraphOf(d, row)
      OBVIOUS
    <2>3. At(d, cat, {path}) = {g}
      BY <2>1, <2>2, AtItsPath
    <2>4. GraphAt(d, cat, path) = {row}
      BY <2>1 DEF GraphAt, GoodContent, Placed
    <2>5. Below(d, cat, path) = {x \in d.graphs : Beneath(row, x)}
      BY <2>1 DEF Below, Beneath
    <2>6. g.id = row.id /\ g.id \in Nat /\ g.composite = (ChildrenOf(d, {row.id}) # {})
      BY <2>1, <2>2 DEF GraphOf, GoodContent, GraphKeys
    <2>7. g.composite <=> Below(d, cat, path) # {}
      BY <2>1, <2>5, <2>6, CompositeByPath
    <2>8. h.id \in Scope(d, g) <=> IF g.composite THEN Beneath(row, h) ELSE h = row
      <3>1. CASE g.composite
        BY <2>1, <2>6, <3>1, DescendantsAreBeneath DEF Scope
      <3>2. CASE ~g.composite
        BY <2>1, <2>6, <3>2 DEF Scope, GoodContent, GraphKeys
      <3> QED
        BY <3>1, <3>2
    <2>9. h \in Below(d, cat, path) <=> Beneath(row, h)
      BY <2>5
    <2> QED
      BY <2>3, <2>4, <2>7, <2>8, <2>9
  <1> QED
    BY <1>1, <1>2

LEMMA PathGraphsAsked ==
  ASSUME GoodContent(db), NamesGiven, NEW r \in Requests, NEW cat, NEW h
  PROVE  h \in PathGraphs(cat, r) <=>
           h \in db.graphs /\ \E g \in At(db, cat, Targets(r)) : h.id \in Scope(db, g)
  <1> DEFINE For(path) == IF Below(db, cat, path) = {} THEN GraphAt(db, cat, path)
                          ELSE Below(db, cat, path)
  <1>1. PathGraphs(cat, r) = UNION {For(path) : path \in Targets(r)}
    BY DEF PathGraphs, Below, Targets, Fulls
  <1>2. \A path : For(path) \subseteq db.graphs
    BY DEF Below, GraphAt
  <1>3. \A path \in Targets(r) : path \in Seq(Segments) /\ path # <<>>
    BY PathsGiven
  <1>4. \A g : g \in At(db, cat, Targets(r)) <=> \E path \in Targets(r) : g \in At(db, cat, {path})
    BY DEF At
  <1>5. \A path \in Targets(r) : h \in db.graphs =>
          (h \in For(path) <=> \E g \in At(db, cat, {path}) : h.id \in Scope(db, g))
    <2> SUFFICES ASSUME NEW path \in Targets(r), h \in db.graphs
                 PROVE  h \in For(path) <=> \E g \in At(db, cat, {path}) : h.id \in Scope(db, g)
      OBVIOUS
    <2>1. path \in Seq(Segments) /\ path # <<>>
      BY <1>3
    <2> QED
      BY <2>1, ScopeOfPath, Zenon
  <1> HIDE DEF For
  <1>6. h \in PathGraphs(cat, r) <=> \E path \in Targets(r) : h \in For(path)
    BY ONLY <1>1
  <1>7. h \in PathGraphs(cat, r) => h \in db.graphs
    BY <1>2, <1>6
  <1> QED
    BY <1>4, <1>5, <1>6, <1>7

\* A graph yields a bundle: by its rows.
Yields(d, r, h, b) ==
  IF r.from = None
  THEN b.version # NoVersion /\ [graph |-> h.id, bundle |-> b.id] \in d.members
  ELSE \/ \E f \in BundleIn(d, h.catalog, r.from.bundle) :
            [graph |-> h.id, from |-> f.id, to |-> b.id] \in d.edges
       \/ \E x \in d.ranges : x.graph = h.id /\ x.bundle = b.id /\ r.from.version \in x.versions

\* A row refers to a graph and a bundle of one catalog, each the only one of its ID.
LEMMA TogetherAre ==
  ASSUME NEW d, GoodContent(d), NEW i, NEW j, Together(d, i, j)
  PROVE  \E h \in d.graphs : /\ h.id = i
                             /\ \A b \in d.bundles : b.id = j => b.catalog = h.catalog
                             /\ \E b \in d.bundles : b.id = j /\ b.catalog = h.catalog
  <1>1. PICK h \in d.graphs, c \in d.bundles : h.id = i /\ c.id = j /\ h.catalog = c.catalog
    BY DEF Together
  <1>2. \A b \in d.bundles : b.id = j => b = c
    BY <1>1 DEF GoodContent, BundleKeys
  <1> QED
    BY <1>1, <1>2

LEMMA ListedByRows ==
  ASSUME NEW d, GoodContent(d), NEW r, r.from = None, NEW g, NEW b \in d.bundles
  PROVE  b \in ListBundles(d, g) <=>
           \E h \in d.graphs : h.id \in Scope(d, g) /\ h.catalog = b.catalog /\ Yields(d, r, h, b)
  <1>1. ASSUME b \in ListBundles(d, g)
        PROVE  \E h \in d.graphs : h.id \in Scope(d, g) /\ h.catalog = b.catalog /\ Yields(d, r, h, b)
    <2>1. PICK m \in d.members : m.bundle = b.id /\ m.graph \in Scope(d, g)
      BY <1>1 DEF ListBundles
    <2>2. Together(d, m.graph, m.bundle) /\ m = [graph |-> m.graph, bundle |-> m.bundle]
      BY DEF GoodContent, References, Records
    <2>3. PICK h \in d.graphs : h.id = m.graph /\ b.catalog = h.catalog
      BY <2>1, <2>2, TogetherAre
    <2>4. [graph |-> h.id, bundle |-> b.id] \in d.members
      BY <2>1, <2>2, <2>3
    <2>5. b.version # NoVersion
      BY <1>1 DEF ListBundles
    <2> QED
      BY <2>1, <2>3, <2>4, <2>5 DEF Yields
  <1>2. ASSUME NEW h \in d.graphs, h.id \in Scope(d, g), Yields(d, r, h, b)
        PROVE  b \in ListBundles(d, g)
    <2>1. PICK m : m = [graph |-> h.id, bundle |-> b.id]
      OBVIOUS
    <2>2. m \in d.members /\ m.graph = h.id /\ m.bundle = b.id /\ b.version # NoVersion
      BY <1>2, <2>1 DEF Yields
    <2> QED
      BY <1>2, <2>2 DEF ListBundles
  <1> QED
    BY <1>1, <1>2

LEMMA SucceedByRows ==
  ASSUME NEW d, GoodContent(d), NEW r, r.from # None, NEW g, NEW b \in d.bundles
  PROVE  b \in OfEdges(d, g, r) \cup OfRanges(d, g, r) <=>
           \E h \in d.graphs : h.id \in Scope(d, g) /\ h.catalog = b.catalog /\ Yields(d, r, h, b)
  <1>1. ASSUME b \in OfEdges(d, g, r)
        PROVE  \E h \in d.graphs : h.id \in Scope(d, g) /\ h.catalog = b.catalog /\ Yields(d, r, h, b)
    <2>1. PICK from \in FromIds(d, r.from.bundle), e \in d.edges :
            e.graph \in Scope(d, g) /\ e.from = from /\ e.to = b.id
      BY <1>1 DEF OfEdges, EdgesFrom
    <2>2. /\ Together(d, e.graph, e.from) /\ Together(d, e.graph, e.to)
          /\ e = [graph |-> e.graph, from |-> e.from, to |-> e.to]
      BY DEF GoodContent, References, Records
    <2>3. PICK h \in d.graphs : h.id = e.graph /\ b.catalog = h.catalog
      BY <2>1, <2>2, TogetherAre
    <2>4. PICK f \in d.bundles : f.id = e.from /\ f.catalog = h.catalog
      <3>1. PICK i \in d.graphs, f \in d.bundles : i.id = e.graph /\ f.id = e.from /\ i.catalog = f.catalog
        BY <2>2 DEF Together
      <3>2. i = h
        BY <2>3, <3>1 DEF GoodContent, GraphKeys
      <3> QED
        BY <3>1, <3>2
    <2>5. f.bundle = r.from.bundle
      <3>1. f.id \in Nat
        BY DEF GoodContent, BundleKeys
      <3>2. from # None
        BY <2>1, <2>4, <3>1, ContentAssumption
      <3>3. PICK x \in d.bundles : x.bundle = r.from.bundle /\ x.id = from
        BY <3>2 DEF FromIds
      <3>4. x = f
        BY <2>1, <2>4, <3>3 DEF GoodContent, BundleKeys
      <3> QED
        BY <3>3, <3>4
    <2>6. [graph |-> h.id, from |-> f.id, to |-> b.id] \in d.edges
      BY <2>1, <2>2, <2>3, <2>4
    <2>7. f \in BundleIn(d, h.catalog, r.from.bundle)
      BY <2>4, <2>5 DEF BundleIn
    <2> QED
      BY <2>1, <2>3, <2>6, <2>7 DEF Yields
  <1>2. ASSUME b \in OfRanges(d, g, r)
        PROVE  \E h \in d.graphs : h.id \in Scope(d, g) /\ h.catalog = b.catalog /\ Yields(d, r, h, b)
    <2>1. PICK y \in RangesOf(d, g) : y.bundle = b /\ r.from.version \in y.range.versions
      BY <1>2 DEF OfRanges
    <2>2. y.range \in d.ranges /\ y.range.graph \in Scope(d, g) /\ y.range.bundle = b.id
      BY <2>1 DEF RangesOf, RangeRows
    <2>3. Together(d, y.range.graph, y.range.bundle)
      BY <2>2 DEF GoodContent, References
    <2>4. PICK h \in d.graphs : h.id = y.range.graph /\ b.catalog = h.catalog
      BY <2>2, <2>3, TogetherAre
    <2> QED
      BY <2>1, <2>2, <2>4 DEF Yields
  <1>3. ASSUME NEW h \in d.graphs, h.id \in Scope(d, g),
               NEW f \in BundleIn(d, h.catalog, r.from.bundle),
               [graph |-> h.id, from |-> f.id, to |-> b.id] \in d.edges
        PROVE  b \in OfEdges(d, g, r)
    <2>1. PICK e : e = [graph |-> h.id, from |-> f.id, to |-> b.id]
      OBVIOUS
    <2>2. e \in d.edges /\ e.graph = h.id /\ e.from = f.id /\ e.to = b.id
      BY <1>3, <2>1
    <2>3. f.id \in FromIds(d, r.from.bundle)
      BY DEF FromIds, BundleIn
    <2> QED
      BY <1>3, <2>2, <2>3 DEF OfEdges, EdgesFrom
  <1>4. ASSUME NEW h \in d.graphs, h.id \in Scope(d, g),
               NEW x \in d.ranges, x.graph = h.id, x.bundle = b.id, r.from.version \in x.versions
        PROVE  b \in OfRanges(d, g, r)
    <2>1. PICK y : y = [bundle |-> b, range |-> x]
      OBVIOUS
    <2>2. y.bundle = b /\ y.range = x
      BY <2>1
    <2>3. y \in RangesOf(d, g)
      BY <1>4, <2>1, <2>2 DEF RangesOf, RangeRows
    <2> QED
      BY <1>4, <2>2, <2>3 DEF OfRanges
  <1> QED
    BY <1>1, <1>2, <1>3, <1>4 DEF Yields

LEMMA AskingByRows ==
  ASSUME NEW d, GoodContent(d), NEW r, NEW g, NEW b \in d.bundles
  PROVE  b \in Asking(d, g, r) <=>
           \E h \in d.graphs : h.id \in Scope(d, g) /\ h.catalog = b.catalog /\ Yields(d, r, h, b)
  <1>1. CASE r.from = None
    BY <1>1, ListedByRows DEF Asking
  <1>2. CASE r.from # None
    BY <1>2, SucceedByRows DEF Asking
  <1> QED
    BY <1>1, <1>2

LEMMA AskedIsWanted ==
  ASSUME GoodContent(db), NamesGiven, NEW r \in Requests, NEW cat
  PROVE  {b \in AskingAll(db, At(db, cat, Targets(r)), r) : VersionOf(b).version \in r.allowed}
           = {b \in db.bundles : Wanted(cat, r, b)}
  <1> DEFINE graphs == At(db, cat, Targets(r))
  <1>1. AskingAll(db, graphs, r) \subseteq db.bundles
    <2>1. AskingAll(db, graphs, r) \cup OfEdges(db, None, r) \subseteq db.bundles
      BY AskedAreBundles
    <2> QED
      BY <2>1
  <1>2. \A h \in PathGraphs(cat, r) : h.catalog = cat
    BY DEF PathGraphs, GraphAt
  <1>3. ASSUME NEW b \in db.bundles
        PROVE  b \in AskingAll(db, graphs, r) <=>
                 b.catalog = cat /\ \E h \in PathGraphs(cat, r) : Yields(db, r, h, b)
    <2>1. b \in AskingAll(db, graphs, r) <=> \E g \in graphs : b \in Asking(db, g, r)
      BY DEF AskingAll
    <2>2. \A g : b \in Asking(db, g, r) <=>
            \E h \in db.graphs : h.id \in Scope(db, g) /\ h.catalog = b.catalog /\ Yields(db, r, h, b)
      BY AskingByRows
    <2>3. \A h : h \in PathGraphs(cat, r) <=> h \in db.graphs /\ \E g \in graphs : h.id \in Scope(db, g)
      BY PathGraphsAsked
    <2> HIDE DEF graphs
    <2>4. b \in AskingAll(db, graphs, r) <=>
            \E h \in PathGraphs(cat, r) : h.catalog = b.catalog /\ Yields(db, r, h, b)
      BY <2>1, <2>2, <2>3
    <2>5. ASSUME NEW h \in PathGraphs(cat, r), Yields(db, r, h, b)
          PROVE  h.catalog = b.catalog <=> b.catalog = cat
      BY <1>2
    <2> QED
      BY <1>2, <2>4, <2>5
  <1>4. ASSUME NEW b
        PROVE  Wanted(cat, r, b) <=>
                 /\ b.catalog = cat /\ VersionOf(b).version \in r.allowed
                 /\ \E h \in PathGraphs(cat, r) : Yields(db, r, h, b)
    BY <1>2 DEF Wanted, Yields
  <1> HIDE DEF graphs
  <1> QED
    BY <1>1, <1>3, <1>4 DEF graphs

-----------------------------------------------------------------------------
(***************************************************************************)
(* The selection of a call that nothing has disturbed.                     *)
(***************************************************************************)

\* The catalogs that the list holds and that have the package.
LEMMA HoldersAre ==
  ASSUME GoodContent(db), NEW name \in Segments
  PROVE  /\ Holders(name) = {c \in Listed : c \in Having(db, name)}
         /\ IsFiniteSet(Holders(name))
  <1>1. \A c : Named(Packages(db, c), name) = GraphAt(db, c, <<name>>)
    BY PackageByPath
  <1>2. Holders(name) = {c \in Listed : c \in Having(db, name)}
    BY <1>1 DEF Holders, Having, Listed
  <1>3. IsFiniteSet(Holders(name))
    <2> DEFINE S == db.graphs
               f == [g \in S |-> g.catalog]
               T == {f[g] : g \in S}
    <2>1. f \in Surjection(S, T)
      BY DEF Surjection
    <2>2. IsFiniteSet(S)
      BY DEF GoodContent, Shape
    <2>3. \A c \in Holders(name) : \E g \in S : c = f[g]
      BY DEF Holders, GraphAt
    <2>4. Holders(name) \subseteq T
      BY <2>3
    <2> HIDE DEF f, S, T
    <2>5. IsFiniteSet(T)
      BY <2>1, <2>2, FS_Surjection
    <2> QED
      BY <2>4, <2>5, FS_Subset
  <1> QED
    BY <1>2, <1>3

\* Each catalog that was listed is there, with the priority that it was listed with.
LEMMA ListedAreThere ==
  ASSUME ResolveInv, Unmoved, NEW x \in call.listed
  PROVE  /\ x.name \in Listed /\ x.priority = priority[x.name] /\ x.priority \in Int
         /\ x = [name |-> x.name, priority |-> priority[x.name]]
  <1>1. PICK n \in Listed : x = [name |-> n, priority |-> priority[n]]
    BY DEF Unmoved
  <1>2. x.name = n /\ x.priority = priority[n]
    BY <1>1
  <1>3. priority[n] \in Int
    BY ValuesAreOrdered DEF ResolveInv, Listed
  <1> QED
    BY <1>1, <1>2, <1>3

\* Those that were chosen are holders of the highest priority.
LEMMA ChosenAreTop ==
  ASSUME ResolveInv, SelectedOverLacking, Unmoved, call.request.package \in Segments,
         Returned({"found", "none", "ambiguous"}), ~call.faulty, NEW x \in Chosen
  PROVE  /\ x \in call.listed /\ x.name \in Highest(Holders(call.request.package))
         /\ \A n \in Highest(Holders(call.request.package)) : priority[n] = x.priority
  <1> DEFINE holders == Holders(call.request.package)
  <1>1. holders = {c \in Listed : c \in Having(db, call.request.package)}
    BY HoldersAre DEF ResolveInv
  <1>2. x \in call.listed
    <2>1. Matches(db, call)
      BY DEF Returned, ResolveInv, CallInv, Live
    <2> QED
      BY <2>1 DEF Matches, Chosen
  <1>3. x.name \in call.had
    BY <1>2 DEF SelectedOverLacking
  <1>4. x.name \in holders /\ x.priority = priority[x.name] /\ x.priority \in Int
    BY <1>1, <1>2, <1>3, ListedAreThere DEF Unmoved
  <1>5. ASSUME NEW n \in holders
        PROVE  priority[n] \in Int /\ x.priority >= priority[n]
    <2>1. PICK y : y = [name |-> n, priority |-> priority[n]]
      OBVIOUS
    <2>2. y \in call.listed /\ y.name = n /\ y.priority = priority[n] /\ n \notin call.lacked
      BY <1>1, <2>1 DEF Unmoved
    <2>3. ~(y.priority > x.priority)
      BY <2>2 DEF SelectedOverLacking
    <2>4. y.priority \in Int
      BY <2>2, ListedAreThere
    <2> QED
      BY <1>4, <2>2, <2>3, <2>4
  <1> HIDE DEF holders
  <1>6. x.name \in Highest(holders) /\ \A n \in Highest(holders) : priority[n] = x.priority
    BY <1>4, <1>5 DEF Highest
  <1> QED
    BY <1>2, <1>6 DEF holders

LEMMA SelectionIsExact ==
  ASSUME ResolveInv, SelectedOverLacking, Unmoved, call.request.package \in Segments,
         Returned({"found", "none", "ambiguous"}), ~call.faulty,
         NEW top, top = Highest(Holders(call.request.package))
  PROVE  /\ call.status = "none" <=> top = {}
         /\ call.status = "ambiguous" <=> Cardinality(top) > 1
         /\ call.status = "found" => {x.name : x \in Chosen} = top /\ top = {Cat(call)}
  <1>1. CallInv(db, call)
    BY DEF Returned, ResolveInv, Live
  <1>2. /\ IsFiniteSet(Holders(call.request.package))
        /\ Holders(call.request.package) = {c \in Listed : c \in Having(db, call.request.package)}
    BY HoldersAre DEF ResolveInv
  <1>3. IsFiniteSet(top)
    BY <1>2, FS_Subset DEF Highest
  <1>4. \A x \in Chosen : /\ x \in call.listed /\ x.name \in top
                          /\ \A n \in top : priority[n] = x.priority
    BY ChosenAreTop
  <1>5. CASE call.status = "found"
    <2>1. PICK m \in call.matches : call.matches = {m}
      BY <1>1, <1>5 DEF CallInv, Progress, Returned, One
    <2>2. PICK x : x = m.catalog
      OBVIOUS
    <2>3. Chosen = {x} /\ Cat(call) = x.name
      BY <2>1, <2>2 DEF Chosen, Cat, Selected
    <2>4. ASSUME NEW n \in top
          PROVE  n = x.name
      <3>1. n \in Listed /\ n \in Having(db, call.request.package) /\ priority[n] = x.priority
        BY <1>2, <1>4, <2>3 DEF Highest
      <3>2. PICK y : y = [name |-> n, priority |-> priority[n]]
        OBVIOUS
      <3>3. y \in call.listed /\ y.name = n /\ y.priority = priority[n] /\ n \notin call.lacked
        BY <3>1, <3>2 DEF Unmoved
      <3>4. y = x
        BY <1>5, <2>3, <3>1, <3>3 DEF SelectedOverLacking
      <3> QED
        BY <3>3, <3>4
    <2>5. top = {x.name}
      BY <1>4, <2>3, <2>4
    <2>6. Cardinality(top) = 1
      BY <2>5, FS_Singleton
    <2> QED
      BY <1>5, <2>3, <2>5, <2>6
  <1>6. CASE call.status = "none"
    <2>1. ASSUME NEW n \in Holders(call.request.package)
          PROVE  FALSE
      <3>1. n \in Listed /\ n \in Having(db, call.request.package)
        BY <1>2
      <3>2. PICK y : y = [name |-> n, priority |-> priority[n]]
        OBVIOUS
      <3>3. y \in call.listed /\ y.name = n /\ n \notin call.lacked
        BY <3>1, <3>2 DEF Unmoved
      <3> QED
        BY <1>6, <3>3 DEF SelectedOverLacking
    <2>2. top = {}
      BY <2>1 DEF Highest
    <2> QED
      BY <1>6, <2>2, FS_EmptySet
  <1>7. CASE call.status = "ambiguous"
    <2> DEFINE f == [x \in Chosen |-> x.name]
               T == {f[x] : x \in Chosen}
    <2>1. \A x, y \in Chosen : x.name = y.name => x = y
      <3>1. \A x \in Chosen : x = [name |-> x.name, priority |-> priority[x.name]]
        BY <1>4, ListedAreThere
      <3> QED
        BY <3>1
    <2>2. f \in Surjection(Chosen, T) /\ f \in Injection(Chosen, T)
      BY <2>1 DEF Surjection, Injection, IsInjective
    <2>3. IsFiniteSet(Chosen)
      <3> DEFINE S == call.matches
                 g == [m \in S |-> m.catalog]
      <3>1. g \in Surjection(S, Chosen)
        BY DEF Surjection, Chosen
      <3>2. IsFiniteSet(S)
        BY <1>1 DEF CallInv, Matches
      <3> HIDE DEF g, S
      <3> QED
        BY <3>1, <3>2, FS_Surjection
    <2>4. T \subseteq top
      BY <1>4
    <2>5. Cardinality(Chosen) > 1
      BY <1>7 DEF SelectedOverLacking
    <2> HIDE DEF f, T
    <2>6. Cardinality(T) = Cardinality(Chosen)
      BY <2>2, <2>3, FS_Surjection
    <2>7. Cardinality(T) <= Cardinality(top) /\ Cardinality(T) \in Nat /\ Cardinality(top) \in Nat
      BY <1>3, <2>4, FS_Subset, FS_CardinalityType
    <2>8. Cardinality(top) > 1
      BY <2>5, <2>6, <2>7
    <2>9. top # {}
      BY <2>8, FS_EmptySet
    <2> QED
      BY <1>7, <2>8, <2>9
  <1> QED
    BY <1>5, <1>6, <1>7 DEF Returned

\* A call during which nothing is committed, and none of whose reads fails, selects the only
\* catalog of the highest priority that has the package, or says why it cannot, and returns the
\* bundles in the graphs at its paths that satisfy every option, and no others: for any number
\* of catalogs, graphs and bundles, and wherever the paths lead, as long as they name the graphs
\* on their way: GetGraph takes an empty name for that of any child (query.go:67).
THEOREM UndisturbedExact == NamesGiven => (Spec => []UndisturbedIsExact)
  <1> SUFFICES ASSUME NamesGiven
               PROVE  Spec => []UndisturbedIsExact
    OBVIOUS
  <1>1. ResolveInv /\ ExactInv => UndisturbedIsExact
    <2> SUFFICES ASSUME ResolveInv, ExactInv, Returned({"found", "none", "ambiguous"}),
                        call.since = commits, ~call.faulty
                 PROVE  UndisturbedIsExact
      BY DEF UndisturbedIsExact
    <2> DEFINE r == call.request
               top == Highest(Holders(r.package))
    <2>1. Unmoved /\ Exactly(db, call)
      BY DEF ExactInv, Still, Returned
    <2>2. r \in Requests
      BY <2>1 DEF Exactly, Picked
    <2>3. r.package \in Segments
      BY <2>2, PathsGiven
    <2>4. SelectedOverLacking
      BY HighestSelected
    <2>5. /\ call.status = "none" <=> top = {}
          /\ call.status = "ambiguous" <=> Cardinality(top) > 1
          /\ call.status = "found" => {x.name : x \in Chosen} = top /\ top = {Cat(call)}
      BY <2>1, <2>3, <2>4, SelectionIsExact
    <2>6. ASSUME call.status = "found", Unshared(db, r), NEW c \in top
          PROVE  ToSet(call.result) = {b \in db.bundles : Wanted(c, r, b)}
      <3>1. c = Cat(call)
        BY <2>5, <2>6
      <3>2. ToSet(call.result) = {b \in AskingAll(db, Goal(db, call), r) :
                                    VersionOf(b).version \in r.allowed}
        BY <2>1, <2>6 DEF Returned, Exactly, Delivered
      <3>3. Goal(db, call) = At(db, c, Targets(r))
        BY <3>1 DEF Goal
      <3> QED
        BY <2>2, <3>2, <3>3, AskedIsWanted DEF ResolveInv
    <2> QED
      BY <2>5, <2>6 DEF UndisturbedIsExact, Unshared
  <1> QED
    BY <1>1, ExactInvariant, PTL
=============================================================================
