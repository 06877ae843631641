------------------------------ MODULE Resolver ------------------------------
(***************************************************************************)
(* resolver/v1: Resolve, over a store whose catalogs are set and deleted   *)
(* while it runs.  Resolve has no transaction: the list of the catalogs,   *)
(* every GetPackage, every GetGraph and every query for bundles sees what  *)
(* is committed by then, and an error of GetPackage or GetGraph is taken   *)
(* for "not there".                                                        *)
(***************************************************************************)
EXTENDS ContentSelects, BundleOrder

CONSTANTS
  Priorities,  \* priorities of catalogs
  Contents,    \* what importers may write: sequences of operations
  Requests,    \* the package and the options of a call of Resolve
  MaxCommits,  \* bound: commits of the writers
  MaxFaults    \* bound: reads that fail

ASSUME ValuesAreOrdered == Priorities \subseteq Int /\ Versions \subseteq NameVersionRelease

\* paths: WithGraphs, of names that may be empty, and no path is the empty one, which
\* stands for the package;
\* from: WithSuccessorsOf, a bundle ID and its version, or None; allowed: the
\* versions that the constraint holds for, whatever the release; preferNonDeprecated.
ASSUME RequestsAreRequests ==
  \A r \in Requests :
    /\ r.package \in Segments
    /\ r.paths \in Seq(Seq(Segments \cup {NoName}) \ {<<>>})
    /\ r.from = None \/ (r.from.bundle \in Bundles /\ r.from.version \in Nat)
    /\ r.allowed \subseteq Nat
    /\ r.preferNonDeprecated \in BOOLEAN

ASSUME ContentsAreOperations ==
  \A ops \in Contents :
    Len(ops) \in Nat /\ \A i \in 1 .. Len(ops) : ops[i].op \in Operations

VARIABLES
  db,        \* the committed content tables
  priority,  \* catalog_metadata.priority, None for a catalog that is not there
  commits,   \* how many commits made it
  faults,    \* how many reads failed
  call       \* the locals of Resolve, and what it returned

vars == <<db, priority, commits, faults, call>>

Listed == {c \in Catalogs : priority[c] # None}

-----------------------------------------------------------------------------
(***************************************************************************)
(* The writers, until the call has returned: nothing reads what they write *)
(* then.  lacked and had follow them for the properties: which catalogs    *)
(* have been without the package, and with it, during the call.            *)
(***************************************************************************)
Having(d, name) == {c \in Catalogs : Named(Packages(d, c), name) # {}}

Witness(d) ==
  IF call.step = "idle"
  THEN call
  ELSE [call EXCEPT !.lacked = @ \cup (Catalogs \ Having(d, call.request.package)),
                    !.had = @ \cup Having(d, call.request.package)]

MayCommit == commits < MaxCommits /\ call.step # "done"

Commit(d) ==
  /\ commits' = commits + 1
  /\ db' = d
  /\ call' = Witness(d)
  /\ UNCHANGED faults

\* Store.Set with content.
Set(cat, p, ops) ==
  LET d == Imported(db, cat, commits + 1, ops)
  IN  /\ MayCommit
      /\ d # Failed
      /\ Commit(d)
      /\ priority' = [priority EXCEPT ![cat] = p]

\* Store.Set with a priority and no content, of a catalog that is there.
SetPriority(cat, p) ==
  /\ MayCommit
  /\ cat \in Listed
  /\ p # priority[cat]
  /\ Commit(db)
  /\ priority' = [priority EXCEPT ![cat] = p]

\* Store.Delete.
Delete(cat) ==
  /\ MayCommit
  /\ cat \in Listed
  /\ Commit(DeleteAll(db, cat))
  /\ priority' = [priority EXCEPT ![cat] = None]

-----------------------------------------------------------------------------
(***************************************************************************)
(* Resolve.  What it computes between two reads is part of the first.      *)
(***************************************************************************)
Idle == [step |-> "idle", request |-> None, status |-> None, listed |-> {}, left |-> {}, matches |-> {},
         paths |-> <<>>, walk |-> None, graphs |-> <<>>, bundles |-> {}, result |-> <<>>,
         since |-> 0, faulty |-> FALSE, lacked |-> {}, had |-> {}]

Done(c, status) == [c EXCEPT !.step = "done", !.status = status]

\* What is read and computed so far is the new state of the call.
Read(c) == call' = c /\ UNCHANGED <<db, priority, commits, faults>>

\* A read of the call has failed.
Fault(c) ==
  /\ faults < MaxFaults
  /\ faults' = faults + 1
  /\ call' = [c EXCEPT !.faulty = TRUE]
  /\ UNCHANGED <<db, priority, commits>>

\* reader.List: the catalogs and their priorities as of this moment.
List(r) ==
  LET left == {[name |-> c, priority |-> priority[c]] : c \in Listed}
      c == [Idle EXCEPT !.request = r, !.step = "packages", !.listed = left, !.left = left,
                        !.since = commits,
                        !.lacked = Catalogs \ Having(db, r.package),
                        !.had = Having(db, r.package)]
  IN  /\ call.step = "idle"
      /\ Read(IF left = {} THEN Done(c, "none") ELSE c)

\* Mutation: the groups in ascending order.
LowestGroup(left) == {x \in left : \A y \in left : x.priority <= y.priority}

\* The group whose turn it is: catalogs are taken out of it one at a time.
TopGroup(left) == {x \in left : \A y \in left : x.priority >= y.priority}

\* The package that was selected, once the call has got beyond that.
Selected(c) == CHOOSE m \in c.matches : TRUE

\* Mutation: if no path resolves, the package is queried.
NextPathOrPackage(c) ==
  IF c.paths # <<>>
  THEN [c EXCEPT !.walk = [at |-> Selected(c).graph, left |-> Head(c.paths)], !.paths = Tail(@)]
  ELSE [c EXCEPT !.step = "bundles",
                 !.graphs = IF @ = <<>> THEN <<Selected(c).graph>> ELSE @]

\* walkPath of the next path, from the package; after the last path the bundles
\* of the graphs that were found, if any was.
NextPath(c) ==
  IF c.paths # <<>>
  THEN [c EXCEPT !.walk = [at |-> Selected(c).graph, left |-> Head(c.paths)], !.paths = Tail(@)]
  ELSE IF c.graphs = <<>> THEN Done(c, "found")
  ELSE [c EXCEPT !.step = "bundles"]

\* selectGraphs: the package itself, or the graphs at the paths.
SelectGraphs(c) ==
  IF c.request.paths = <<>>
  THEN [c EXCEPT !.step = "bundles", !.graphs = <<Selected(c).graph>>]
  ELSE NextPath([c EXCEPT !.step = "graphs", !.paths = c.request.paths])

\* selectPackage, after GetPackage of the catalog x gave the matches: the group of
\* x goes on, it has decided, or the next one begins.
Asked(c, x, matches) ==
  LET next == [c EXCEPT !.left = @ \ {x}, !.matches = matches]
  IN  IF \E y \in next.left : y.priority = x.priority THEN next
      ELSE IF Cardinality(matches) > 1 THEN Done(next, "ambiguous")
      ELSE IF matches # {} THEN SelectGraphs(next)
      ELSE IF next.left = {} THEN Done(next, "none")
      ELSE next

\* cat.GetPackage, of a catalog that the list held.
GetPackage(x) ==
  LET rows == Named(Packages(db, x.name), call.request.package)
  IN  /\ call.step = "packages"
      /\ x \in TopGroup(call.left)
      /\ \/ /\ rows = {}
            /\ Read(Asked(call, x, call.matches))
         \/ \E row \in rows :
              LET match == [catalog |-> x, graph |-> GraphOf(db, row)]
              IN  Read(Asked(call, x, call.matches \cup {match}))

\* An error of GetPackage: `continue`.
GetPackageFails(x) ==
  /\ call.step = "packages"
  /\ x \in TopGroup(call.left)
  /\ Fault(Asked(call, x, call.matches))

\* walkPath after composite.GetGraph returned the graph of row.
Arrived(c, row) ==
  LET graph == GraphOf(db, row)
  IN  IF Len(c.walk.left) = 1
      THEN NextPath([c EXCEPT !.graphs = Append(@, graph)])
      ELSE [c EXCEPT !.walk = [at |-> graph, left |-> Tail(c.walk.left)]]

\* A path ends where the graph is a leaf, or has no child of the name.
GetGraph ==
  LET walk == call.walk
      rows == IF walk.at.composite THEN Named(SubGraphs(db, walk.at), Head(walk.left)) ELSE {}
  IN  /\ call.step = "graphs"
      /\ \/ rows = {} /\ Read(NextPath(call))
         \/ \E row \in rows : Read(Arrived(call, row))

\* An error of GetGraph: `return nil, nil`.
GetGraphFails ==
  /\ call.step = "graphs"
  /\ call.walk.at.composite
  /\ Fault(NextPath(call))

\* What parseBundleRow makes of the row of a bundle that is only referred to: it has no
\* package name, and the version 0.0.0.
ZeroVersion == [name |-> 0, version |-> 0, release |-> <<>>]
VersionOf(b) == IF b.version = NoVersion THEN ZeroVersion ELSE b.version

\* The bundles by deprecation, if the option says so, then by the name of their package,
\* version and release, the highest first: a bundle that is only referred to comes after
\* every other of its deprecation.  Between equals the order is any: SortFunc is not stable.
Before(r, a, b) ==
  IF r.preferNonDeprecated /\ (a.deprecation = None) # (b.deprecation = None)
  THEN a.deprecation = None
  ELSE CompareNameVersionReleases(VersionOf(b), VersionOf(a)) <= 0

Sorted(r, bundles) ==
  {s \in SetToSeqs(bundles) : \A i, j \in DOMAIN s : i < j => Before(r, s[i], s[j])}

\* The bundles that are not seen yet, one for an ID.
Collect(seen, rows) == seen \cup {b \in rows : \A s \in seen : s.bundle # b.bundle}

\* filterByConstraint and sortBundles, when the last graph is read.
Collected(c) ==
  IF c.graphs # <<>> THEN {[c EXCEPT !.step = "bundles"]}
  ELSE LET kept == {b \in c.bundles : VersionOf(b).version \in c.request.allowed}
       IN  {Done([c EXCEPT !.result = s], "found") : s \in Sorted(c.request, kept)}

\* UpdateGraph.ListBundles of the next graph, to its end.
CollectBundles ==
  /\ call.step = "bundles"
  /\ call.request.from = None
  /\ \E c \in Collected([call EXCEPT
                 !.bundles = Collect(@, ListBundles(db, Head(call.graphs))),
                 !.graphs = Tail(@)]) : Read(c)

\* UpdateGraph.Successors of the next graph: the edges.
CollectEdges ==
  /\ call.step = "bundles"
  /\ call.request.from # None
  /\ \E from \in FromIds(db, call.request.from.bundle) :
       Read([call EXCEPT !.step = "ranges",
               !.bundles = Collect(@, EdgesFrom(db, Head(call.graphs), from))])

\* ... and the ranges.
CollectRanges ==
  LET pairs == {p \in RangesOf(db, Head(call.graphs)) :
                  call.request.from.version \in p.range.versions}
  IN  /\ call.step = "ranges"
      /\ \E c \in Collected([call EXCEPT
                     !.bundles = Collect(@, {p.bundle : p \in pairs}),
                     !.graphs = Tail(@)]) : Read(c)

\* An error of List, or of a stream of bundles, is returned.
ReadFails ==
  /\ call.step \in {"idle", "bundles", "ranges"}
  /\ Fault(Done(call, "error"))

-----------------------------------------------------------------------------
Init ==
  /\ db = EmptyContent
  /\ priority = [c \in Catalogs |-> None]
  /\ commits = 0
  /\ faults = 0
  /\ call = Idle

Next ==
  \/ \E cat \in Catalogs, p \in Priorities : \/ \E ops \in Contents : Set(cat, p, ops)
                                             \/ SetPriority(cat, p)
  \/ \E cat \in Catalogs : Delete(cat)
  \/ \E r \in Requests : List(r)
  \/ \E x \in call.left : GetPackage(x) \/ GetPackageFails(x)
  \/ GetGraph
  \/ GetGraphFails
  \/ CollectBundles
  \/ CollectEdges
  \/ CollectRanges
  \/ ReadFails

Spec == Init /\ [][Next]_vars

-----------------------------------------------------------------------------
(***************************************************************************)
(* Properties.                                                             *)
(***************************************************************************)
Returned(statuses) == call.step = "done" /\ call.status \in statuses

Chosen == {m.catalog : m \in call.matches}

\* Whatever is committed during the call, a catalog is selected over those listed at
\* a higher priority, and over its peers, only if they were without the package at
\* some moment of the call, and the error says ambiguous only of catalogs of one
\* priority that had it: the groups are asked from the highest down, each to its
\* end.  A GetPackage that fails is the exception.
SelectedOverLacking ==
  Returned({"found", "none", "ambiguous"}) /\ ~call.faulty =>
    /\ \A x \in Chosen, y \in call.listed :
         /\ x.name \in call.had
         /\ y.priority > x.priority => y.name \in call.lacked
         /\ y \in Chosen => y.priority = x.priority
    /\ call.status = "none" => \A y \in call.listed : y.name \in call.lacked
    /\ call.status = "found" =>
         \A x \in Chosen, y \in call.listed :
           y.priority = x.priority /\ y # x => y.name \in call.lacked
    /\ call.status = "ambiguous" => Cardinality(Chosen) > 1

\* The bundles are of the import that made the selected package, each ID once,
\* even when the catalog is imported again between two of the queries: a result may
\* lack bundles then, and never mixes two contents.
BundlesOfOneImport ==
  Returned({"found"}) =>
    \A i, j \in DOMAIN call.result :
      /\ call.result[i].catalog = Selected(call).catalog.name
      /\ call.result[i].import = Selected(call).graph.import
      /\ call.result[i].bundle = call.result[j].bundle => i = j

\* What the documents of the store resolver promise of a call during which nothing
\* is committed, by paths instead of by queries.
Holders(name) == {c \in Listed : GraphAt(db, c, <<name>>) # {}}
Highest(cs) == {c \in cs : \A d \in cs : priority[c] >= priority[d]}

\* The graphs that one of the paths stands for.
PathGraphs(cat, r) ==
  LET full == IF r.paths = <<>> THEN {<<r.package>>}
              ELSE {<<r.package>> \o r.paths[i] : i \in DOMAIN r.paths}
      below(path) == {g \in db.graphs : g.catalog = cat /\ g.path # path /\ IsPrefix(path, g.path)}
  IN  UNION {IF below(path) = {} THEN GraphAt(db, cat, path) ELSE below(path) : path \in full}

Wanted(cat, r, b) ==
  /\ b.catalog = cat
  /\ VersionOf(b).version \in r.allowed
  /\ \E g \in PathGraphs(cat, r) :
       IF r.from = None
       THEN b.version # NoVersion /\ [graph |-> g.id, bundle |-> b.id] \in db.members
       ELSE \/ \E f \in BundleIn(db, cat, r.from.bundle) :
                 [graph |-> g.id, from |-> f.id, to |-> b.id] \in db.edges
            \/ \E x \in db.ranges : /\ x.graph = g.id /\ x.bundle = b.id
                                    /\ r.from.version \in x.versions

\* A call that nothing disturbs selects the only catalog of the highest priority
\* that has the package and returns the bundles in its graphs at the paths which
\* satisfy every option; no catalog when none has the package, and an error when
\* several do.  The successors of a bundle that another catalog has too are the
\* exception: see SuccessorsIsolated of ContentQuery.
UndisturbedIsExact ==
  LET r == call.request
      top == Highest(Holders(r.package))
      unshared == r.from = None \/ Cardinality({b \in db.bundles : b.bundle = r.from.bundle}) < 2
  IN  Returned({"found", "none", "ambiguous"}) /\ call.since = commits /\ ~call.faulty =>
        /\ call.status = "none" <=> top = {}
        /\ call.status = "ambiguous" <=> Cardinality(top) > 1
        /\ call.status = "found" =>
             /\ {x.name : x \in Chosen} = top
             /\ unshared => \A c \in top :
                  ToSet(call.result) = {b \in db.bundles : Wanted(c, r, b)}

=============================================================================
