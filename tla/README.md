# library-olm in TLA+

Models of the parts of library-olm that keep state and meet concurrency, crashes and
partial failure: the SQLite catalog store (`catalog/v1`, `catalog/v1/sqlite`), the
importer of file-based catalogs (`catalog/v1/fbc`) and the resolver (`resolver/v1`); and the
renderer of registry+v1 bundles (`bundle/registry/v1`), whose generators have to agree with each
other and share the bundle they render. TLC checks them on small instances,
and TLAPS proves for every value of the constants all of the invariants that the runs check.

## Inventory of the system

| part | state | operations | what is hard |
|---|---|---|---|
| Store (`sqlite.go`, `store.go`) | `catalog_metadata`, `catalog_labels`, content tables; a writer pool with one connection, a reader pool | `Set`, `Get`, `List`, `Delete`, `Select`, `Close` | transactions that fail halfway or are cut by a crash; reads of several statements while others commit; one writer connection |
| Opening (`sqlite.go`, `metadata.go`, `content.go`) | the tables' forms and two version rows | `OpenStore`: migrate, check, drop, create, store version, clear digests | every statement commits on its own; crashes in between; files of other releases |
| Content writer (`writer.go`) | content tables inside a transaction | create graphs, insert bundles, edges, ranges, properties, deprecations; `deleteAll` | rows found by name and linked by id; silently ignored rows |
| Content queries (`query.go`, `catalog.go`) | an id held by the caller | `GetPackage`, `GetGraph`, `ListBundles`, `Successors` | handles that outlive their content; two queries on two snapshots |
| FBC importer (`importer.go`, `internal/*`) | temporary raw tables, a channel, per-package errors | walk, ingest, batch write, normalize, finalize | several walkers and a writer goroutine; cancellation; partial import |
| Resolver (`resolver/v1`) | none, reads a store | `Resolve` | a store that changes between its queries; errors taken for absence |
| Bundle identity (`bundle/v1`) | none | comparison of releases and versions | must be a total order |
| Registry bundles (`bundle/registry/v1`) | a bundle that is rendered again and again, the objects of a rendering | `FromFS`, `ValidateConfig`, `Validate`, `ToPlainManifests` | rules on install modes and namespaces that are written down twice; names that several generators derive each by itself; containers and volumes that a rendering shares with its bundle |
| Helm bundles (`bundle/helm/v1`) | none | load, render, validate | delegates to Helm |

The parts interact so: a caller gives `Set` an importer; `Set` runs it inside its
transaction and hands it a content writer; readers get catalogs and graphs from the reader
pool and query the tables while further `Set`s commit; the resolver is such a reader. The
renderer stands by itself: a caller loads a bundle, may validate a configuration against its
schema, and renders; the generators run in a fixed order on one list of objects, the last one
changes what the others made.

What makes each part correct: the store is an atomic map from names to entries, whatever
fails or crashes; a digest stands for content that is there; no catalog sees another's
content; a reader sees only committed values and never mixes two imports in one stream of
successors; the importer returns, takes every valid package whole and reports every other. A
rendering grants permissions in the namespaces asked for and no others, whatever its objects refer
to is rendered, who calls a webhook trusts the certificate behind it, a configuration that was
accepted can be rendered and holds in what is rendered.

## Modules

| module | models | state and actions |
|---|---|---|
| `StoreData` | options, rows, labels, selectors; each SQL statement of `Set` and `Delete` as an operator | no state |
| `AtomicStore` | what the `Store` interface promises of writes: an atomic map | `store`; `Set`, `Delete` |
| `CatalogStore` | the store with concurrent clients | `db` is the committed database, `work` what the open transaction sees, `conn` the holder of the writer connection, `pc`/`call`/`ret` the calls. One action per statement (or group that no other client can observe apart); `Fail` is any error return with the deferred `Rollback`, `Close` closes both pools (`Refused` is what a closed one says), `Crash` is the death of the process and a reopening. `Spec` assumes nothing of the scheduler, `FairSpec` adds fairness |
| `CatalogStoreProofs`, `CatalogCallProofs` | the theorems about `CatalogStore`: what is committed; what the calls return | |
| `StoreOpen` | `OpenStore`, statement by statement, on files of every metadata version, later ones too | the form of every table, both versions, which catalogs have rows, digests and labels; `plan` is the list of the statements to execute |
| `StoreOpenProofs` | the theorems about `StoreOpen` | |
| `ContentTables` | the content tables and every method of `contentWriter` | no state; a database is a record of rows, a failed operation is `Failed`; a path and a list of operations are followed by recursive functions, which the proofs can use |
| `ContentSelects` | the SELECT statements over them | no state |
| `ContentQuery` | the queries of a reader, with a writer that replaces content | `db`, the number of `commits`, and a `reader` with its graph and the stream it consumes |
| `ContentProofs` | lemmas: what every operation of `contentWriter`, `deleteAll`, a whole import and each SELECT does to the tables | |
| `ContentQueryProofs` | the theorems about `ContentQuery` | |
| `FbcImport` | `Importer.Import` | a walker per file, the row channel, `batchWriter`, the staged rows, the errors per package, the content the transaction sees |
| `FbcImportProofs` | the theorems about `FbcImport` | |
| `BundleOrder` | the comparison of releases, versions and bundles by package name, version and release | no state; a version is its place in the order of versions, a name its place in the lexical order |
| `Resolver` | `Resolve`, over the content tables and the priorities of a store that is written meanwhile | `call` holds the locals of `Resolve`; one action per `List`, `GetPackage`, `GetGraph` and query for bundles, with what is computed after it, and one per read that fails |
| `ResolverProofs` | that the comparisons, and the one `Resolve` sorts by, are orders; the theorems about `Resolver` | |
| `RegistryInstall` | install modes, the schema and formats of `watchNamespace`, target and install namespaces | no state |
| `RegistryChecks` | every check of the validator, by its name | no state |
| `RegistryManifests` | what each generator appends, the certificate providers, the volumes of certificates | no state; an object is a record of its name, of what it refers to, and of what it is made of (`of`), which keeps apart two that are appended alike; a service selects by the `matchLabels` of its deployment or by nothing |
| `RegistryDeployments` | the configuration of deployments, applied to the copy and, where it is shared, to the bundle | no state |
| `RegistryRender` | `ValidateConfig` and `ToPlainManifests`, called repeatedly on one bundle | `bundle` as it was loaded, `pods` the pods of its deployments as they are now, `call` the objects and the error of the rendering; one action per generator |
| `RegistryProofs` | the theorems about `RegistryRender` | |
| `MCCatalogStore`, `MCStoreOpen`, `MCContent`, `MCResolver`, `MCImport`, `MCRegistry` | instances for TLC | |

`CatalogStore` abstracts the content of a catalog to the packages of an import and the digest
it came with; `ContentTables` and its users open that up. `Resolver` and `ContentQuery` read with
the same `ContentSelects`. `FbcImport` writes through
the operators of `ContentTables`, the same that `ContentQuery` reads from. In
`RegistryRender` the names of Kubernetes are sets: the labels and subdomains that are valid, and a
few that are not; a hash of rules is the rules, so that two names are equal when what is hashed is.
`SystemNamespace` stands for `<package>-system`, `NoDots` for a name with its dots replaced and `Cut` for what a
suffix leaves of its base; the instance lets two deployments have one service, and two others
one issuer. Labels and selectors are sets of labels (`matchExpressions`, which nothing copies, are left out). History
variables (`seen`, `calls`, `torn`, `crashes`, the `import` field of rows, `lacked`, `had` and
`faulty` of a call of `Resolve`) are named as such
and no guard of the code depends on them, except for the bounds.

Operators marked "Mutation" are plausible bugs: each property of a passing run fails when
one definition is replaced by its mutation.

## Runs

| cfg | what it shows | bounds |
|---|---|---|
| `StoreWrites` | `Set` and `Delete` by two clients: reserved label, no orphans, digest and content together, connection given back, errors commit nothing, `CatalogStore` implements `AtomicStore`; under `FairSpec`, every call returns if no importer runs forever, with `Close` and crashes at any moment | 2 names, 2 clients, 3 calls, 4 option sets, 2 packages; 520,000 states |
| `StoreReads` | `Get`, `List`, `Select` against writers: only committed values, rows of a list of one moment, exactly those selected | 2 names, 2 symmetric clients, 4 calls; 1.5 million states |
| `OpenStore` | every interleaving of openings, imports and crashes over files of metadata versions 1 to 3 and of a later one, old and unknown content tables | 2 crashes |
| `Content` | streams of successors against imports of two catalogs | 3 commits, 5 contents |
| `Resolve` | the catalog selected and the bundles returned, exactly if nothing is committed meanwhile, and what still holds if something is | 3 symmetric catalogs, 4 commits, 1 failing read, 4 requests; versions with releases, and a bundle that has no name and no version; writers stop when the call has returned; a million states |
| `Import` | eight inputs in two files, two walkers, cancellation at any moment | channel of 1, batches of 2 |
| `Registry` | the objects of a rendering fit together, and configuration, validators and generators agree, over several renderings of one bundle | 16 sets of install modes with 9 lists of targets, repeated ones too, and 6 values of `watchNamespace`; 60 combinations of namespace annotations; a bundle with all kinds of webhooks and 28 variants of it, with defects, names that clash, permissions and objects given twice, selectors that are absent or match the pods of another deployment, with and without the two providers; 3 pods with init containers, 4 configurations with affinities of 5 parts (`Parts`), 3 providers, 3 renderings; 20,490 states |
| `OpenStoreDigests`, `ContentIsolation`, `RegistryReadOnly`, `ImportReturns`, `ImportFailedPackages` | disagreements of code and documentation, see below | |

Why the bounds suffice: two clients make every race of the code, which are between one
transaction and one reader or between two transactions for one connection; a third client would
only add starvation, which `database/sql` excludes by serving its waiting requests in order. A second crash is enough to interrupt the repair of the first.
Three commits let both catalogs be imported and one replaced while a stream is open. Three
catalogs of two priorities make every shape of two groups, and four commits leave one for
the middle of a call when all three are there, two when two are, which is what it takes to move a
package from a catalog already asked to one that is not.
A channel of one and batches of two fill, empty and remain partial within five rows, as
256 and 500 do in longer inputs; the inputs cover a package split over files, rows that clash,
a blob without a package, a channel name that fails in the middle of a package, packages that
name each other's bundles, a range or version that does not parse.

Three renderings of one pod are enough for what one leaves behind to meet a second
configuration and then none; of the other bundles nothing is written that a rendering reads, so one is enough.
A bundle varies in one respect at a time: install modes, annotations, webhooks and pods are read by
different generators, and those that read two of them do so in the family of the webhooks.

Runs do not check deadlock when clients stop after their bounded calls, imports and renderings, or after the
import returned. `OpenStore` does check it.

### Fairness

`FairSpec` of `CatalogStore` assumes strong fairness of the steps of each client that are the store's own
(`OwnStep`): a goroutine that waits for the writer connection is repeatedly enabled only, and
`database/sql` hands the connection to its waiting requests in the order they came, or refuses them
when the pool is closed. The importer that a `Set` calls (sqlite.go:144) is the caller's code: none of its steps is
assumed, not even that it returns, and the repository's own importer may not (`import_returns` below).
So `CallsReturn` has the premise that no importer runs forever; without it another `Set` or a `Delete` may wait
for the one writer connection for good. Failures, closing, crashes and new calls are
not assumed to happen. `FbcImport` assumes weak fairness of each walker, of `batchWriter` and of
`Import`: a goroutine that can run does. Cancellation is never assumed.

## Disagreements

* `open_digests`: a crash after the content schema version is stored and before the digests
  are cleared leaves digests without content for good, contrary to requirements.md:21 of
  persistent-catalog-db. Clearing them before the version is stored would be safe.
* `content_isolation`: query.go:271 and :294 look the predecessor up in all catalogs; explicit
  successors of a bundle that two catalogs have are lost in one of them (requirements.md:57).
* `registry_read_only`: the spec of a deployment is copied without what it points to
  (generators.go:88), and a configuration (:642, :848) or certificates (:575) are written to the
  containers, the affinity and the array of volumes of the bundle; render.go:35 and requirements.md:9-10 of
  render-generator-context call it read-only. A variable of one rendering's configuration is in the next one.
* `import_returns`: after a failed batch nobody receives rows; a walk with more rows than
  the channel holds blocks until its context is done, maybe never (importer.go:47-48).
* `import_failed_packages`: a package that fails after its first write is visible
  (requirements.md:13 of fbc-partial-load: "invisible to the catalog API").

Met while modelling and not run:

* store: `Get` reads row and labels in two statements, so its value may be of no single moment,
  although store.go:47-48 calls it a snapshot; `Select(labels.Nothing())` after another `Select` is
  ignored (sqlite.go:380-383, specs/closed/2026-05-06-store-resolver/README.md:35); `Set` inside an
  importer waits for its own connection (sqlite.go:144);
* opening: after a crash in a migration `OpenStore` may fail for good (metadata.go:64), and a
  newer metadata version opens without a complaint (metadata.go:78);
* resolver: resolve.go:133 skips a catalog whose `GetPackage` fails, so that a query that
  fails, or a context that is done, yields no catalog and no error for a package that is there
  (verification.md:9 of store-resolver: "nil only when no catalog has the package"), or a
  catalog of lower priority;
* content and importer: a bundle that another package replaces may lose its version
  (writer.go:44); `GetPackage` and `GetGraph` of the empty name return the first package or graph
  (query.go:168); an importer on a reader reads nothing the second time (importer.go:33);
* registry configuration: null is refused for a bundle that supports AllNamespaces only, and accepted where that is one mode of several; a
  bundle with MultiNamespace only, or with no mode, accepts `{}` and cannot be rendered
  for it; namespace.go:61 says that the target of an OwnNamespace-only bundle defaults to the install
  namespace, and `defaultTargetNamespacesForBundle` returns nil for it (render.go:173-181);
* registry rendering: the targets "" and "" pass as one and give roles in a namespace without
  a name; names that are cut or have their dots replaced may collide (webhook.go:15, util.go:16), the
  issuer's, which is cut most, first (certmanager.go:129); a target, a permission or an object of the bundle that is given
  twice is rendered twice (generators.go:114-128); a service selects by the `matchLabels` of its deployment
  or by nothing (generators.go:403-414), so that with a selector that is absent no pod is behind it, and where
  two deployments have the labels of one selector pods without the certificate are; a
  volume that a container mounts at a certificate path is removed from the whole pod (generators.go:568) and its
  mounts from `Containers` only (:585), so that an init container that mounts it, to fill it for instance, is left with a mount
  without a volume, where :534 speaks of "all container volume mounts" and `MountsHaveVolumes` has to except it; a
  webhook without a port refers to port 0 while its service has 443 (generators.go:512-528);
  `preserveUnknownFields` is refused by a generator and by no validator (generators.go:231).

## Proofs

Each theorem holds for every value of the constants that satisfies the assumptions its modules
name; TLC evaluates these on every run. They say what kind of values the constants are
(`DataAssumption`, `StoreAssumption`, `OpenAssumption`, `RequestsAreRequests`, `ValuesAreOrdered`;
`ContentsAreOperations`: an import is a finite list of the writer's operations; `ImportAssumption`:
a file and the lists in a blob are finite, the channel has a capacity and a batch a size; `NamesAssumption`) and
that `None`, SQL's NULL, is none of the values it may stand beside (`ContentAssumption`).

Hardly any of the invariants is inductive alone. What each needs to be so is named below; TLC confirms these
stronger invariants on the runs too (of `ReadInv` all but `ListAnswered`, whose witness is one of too many sets):

**`CatalogStoreProofs`**: `TypeCorrect`, `ReservedLabelKept`, `NothingOrphaned`, `DigestCorrect`,
`ConnectionAlwaysReturned`, and `Implementation`: `CatalogStore` implements `AtomicStore`.
A commit publishes `work`, so `IInv` adds what the open transaction has achieved at each stage: without a
transaction `work` equals `db`; at stage "import" the content is of the new digest only; past
"reserved label" the label is there; and what `work` differs in from `db` is exactly what
the options of the holder ask for. The same invariant gives the refinement: the commit maps to
`Set` or `Delete`, every other step, failures and crashes included, to a stutter.

**`CatalogCallProofs`**: what calls return. `ErrorsCommitNothing` and `SetsReportWhatTheyCommit` are
action properties: a `Set` has read its result before it commits, so `CallsInv` ties the result to
the row in `work` from that statement on (`ResultInv`). `ReadersSeeCommitted`,
`ListsAreOneState` and `SelectsExactly` are about readers, whose statements run on one committed
database each: `ReadInv` says that each partial result is of the databases met so far
(`seen`), the labels of one that is not older than that of the row, and that each of these
has its reserved labels. `SelectsExactly` assumes that no selector is `labels.Nothing()`, which no code of the repository
passes: its first half is false for a `Select(labels.Nothing())` on a
`Select`, as the source is (sqlite.go:380-383, see "Disagreements").

**`StoreOpenProofs`**: `OpensComplete`, `ContentStaysWhole`, `LabelsStay`, `WholeOpensKeepDigests`,
`WholeOpensFailOnUnknown`, from `OpenInv`. An opening executes the rest of one of two fixed lists of
statements (`Rest`), so the invariant states for each position what the tables are before it:
`MigrateAt` and `RebuildAt` for any file, however often earlier openings were cut short, and
`FormsBefore` and `Whole` for one where none was. A crash leaves a file of which only the
first kind is known; that these weaker facts suffice for each list to be begun again is what the proof
shows for any number of crashes. Of a later release's file no migration is
executed and the version is left as it is: its metadata tables are those of its own version, and only the content is made anew.

**`FbcImportProofs`**: `JoinsItsGoroutines` and `StagesEveryRow`, from `ImportInv`. `Joining` is what
each phase knows of the goroutines. `Staging` locates rows: one that was sent is in the
channel, in the batch or in the tables, and of two rows with one key, of any two places in the
files, at most one is in the tables and the other still on its way (`Apart`); hence
the writer that flushes the second fails, and an import that gets past the walk had
no such pair. Nothing depends on the number of files, the capacity of the channel or the size of a batch.

`RefusedLeaveNothing`, from `RefusalInv`, follows what a package writes. Its writes are a concatenation over its
channels, and in each over their entries, so `Writing` says of a list of any length that its writes are of
a kind and are for one package, and the lemmas about `\o` and `FlattenSeq` carry that through (`PackageIsWritten`).
What is left of the list is so too after each write, and by the lemmas of `ContentProofs` a write makes
no graph but of the paths it names (`WritesStay`); a package is begun only if no error of the walk was recorded for it
and it is valid, and by `ImportInv` every error of the walk was recorded by then (`WalkRecords`).

`FaultsAreReported`, from `FaultInv`: a package that is begun either has only writes that succeed or one
that is bound to fail (`Begun`). The first is the larger part. `IsAt` says what the writes so far
have left: the paths that there are, bundles that there are at least, and members and ranges that the channel being written has at
most. Each kind of write is a lemma that leads from one such state to the next, and `Leads` of two
sequences is that of their concatenation, so that entries, channels (`ChannelLeads`) and
packages (`PackageLeads`) are lemmas of their own. That no path is made twice and no bundle is a member
twice follows from the primary keys of the raw tables (`RowsFit`, by `StagesEveryRow`); bundles of other
packages never hinder. The second is `PackageIsDoomed`: a name that is no segment of a path is in one
of the writes, wherever in the concatenation. The theorem assumes that `Failed`, which stands for an error, is not a
value of the tables (`FailedIsNoContent`); a model value cannot be asked for its domain, so TLC does not evaluate that.

`ValidPackagesAreWhole` is about what others do after a package was written, for its writes are read back only when
Import has returned. `WholeInv` says of a package that is passed that for each of its writes there is a
row (`Whole`), of the one that is written that this is so of each write that is not left
(`InWork`), and that it stays so: whatever is written later, by this package or another, keeps every row under its id, catalog,
path and bundle ID (`Keeps`, by `AppliedIsDone`). That a write had an effect at all is the other half, as a
member, an edge or a range whose bundle is unknown is passed over without an error (writer.go:111, 126):
`FitsAll` says of the writes that are left that each finds the bundles it needs in the content or among those that the
writes before it make, which holds of a valid package whatever the content is (`PackageFits`), because its bundles come
first and a stub before its edge. That the bundles are the package's own, with their versions, is neither: an
earlier package may have left a stub of that ID, and INSERT OR IGNORE keeps it. `Sourced` traces each bundle to a row, or to a
channel whose package does not have it, and the premise that no other package names the ID (`NamesUnshared`)
leaves only the row.

**`ContentProofs`, `ContentQueryProofs`**: `ReferencesStay`, `OneImportAtATime`, `StaleGraphs`,
`YieldsOnce`, `SuccessorsOfTheImport`. `GoodContent` (keys, UNIQUE constraints, parents and references
within a catalog) and `Importing` (of other catalogs nothing changes, of this one all rows are of this import, ids
are fresh) are kept by each operation of the writer, one lemma each, and so by a list of
operations of any length (`ImportedSteps`, `ImportedKeeps`; `UpTo` is induction for a set). `QueryInv` adds
of the reader that the id it holds names its graph or nothing (`Names`), and of its stream that no
ID is in it twice. The stream of successors is fed by two queries, between which anything may
be committed: the rows of the second are joined to what is left of the first by ID, so uniqueness needs
`BundleKeys` of the second database only; that both are of one import needs `Names`, because an
`AUTOINCREMENT` id is never another graph's.

`SuccessorsExact` is that an undisturbed stream yields all it should, which by its definition is what the graphs
*below the path* of the reader's graph hold, while the query goes *from parent to child*. `GoodContent`
has what joins the two (`Placed`): a graph is the only one at its path in its catalog, and its parent is the one at the
path without the last segment. So the recursive SELECT finds only graphs below (`DescendantsAreBeneath`), and
finds all of them, by their distance: a round reaches one level more, and there are as many
rounds as graphs, which is enough since a path with n segments has n graphs
on its way (`PathsFit`). `ExactInv` says of the stream what its first loop has yielded,
and `RangesAllYielded` that the second adds every range, for any order of the rows. A scalar subquery that
takes the first bundle of an ID is right only where the ID is not shared, and the property says so.

**`ResolverProofs`**: `ReleasesAntisymmetric`, `ReleasesTransitive`, `NameVersionReleasesOrdered`: the
comparisons are total orders, on releases of any length, on versions with a release and on those with the name
of a package before them, which is empty for a bundle that is only referred to. The comparison of two different releases is
that at a first
position where they differ, where the end of a release is below every identifier (`Decided`;
that there is a first one is the well-foundedness of the natural numbers); at one position the
comparison is an order (`PositionOrder`), and the rest is a case analysis on which of the
positions comes first. `SortIsAnOrder` concludes that `sortBundles` gives
`slices.SortFunc` a strict weak order. The order of semantic versions is assumed to be
one: that is the business of the library for them.
`SelectsTheHighest` and `ResultsOfTheImport` hold of a `Resolve` during which others commit, from
`ResolveInv`: the catalogs still to be asked are none above one that was asked (`Groups`); what was
found is of one priority and names its graphs (`Matches`); whoever was asked in vain had been
without the package at some moment of the call (`Accounted`, from `Witnessed`, which a commit keeps by
recording what it changes); the graphs that
are walked and collected from are of the import of the package that was selected (`Held`), and so are the bundles,
one for an ID (`Collection`, `Result`).

`UndisturbedExact` says that such a result leaves nothing out when nothing was committed meanwhile and no read
failed. `ResolveInv` bounds what a call holds from above; `ExactInv` also bounds it from below, as long as the call is
undisturbed (`Still`): the catalogs listed, and asked in vain, are those that are there and
have no such package (`Unmoved`); the paths that were walked to their end led to just the graphs that are held, and what is left
of the path being walked, from the graph that was reached, completes a path of the request (`Walking`); the graphs that have been
read gave just the bundles that were collected, and with those still to be read are the graphs at the
paths of the request (`Reading`). Then `GetGraph`, which follows the ids of parents one name at a time, has to
agree with the path that a graph was created at: `ChildByPath`, `PackageByPath`, and `WayIsThere`, by which a graph that is
there has all graphs on the way to it, so that a walk that is
blocked misses nothing (`WayIsBlocked`). `AskedIsWanted` compares the recursive queries with the
bundles that the property asks for. The theorem has the premise `NamesGiven`, that no path of the request
has an empty name, which `GetGraph` takes for any child (query.go:167), and rests on `NamesAssumption`: no graph has one
(writer.go:14).

**`RegistryProofs`**: `AcceptedIsRendered` and `RenderedIsAccepted` compare the schema with the switch of the
renderer for any set of install modes, by cases on whether the watched namespace is that of the
operator. The two invariants `ConfigAgrees` and `ValidatedAlwaysRender` speak of a call that has
failed, and say nothing of one that may yet fail: the inductive invariant `CallInv` adds what each
stage has decided so far (`Decisions`): past "configure" the configuration was accepted, past
"validate" the bundle is valid and the targets are those of the request. That a valid bundle fails in no generator then is the lemma
`ValidGenerates`, from the checks to the errors of the generators.
`ScopesAreExact` speaks of what a call returns, and needs what the objects are on the way there:
`ScopeInv` says that each is `Explained`, as a role or binding of the bundle's permissions for
these targets, a deployment or webhook that was told them, or an object the scope is not about; that
the roles and bindings are all there once their generators had their turn (`Objects`); and that the
targets were not refused (`Watched`). A generator appends what the lemmas about
its objects explain (`PlainObjects`, `GrantObjects`, `DeploymentInformed`, `WebhookObjects`),
and certificates change none of it (`CertificatesExplained`). `GrantedRights` then counts what the bindings
grant, where each has the one role with the hash of its permission, `DeclaredRights` what the bundle
asks for, and `GrantedIsDeclared` compares them. That the hash tells permissions apart is the
model's (`Hash` is the identity). The assumptions are what decoding gives: a permission has an account and
rules, a pod has annotations, maybe none (`BundlesAssumption`), targets are a sequence of names
(`RequestsAssumption`); and that no bundle brings a Deployment or a webhook configuration of its own, which
are not among the supported kinds (`KindsAssumption`).

`ReferencesAreRendered` needs `LinkInv`, of every object that is there: what an object of its kind
looks like and may refer to (`Known`), that no two are made of one thing (`Distinct`), and what is
there once its generator had its turn, or cannot be there yet (`Present`). Roles and bindings are
those that `LocalRights` and `GlobalRights` find, for each place in the lists of targets and permissions; a binding
finds one role only under `NothingRepeated`, and an account or a service is the only one of its name under `NamesApart`.
That the pods behind a service are the webhook's deployment's (`BehindIs`) is a matter of labels, which
`PodsInv` (below) follows through configurations and certificates, under `SelectorsApart`: each deployment with webhooks has
`matchLabels`, which its pod has and no other. None of the three premises is checked by
the code, and the instance has bundles that break each of them. The theorem assumes that the
CRDs of a bundle are kept apart from its other objects (source.go:110).

`DeclarationsAreKept`, `ConfigurationsApply` and `MountsAreBacked` are about pods. A rendering writes into the
bundle it was given ("Disagreements"), so what a later one delivers depends on all earlier ones: `PodsInv`
says what the bundle's own pods have become after any number of renderings (`OwnPod`), and what the pod of
each rendered deployment is (`DeliveredPod`). What lets both survive a step is `GoodPod`: the pod is well formed, has
what was declared but for what certificates may have displaced (`Gone`), and mounts at
the paths of certificates only volumes that the bundle or a configuration
offered so far, or the certificates, brought there (`Originates`); so the next rendering's certificates displace
nothing else. Configuring (`ConfiguredPod`, `ConfiguredInPlacePod`) and certifying (`RecertifiedIsGood`, `RecertifiedIsApplied`,
`RecertifiedIsCovered`, `RecertifiedIsTrusted`)
a pod, and the original that shares its slices (`CertifiedInPlacePod`), are lemmas of their own. They rest on what `Without`, the
`slices.DeleteFunc` of the source, leaves of a list of any length, which is proved by well-founded
induction over its prefixes. What a first rendering may take from init containers is known before it is certified: the volumes to be
removed are those of the configured containers (`RemovedByContainers`), and `MountsAreBacked` has the premise that
init containers mount none of them. `DeclaredKept` leaves out the two
annotations that OLM sets itself (generators.go:77-78). The assumptions are Go's types: a pod, a container and a configuration
have these fields and their lists are finite (`IsPod`, `IsConfig`), no affinity is not taken for one
(`PartsAssumption`, where `Parts` is what a part of an affinity may be).

`CertificatesAreTrusted` joins the two. `SignedInv` says of what is returned
that each webhook trusts the provider's certificate for its service, and each service names its
secret; `LinkInv` and `NamesApart` lead from the webhook to one service, one
certificate and one issuer, `SelectorsApart` from the service to the pods of one deployment; `PodsInv` has the secret at both paths of every container
(`Trusted`). It assumes that the provider is one of the two of the repository.

Only model-checked:

* `CallsReturn` of the store and `ReturnsUnlessStuck` of the importer: fairness is out of the prover's reach.

No leaf needs more than a fraction of the time a prover is given by default: the modules also pass with an eighth of it
(`tlapm --stretch 0.12`), so that they can be checked on slower machines.

## Not modelled, and why

Values of properties, wording of errors, errors of row scans (data that no property tells
apart); the temporary database of the importer; `DropRawTables`, which has no caller. Loading of
registry bundles decodes manifests: a loaded bundle is a value here, with the assumption that its
slices were decoded without room to grow, so that `append` never writes to their arrays (true of lists
of one or two, as in the instance; a decoder that doubles its slices leaves room in longer ones). The schema of
`deploymentConfig` is generated from the Kubernetes types by a build tool. Two renderings of one
bundle at once are a data race of the caller, and no document speaks of them. A certificate provider of the caller that fails
ends the rendering with its error. The objects of a rendering are a set: their order is
left out, and two that the code appends with the same content are told apart by what they are made of (`of`). The rules of
a permission are a set too. Of an init container only what it mounts is modelled. The Helm renderer delegates to Helm, without state of its own.
`WalkMetasFS`, `database/sql`, SQLite and the JSON schema compiler are modelled by how this code
uses them.

## Plan

1. Done: store, opening, content, importer, resolver, order of bundles, registry bundles; proofs
   of the invariants of the store and of its calls, of opening, of the content and its queries, of the resolver, of
   the importer's goroutines, its errors and what it writes, of the renderer: its decisions, the rights it
   grants, the references between its objects, its pods and certificates.
2. `Property` of a bundle, a second client of the resolver's catalogs, the parser of releases.
   Loading of registry bundles and Helm are not planned.
