----------------------------- MODULE FbcImport -----------------------------
(***************************************************************************)
(* catalog/v1/fbc: Importer.Import.  Walkers read the blobs of the files,  *)
(* several at once, and send a row for each over a channel to the goroutine*)
(* that stages them in batches; then every package that was staged without *)
(* an error is normalized, and finalized by the extension, through the     *)
(* Writer of the Set.                                                      *)
(***************************************************************************)
EXTENDS ContentTables

CONSTANTS
  Inputs,       \* what Import may be given: functions from files to blobs
  NoPackage,    \* the package of a blob that does not say
  Catalog,      \* the catalog that is Set
  HasExtension, \* the importer has an OLMPackageExtension
  ChannelCap,   \* bound: 256 in the code
  BatchSize     \* bound: 500 in the code

ASSUME ImportAssumption ==
  /\ \A input \in Inputs : \A f \in DOMAIN input :
       /\ input[f] \in Seq(ToSet(input[f]))
       /\ \A i \in DOMAIN input[f] : input[f][i].kind = "channel" =>
            LET entries == input[f][i].entries
            IN  /\ entries \in Seq(ToSet(entries))
                /\ \A k \in DOMAIN entries : IsFiniteSet(entries[k].skips)
  /\ Catalog \in Catalogs /\ ChannelCap \in Nat /\ BatchSize \in Nat \ {0}
  /\ None \notin {"ok", "partial"}

VARIABLES
  files,     \* the input
  walker,    \* of a file: how far it is read, and how that ended
  rowCh,     \* the rows sent and not received
  writer,    \* batchWriter: its batch, and what it does
  staged,    \* the rows of the raw tables
  errs,      \* the packages of PackageErrors, of all phases
  cancelled, \* ctx.Done
  phase,     \* of Import
  todo,      \* the packages that the phase has not come to
  current,   \* the package that is normalized, and the writes it has left
  content,   \* the content tables, as the transaction of Set sees them
  result     \* of Import

ingestVars == <<files, walker, rowCh, writer, staged>>
vars == <<ingestVars, errs, cancelled, phase, todo, current, content, result>>

Files == DOMAIN files

-----------------------------------------------------------------------------
(***************************************************************************)
(* What is in a blob.  "malformed" stands for a blob that does not parse,  *)
(* has no version or that a callback of the extension refuses.             *)
(***************************************************************************)

\* A blob of another schema is only for the extension.
HasRow(blob) == blob.kind # "malformed" /\ (blob.kind = "other" => HasExtension)

\* The primary keys of the raw tables, and the checks on their columns.
RowFails(rows, blob) ==
  \/ /\ blob.kind \in {"package", "channel", "bundle"}
     /\ \E r \in rows : r.kind = blob.kind /\ r.pkg = blob.pkg /\ r.name = blob.name
  \/ /\ blob.kind = "channel"
     /\ \E i, j \in DOMAIN blob.entries :
          i # j /\ blob.entries[i].bundle = blob.entries[j].bundle
  \/ blob.kind = "deprecation" /\ blob.message = None

\* A row of the batch fails on the rows of the tables and those before it.
BatchFails(rows, batch) ==
  \E i \in DOMAIN batch : RowFails(rows \cup {batch[j] : j \in 1 .. i - 1}, batch[i])

StagedOf(rows, kind, pkg) == {r \in rows : r.kind = kind /\ r.pkg = pkg}
StagedPackages(rows) == {r.pkg : r \in {x \in rows : x.kind = "package"}}

-----------------------------------------------------------------------------
(***************************************************************************)
(* OLMPackageHandler.Normalize.                                            *)
(***************************************************************************)

\* validateBundles, validateEntries and the skip ranges: nothing is written
\* before all of a package is valid.
ValidPackage(rows, pkg) ==
  LET bundles == StagedOf(rows, "bundle", pkg)
  IN  /\ \A b \in bundles : b.version # Failed
      /\ \A ch \in StagedOf(rows, "channel", pkg) : \A i \in DOMAIN ch.entries :
           /\ \E b \in bundles : b.name = ch.entries[i].bundle
           /\ ch.entries[i].range # Failed

\* Mutation: the ends of an edge are taken to be in the catalog.
EntryWritesNoStub(path, e) ==
  LET from == (IF e.replaces = None THEN {} ELSE {e.replaces}) \cup e.skips
  IN  [i \in 1 .. Cardinality(from) |->
         [op |-> "edge", path |-> path, from |-> SetToSeq(from)[i], to |-> e.bundle]]
        \o (IF e.range = None THEN <<>>
            ELSE << [op |-> "range", path |-> path, bundle |-> e.bundle, versions |-> e.range] >>)

\* writeChannelSuccessors: the ends of an edge that the catalog does not have
\* become bundles that have no version.
EntryWrites(path, e) ==
  LET from == (IF e.replaces = None THEN {} ELSE {e.replaces}) \cup e.skips
      edge(b) == << [op |-> "bundle", bundle |-> b, version |-> NoVersion],
                    [op |-> "edge", path |-> path, from |-> b, to |-> e.bundle] >>
  IN  FlattenSeq([i \in 1 .. Cardinality(from) |-> edge(SetToSeq(from)[i])])
        \o (IF e.range = None THEN <<>>
            ELSE << [op |-> "range", path |-> path, bundle |-> e.bundle, versions |-> e.range] >>)

ChannelWrites(ch) ==
  LET path == <<ch.pkg, ch.name>>
      n == Len(ch.entries)
  IN  << [op |-> "graph", path |-> path] >>
        \o [i \in 1 .. n |-> [op |-> "member", path |-> path, bundle |-> ch.entries[i].bundle]]
        \o FlattenSeq([i \in 1 .. n |-> EntryWrites(path, ch.entries[i])])

DeprecationWrite(r) ==
  IF r.schema = "bundle"
  THEN [op |-> "deprecate bundle", bundle |-> r.name, message |-> r.message]
  ELSE [op |-> "deprecate graph", message |-> r.message,
        path |-> IF r.schema = "package" THEN <<r.pkg>> ELSE <<r.pkg, r.name>>]

PackageWrites(rows, pkg) ==
  LET bundles  == SetToSeq(StagedOf(rows, "bundle", pkg))
      channels == SetToSeq(StagedOf(rows, "channel", pkg))
      deprecations == SetToSeq({r \in StagedOf(rows, "deprecation", pkg) :
                                  r.schema \in {"package", "channel", "bundle"}})
  IN  << [op |-> "graph", path |-> <<pkg>>] >>
        \o [i \in DOMAIN bundles |-> [op |-> "bundle", bundle |-> bundles[i].name,
                                      version |-> bundles[i].version]]
        \o FlattenSeq([i \in DOMAIN channels |-> ChannelWrites(channels[i])])
        \o [i \in DOMAIN deprecations |-> DeprecationWrite(deprecations[i])]

-----------------------------------------------------------------------------
(***************************************************************************)
(* Ingest.                                                                 *)
(***************************************************************************)
Idle == [pkg |-> None, writes |-> <<>>]

Init ==
  /\ files \in Inputs
  /\ walker = [f \in DOMAIN files |-> [read |-> 0, status |-> "ready"]]
  /\ rowCh = <<>>
  /\ writer = [batch |-> <<>>, status |-> "reading"]
  /\ staged = {}
  /\ errs = {}
  /\ cancelled = FALSE
  /\ phase = "ingest"
  /\ todo = {}
  /\ current = Idle
  /\ content = EmptyContent
  /\ result = None

laterVars == <<cancelled, phase, todo, current, content, result>>

\* WalkMetasFS comes to the file; WalkReader has no other.
Start(f) ==
  /\ walker[f].status = "ready"
  /\ walker' = [walker EXCEPT ![f].status = "walking"]
  /\ UNCHANGED <<files, rowCh, writer, staged, errs, laterVars>>

\* The files not begun are left when another failed, or the context is done.
Abandon(f) ==
  /\ walker[f].status = "ready"
  /\ cancelled \/ \E g \in Files : walker[g].status = "failed"
  /\ walker' = [walker EXCEPT ![f].status = "failed"]
  /\ UNCHANGED <<files, rowCh, writer, staged, errs, laterVars>>

AtBlob(f) == walker[f].status = "walking" /\ walker[f].read < Len(files[f])
BlobOf(f) == files[f][walker[f].read + 1]

\* Mutation: the error of a blob is not recorded with its package.
SkipBlobSilently(f) ==
  /\ AtBlob(f)
  /\ ~HasRow(BlobOf(f))
  /\ walker' = [walker EXCEPT ![f].read = @ + 1]
  /\ UNCHANGED <<files, rowCh, writer, staged, errs, laterVars>>

\* A blob without a row: nobody wants it, or it is malformed.  That is an error
\* of its package, and of the walk if it names none.
SkipBlob(f) ==
  /\ AtBlob(f)
  /\ ~HasRow(BlobOf(f))
  /\ LET blob == BlobOf(f)
         malformed == blob.kind = "malformed"
     IN  IF malformed /\ blob.pkg = NoPackage
         THEN walker' = [walker EXCEPT ![f].status = "failed"] /\ UNCHANGED errs
         ELSE /\ walker' = [walker EXCEPT ![f].read = @ + 1]
              /\ errs' = IF malformed THEN errs \cup {blob.pkg} ELSE errs
  /\ UNCHANGED <<files, rowCh, writer, staged, laterVars>>

\* sendRow: the channel has room.
SendRow(f) ==
  /\ AtBlob(f)
  /\ HasRow(BlobOf(f))
  /\ Len(rowCh) < ChannelCap
  /\ rowCh' = Append(rowCh, BlobOf(f))
  /\ walker' = [walker EXCEPT ![f].read = @ + 1]
  /\ UNCHANGED <<files, writer, staged, errs, laterVars>>

\* Mutation: sendRow does not select on ctx.Done.
SendUncancellable(f) == FALSE /\ UNCHANGED vars

\* sendRow: the context is done.
SendCancelled(f) ==
  /\ AtBlob(f)
  /\ HasRow(BlobOf(f))
  /\ cancelled
  /\ walker' = [walker EXCEPT ![f].status = "failed"]
  /\ UNCHANGED <<files, rowCh, writer, staged, errs, laterVars>>

EndOfFile(f) ==
  /\ walker[f].status = "walking"
  /\ walker[f].read = Len(files[f])
  /\ walker' = [walker EXCEPT ![f].status = "done"]
  /\ UNCHANGED <<files, rowCh, writer, staged, errs, laterVars>>

Walk(f) == Start(f) \/ Abandon(f) \/ SkipBlob(f) \/ SendRow(f) \/ SendCancelled(f) \/ EndOfFile(f)

\* batchWriter takes a row; a full batch is flushed before the next.
ReceiveRow ==
  /\ writer.status = "reading"
  /\ rowCh # <<>>
  /\ rowCh' = Tail(rowCh)
  /\ writer' = [batch  |-> Append(writer.batch, Head(rowCh)),
                status |-> IF Len(writer.batch) + 1 >= BatchSize THEN "flushing" ELSE "reading"]
  /\ UNCHANGED <<files, walker, staged, errs, laterVars>>

Drained == writer.status = "reading" /\ rowCh = <<>> /\ phase = "closed"

\* Mutation: the last, partial batch is not flushed.
LastBatchDropped ==
  /\ writer.status = "flushing" \/ Drained
  /\ LET fails == ~Drained /\ (cancelled \/ BatchFails(staged, writer.batch))
     IN  /\ staged' = IF fails \/ Drained THEN staged ELSE staged \cup ToSet(writer.batch)
         /\ writer' = [batch  |-> <<>>,
                       status |-> IF fails THEN "failed" ELSE IF Drained THEN "ok" ELSE "reading"]
  /\ UNCHANGED <<files, walker, rowCh, errs, laterVars>>

\* flush: the batch in one transaction, or none of it; batchWriter returns on the
\* first error and receives no more.  At the close of the channel it returns.
Flush ==
  /\ writer.status = "flushing" \/ Drained
  /\ LET fails == writer.batch # <<>> /\ (cancelled \/ BatchFails(staged, writer.batch))
     IN  /\ staged' = IF fails THEN staged ELSE staged \cup ToSet(writer.batch)
         /\ writer' = [batch  |-> <<>>,
                       status |-> IF fails THEN "failed" ELSE IF Drained THEN "ok" ELSE "reading"]
  /\ UNCHANGED <<files, walker, rowCh, errs, laterVars>>

Cancel ==
  /\ ~cancelled
  /\ phase # "returned"
  /\ cancelled' = TRUE
  /\ UNCHANGED <<ingestVars, errs, phase, todo, current, content, result>>

Walked == \A f \in Files : walker[f].status \in {"done", "failed"}

\* The walk returns: close(rowCh).
CloseRows ==
  /\ phase = "ingest"
  /\ Walked
  /\ phase' = "closed"
  /\ UNCHANGED <<ingestVars, errs, cancelled, todo, current, content, result>>

Return(r) == phase' = "returned" /\ result' = r /\ todo' = {}

WalkFailed == \E f \in Files : walker[f].status = "failed"

\* Mutation: the error of the walk is returned before the writer has ended.
ReturnUnjoined ==
  /\ phase = "closed"
  /\ IF WalkFailed THEN Return("fatal")
     ELSE /\ writer.status \in {"ok", "failed"}
          /\ IF writer.status = "failed" THEN Return("fatal")
             ELSE phase' = "normalize" /\ todo' = StagedPackages(staged) /\ UNCHANGED result
  /\ UNCHANGED <<ingestVars, errs, cancelled, current, content>>

\* Ingest has received the error of the writer, and Normalize lists the packages.
Ingested ==
  /\ phase = "closed"
  /\ writer.status \in {"ok", "failed"}
  /\ IF WalkFailed \/ writer.status = "failed" \/ cancelled
     THEN Return("fatal")
     ELSE phase' = "normalize" /\ todo' = StagedPackages(staged) /\ UNCHANGED result
  /\ UNCHANGED <<ingestVars, errs, cancelled, current, content>>

-----------------------------------------------------------------------------
(***************************************************************************)
(* Normalize and finalize, in the order in which the packages are listed.  *)
(***************************************************************************)

Fail(pkg) == errs' = errs \cup {pkg}

\* Mutation: the packages with errors of the walk are normalized as well.
BeginSkipped(pkg) ==
  /\ phase = "normalize"
  /\ current = Idle
  /\ pkg \in todo
  /\ IF ValidPackage(staged, pkg)
     THEN current' = [pkg |-> pkg, writes |-> PackageWrites(staged, pkg)] /\ UNCHANGED errs
     ELSE Fail(pkg) /\ UNCHANGED current
  /\ todo' = todo \ {pkg}
  /\ UNCHANGED <<ingestVars, cancelled, phase, content, result>>

\* A package of skipPackages is passed over, one that is not valid fails.
BeginPackage(pkg) ==
  /\ phase = "normalize"
  /\ current = Idle
  /\ pkg \in todo
  /\ CASE pkg \in errs               -> UNCHANGED <<current, errs>>
       [] pkg \notin errs /\ ~ValidPackage(staged, pkg) -> Fail(pkg) /\ UNCHANGED current
       [] OTHER -> current' = [pkg |-> pkg, writes |-> PackageWrites(staged, pkg)]
                   /\ UNCHANGED errs
  /\ todo' = todo \ {pkg}
  /\ UNCHANGED <<ingestVars, cancelled, phase, content, result>>

\* The next write of the package; an error ends it and leaves what it wrote.  When
\* the context is done the transaction is rolled back, now or a little later, and
\* a write to it fails.
Write ==
  /\ current.writes # <<>>
  /\ LET next == Apply(content, Catalog, 1, Head(current.writes))
     IN  \/ /\ next # Failed
            /\ content' = next
            /\ current' = IF Len(current.writes) = 1 THEN Idle
                          ELSE [current EXCEPT !.writes = Tail(@)]
            /\ UNCHANGED errs
         \/ /\ next = Failed \/ cancelled
            /\ Fail(current.pkg)
            /\ current' = Idle
            /\ UNCHANGED content
  /\ UNCHANGED <<ingestVars, cancelled, phase, todo, result>>

\* Without an extension there is nothing to finalize.  finalize lists the
\* packages again, and a context that is done fails that query.
NormalizeDone ==
  /\ phase = "normalize"
  /\ todo = {}
  /\ current = Idle
  /\ IF ~HasExtension
     THEN Return(IF errs = {} THEN "ok" ELSE "partial")
     ELSE IF cancelled THEN Return("fatal")
     ELSE phase' = "finalize" /\ todo' = StagedPackages(staged) /\ UNCHANGED result
  /\ UNCHANGED <<ingestVars, errs, cancelled, current, content>>

\* FinalizePackage sets properties of the package, and may fail after it did.
FinalizePackage(pkg) ==
  /\ phase = "finalize"
  /\ pkg \in todo
  /\ \/ pkg \in errs /\ UNCHANGED <<content, errs>>
     \/ /\ pkg \notin errs
        /\ \E property \in {content, SetGraphProperty(content, Catalog, <<pkg>>)} \ {Failed} :
             content' = property
        /\ UNCHANGED errs \/ Fail(pkg)
  /\ todo' = todo \ {pkg}
  /\ UNCHANGED <<ingestVars, cancelled, phase, current, result>>

\* mergePackageErrors.
FinalizeDone ==
  /\ phase = "finalize"
  /\ todo = {}
  /\ Return(IF errs = {} THEN "ok" ELSE "partial")
  /\ UNCHANGED <<ingestVars, errs, cancelled, current, content>>

Import ==
  \/ CloseRows
  \/ Ingested
  \/ \E pkg \in todo : BeginPackage(pkg) \/ FinalizePackage(pkg)
  \/ Write
  \/ NormalizeDone
  \/ FinalizeDone

Next ==
  \/ \E f \in Files : Walk(f)
  \/ ReceiveRow
  \/ Flush
  \/ Import
  \/ Cancel

Spec == Init /\ [][Next]_vars

\* The goroutines run; nobody has to cancel.
FairSpec ==
  /\ Spec
  /\ \A f \in UNION {DOMAIN i : i \in Inputs} : WF_vars(f \in Files /\ Walk(f))
  /\ WF_vars(ReceiveRow \/ Flush)
  /\ WF_vars(Import)

-----------------------------------------------------------------------------
(***************************************************************************)
(* Properties.                                                             *)
(***************************************************************************)

\* All that the files say, however the walkers interleave.
Blobs == UNION {{files[f][i] : i \in DOMAIN files[f]} : f \in Files}
AllRows == {blob \in Blobs : HasRow(blob)}
MalformedOf(pkg) == \E blob \in Blobs : blob.kind = "malformed" /\ blob.pkg = pkg

\* No row of the input clashes with another, so that all can be staged.
RowsFit == /\ \A f, g \in Files : \A i \in DOMAIN files[f], j \in DOMAIN files[g] :
                <<f, i>> # <<g, j>> => ~RowFails({files[f][i]}, files[g][j])
           /\ \A blob \in Blobs : ~RowFails({}, blob)

\* Past the walk, every row of the input is staged: none was left in the channel
\* or in a batch, and a row that could not be staged has ended the import.
EveryRowStaged == phase \in {"normalize", "finalize"} => RowsFit /\ staged = AllRows

\* When Import has returned nobody walks, sends or writes: the raw database that
\* it removes is nobody's.
GoroutinesJoined ==
  phase = "returned" => Walked /\ writer.status \in {"ok", "failed"}

\* The paths that a package makes or deprecates are paths.
NamesAreSegments(pkg) ==
  /\ pkg \in Segments
  /\ \A ch \in StagedOf(AllRows, "channel", pkg) : ch.name \in Segments
  /\ \A r \in StagedOf(AllRows, "deprecation", pkg) : r.schema = "channel" => r.name \in Segments

\* What Normalize has to find wrong with a package, from the input alone.
FaultyPackages ==
  {pkg \in {blob.pkg : blob \in Blobs} :
     \/ MalformedOf(pkg)
     \/ /\ pkg \in StagedPackages(AllRows)
        /\ ~ValidPackage(AllRows, pkg) \/ ~NamesAreSegments(pkg)}

\* Once all packages are normalized, the packages with errors are those that are
\* at fault, whatever order walkers and packages took: a package never fails for
\* another's fault, and no fault goes unreported.
FaultsReported ==
  phase = "normalize" /\ todo = {} /\ current = Idle /\ ~cancelled => errs = FaultyPackages

\* A package that the walk or the validation refuses leaves nothing in the content,
\* although no write is ever undone.
RefusedPackagesUnwritten ==
  \A g \in content.graphs :
    ~MalformedOf(g.path[1]) /\ ValidPackage(AllRows, g.path[1])

Predecessors(e) == ({e.replaces} \ {None}) \cup e.skips

\* No other package has, or refers to, a bundle ID of this one.
NamesUnshared(pkg) ==
  LET named(rows) == {b.name : b \in {r \in rows : r.kind = "bundle"}}
        \cup UNION {UNION {{ch.entries[i].bundle} \cup Predecessors(ch.entries[i]) :
                             i \in DOMAIN ch.entries} : ch \in {r \in rows : r.kind = "channel"}}
      own == {r \in AllRows : r.pkg = pkg}
  IN  named(own) \cap named(AllRows \ own) = {}

\* What the files say of an entry of a channel is in the content.
EntryWritten(ch, e) ==
  LET graph == GraphAt(content, Catalog, <<ch.pkg, ch.name>>)
      id(b) == {r.id : r \in BundleIn(content, Catalog, b)}
  IN  \E g \in graph, b \in BundleIn(content, Catalog, e.bundle) :
        /\ \E r \in AllRows : r.kind = "bundle" /\ r.pkg = ch.pkg
                             /\ r.name = b.bundle /\ r.version = b.version
        /\ [graph |-> g.id, bundle |-> b.id] \in content.members
        /\ \A x \in Predecessors(e) : \E i \in id(x) :
             [graph |-> g.id, from |-> i, to |-> b.id] \in content.edges
        /\ e.range # None =>
             [graph |-> g.id, bundle |-> b.id, versions |-> e.range] \in content.ranges

\* A package without an error is there whole, with its own bundles, edges and
\* ranges, although other packages failed before it or after it, as long as no
\* two packages name the same bundle.
ValidPackagesWhole ==
  result \in {"ok", "partial"} /\ ~cancelled =>
    \A pkg \in StagedPackages(AllRows) \ errs :
      /\ GraphAt(content, Catalog, <<pkg>>) # {}
      /\ NamesUnshared(pkg) =>
           \A ch \in StagedOf(AllRows, "channel", pkg) : \A i \in DOMAIN ch.entries :
             EntryWritten(ch, ch.entries[i])

\* Import returns when the context is done, whoever waits for whom (a walker on a
\* full channel, the writer on an empty one, Import on both), and when no row is
\* refused by the raw tables.
ReturnsUnlessStuck == (cancelled \/ RowsFit) ~> phase = "returned"

\* What the comment of Import promises: "Fatal errors (I/O failures, database
\* failures) are returned directly."  When a batch fails the writer returns and
\* the walkers wait for room in a channel that nobody reads.
ImportReturns == <>(phase = "returned")

\* What requirements.md of fbc-partial-load promises: "failed packages are
\* invisible to the catalog API".
FailedPackagesInvisible ==
  result \in {"ok", "partial"} /\ ~cancelled =>
    \A g \in content.graphs : g.path[1] \notin errs
=============================================================================
