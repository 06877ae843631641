---------------------------- MODULE CatalogStore ----------------------------
(***************************************************************************)
(* catalog/v1/sqlite: one store used by concurrent clients.  A Set or a    *)
(* Delete is a transaction on the only connection of the writer pool; a    *)
(* Get or a List is several statements on the reader pool, each of which   *)
(* reads whatever is committed when it runs.                               *)
(***************************************************************************)
EXTENDS StoreData

CONSTANTS
  Clients,    \* goroutines that call the store
  Selectors,  \* label selectors the clients pass to Select
  MaxCalls    \* bound: calls made in a behaviour

ASSUME StoreAssumption ==
  /\ None \notin Clients
  /\ Selectors \subseteq {Nothing} \cup SUBSET Label
  /\ MaxCalls \in Nat

VARIABLES
  db,         \* the committed database
  work,       \* the database as the open transaction sees it
  conn,       \* the client that holds the writer connection, or None
  pc,         \* where each client is
  call,       \* the call each client makes
  importErr,  \* the clients whose importer returned a PartialImportError
  cursor,     \* List: the rows of catalog_metadata not yet labelled
  ret,        \* what each client's call returns
  closed,     \* Close was called: no pool gives a connection any more
  seen,       \* history: the committed databases a reader's call has met
  calls       \* history: calls made so far

vars == <<db, work, conn, pc, call, importErr, cursor, ret, closed, seen, calls>>
callVars == <<call, closed, seen, calls>>

TxStages == {"delete content", "import", "digest", "labels", "reserved label",
             "commit", "commit delete"}
ReadStages == {"get row", "get labels", "list rows", "list labels"}
Stages == TxStages \cup ReadStages \cup {"begin", "delete"}

\* Where a call asks a pool for a connection.
Acquiring == ReadStages \cup {"begin", "delete"}

\* The selectors given to Select, Select of Select being the longest chain here.
Chains == {<<>>} \cup {<<a>> : a \in Selectors} \cup {<<a, b>> : a, b \in Selectors}

Call == [op: {"set", "delete", "get", "list"}, name: Names \cup {None},
         cfg: Configs \cup {None}, chain: Chains]

NoCall == [op |-> "get", name |-> None, cfg |-> None, chain |-> <<>>]

Result == [status: {"ok", "partial", "not found", "error"},
           catalogs: SUBSET CatalogValue]

Outcome(status, catalogs) == [status |-> status, catalogs |-> catalogs]
NoResult == Outcome("error", {})

-----------------------------------------------------------------------------
Init ==
  /\ db = EmptyTables
  /\ work = EmptyTables
  /\ conn = None
  /\ pc = [p \in Clients |-> "idle"]
  /\ call = [p \in Clients |-> NoCall]
  /\ importErr = {}
  /\ cursor = [p \in Clients |-> {}]
  /\ ret = [p \in Clients |-> NoResult]
  /\ closed = FALSE
  /\ seen = [p \in Clients |-> <<>>]
  /\ calls = 0

Goto(p, stage) == pc' = [pc EXCEPT ![p] = stage]

\* The call of p is over: it returns r.
Finish(p, r) ==
  /\ Goto(p, "done")
  /\ ret' = [ret EXCEPT ![p] = r]
  /\ cursor' = [cursor EXCEPT ![p] = {}]

Start(p, c, stage) ==
  /\ pc[p] = "idle"
  /\ calls < MaxCalls
  /\ calls' = calls + 1
  /\ call' = [call EXCEPT ![p] = c]
  /\ seen' = [seen EXCEPT ![p] = IF stage \in ReadStages THEN <<db>> ELSE <<>>]
  /\ Goto(p, stage)
  /\ UNCHANGED <<db, work, conn, importErr, cursor, ret, closed>>

CallSet(p, n, cfg) ==
  Start(p, [op |-> "set", name |-> n, cfg |-> cfg, chain |-> <<>>], "begin")

CallDelete(p, n) ==
  Start(p, [op |-> "delete", name |-> n, cfg |-> None, chain |-> <<>>], "delete")

CallGet(p, n, chain) ==
  Start(p, [op |-> "get", name |-> n, cfg |-> None, chain |-> chain], "get row")

CallList(p, chain) ==
  Start(p, [op |-> "list", name |-> None, cfg |-> None, chain |-> chain],
        "list rows")

\* The caller has the result and forgets the call.
Return(p) ==
  /\ pc[p] = "done"
  /\ Goto(p, "idle")
  /\ call' = [call EXCEPT ![p] = NoCall]
  /\ ret' = [ret EXCEPT ![p] = NoResult]
  /\ seen' = [seen EXCEPT ![p] = <<>>]
  /\ UNCHANGED <<db, work, conn, importErr, cursor, closed, calls>>

-----------------------------------------------------------------------------
(***************************************************************************)
(* Transactions.  The writer pool has one connection: BeginTx waits for it *)
(* and Commit or Rollback gives it back.                                   *)
(***************************************************************************)
Statement(p, from, to, t) ==
  /\ pc[p] = from
  /\ Goto(p, to)
  /\ work' = t
  /\ UNCHANGED <<db, conn, importErr, cursor, ret, callVars>>

\* Mutation: an early return forgets the transaction.
RollbackForgotten(p) ==
  /\ importErr' = importErr \ {p}
  /\ UNCHANGED <<work, conn>>

Rollback(p) ==
  /\ conn' = IF conn = p THEN None ELSE conn
  /\ work' = IF conn = p THEN db ELSE work
  /\ importErr' = importErr \ {p}

Commit(p) ==
  /\ conn' = None
  /\ db' = work
  /\ seen' = [q \in Clients |->
                IF pc[q] \in ReadStages THEN Append(seen[q], work) ELSE seen[q]]
  /\ importErr' = importErr \ {p}
  /\ UNCHANGED <<work, call, closed, calls>>

\* BeginTx, the check that the entry exists or may be created, and the INSERT
\* or the UPDATEs of its row.
SetBegin(p) ==
  LET n == call[p].name
      cfg == call[p].cfg
  IN  /\ pc[p] = "begin"
      /\ ~closed
      /\ conn = None
      /\ ~MissingURI(db, n, cfg)
      /\ conn' = p
      /\ work' = UpsertMetadata(db, n, cfg)
      /\ Goto(p, IF cfg.content = None THEN "labels" ELSE "delete content")
      /\ UNCHANGED <<db, importErr, cursor, ret, callVars>>

\* The same for a new entry without WithURI: the transaction is rolled back.
SetMissingURI(p) ==
  /\ pc[p] = "begin"
  /\ ~closed
  /\ conn = None
  /\ MissingURI(db, call[p].name, call[p].cfg)
  /\ Finish(p, Outcome("error", {}))
  /\ UNCHANGED <<db, work, conn, importErr, callVars>>

SetDeleteContent(p) ==
  Statement(p, "delete content", "import", DeleteContent(work, call[p].name))

\* The importer writes a package through the contentWriter.
ImportPackage(p) ==
  /\ pc[p] = "import"
  /\ \E package \in Packages :
       LET n == call[p].name
           item == [digest |-> call[p].cfg.content, package |-> package]
       IN  /\ item \notin work.content[n]
           /\ Statement(p, "import", "import", WritePackage(work, n, item))

\* Import returns nil (all is written) or a PartialImportError (some may be
\* missing).  Any other error is a Fail.
ImportReturns(p) ==
  LET written == {i.package : i \in work.content[call[p].name]}
  IN  /\ pc[p] = "import"
      /\ Goto(p, "digest")
      /\ \/ written = Packages /\ UNCHANGED importErr
         \/ importErr' = importErr \cup {p}
      /\ UNCHANGED <<db, work, conn, cursor, ret, callVars>>

SetDigest(p) ==
  Statement(p, "digest", "labels",
            UpdateDigest(work, call[p].name, call[p].cfg.content))

SetLabels(p) ==
  LET n == call[p].name
      cfg == call[p].cfg
  IN  /\ pc[p] = "labels"
      /\ ~LabelConflict(n, cfg)
      /\ Statement(p, "labels", "reserved label",
                   IF cfg.labels = None THEN work ELSE ReplaceLabels(work, n, cfg.labels))

SetLabelConflict(p) ==
  /\ pc[p] = "labels"
  /\ LabelConflict(call[p].name, call[p].cfg)
  /\ Finish(p, Outcome("error", {}))
  /\ Rollback(p)
  /\ UNCHANGED <<db, callVars>>

\* Mutation: the Catalog is read before the reserved label is put.
SetReservedLabelAfterRead(p) ==
  LET n == call[p].name
  IN  /\ pc[p] = "reserved label"
      /\ work' = PutReservedLabel(work, n)
      /\ ret' = [ret EXCEPT ![p] =
                  Outcome(IF p \in importErr THEN "partial" ELSE "ok", {CatalogOf(work, n)})]
      /\ Goto(p, "commit")
      /\ UNCHANGED <<db, conn, importErr, cursor, callVars>>

\* The reserved label, and the Catalog that Set will return, read inside the
\* transaction.
SetReservedLabel(p) ==
  LET n == call[p].name
      t == PutReservedLabel(work, n)
  IN  /\ pc[p] = "reserved label"
      /\ work' = t
      /\ ret' = [ret EXCEPT ![p] =
                  Outcome(IF p \in importErr THEN "partial" ELSE "ok", {CatalogOf(t, n)})]
      /\ Goto(p, "commit")
      /\ UNCHANGED <<db, conn, importErr, cursor, callVars>>

SetCommit(p) ==
  /\ pc[p] = "commit"
  /\ Commit(p)
  /\ Finish(p, ret[p])

\* BeginTx and the DELETE of the row, which cascades.
DeleteBegin(p) ==
  /\ pc[p] = "delete"
  /\ ~closed
  /\ conn = None
  /\ conn' = p
  /\ work' = DeleteMetadata(db, call[p].name)
  /\ Goto(p, "commit delete")
  /\ UNCHANGED <<db, importErr, cursor, ret, callVars>>

DeleteCommit(p) ==
  /\ pc[p] = "commit delete"
  /\ Commit(p)
  /\ Finish(p, Outcome("ok", {}))

-----------------------------------------------------------------------------
(***************************************************************************)
(* Readers.  Every statement runs on its own and reads what is committed   *)
(* when it starts.                                                         *)
(***************************************************************************)
GetRow(p) ==
  LET n == call[p].name
  IN  /\ pc[p] = "get row"
      /\ ~closed
      /\ IF n \in Present(db)
         THEN /\ cursor' = [cursor EXCEPT ![p] = {[name |-> n, row |-> db.metadata[n]]}]
              /\ Goto(p, "get labels")
              /\ UNCHANGED ret
         ELSE Finish(p, Outcome("not found", {}))
      /\ UNCHANGED <<db, work, conn, importErr, callVars>>

\* Mutation: Get reads the labels on the writer's connection.
GetLabelsUncommitted(p) ==
  LET labels == work.labels[call[p].name]
      found == {[name |-> r.name, row |-> r.row, labels |-> labels] : r \in cursor[p]}
  IN  /\ pc[p] = "get labels"
      /\ ~closed
      /\ Finish(p, IF Matches(Selector(call[p].chain), labels)
                   THEN Outcome("ok", found)
                   ELSE Outcome("not found", {}))
      /\ UNCHANGED <<db, work, conn, importErr, callVars>>

\* queryLabels, and the check of the selector of a selectedStore.
GetLabels(p) ==
  LET labels == db.labels[call[p].name]
      found == {[name |-> r.name, row |-> r.row, labels |-> labels] : r \in cursor[p]}
  IN  /\ pc[p] = "get labels"
      /\ ~closed
      /\ Finish(p, IF Matches(Selector(call[p].chain), labels)
                   THEN Outcome("ok", found)
                   ELSE Outcome("not found", {}))
      /\ UNCHANGED <<db, work, conn, importErr, callVars>>

\* The cursor over catalog_metadata reads the snapshot of the moment it opens.
ListRows(p) ==
  /\ pc[p] = "list rows"
  /\ ~closed
  /\ cursor' = [cursor EXCEPT ![p] =
                  {[name |-> n, row |-> db.metadata[n]] : n \in Present(db)}]
  /\ ret' = [ret EXCEPT ![p] = Outcome("ok", {})]
  /\ Goto(p, "list labels")
  /\ UNCHANGED <<db, work, conn, importErr, callVars>>

\* Mutation: List reads the row again when it reads its labels.
ListLabelsAndRow(p) ==
  \E r \in cursor[p] :
    /\ pc[p] = "list labels"
    /\ ~closed
    /\ cursor' = [cursor EXCEPT ![p] = @ \ {r}]
    /\ ret' = [ret EXCEPT ![p].catalogs = @ \cup {CatalogOf(db, r.name)}]
    /\ UNCHANGED <<db, work, conn, pc, importErr, callVars>>

\* Mutation: List reads the labels on the writer's connection.
ListLabelsUncommitted(p) ==
  \E r \in cursor[p] :
    /\ pc[p] = "list labels"
    /\ ~closed
    /\ cursor' = [cursor EXCEPT ![p] = @ \ {r}]
    /\ ret' = [ret EXCEPT ![p].catalogs =
                @ \cup {[name |-> r.name, row |-> r.row, labels |-> work.labels[r.name]]}]
    /\ UNCHANGED <<db, work, conn, pc, importErr, callVars>>

\* The labels of the next row, read on another connection.
ListLabels(p) ==
  \E r \in cursor[p] :
    /\ pc[p] = "list labels"
    /\ ~closed
    /\ cursor' = [cursor EXCEPT ![p] = @ \ {r}]
    /\ ret' = [ret EXCEPT ![p].catalogs =
                @ \cup {[name |-> r.name, row |-> r.row, labels |-> db.labels[r.name]]}]
    /\ UNCHANGED <<db, work, conn, pc, importErr, callVars>>

\* The cursor is at its end; a selectedStore drops what does not match.
ListReturns(p) ==
  /\ pc[p] = "list labels"
  /\ cursor[p] = {}
  /\ Finish(p, Outcome("ok", {c \in ret[p].catalogs : Matches(Selector(call[p].chain), c.labels)}))
  /\ UNCHANGED <<db, work, conn, importErr, callVars>>

-----------------------------------------------------------------------------
\* Mutation: the deferred function commits.
FailCommits(p) ==
  /\ pc[p] \in TxStages
  /\ Finish(p, Outcome("error", {}))
  /\ Commit(p)

\* A statement fails, the context is cancelled, or the importer returns an
\* error that is not a PartialImportError: the call returns an error and the
\* deferred Rollback undoes its transaction.
Fail(p) ==
  /\ pc[p] \in Stages
  /\ Finish(p, Outcome("error", {}))
  /\ Rollback(p)
  /\ UNCHANGED <<db, callVars>>

\* A closed store gives no connection, and a BeginTx that waits for one is told so.
Refused(p) ==
  /\ closed
  /\ pc[p] \in Acquiring
  /\ pc[p] = "list labels" => cursor[p] # {}
  /\ Fail(p)

\* Close closes the pools.  Connections in use stay open until they are given
\* back, so that a transaction that has begun still ends as it would.  No call
\* uses both pools, and they are closed in one step.
Close ==
  /\ ~closed
  /\ closed' = TRUE
  /\ UNCHANGED <<db, work, conn, pc, call, importErr, cursor, ret, seen, calls>>

\* The process dies and the store is opened again: of a transaction that is open
\* nothing is in the file, and what was committed is (journal_mode WAL).
Crash ==
  /\ conn' = None
  /\ work' = db
  /\ pc' = [p \in Clients |-> "idle"]
  /\ call' = [p \in Clients |-> NoCall]
  /\ importErr' = {}
  /\ cursor' = [p \in Clients |-> {}]
  /\ ret' = [p \in Clients |-> NoResult]
  /\ closed' = FALSE
  /\ seen' = [p \in Clients |-> <<>>]
  /\ UNCHANGED <<db, calls>>

SetStep(p) ==
  \/ SetBegin(p) \/ SetMissingURI(p) \/ SetDeleteContent(p) \/ ImportPackage(p)
  \/ ImportReturns(p) \/ SetDigest(p) \/ SetLabels(p) \/ SetLabelConflict(p)
  \/ SetReservedLabel(p) \/ SetCommit(p)

DeleteStep(p) == DeleteBegin(p) \/ DeleteCommit(p)

ReadStep(p) ==
  \/ GetRow(p) \/ GetLabels(p) \/ ListRows(p) \/ ListLabels(p) \/ ListReturns(p)

Step(p) == SetStep(p) \/ DeleteStep(p) \/ ReadStep(p)

NewCall(p) ==
  \/ \E n \in Names :
       \/ \E cfg \in Configs : CallSet(p, n, cfg)
       \/ CallDelete(p, n)
       \/ \E chain \in Chains : CallGet(p, n, chain)
  \/ \E chain \in Chains : CallList(p, chain)

Next ==
  \/ \E p \in Clients : NewCall(p) \/ Step(p) \/ Fail(p) \/ Return(p)
  \/ Close
  \/ Crash

Spec == Init /\ [][Next]_vars

\* What the store owes itself: its statements, and the answer of a closed pool.
\* The importer is the caller's code, and need not return.
OwnStep(p) == (Step(p) /\ pc[p] # "import") \/ Refused(p)

\* The scheduler runs every goroutine, and database/sql gives the writer
\* connection to each BeginTx that keeps waiting for it.
Fairness == \A p \in Clients : SF_vars(OwnStep(p))

FairSpec == Spec /\ Fairness

-----------------------------------------------------------------------------
(***************************************************************************)
(* Properties.                                                             *)
(***************************************************************************)

\* The variables hold databases, calls and results of the expected shape.
TypeOK ==
  /\ db \in Tables
  /\ work \in Tables
  /\ conn \in Clients \cup {None}
  /\ pc \in [Clients -> Stages \cup {"idle", "done"}]
  /\ call \in [Clients -> Call]
  /\ importErr \subseteq Clients
  /\ cursor \in [Clients -> SUBSET [name: Names, row: Row]]
  /\ ret \in [Clients -> Result]
  /\ closed \in BOOLEAN
  /\ seen \in [Clients -> Seq(Tables)]
  /\ calls \in 0..MaxCalls

\* Whatever labels the callers give, a committed catalog has the reserved label
\* exactly once and with its own name (Set, sqlite.go:158-185).
ReservedLabel ==
  \A n \in Present(db) :
    {l \in db.labels[n] : l.key = Reserved} = {ReservedLabelOf(n)}

\* A name without a row has neither labels nor content: a Delete, or a Set that
\* failed halfway, leaves nothing that a later catalog of the name would inherit
\* (the deferred Rollback, and the cascades of Delete, sqlite.go:90 and 209).
NoOrphans ==
  \A n \in Names \ Present(db) : db.labels[n] = {} /\ db.content[n] = {}

\* The digest of a committed row is the digest of the import that wrote the whole
\* content of the catalog: no content of an earlier import survives, and an
\* entry never imported has none (sqlite.go:136-156).
DigestNamesContent ==
  \A n \in Present(db) :
    \A item \in db.content[n] : item.digest = db.metadata[n].digest

\* The writer connection is held by a transaction that is still running, and by
\* at most one: a return by any path gives it back (SetMaxOpenConns(1) and the
\* deferred Rollback).
ConnectionReturned ==
  \A p \in Clients : conn = p <=> pc[p] \in TxStages

\* The Catalog of a Set that returns nil or a PartialImportError is the entry the
\* Set committed, and content that is not complete is reported as partial: the
\* catalog is read back before the Commit (sqlite.go:187-195).
SetReportsWhatItCommitted ==
  [][\A p \in Clients :
       LET n == call[p].name
           imported == {i.package : i \in db'.content[n]}
       IN  (/\ call[p].op = "set"
            /\ pc[p] \in Stages
            /\ pc'[p] = "done"
            /\ ret'[p].status # "error")
           => /\ ret'[p].catalogs = {CatalogOf(db', n)}
              /\ (call[p].cfg.content # None /\ imported # Packages)
                   => ret'[p].status = "partial"]_vars

\* A step that changes the committed database is the last one of a Set or Delete
\* that reports success or a partial import, so a call that returns an error has
\* changed nothing.
ErrorCommitsNothing ==
  [][db' # db =>
       \E p \in Clients :
         /\ pc[p] \in TxStages
         /\ pc'[p] = "done"
         /\ ret'[p].status \in {"ok", "partial"}]_vars

Answered(p, ops) ==
  pc[p] = "done" /\ call[p].op \in ops /\ ret[p].status # "error"

\* Each Catalog of a Get or List pairs a row that was committed at some moment of
\* the call with labels that were committed at that moment or later in it: never
\* an uncommitted value, and never labels older than their row.
ReadsCommitted ==
  \A p \in Clients : Answered(p, {"get", "list"}) =>
    \A c \in ret[p].catalogs :
      \E i, j \in 1..Len(seen[p]) :
        /\ i <= j
        /\ c.row = seen[p][i].metadata[c.name]
        /\ c.labels = seen[p][j].labels[c.name]

\* The rows of a List on the store itself are those of one committed database,
\* none missing and none twice, whatever is written while it runs (List,
\* sqlite.go:219-252).
ListIsOneState ==
  \A p \in Clients : Answered(p, {"list"}) /\ call[p].chain = <<>> =>
    \E i \in 1..Len(seen[p]) :
      {[name |-> c.name, row |-> c.row] : c \in ret[p].catalogs} =
        {[name |-> n, row |-> seen[p][i].metadata[n]] : n \in Present(seen[p][i])}

\* What a Select, or a Select on a Select, returns matches every selector given
\* (andSelector, sqlite.go:380-383), and a catalog that exists all through a call is
\* found through a selector on its own name: no reader meets it between the
\* deletion of its labels and the insertion of the reserved one.
SelectedExactly ==
  \A p \in Clients :
    /\ pc[p] = "done" =>
         \A c \in ret[p].catalogs : \A i \in DOMAIN call[p].chain :
           Matches(call[p].chain[i], c.labels)
    /\ Answered(p, {"get", "list"}) =>
         \A n \in Names :
           (/\ call[p].chain = <<{ReservedLabelOf(n)}>>
            /\ call[p].name \in {n, None}
            /\ \A i \in 1..Len(seen[p]) : n \in Present(seen[p][i]))
           => \E c \in ret[p].catalogs : c.name = n

\* If no importer runs forever, every call returns, however many clients wait for
\* the writer connection, however their transactions end and whenever the store
\* is closed (SetMaxOpenConns(1) and the deferred Rollback, sqlite.go:31, 86-90).
CallsReturn ==
  (\A p \in Clients : []<>(pc[p] # "import"))
    => \A p \in Clients : pc[p] \in Stages ~> pc[p] \notin Stages

\* The committed database, one entry per name, behaves as the atomic map that
\* the Store interface describes, across failures and crashes.
Entries ==
  [n \in Names |->
     IF db.metadata[n] = None
     THEN None
     ELSE [uri      |-> db.metadata[n].uri,
           digest   |-> db.metadata[n].digest,
           priority |-> db.metadata[n].priority,
           labels   |-> db.labels[n],
           content  |-> db.content[n]]]

Abstract == INSTANCE AtomicStore WITH store <- Entries

ImplementsAtomicStore == Abstract!Spec

=============================================================================
