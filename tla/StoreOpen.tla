----------------------------- MODULE StoreOpen -----------------------------
(***************************************************************************)
(* catalog/v1/sqlite: OpenStore on a file that this or an earlier version  *)
(* of the library wrote.  OpenStore migrates the metadata tables, which    *)
(* keep their rows, and rebuilds the content tables, which do not, when    *)
(* the version of their schema is another.  Every SQL statement of it is a *)
(* commit of its own, so that the process may die between any two of them, *)
(* and the next OpenStore finds what the last one left.                    *)
(***************************************************************************)
EXTENDS Naturals, Sequences, FiniteSets, SequencesExt

CONSTANTS
  Names,          \* catalog names
  ContentSchema,  \* contentSchemaVersion
  OldSchemas,     \* the content schema versions of earlier or later releases
  LaterMetadata,  \* the metadata versions of later releases
  MaxCrashes,     \* bound: crashes in a behaviour
  None            \* no table, no row

LatestMetadata == 3

ASSUME OpenAssumption ==
  /\ LaterMetadata \subseteq {m \in Nat : m > LatestMetadata}
  /\ ContentSchema \in Nat /\ OldSchemas \subseteq Nat
  /\ ContentSchema \notin OldSchemas
  /\ None \notin Nat
  /\ MaxCrashes \in Nat

VARIABLES
  table,           \* the form of each table: the version of the DDL that gave it
  metadataVersion, \* the row of metadata_schema_version
  contentVersion,  \* the row of content_schema_version
  named,           \* the catalogs with a row in catalog_metadata
  digested,        \* those of them whose digest is not empty
  labelled,        \* the catalogs with rows in catalog_labels and its copy
  filled,          \* the catalogs with rows in each content table
  pc,              \* where OpenStore is
  plan,            \* the statements it has still to execute
  crashes,         \* history: crashes so far
  torn             \* history: an OpenStore was cut short

vars == <<table, metadataVersion, contentVersion, named, digested, labelled,
          filled, pc, plan, crashes, torn>>
rows == <<named, digested, labelled, filled>>

LabelTables == {"catalog_labels", "catalog_labels_new"}
MetadataTables == {"catalog_metadata", "metadata_schema_version"} \cup LabelTables

\* In the order of contentTablesDropOrder, and in that of contentSchemaSQL.
DropOrder == <<"content_bundle_properties", "content_graph_properties",
               "content_predecessor_ranges", "content_successors",
               "content_graph_bundles", "content_graphs", "content_bundles",
               "content_schema_version">>
CreateOrder == <<"content_schema_version", "content_graphs", "content_bundles",
                 "content_graph_bundles", "content_successors",
                 "content_predecessor_ranges", "content_bundle_properties",
                 "content_graph_properties">>
ContentTables == ToSet(DropOrder)
DataTables == ContentTables \ {"content_schema_version"}

\* A content table that only a later release knows.
UnknownTable == "content_unknown"

AllTables == MetadataTables \cup ContentTables \cup {UnknownTable}

\* The tables of a store with metadata version m and content schema c.  What a
\* later release made of the metadata tables is unknown here and named by m.
Schema(m, c) ==
  [t \in AllTables |->
     CASE t = "catalog_metadata"        -> IF m > LatestMetadata THEN m ELSE IF m >= 2 THEN 2 ELSE 1
       [] t = "catalog_labels"          -> IF m >= 3 THEN m ELSE 1
       [] t = "metadata_schema_version" -> 1
       [] t \in ContentTables           -> c
       [] OTHER                         -> None]

-----------------------------------------------------------------------------
(***************************************************************************)
(* The statements of OpenStore, each with the table it is about.           *)
(***************************************************************************)
Stmt(do, t, form) == [do |-> do, table |-> t, form |-> form]

Migration1 == <<Stmt("create", "catalog_metadata", 1),
                Stmt("create", "catalog_labels", 1),
                Stmt("create", "metadata_schema_version", 1)>>
Migration2 == <<Stmt("alter", "catalog_metadata", 2)>>
\* Mutation: the old labels are dropped before they are copied.
Migration3DropsFirst == <<Stmt("create", "catalog_labels_new", 3),
                          Stmt("drop", "catalog_labels", None),
                          Stmt("rename", "catalog_labels_new", 3)>>
Migration3 == <<Stmt("create", "catalog_labels_new", 3),
                Stmt("copy", "catalog_labels_new", 3),
                Stmt("drop", "catalog_labels", None),
                Stmt("rename", "catalog_labels_new", 3)>>

\* Mutation: the migration of the current version is run again.
MigrationPlanRepeats(current) ==
  (IF current < 1 THEN Migration1 ELSE <<>>)
  \o (IF current <= 2 THEN Migration2 ELSE <<>>)
  \o (IF current <= 2 THEN Migration3 ELSE <<>>)
  \o <<Stmt("store version", "metadata_schema_version", LatestMetadata)>>

\* The migrations after version current, and the record of the latest version:
\* an INSERT after all of them, an UPDATE after some, nothing after none.
MigrationPlan(current) ==
  (IF current < 1 THEN Migration1 ELSE <<>>)
  \o (IF current < 2 THEN Migration2 ELSE <<>>)
  \o (IF current < 3 THEN Migration3 ELSE <<>>)
  \o (IF current < LatestMetadata
      THEN <<Stmt("store version", "metadata_schema_version", LatestMetadata)>>
      ELSE <<>>)

Drops == [i \in DOMAIN DropOrder |-> Stmt("drop if exists", DropOrder[i], None)]
Creates == [i \in DOMAIN CreateOrder |-> Stmt("create", CreateOrder[i], ContentSchema)]
StoreVersion == <<Stmt("store version", "content_schema_version", ContentSchema)>>
ClearDigests == <<Stmt("clear digests", "catalog_metadata", None)>>

\* Mutation: the version is stored as soon as its table is there.
RebuildStoresVersionFirst ==
  Drops \o <<Head(Creates)>> \o StoreVersion \o Tail(Creates) \o ClearDigests
\* Mutation: a rebuild does not clear the digests.
RebuildKeepsDigests == Drops \o Creates \o StoreVersion
\* Mutation: the list of drops forgets a table, which is created if it is absent.
RebuildForgetsTable ==
  LET Known(s) == s.table # "content_successors"
  IN  SelectSeq(Drops, Known) \o SelectSeq(Creates, Known) \o StoreVersion \o ClearDigests

RebuildPlan == Drops \o Creates \o StoreVersion \o ClearDigests

-----------------------------------------------------------------------------
\* A file that does not exist yet, or the closed file of a release with the
\* metadata version m and the content schema c, whose catalogs are imported
\* or not, with or without a content table unknown to this release.  Nothing
\* refuses the file of a later release; that its catalog_metadata still has the
\* column of the digest is assumed.
Init ==
  /\ \/ /\ table = [t \in AllTables |-> None]
        /\ metadataVersion = None
        /\ contentVersion = None
        /\ named = {}
        /\ digested = {}
     \/ \E m \in 1..LatestMetadata \cup LaterMetadata, c \in OldSchemas \cup {ContentSchema},
           unknown \in {None} \cup OldSchemas :
          /\ table = [Schema(m, c) EXCEPT ![UnknownTable] = unknown]
          /\ metadataVersion = m
          /\ contentVersion = c
          /\ unknown # None => c # ContentSchema
          /\ named \in SUBSET Names
          /\ digested \in SUBSET named
  /\ labelled = [t \in LabelTables |-> IF t = "catalog_labels" THEN named ELSE {}]
  /\ filled = [t \in DataTables |-> digested]
  /\ pc = "closed"
  /\ plan = <<>>
  /\ crashes = 0
  /\ torn = FALSE

Refuse == pc' = "failed" /\ plan' = <<>>

\* OpenStore opens the writer database and reads the metadata version.  The
\* table without a row is an error.
ReadMetadataVersion ==
  /\ pc \in {"closed", "failed"}
  /\ IF table["metadata_schema_version"] = None
     THEN pc' = "migrate" /\ plan' = MigrationPlan(0)
     ELSE IF metadataVersion = None
          THEN Refuse
          ELSE pc' = "migrate" /\ plan' = MigrationPlan(metadataVersion)
  /\ UNCHANGED <<table, metadataVersion, contentVersion, rows, crashes, torn>>

\* The content tables are those of this release, or are to be rebuilt.
CheckContentVersion ==
  /\ pc = "migrate"
  /\ plan = <<>>
  /\ CASE table["content_schema_version"] = None -> pc' = "drop" /\ UNCHANGED plan
       [] table["content_schema_version"] # None /\ contentVersion = None -> Refuse
       [] contentVersion = ContentSchema -> pc' = "open" /\ UNCHANGED plan
       [] contentVersion \notin {None, ContentSchema} -> pc' = "drop" /\ UNCHANGED plan
  /\ UNCHANGED <<table, metadataVersion, contentVersion, rows, crashes, torn>>

\* dropContentTables refuses a content table it does not know.
BeginRebuild ==
  /\ pc = "drop"
  /\ IF table[UnknownTable] # None
     THEN Refuse
     ELSE pc' = "rebuild" /\ plan' = RebuildPlan
  /\ UNCHANGED <<table, metadataVersion, contentVersion, rows, crashes, torn>>

\* The tables are complete and the readers' database is opened.
Opened ==
  /\ pc = "rebuild"
  /\ plan = <<>>
  /\ pc' = "open"
  /\ UNCHANGED <<table, metadataVersion, contentVersion, rows, plan, crashes, torn>>

-----------------------------------------------------------------------------
\* SQLite executes the next statement, unless the tables do not allow it.
Allowed(s) ==
  /\ s.do = "create" => table[s.table] = None
  /\ s.do \in {"drop", "store version"} => table[s.table] # None
  /\ s.do = "alter" => table[s.table] \notin {None, s.form}
  /\ s.do = "copy" => table["catalog_labels"] # None
  /\ s.do = "rename" => table["catalog_labels"] = None

\* The statement that is next, executed.
Executes(do) == plan # <<>> /\ Head(plan).do = do /\ Allowed(Head(plan))
Done == plan' = Tail(plan) /\ UNCHANGED <<pc, crashes, torn>>

Create ==
  LET s == Head(plan)
  IN  /\ Executes("create")
      /\ table' = [table EXCEPT ![s.table] = s.form]
      /\ Done
      /\ UNCHANGED <<metadataVersion, contentVersion, rows>>

AddPriorityColumn ==
  LET s == Head(plan)
  IN  /\ Executes("alter")
      /\ table' = [table EXCEPT ![s.table] = s.form]
      /\ Done
      /\ UNCHANGED <<metadataVersion, contentVersion, rows>>

CopyLabels ==
  /\ Executes("copy")
  /\ labelled' = [labelled EXCEPT !["catalog_labels_new"] = labelled["catalog_labels"]]
  /\ Done
  /\ UNCHANGED <<table, metadataVersion, contentVersion, named, digested, filled>>

DropLabels ==
  /\ Executes("drop")
  /\ table' = [table EXCEPT !["catalog_labels"] = None]
  /\ labelled' = [labelled EXCEPT !["catalog_labels"] = {}]
  /\ Done
  /\ UNCHANGED <<metadataVersion, contentVersion, named, digested, filled>>

RenameLabels ==
  /\ Executes("rename")
  /\ table' = [table EXCEPT !["catalog_labels"] = table["catalog_labels_new"],
                            !["catalog_labels_new"] = None]
  /\ labelled' = [labelled EXCEPT !["catalog_labels"] = labelled["catalog_labels_new"],
                                  !["catalog_labels_new"] = {}]
  /\ Done
  /\ UNCHANGED <<metadataVersion, contentVersion, named, digested, filled>>

\* DROP TABLE IF EXISTS, with the rows of the table.
DropContent ==
  LET t == Head(plan).table
  IN  /\ Executes("drop if exists")
      /\ table' = [table EXCEPT ![t] = None]
      /\ filled' = [u \in DataTables |-> IF u = t THEN {} ELSE filled[u]]
      /\ contentVersion' = IF t = "content_schema_version" THEN None ELSE contentVersion
      /\ Done
      /\ UNCHANGED <<metadataVersion, named, digested, labelled>>

StoreSchemaVersion ==
  LET s == Head(plan)
  IN  /\ Executes("store version")
      /\ IF s.table = "content_schema_version"
         THEN contentVersion' = s.form /\ UNCHANGED metadataVersion
         ELSE metadataVersion' = s.form /\ UNCHANGED contentVersion
      /\ Done
      /\ UNCHANGED <<table, rows>>

ClearAllDigests ==
  /\ Executes("clear digests")
  /\ digested' = {}
  /\ Done
  /\ UNCHANGED <<table, metadataVersion, contentVersion, named, labelled, filled>>

\* A statement that the tables do not allow is an error: OpenStore closes the
\* database and returns it.
StatementFails ==
  /\ plan # <<>>
  /\ ~Allowed(Head(plan))
  /\ Refuse
  /\ UNCHANGED <<table, metadataVersion, contentVersion, rows, crashes, torn>>

Execute ==
  \/ Create \/ AddPriorityColumn \/ CopyLabels \/ DropLabels \/ RenameLabels
  \/ DropContent \/ StoreSchemaVersion \/ ClearAllDigests \/ StatementFails

-----------------------------------------------------------------------------
\* A Set with content on the open store (one transaction).
Import(n) ==
  /\ pc = "open"
  /\ named' = named \cup {n}
  /\ digested' = digested \cup {n}
  /\ labelled' = [labelled EXCEPT !["catalog_labels"] = @ \cup {n}]
  /\ filled' = [t \in DataTables |-> filled[t] \cup {n}]
  /\ UNCHANGED <<table, metadataVersion, contentVersion, pc, plan, crashes, torn>>

Close ==
  /\ pc = "open"
  /\ pc' = "closed"
  /\ UNCHANGED <<table, metadataVersion, contentVersion, rows, plan, crashes, torn>>

Crash ==
  /\ pc \notin {"closed", "failed"}
  /\ crashes < MaxCrashes
  /\ crashes' = crashes + 1
  /\ torn' = (torn \/ pc # "open")
  /\ pc' = "closed"
  /\ plan' = <<>>
  /\ UNCHANGED <<table, metadataVersion, contentVersion, rows>>

Next ==
  \/ ReadMetadataVersion \/ CheckContentVersion \/ BeginRebuild \/ Opened
  \/ Execute
  \/ \E n \in Names : Import(n)
  \/ Close \/ Crash

Spec == Init /\ [][Next]_vars

-----------------------------------------------------------------------------
(***************************************************************************)
(* Properties.                                                             *)
(***************************************************************************)

\* However many OpenStores were cut short before it, one that returns a store
\* returns one with every table, in the form of the version that is recorded, the
\* content tables in this release's; and that version is the latest, or the one a
\* later release left, whose metadata tables are taken as they are.
OpenIsComplete ==
  pc = "open" =>
    /\ [t \in AllTables \ {UnknownTable} |-> table[t]] =
         [t \in AllTables \ {UnknownTable} |-> Schema(metadataVersion, ContentSchema)[t]]
    /\ metadataVersion \in {LatestMetadata} \cup LaterMetadata
    /\ contentVersion = ContentSchema

\* Content is all there or all gone in an open store: none of a catalog's rows
\* outlive a rebuild that dropped the others, whatever the order of drops and
\* crashes.
ContentIsWhole ==
  pc = "open" => \A s, t \in DataTables : filled[s] = filled[t]

\* No step of OpenStore loses the labels of a catalog: while catalog_labels is
\* replaced, its rows are in the copy.
LabelsSurvive ==
  named \subseteq labelled["catalog_labels"] \cup labelled["catalog_labels_new"]

\* As long as no OpenStore was cut short, a digest in an open store stands for
\* content that is there.
DigestsOfWholeOpens ==
  pc = "open" /\ ~torn => \A t \in DataTables : digested = filled[t]

\* As long as no OpenStore was cut short, OpenStore fails on nothing but a
\* content table it does not know.
WholeOpensSucceed ==
  pc = "failed" /\ ~torn => table[UnknownTable] # None

\* requirements.md of persistent-catalog-db: "When content tables are rebuilt on
\* open, all digests are cleared": a digest of an open store names content.
DigestsCleared ==
  pc = "open" => \A t \in DataTables : digested = filled[t]
=============================================================================
