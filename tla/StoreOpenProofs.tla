-------------------------- MODULE StoreOpenProofs --------------------------
(***************************************************************************)
(* Proofs about StoreOpen, for every set of catalogs, every pair of schema *)
(* versions and any number of crashes.  What OpenStore has still to do is  *)
(* a rest of one of two fixed lists of statements, and what makes the      *)
(* properties inductive is what the tables are before each statement of    *)
(* the lists: so much of it as survives crashes (MigrateAt, RebuildAt) and *)
(* what holds as long as no OpenStore was cut short (WholeInv).            *)
(***************************************************************************)
EXTENDS StoreOpen, SequenceTheorems, TLAPS

-----------------------------------------------------------------------------
(***************************************************************************)
(* The lists of statements.                                                *)
(***************************************************************************)

\* All migrations, which the migrations of a later version are a rest of.
Migration == MigrationPlan(0)
RecordVersion == <<Stmt("store version", "metadata_schema_version", LatestMetadata)>>

Statement == [do: {"create", "alter", "copy", "drop", "rename", "store version",
                   "drop if exists", "clear digests"},
              table: AllTables, form: Nat \cup {None}]

\* What remains of a list from its k-th element on.
Rest(s, k) == SubSeq(s, k, Len(s))

\* The rest of a list is its next element and the rest after it.
LEMMA RestSteps ==
  ASSUME NEW S, NEW s \in Seq(S), NEW k \in 1..Len(s)
  PROVE  /\ Rest(s, k) # <<>>
         /\ Head(Rest(s, k)) = s[k]
         /\ Tail(Rest(s, k)) = Rest(s, k + 1)
  <1>1. Len(s) \in Nat /\ Len(s) \in k..Len(s)
    BY LenProperties
  <1>2. \A i \in k..Len(s) : s[i] \in S
    BY <1>1, ElementOfSeq
  <1>3. Len(Rest(s, k)) = Len(s) - k + 1
    BY <1>1, <1>2, SubSeqProperties DEF Rest
  <1>4. Rest(s, k) # <<>>
    BY <1>1, <1>3, EmptySeq
  <1> QED
    BY <1>1, <1>4, HeadTailOfSubSeq DEF Rest

\* Past its last element nothing of a list remains.
LEMMA RestEmpty ==
  ASSUME NEW S, NEW s \in Seq(S)
  PROVE  Rest(s, Len(s) + 1) = <<>>
  BY LenProperties, SubSeqEmpty DEF Rest

\* Past the first of two lists the second remains.
LEMMA RestOfConcat ==
  ASSUME NEW S, NEW s \in Seq(S), NEW t \in Seq(S)
  PROVE  Rest(s \o t, Len(s) + 1) = t
  <1> DEFINE m == Len(s) + 1
             n == Len(s \o t)
             r == SubSeq(s \o t, m, n)
  <1>1. /\ s \o t \in Seq(S) /\ n = Len(s) + Len(t)
        /\ Len(s) \in Nat /\ Len(t) \in Nat
        /\ \A i \in 1..n : (s \o t)[i] = IF i <= Len(s) THEN s[i] ELSE t[i - Len(s)]
    BY ConcatProperties, LenProperties
  <1>2. \A i \in m..n : (s \o t)[i] \in S
    BY <1>1, ElementOfSeq
  <1>3. /\ r \in Seq(S)
        /\ Len(r) = IF m <= n THEN n - m + 1 ELSE 0
        /\ \A i \in 1..(n - m + 1) : r[i] = (s \o t)[m + i - 1]
    BY <1>1, <1>2, SubSeqProperties
  <1>4. Len(r) = Len(t)
    BY <1>1, <1>3
  <1>5. \A i \in 1..Len(t) : r[i] = t[i]
    <2>1. ASSUME NEW i \in 1..Len(t)
          PROVE  r[i] = t[i]
      <3>1. m + i - 1 = Len(s) + i /\ m + i - 1 \in 1..n /\ i \in 1..(n - m + 1)
        BY <1>1
      <3>2. (s \o t)[m + i - 1] = t[i]
        BY <1>1, <3>1
      <3> QED
        BY <1>3, <3>1, <3>2
    <2> QED
      BY <2>1
  <1> HIDE DEF r
  <1> QED
    BY <1>3, <1>4, <1>5, SeqEqual DEF r, Rest

\* Short tuples are sequences.
LEMMA ShortSeqs ==
  ASSUME NEW S, NEW a \in S, NEW b \in S, NEW c \in S, NEW d \in S
  PROVE  /\ <<a>> \in Seq(S) /\ Len(<<a>>) = 1 /\ <<a>>[1] = a
         /\ <<a, b, c>> \in Seq(S) /\ Len(<<a, b, c>>) = 3
         /\ <<a, b, c, d>> \in Seq(S) /\ Len(<<a, b, c, d>>) = 4
  OBVIOUS

\* A function on 1..n is a sequence.
LEMMA FunctionIsSeq ==
  ASSUME NEW S, NEW n \in Nat, NEW f \in [1..n -> S]
  PROVE  f \in Seq(S)
  <1>1. f \in UNION {[1..m -> S] : m \in Nat}
    OBVIOUS
  <1> QED
    BY <1>1, SeqDef, Zenon

\* The facts above, of lists of statements.
Plans == Seq(Statement)
Then(s, t) == s \o t

\* One list after another: its length, its elements, and what remains past the first.
LEMMA PlanThen ==
  \A s, t \in Plans :
    /\ Then(s, t) \in Plans
    /\ Len(Then(s, t)) = Len(s) + Len(t)
    /\ \A i \in 1..Len(s) : Then(s, t)[i] = s[i]
    /\ \A i \in 1..Len(t) : Then(s, t)[Len(s) + i] = t[i]
    /\ Rest(Then(s, t), Len(s) + 1) = t
  <1> SUFFICES ASSUME NEW s \in Seq(Statement), NEW t \in Seq(Statement)
               PROVE  /\ s \o t \in Seq(Statement)
                      /\ Len(s \o t) = Len(s) + Len(t)
                      /\ \A i \in 1..Len(s) : (s \o t)[i] = s[i]
                      /\ \A i \in 1..Len(t) : (s \o t)[Len(s) + i] = t[i]
                      /\ Rest(s \o t, Len(s) + 1) = t
    BY DEF Plans, Then
  <1>1. /\ s \o t \in Seq(Statement)
        /\ Len(s \o t) = Len(s) + Len(t)
        /\ \A i \in 1..(Len(s) + Len(t)) :
             (s \o t)[i] = IF i <= Len(s) THEN s[i] ELSE t[i - Len(s)]
    BY ConcatProperties
  <1>2. Len(s) \in Nat /\ Len(t) \in Nat
    BY LenProperties
  <1>3. \A i \in 1..Len(t) : (s \o t)[Len(s) + i] = t[i]
    <2>1. ASSUME NEW i \in 1..Len(t)
          PROVE  (s \o t)[Len(s) + i] = t[i]
      <3>1. Len(s) + i \in 1..(Len(s) + Len(t)) /\ ~(Len(s) + i <= Len(s))
            /\ (Len(s) + i) - Len(s) = i
        BY <1>2
      <3> QED
        BY <1>1, <3>1
    <2> QED
      BY <2>1
  <1> QED
    BY <1>1, <1>2, <1>3, RestOfConcat

\* The empty list, and the ends of a list.
LEMMA PlanEmpty ==
  /\ <<>> \in Plans
  /\ \A s \in Plans : /\ Then(s, <<>>) = s /\ Then(<<>>, s) = s
                      /\ Rest(s, 1) = s /\ Rest(s, Len(s) + 1) = <<>>
                      /\ Len(s) \in Nat
  BY EmptySeq, ConcatEmptySeq, SubSeqFull, RestEmpty, LenProperties DEF Plans, Rest, Then

\* Three lists, one after another.
LEMMA PlanAssociative == \A s, t, u \in Plans : Then(Then(s, t), u) = Then(s, Then(t, u))
  BY ConcatAssociative DEF Plans, Then

\* The rest of a list of statements: the next statement and the rest after it.
LEMMA PlanSteps ==
  \A s \in Plans : \A k \in 1..Len(s) :
    Rest(s, k) # <<>> /\ Head(Rest(s, k)) = s[k] /\ Tail(Rest(s, k)) = Rest(s, k + 1)
  BY RestSteps DEF Plans

\* The tables are the metadata tables, the content tables and the unknown one.
LEMMA TableNames ==
  /\ MetadataTables \subseteq AllTables /\ ContentTables \subseteq AllTables
  /\ MetadataTables = {"catalog_metadata", "catalog_labels", "catalog_labels_new",
                       "metadata_schema_version"}
  /\ AllTables = MetadataTables \cup ContentTables \cup {UnknownTable}
  BY DEF AllTables, MetadataTables, LabelTables

\* The pieces that the migrations are put together from.
LEMMA MigrationPieces ==
  /\ Migration1 \in Plans /\ Len(Migration1) = 3
  /\ Migration2 \in Plans /\ Len(Migration2) = 1
  /\ Migration3 \in Plans /\ Len(Migration3) = 4
  /\ RecordVersion \in Plans /\ Len(RecordVersion) = 1
  <1>1. /\ Stmt("create", "catalog_metadata", 1) \in Statement
        /\ Stmt("create", "catalog_labels", 1) \in Statement
        /\ Stmt("create", "metadata_schema_version", 1) \in Statement
        /\ Stmt("alter", "catalog_metadata", 2) \in Statement
    BY TableNames DEF Stmt, Statement
  <1>2. /\ Stmt("create", "catalog_labels_new", 3) \in Statement
        /\ Stmt("copy", "catalog_labels_new", 3) \in Statement
        /\ Stmt("drop", "catalog_labels", None) \in Statement
        /\ Stmt("rename", "catalog_labels_new", 3) \in Statement
    BY TableNames DEF Stmt, Statement
  <1>3. Stmt("store version", "metadata_schema_version", LatestMetadata) \in Statement
    BY TableNames DEF Stmt, Statement, LatestMetadata
  <1> QED
    BY <1>1, <1>2, <1>3, ShortSeqs DEF Plans, Migration1, Migration2, Migration3, RecordVersion

\* The migrations after each version are a rest of all migrations.
LEMMA Migrations ==
  /\ Migration \in Plans /\ Len(Migration) = 9
  /\ MigrationPlan(0) = Rest(Migration, 1)
  /\ MigrationPlan(1) = Rest(Migration, 4)
  /\ MigrationPlan(2) = Rest(Migration, 5)
  /\ MigrationPlan(3) = Rest(Migration, 10)
  <1> DEFINE first == Then(Migration1, Migration2)
             last == Then(Migration3, RecordVersion)
  <1>1. Migration = Then(Then(first, Migration3), RecordVersion)
    <2>1. 0 < 1 /\ 0 < 2 /\ 0 < 3 /\ 0 < LatestMetadata
      BY SMT DEF LatestMetadata
    <2> QED
      BY <2>1, Zenon DEF Migration, MigrationPlan, RecordVersion, Then
  <1>2. MigrationPlan(1) = Then(Then(Then(<<>>, Migration2), Migration3), RecordVersion)
    <2>1. ~(1 < 1) /\ 1 < 2 /\ 1 < 3 /\ 1 < LatestMetadata
      BY SMT DEF LatestMetadata
    <2> QED
      BY <2>1, Zenon DEF MigrationPlan, RecordVersion, Then
  <1>3. MigrationPlan(2) = Then(Then(Then(<<>>, <<>>), Migration3), RecordVersion)
    <2>1. ~(2 < 1) /\ ~(2 < 2) /\ 2 < 3 /\ 2 < LatestMetadata
      BY SMT DEF LatestMetadata
    <2> QED
      BY <2>1, Zenon DEF MigrationPlan, RecordVersion, Then
  <1>4. MigrationPlan(3) = Then(Then(Then(<<>>, <<>>), <<>>), <<>>)
    <2>1. ~(3 < 1) /\ ~(3 < 2) /\ ~(3 < 3) /\ ~(3 < LatestMetadata)
      BY SMT DEF LatestMetadata
    <2> QED
      BY <2>1, Zenon DEF MigrationPlan, Then
  <1>5. /\ first \in Plans /\ Len(first) = 4
        /\ last \in Plans /\ Len(last) = 5
        /\ Then(Migration2, last) \in Plans /\ Len(Then(Migration2, last)) = 6
    <2>1. /\ first \in Plans /\ Len(first) = Len(Migration1) + Len(Migration2)
          /\ last \in Plans /\ Len(last) = Len(Migration3) + Len(RecordVersion)
      BY MigrationPieces, PlanThen, Zenon
    <2> HIDE DEF first, last
    <2>2. /\ Then(Migration2, last) \in Plans
          /\ Len(Then(Migration2, last)) = Len(Migration2) + Len(last)
      BY <2>1, MigrationPieces, PlanThen, Zenon
    <2> DEFINE more == Then(Migration2, last)
    <2> HIDE DEF more
    <2>3. Len(more) = Len(Migration2) + Len(last)
      BY <2>2 DEF more
    <2>4. Len(first) = 4 /\ Len(last) = 5
      BY <2>1, MigrationPieces
    <2>5. Len(more) = 6
      BY <2>3, <2>4, MigrationPieces
    <2> QED
      BY <2>1, <2>2, <2>4, <2>5 DEF more
  <1>6. Migration = Then(first, last)
    BY <1>1, <1>5, MigrationPieces, PlanAssociative
  <1>7. Migration = Then(Migration1, Then(Migration2, last))
    BY <1>5, <1>6, MigrationPieces, PlanAssociative
  <1>8. Migration \in Plans /\ Len(Migration) = 9
    <2> HIDE DEF first, last
    <2>1. Migration \in Plans /\ Len(Migration) = Len(first) + Len(last)
      BY <1>5, <1>6, PlanThen, Zenon
    <2> QED
      BY <1>5, <2>1
  <1>9. MigrationPlan(1) = Then(Migration2, last)
    BY <1>2, MigrationPieces, PlanEmpty, PlanAssociative
  <1>10. MigrationPlan(2) = last
    BY <1>3, MigrationPieces, PlanEmpty
  <1>11. MigrationPlan(3) = <<>>
    BY <1>4, PlanEmpty
  <1>12. MigrationPlan(1) = Rest(Migration, 4)
    <2> HIDE DEF last
    <2>1. Rest(Migration, Len(Migration1) + 1) = Then(Migration2, last)
      BY <1>5, <1>7, MigrationPieces, PlanThen, Zenon
    <2>2. Len(Migration1) + 1 = 4
      BY MigrationPieces
    <2> QED
      BY <1>9, <2>1, <2>2, Zenon
  <1>13. MigrationPlan(2) = Rest(Migration, 5)
    <2> HIDE DEF first, last
    <2>1. Rest(Migration, Len(first) + 1) = last
      BY <1>5, <1>6, PlanThen, Zenon
    <2>2. Len(first) + 1 = 5
      BY <1>5
    <2> QED
      BY <1>10, <2>1, <2>2, Zenon
  <1>14. MigrationPlan(3) = Rest(Migration, 10)
    <2>1. Rest(Migration, Len(Migration) + 1) = <<>>
      BY <1>8, PlanEmpty, Zenon
    <2>2. Len(Migration) + 1 = 10
      BY <1>8
    <2> QED
      BY <1>11, <2>1, <2>2, Zenon
  <1>15. MigrationPlan(0) = Rest(Migration, 1)
    BY <1>8, PlanEmpty DEF Migration
  <1> QED
    BY <1>8, <1>12, <1>13, <1>14, <1>15

\* The statements, one by one.
LEMMA MigrationStatements ==
  /\ Migration[1] = Stmt("create", "catalog_metadata", 1)
  /\ Migration[2] = Stmt("create", "catalog_labels", 1)
  /\ Migration[3] = Stmt("create", "metadata_schema_version", 1)
  /\ Migration[4] = Stmt("alter", "catalog_metadata", 2)
  /\ Migration[5] = Stmt("create", "catalog_labels_new", 3)
  /\ Migration[6] = Stmt("copy", "catalog_labels_new", 3)
  /\ Migration[7] = Stmt("drop", "catalog_labels", None)
  /\ Migration[8] = Stmt("rename", "catalog_labels_new", 3)
  /\ Migration[9] = Stmt("store version", "metadata_schema_version", LatestMetadata)
  <1> DEFINE s == Then(Migration1, Migration2)
             t == Then(s, Migration3)
  <1>1. Migration = Then(t, RecordVersion)
    <2>1. 0 < 1 /\ 0 < 2 /\ 0 < 3 /\ 0 < LatestMetadata
      BY SMT DEF LatestMetadata
    <2> QED
      BY <2>1, Zenon DEF MigrationPlan, Migration, RecordVersion, Then
  <1>2. /\ s \in Plans /\ Len(s) = 4
        /\ \A i \in 1..3 : s[i] = Migration1[i]
        /\ \A i \in 1..1 : s[3 + i] = Migration2[i]
    <2>1. /\ s \in Plans /\ Len(s) = Len(Migration1) + Len(Migration2)
          /\ \A i \in 1..Len(Migration1) : s[i] = Migration1[i]
          /\ \A i \in 1..Len(Migration2) : s[Len(Migration1) + i] = Migration2[i]
      <3>1. Migration1 \in Plans /\ Migration2 \in Plans
        BY ONLY MigrationPieces, Zenon
      <3> QED
        BY ONLY <3>1, PlanThen, Zenon
    <2> HIDE DEF s
    <2> QED
      BY <2>1, MigrationPieces
  <1>3. /\ t \in Plans /\ Len(t) = 8
        /\ \A i \in 1..4 : t[i] = s[i]
        /\ \A i \in 1..4 : t[4 + i] = Migration3[i]
    <2> HIDE DEF s
    <2>1. /\ t \in Plans /\ Len(t) = Len(s) + Len(Migration3)
          /\ \A i \in 1..Len(s) : t[i] = s[i]
          /\ \A i \in 1..Len(Migration3) : t[Len(s) + i] = Migration3[i]
      <3>1. s \in Plans /\ Migration3 \in Plans
        BY ONLY <1>2, MigrationPieces, Zenon
      <3> QED
        BY ONLY <3>1, PlanThen, Zenon
    <2> HIDE DEF t
    <2> QED
      BY <1>2, <2>1, MigrationPieces
  <1>4. /\ \A i \in 1..8 : Migration[i] = t[i]
        /\ \A i \in 1..1 : Migration[8 + i] = RecordVersion[i]
    <2> HIDE DEF t
    <2>1. /\ Migration \in Plans /\ Len(Migration) = Len(t) + Len(RecordVersion)
          /\ \A i \in 1..Len(t) : Migration[i] = t[i]
          /\ \A i \in 1..Len(RecordVersion) : Migration[Len(t) + i] = RecordVersion[i]
      <3>1. t \in Plans /\ RecordVersion \in Plans
        BY ONLY <1>3, MigrationPieces, Zenon
      <3> QED
        BY ONLY <1>1, <3>1, PlanThen, Zenon
    <2> HIDE DEF t
    <2> QED
      BY <1>3, <2>1, MigrationPieces
  <1> HIDE DEF s, t
  <1>5. /\ Migration[1] = Migration1[1] /\ Migration[2] = Migration1[2]
        /\ Migration[3] = Migration1[3] /\ Migration[4] = Migration2[1]
        /\ Migration[5] = Migration3[1] /\ Migration[6] = Migration3[2]
        /\ Migration[7] = Migration3[3] /\ Migration[8] = Migration3[4]
        /\ Migration[9] = RecordVersion[1]
    BY <1>2, <1>3, <1>4
  <1> QED
    BY <1>5 DEF Migration1, Migration2, Migration3, RecordVersion

\* The content tables, in the two orders.
LEMMA ContentTableNames ==
  /\ Len(DropOrder) = 8 /\ DOMAIN DropOrder = 1..8
  /\ Len(CreateOrder) = 8 /\ DOMAIN CreateOrder = 1..8
  /\ DropOrder[8] = "content_schema_version" /\ CreateOrder[1] = "content_schema_version"
  /\ \A i \in 1..8 : DropOrder[i] \in ContentTables /\ CreateOrder[i] \in ContentTables
  /\ \A i \in 1..7 : DropOrder[i] # "content_schema_version"
  /\ \A t \in ContentTables : \E i \in 1..8 : DropOrder[i] = t
  /\ \A t \in ContentTables : \E i \in 1..8 : CreateOrder[i] = t
  /\ \A i, j \in 1..8 : CreateOrder[i] = CreateOrder[j] => i = j
  <1>1. /\ Len(DropOrder) = 8 /\ DOMAIN DropOrder = 1..8
        /\ DropOrder[1] = "content_bundle_properties"
        /\ DropOrder[2] = "content_graph_properties"
        /\ DropOrder[3] = "content_predecessor_ranges"
        /\ DropOrder[4] = "content_successors"
        /\ DropOrder[5] = "content_graph_bundles"
        /\ DropOrder[6] = "content_graphs"
        /\ DropOrder[7] = "content_bundles"
        /\ DropOrder[8] = "content_schema_version"
    BY DEF DropOrder
  <1>2. /\ Len(CreateOrder) = 8 /\ DOMAIN CreateOrder = 1..8
        /\ CreateOrder[1] = "content_schema_version"
        /\ CreateOrder[2] = "content_graphs"
        /\ CreateOrder[3] = "content_bundles"
        /\ CreateOrder[4] = "content_graph_bundles"
        /\ CreateOrder[5] = "content_successors"
        /\ CreateOrder[6] = "content_predecessor_ranges"
        /\ CreateOrder[7] = "content_bundle_properties"
        /\ CreateOrder[8] = "content_graph_properties"
    BY DEF CreateOrder
  <1>3. \A i \in 1..8 : \/ i = 1 \/ i = 2 \/ i = 3 \/ i = 4
                        \/ i = 5 \/ i = 6 \/ i = 7 \/ i = 8
    OBVIOUS
  <1>4. ContentTables = {DropOrder[i] : i \in 1..8}
    BY <1>1 DEF ContentTables, ToSet
  <1>5. \A i \in 1..8 : CreateOrder[i] \in ContentTables
    BY <1>1, <1>2, <1>3, <1>4
  <1>6. \A i \in 1..8 : \E k \in 1..8 : CreateOrder[k] = DropOrder[i]
    BY <1>1, <1>2, <1>3
  <1>7. \A i, j \in 1..8 : CreateOrder[i] = CreateOrder[j] => i = j
    BY <1>2, <1>3
  <1>8. \A i \in 1..7 : DropOrder[i] # "content_schema_version"
    BY <1>1, <1>3
  <1> QED
    BY <1>1, <1>2, <1>4, <1>5, <1>6, <1>7, <1>8

\* No table is of two kinds.
LEMMA TablesApart ==
  /\ ContentTables \cap MetadataTables = {}
  /\ UnknownTable \notin ContentTables /\ UnknownTable \notin MetadataTables
  /\ "content_schema_version" \in ContentTables /\ LabelTables \subseteq MetadataTables
  /\ DataTables \subseteq ContentTables
  <1>1. \A t \in ContentTables :
          t \in {"content_bundle_properties", "content_graph_properties",
                 "content_predecessor_ranges", "content_successors",
                 "content_graph_bundles", "content_graphs", "content_bundles",
                 "content_schema_version"}
    BY DEF ContentTables, ToSet, DropOrder
  <1> QED
    BY <1>1, ContentTableNames
    DEF MetadataTables, LabelTables, UnknownTable, DataTables

\* The pieces that a rebuild is put together from.
LEMMA RebuildPieces ==
  /\ Drops \in Plans /\ Len(Drops) = 8
  /\ \A i \in 1..8 : Drops[i] = Stmt("drop if exists", DropOrder[i], None)
  /\ Creates \in Plans /\ Len(Creates) = 8
  /\ \A i \in 1..8 : Creates[i] = Stmt("create", CreateOrder[i], ContentSchema)
  /\ StoreVersion \in Plans /\ Len(StoreVersion) = 1
  /\ StoreVersion[1] = Stmt("store version", "content_schema_version", ContentSchema)
  /\ ClearDigests \in Plans /\ Len(ClearDigests) = 1
  /\ ClearDigests[1] = Stmt("clear digests", "catalog_metadata", None)
  <1>1. /\ \A t \in ContentTables : /\ Stmt("drop if exists", t, None) \in Statement
                                    /\ Stmt("create", t, ContentSchema) \in Statement
        /\ Stmt("store version", "content_schema_version", ContentSchema) \in Statement
        /\ Stmt("clear digests", "catalog_metadata", None) \in Statement
    BY TableNames, TablesApart, OpenAssumption DEF Stmt, Statement
  <1>2. Drops \in [1..8 -> Statement] /\ Creates \in [1..8 -> Statement]
    BY <1>1, ContentTableNames DEF Drops, Creates
  <1>3. 8 \in Nat
    OBVIOUS
  <1>4. /\ Drops \in Plans /\ Len(Drops) = 8
        /\ Creates \in Plans /\ Len(Creates) = 8
    <2>1. Drops \in Plans /\ Creates \in Plans
      BY <1>2, <1>3, FunctionIsSeq DEF Plans
    <2>2. DOMAIN Drops = 1..8 /\ DOMAIN Creates = 1..8
      BY <1>2
    <2>3. \A q \in Plans : DOMAIN q = 1..Len(q) /\ Len(q) \in Nat
      BY LenProperties DEF Plans
    <2>4. \A m \in Nat : 1..m = 1..8 => m = 8
      OBVIOUS
    <2> QED
      BY <2>1, <2>2, <2>3, <2>4, Zenon
  <1>5. /\ \A i \in 1..8 : Drops[i] = Stmt("drop if exists", DropOrder[i], None)
        /\ \A i \in 1..8 : Creates[i] = Stmt("create", CreateOrder[i], ContentSchema)
    BY ContentTableNames DEF Drops, Creates
  <1> QED
    BY <1>1, <1>4, <1>5, ShortSeqs DEF Plans, StoreVersion, ClearDigests

\* The statements of a rebuild, one by one.
LEMMA RebuildStatements ==
  /\ RebuildPlan \in Plans /\ Len(RebuildPlan) = 18
  /\ \A i \in 1..8 : RebuildPlan[i] = Stmt("drop if exists", DropOrder[i], None)
  /\ \A i \in 1..8 : RebuildPlan[8 + i] = Stmt("create", CreateOrder[i], ContentSchema)
  /\ RebuildPlan[17] = Stmt("store version", "content_schema_version", ContentSchema)
  /\ RebuildPlan[18] = Stmt("clear digests", "catalog_metadata", None)
  <1> DEFINE s == Then(Drops, Creates)
             t == Then(s, StoreVersion)
  <1>1. RebuildPlan = Then(t, ClearDigests)
    BY Zenon DEF RebuildPlan, Then
  <1>2. /\ s \in Plans /\ Len(s) = 16
        /\ \A i \in 1..8 : s[i] = Drops[i]
        /\ \A i \in 1..8 : s[8 + i] = Creates[i]
    <2>1. /\ s \in Plans /\ Len(s) = Len(Drops) + Len(Creates)
          /\ \A i \in 1..Len(Drops) : s[i] = Drops[i]
          /\ \A i \in 1..Len(Creates) : s[Len(Drops) + i] = Creates[i]
      <3>1. Drops \in Plans /\ Creates \in Plans
        BY ONLY RebuildPieces, Zenon
      <3> QED
        BY ONLY <3>1, PlanThen, Zenon
    <2> HIDE DEF s
    <2>2. Len(Drops) = 8 /\ Len(Creates) = 8
      BY RebuildPieces, Zenon
    <2> QED
      BY <2>1, <2>2
  <1> HIDE DEF s
  <1>3. /\ t \in Plans /\ Len(t) = 17
        /\ \A i \in 1..16 : t[i] = s[i]
        /\ t[17] = StoreVersion[1]
    <2>1. /\ t \in Plans /\ Len(t) = Len(s) + Len(StoreVersion)
          /\ \A i \in 1..Len(s) : t[i] = s[i]
          /\ \A i \in 1..Len(StoreVersion) : t[Len(s) + i] = StoreVersion[i]
      <3>1. s \in Plans /\ StoreVersion \in Plans
        BY ONLY <1>2, RebuildPieces, Zenon
      <3> QED
        BY ONLY <3>1, PlanThen, Zenon
    <2> HIDE DEF t
    <2>2. Len(s) = 16 /\ Len(StoreVersion) = 1
      BY <1>2, RebuildPieces, Zenon
    <2> QED
      BY <2>1, <2>2
  <1> HIDE DEF t
  <1>4. /\ RebuildPlan \in Plans /\ Len(RebuildPlan) = 18
        /\ \A i \in 1..17 : RebuildPlan[i] = t[i]
        /\ RebuildPlan[18] = ClearDigests[1]
    <2>1. /\ RebuildPlan \in Plans /\ Len(RebuildPlan) = Len(t) + Len(ClearDigests)
          /\ \A i \in 1..Len(t) : RebuildPlan[i] = t[i]
          /\ \A i \in 1..Len(ClearDigests) : RebuildPlan[Len(t) + i] = ClearDigests[i]
      <3>1. t \in Plans /\ ClearDigests \in Plans
        BY ONLY <1>3, RebuildPieces, Zenon
      <3> QED
        BY ONLY <1>1, <3>1, PlanThen, Zenon
    <2>2. Len(t) = 17 /\ Len(ClearDigests) = 1
      BY <1>3, RebuildPieces, Zenon
    <2> QED
      BY <2>1, <2>2
  <1>5. /\ \A i \in 1..8 : RebuildPlan[i] = Drops[i]
        /\ \A i \in 1..8 : RebuildPlan[8 + i] = Creates[i]
        /\ RebuildPlan[17] = StoreVersion[1]
    BY <1>2, <1>3, <1>4
  <1> QED
    BY <1>4, <1>5, RebuildPieces

-----------------------------------------------------------------------------
(***************************************************************************)
(* The inductive invariant.                                                *)
(***************************************************************************)

Types ==
  /\ table \in [AllTables -> Nat \cup {None}]
  /\ metadataVersion \in (1..LatestMetadata) \cup LaterMetadata \cup {None}
  /\ contentVersion \in Nat \cup {None}
  /\ named \subseteq Names
  /\ labelled \in [LabelTables -> SUBSET Names]
  /\ filled \in [DataTables -> SUBSET Names]

\* No migration is left for the recorded version.
Current == metadataVersion \in {LatestMetadata} \cup LaterMetadata

\* What the recorded metadata version promises of the tables, in any file.
MetadataRecorded ==
  /\ table["metadata_schema_version"] \in {None, 1}
  /\ metadataVersion # None => table["metadata_schema_version"] = 1
  /\ metadataVersion \in {2, 3} => table["catalog_metadata"] = 2
  /\ metadataVersion \in LaterMetadata => table["catalog_metadata"] = metadataVersion
  /\ Current => /\ table["catalog_labels"] = metadataVersion
                /\ table["catalog_labels_new"] = None

\* What the recorded content version promises: the current version is stored after the
\* tables are made, and dropped after they are.
ContentRecorded ==
  /\ table["content_schema_version"] = None => contentVersion = None
  /\ contentVersion = ContentSchema =>
       /\ \A t \in ContentTables : table[t] = ContentSchema
       /\ \A s, t \in DataTables : filled[s] = filled[t]

RowsNeedTables == \A t \in LabelTables : table[t] = None => labelled[t] = {}

\* The metadata tables before the k-th statement of all migrations, in a file whose
\* migrations were never cut short, but for those of a later release.
FormsBefore(k) == (k = 10 /\ metadataVersion \in LaterMetadata) \/
  /\ table["catalog_metadata"] = IF k = 1 THEN None ELSE IF k <= 4 THEN 1 ELSE 2
  /\ table["catalog_labels"] =
       IF k <= 2 \/ k = 8 THEN None ELSE IF k <= 7 THEN 1 ELSE 3
  /\ table["metadata_schema_version"] = IF k <= 3 THEN None ELSE 1
  /\ table["catalog_labels_new"] = IF k \in 6..8 THEN 3 ELSE None

\* What any file has before the k-th statement, once the ones before it have succeeded.
MigrateAt(k) ==
  /\ k = 10 <=> Current
  /\ k \in 5..9 => table["catalog_metadata"] = 2
  /\ k \in 6..8 => table["catalog_labels_new"] = 3
  /\ k = 6 => labelled["catalog_labels_new"] = {}
  /\ k \in 7..8 => named \subseteq labelled["catalog_labels_new"]
  /\ k = 8 => table["catalog_labels"] = None
  /\ k = 9 => table["catalog_labels"] = 3 /\ table["catalog_labels_new"] = None
  /\ ~torn => FormsBefore(k)

\* What any file has before the j-th statement of a rebuild.
RebuildAt(j) ==
  /\ j >= 18 <=> contentVersion = ContentSchema
  /\ \A i \in 1..8 : i < j /\ DropOrder[i] \in DataTables => filled[DropOrder[i]] = {}
  /\ \A i \in 1..8 : i < j /\ j <= 9 => table[DropOrder[i]] = None
  /\ \A i \in 1..8 : j >= 9 =>
       table[CreateOrder[i]] = IF i < j - 8 THEN ContentSchema ELSE None
  /\ j = 19 => digested = {}

Migrating == \E k \in 1..10 : plan = Rest(Migration, k) /\ MigrateAt(k)
Rebuilding == \E j \in 1..19 : plan = Rest(RebuildPlan, j) /\ RebuildAt(j)

Places ==
  /\ pc \in {"closed", "failed", "migrate", "drop", "rebuild", "open"}
  /\ pc \in {"closed", "failed", "drop", "open"} => plan = <<>>
  /\ pc = "migrate" => Migrating
  /\ pc = "rebuild" => Rebuilding
  /\ pc \in {"drop", "rebuild", "open"} => Current
  /\ pc = "drop" => contentVersion # ContentSchema
  /\ pc = "open" => contentVersion = ContentSchema

\* A file that no crash has cut short.
Whole ==
  /\ pc # "migrate" => /\ metadataVersion = None => FormsBefore(1)
                       /\ metadataVersion = 1 => FormsBefore(4)
                       /\ metadataVersion = 2 => FormsBefore(5)
                       /\ Current => FormsBefore(10)
  /\ pc # "rebuild" => /\ table["content_schema_version"] # None => contentVersion # None
                       /\ \A t \in DataTables : digested = filled[t]
  /\ pc = "failed" => table[UnknownTable] # None

OpenInv ==
  /\ Types /\ MetadataRecorded /\ ContentRecorded
  /\ RowsNeedTables /\ LabelsSurvive /\ Places
  /\ ~torn => Whole

-----------------------------------------------------------------------------
(***************************************************************************)
(* The steps that leave the file as it is.                                 *)
(***************************************************************************)
FileInv ==
  Types /\ MetadataRecorded /\ ContentRecorded /\ RowsNeedTables /\ LabelsSurvive

FileKept == UNCHANGED <<table, metadataVersion, contentVersion, rows>>

\* A step that leaves the file as it is keeps what holds of the file.
LEMMA KeptFile ==
  ASSUME FileInv, FileKept
  PROVE  FileInv'
  <1> USE DEF FileKept, rows
  <1>1. Types'
    BY DEF FileInv, Types
  <1>2. MetadataRecorded'
    BY DEF FileInv, MetadataRecorded, Current
  <1>3. ContentRecorded'
    BY DEF FileInv, ContentRecorded
  <1>4. RowsNeedTables' /\ LabelsSurvive'
    BY DEF FileInv, RowsNeedTables, LabelsSurvive
  <1> QED
    BY <1>1, <1>2, <1>3, <1>4 DEF FileInv

\* Where the file is kept, what it has before a statement is kept.
LEMMA KeptForms ==
  ASSUME FileKept, NEW k
  PROVE  FormsBefore(k)' <=> FormsBefore(k)
  BY DEF FileKept, FormsBefore

\* The recorded version is one that migrations are left for, or a current one.
LEMMA VersionCases ==
  /\ Types => metadataVersion = None \/ metadataVersion = 1 \/ metadataVersion = 2 \/ Current
  /\ Current => metadataVersion # None /\ metadataVersion # 1 /\ metadataVersion # 2
  /\ metadataVersion = 3 => Current
  /\ FileKept \/ metadataVersion' = metadataVersion => (Current' <=> Current)
  <1>1. /\ Types => metadataVersion = None \/ metadataVersion = 1 \/ metadataVersion = 2 \/ Current
        /\ metadataVersion = 3 => Current
    BY DEF Types, Current, LatestMetadata
  <1>2. Current => metadataVersion # None /\ metadataVersion # 1 /\ metadataVersion # 2
    BY OpenAssumption DEF Current, LatestMetadata
  <1>3. FileKept \/ metadataVersion' = metadataVersion => (Current' <=> Current)
    BY DEF FileKept, Current
  <1> QED
    BY <1>1, <1>2, <1>3

\* No migration is left for a version of a later release.
LEMMA NoneLeft == Current => MigrationPlan(metadataVersion) = Rest(Migration, 10)
  <1> SUFFICES ASSUME Current
               PROVE  MigrationPlan(metadataVersion) = Rest(Migration, 10)
    OBVIOUS
  <1> DEFINE m == metadataVersion
  <1>1. ~(m < 1) /\ ~(m < 2) /\ ~(m < 3) /\ ~(m < LatestMetadata)
    BY OpenAssumption DEF Current, LatestMetadata
  <1> HIDE DEF m
  <1>2. MigrationPlan(m) = Then(Then(Then(<<>>, <<>>), <<>>), <<>>)
    BY <1>1, Zenon DEF MigrationPlan, Then
  <1>3. MigrationPlan(m) = <<>>
    BY <1>2, PlanEmpty
  <1>4. Rest(Migration, 10) = <<>>
    <2>1. Rest(Migration, Len(Migration) + 1) = <<>>
      BY Migrations, PlanEmpty, Zenon
    <2>2. Len(Migration) + 1 = 10
      BY Migrations
    <2> QED
      BY ONLY <2>1, <2>2, Zenon
  <1> QED
    BY <1>3, <1>4 DEF m

\* Where the lists begin and end for OpenStore, and what executing a statement leaves of them.
LEMMA PlanStarts ==
  /\ MigrationPlan(0) = Rest(Migration, 1)
  /\ MigrationPlan(1) = Rest(Migration, 4)
  /\ MigrationPlan(2) = Rest(Migration, 5)
  /\ MigrationPlan(3) = Rest(Migration, 10)
  /\ Rest(Migration, 10) = <<>>
  /\ \A k \in 1..9 : /\ Rest(Migration, k) # <<>>
                     /\ Head(Rest(Migration, k)) = Migration[k]
                     /\ Tail(Rest(Migration, k)) = Rest(Migration, k + 1)
  /\ RebuildPlan = Rest(RebuildPlan, 1)
  /\ Rest(RebuildPlan, 19) = <<>>
  /\ \A j \in 1..18 : /\ Rest(RebuildPlan, j) # <<>>
                      /\ Head(Rest(RebuildPlan, j)) = RebuildPlan[j]
                      /\ Tail(Rest(RebuildPlan, j)) = Rest(RebuildPlan, j + 1)
  <1>1. Len(Migration) = 9 /\ Len(RebuildPlan) = 18
    BY Migrations, RebuildStatements
  <1>2. Len(Migration) + 1 = 10 /\ Len(RebuildPlan) + 1 = 19
    BY <1>1
  <1>3. Migration \in Plans /\ RebuildPlan \in Plans
    BY Migrations, RebuildStatements, Zenon
  <1>4. /\ MigrationPlan(0) = Rest(Migration, 1) /\ MigrationPlan(1) = Rest(Migration, 4)
        /\ MigrationPlan(2) = Rest(Migration, 5) /\ MigrationPlan(3) = Rest(Migration, 10)
    BY Migrations, Zenon
  <1>5. Rest(Migration, 10) = <<>>
    <2>1. Rest(Migration, Len(Migration) + 1) = <<>>
      BY <1>3, PlanEmpty, Zenon
    <2> QED
      BY ONLY <1>2, <2>1, Zenon
  <1>6. Rest(RebuildPlan, 1) = RebuildPlan /\ Rest(RebuildPlan, 19) = <<>>
    <2>1. Rest(RebuildPlan, 1) = RebuildPlan /\ Rest(RebuildPlan, Len(RebuildPlan) + 1) = <<>>
      BY <1>3, PlanEmpty, Zenon
    <2> QED
      BY ONLY <1>2, <2>1, Zenon
  <1>7. ASSUME NEW k \in 1..9
        PROVE  /\ Rest(Migration, k) # <<>>
               /\ Head(Rest(Migration, k)) = Migration[k]
               /\ Tail(Rest(Migration, k)) = Rest(Migration, k + 1)
    <2>1. k \in 1..Len(Migration)
      BY ONLY <1>1, <1>7
    <2> QED
      BY ONLY <1>3, <2>1, PlanSteps, Zenon
  <1>8. ASSUME NEW j \in 1..18
        PROVE  /\ Rest(RebuildPlan, j) # <<>>
               /\ Head(Rest(RebuildPlan, j)) = RebuildPlan[j]
               /\ Tail(Rest(RebuildPlan, j)) = Rest(RebuildPlan, j + 1)
    <2>1. j \in 1..Len(RebuildPlan)
      BY ONLY <1>1, <1>8
    <2> QED
      BY ONLY <1>3, <2>1, PlanSteps, Zenon
  <1> QED
    BY ONLY <1>4, <1>5, <1>6, <1>7, <1>8, Zenon

\* The migrations that are left fit the version that is recorded.
LEMMA ReadKeeps ==
  ASSUME OpenInv, ReadMetadataVersion
  PROVE  OpenInv'
  <1>1. FileKept /\ torn' = torn /\ FileInv /\ Places /\ (~torn => Whole)
    BY DEF ReadMetadataVersion, FileKept, OpenInv, FileInv
  <1>2. FileInv'
    BY <1>1, KeptFile
  <1>3. plan = <<>> /\ pc # "migrate" /\ pc # "rebuild"
    BY <1>1 DEF Places, ReadMetadataVersion
  <1>4. ASSUME NEW k \in 1..10, plan' = Rest(Migration, k), pc' = "migrate", MigrateAt(k)'
        PROVE  Places' /\ (~torn' => Whole')
    <2>1. Migrating'
      BY <1>4 DEF Migrating
    <2>2. Places'
      BY <1>4, <2>1 DEF Places
    <2>3. ~torn' => Whole'
      BY <1>1, <1>3, <1>4 DEF Whole, FileKept, rows
    <2> QED
      BY <2>2, <2>3
  <1>5. CASE table["metadata_schema_version"] = None
    <2>1. plan' = Rest(Migration, 1) /\ pc' = "migrate"
      BY <1>5, PlanStarts DEF ReadMetadataVersion
    <2>2. metadataVersion = None /\ (~torn => FormsBefore(1))
      BY <1>1, <1>3, <1>5, OpenAssumption DEF FileInv, MetadataRecorded, Whole
    <2>3. MigrateAt(1)'
      BY <1>1, <2>2, KeptForms, VersionCases DEF MigrateAt, FileKept
    <2> QED
      BY <1>2, <1>4, <2>1, <2>3 DEF OpenInv, FileInv
  <1>6. CASE table["metadata_schema_version"] # None /\ metadataVersion = None
    <2>1. Refuse
      BY <1>6 DEF ReadMetadataVersion
    <2>2. torn
      BY <1>1, <1>3, <1>6 DEF Whole, FormsBefore
    <2>3. Places' /\ torn'
      BY <1>1, <2>1, <2>2 DEF Refuse, Places
    <2> QED
      BY <1>2, <2>3 DEF OpenInv, FileInv
  <1>7. CASE table["metadata_schema_version"] # None /\ metadataVersion # None
    <2>1. plan' = MigrationPlan(metadataVersion) /\ pc' = "migrate"
      BY <1>7 DEF ReadMetadataVersion
    <2>2. metadataVersion = 1 \/ metadataVersion = 2 \/ Current
      BY <1>1, <1>7, VersionCases DEF FileInv
    <2>3. CASE metadataVersion = 1
      <3>1. MigrateAt(4)' /\ plan' = Rest(Migration, 4)
        BY <1>1, <1>3, <2>1, <2>3, KeptForms, PlanStarts, VersionCases
        DEF MigrateAt, FileKept, Whole
      <3> QED
        BY <1>2, <1>4, <2>1, <3>1 DEF OpenInv, FileInv
    <2>4. CASE metadataVersion = 2
      <3>1. MigrateAt(5)' /\ plan' = Rest(Migration, 5)
        BY <1>1, <1>3, <2>1, <2>4, KeptForms, PlanStarts, VersionCases
        DEF MigrateAt, FileKept, Whole, FileInv, MetadataRecorded
      <3> QED
        BY <1>2, <1>4, <2>1, <3>1 DEF OpenInv, FileInv
    <2>5. CASE Current
      <3>1. MigrateAt(10)' /\ plan' = Rest(Migration, 10)
        BY <1>1, <1>3, <2>1, <2>5, KeptForms, NoneLeft, VersionCases
        DEF MigrateAt, FileKept, Whole, FileInv, MetadataRecorded
      <3> QED
        BY <1>2, <1>4, <2>1, <3>1 DEF OpenInv, FileInv
    <2> QED
      BY <2>2, <2>3, <2>4, <2>5
  <1> QED
    BY <1>5, <1>6, <1>7

\* The migrations are over, and the content tables are current or to be rebuilt.
LEMMA CheckKeeps ==
  ASSUME OpenInv, CheckContentVersion
  PROVE  OpenInv'
  <1>1. FileKept /\ torn' = torn /\ FileInv /\ Places /\ (~torn => Whole)
    BY DEF CheckContentVersion, FileKept, OpenInv, FileInv
  <1>2. FileInv'
    BY <1>1, KeptFile
  <1>3. pc = "migrate" /\ plan = <<>>
    BY DEF CheckContentVersion
  <1>4. Current /\ (~torn => FormsBefore(10))
    <2>1. PICK k \in 1..10 : plan = Rest(Migration, k) /\ MigrateAt(k)
      BY <1>1, <1>3 DEF Places, Migrating
    <2>2. k \in 1..9 \/ k = 10
      OBVIOUS
    <2>3. k = 10
      BY <1>3, <2>1, <2>2, PlanStarts, Zenon
    <2> QED
      BY <2>1, <2>3 DEF MigrateAt
  <1>5. /\ contentVersion # None => table["content_schema_version"] # None
        /\ ~torn => /\ table["content_schema_version"] # None => contentVersion # None
                    /\ \A t \in DataTables : digested = filled[t]
    BY <1>1, <1>3 DEF FileInv, ContentRecorded, Whole
  <1>6. \/ pc' = "open" /\ plan' = plan /\ contentVersion = ContentSchema
        \/ pc' = "drop" /\ plan' = plan /\ contentVersion # ContentSchema
        \/ Refuse /\ torn
    BY <1>5, OpenAssumption DEF CheckContentVersion
  <1>7. Places'
    BY <1>1, <1>3, <1>4, <1>6, VersionCases DEF Places, FileKept, Refuse
  <1>8. ~torn' => Whole'
    <2> SUFFICES ASSUME ~torn
                 PROVE  Whole'
      BY <1>1
    <2>1. FormsBefore(10)'
      BY <1>1, <1>4, KeptForms
    <2>2. Current' /\ pc' # "failed"
      BY <1>1, <1>4, <1>6, VersionCases DEF FileKept
    <2> QED
      BY <1>1, <1>4, <1>5, <2>1, <2>2, VersionCases DEF Whole, FileKept, rows
  <1> QED
    BY <1>2, <1>7, <1>8 DEF OpenInv, FileInv

\* A rebuild begins on content of another version.
LEMMA BeginKeeps ==
  ASSUME OpenInv, BeginRebuild
  PROVE  OpenInv'
  <1>1. FileKept /\ torn' = torn /\ FileInv /\ Places /\ (~torn => Whole)
    BY DEF BeginRebuild, FileKept, OpenInv, FileInv
  <1>2. FileInv'
    BY <1>1, KeptFile
  <1>3. pc = "drop" /\ Current /\ contentVersion # ContentSchema
    BY <1>1 DEF BeginRebuild, Places
  <1>4. \/ Refuse /\ table[UnknownTable] # None
        \/ pc' = "rebuild" /\ plan' = Rest(RebuildPlan, 1)
    BY PlanStarts DEF BeginRebuild
  <1>5. RebuildAt(1)'
    BY <1>1, <1>3 DEF RebuildAt, FileKept
  <1>6. Places'
    <2>1. pc' = "rebuild" => Rebuilding'
      BY <1>4, <1>5 DEF Rebuilding, Refuse
    <2> QED
      BY <1>1, <1>3, <1>4, <2>1, VersionCases DEF Places, FileKept, Refuse
  <1>7. ~torn' => Whole'
    BY <1>1, <1>3, <1>4, KeptForms DEF Whole, FileKept, rows, Refuse
  <1> QED
    BY <1>2, <1>6, <1>7 DEF OpenInv, FileInv

\* After a rebuild there is no content and no digest.
LEMMA OpenedKeeps ==
  ASSUME OpenInv, Opened
  PROVE  OpenInv'
  <1>1. FileKept /\ torn' = torn /\ FileInv /\ Places /\ (~torn => Whole)
    BY DEF Opened, FileKept, OpenInv, FileInv
  <1>2. FileInv'
    BY <1>1, KeptFile
  <1>3. pc = "rebuild" /\ plan = <<>> /\ Current /\ pc' = "open" /\ plan' = <<>>
    BY <1>1 DEF Opened, Places
  <1>4. RebuildAt(19)
    <2>1. PICK j \in 1..19 : plan = Rest(RebuildPlan, j) /\ RebuildAt(j)
      BY <1>1, <1>3 DEF Places, Rebuilding
    <2>2. j \in 1..18 \/ j = 19
      OBVIOUS
    <2>3. j = 19
      BY <1>3, <2>1, <2>2, PlanStarts, Zenon
    <2> QED
      BY <2>1, <2>3
  <1>5. /\ contentVersion = ContentSchema /\ digested = {}
        /\ \A i \in 1..8 : DropOrder[i] \in DataTables => filled[DropOrder[i]] = {}
    BY <1>4 DEF RebuildAt
  <1>6. \A t \in DataTables : filled[t] = {}
    BY <1>5, ContentTableNames, TablesApart
  <1>7. Places'
    BY <1>1, <1>3, <1>5, VersionCases DEF Places, FileKept
  <1>8. ~torn' => Whole'
    <2>1. ~torn => FormsBefore(10)'
      BY <1>1, <1>3, KeptForms DEF Whole
    <2>2. metadataVersion' # None /\ metadataVersion' # 1 /\ metadataVersion' # 2
      BY <1>1, <1>3, VersionCases DEF FileKept
    <2>3. contentVersion' # None /\ \A t \in DataTables : digested' = filled'[t]
      BY <1>1, <1>5, <1>6, OpenAssumption DEF FileKept, rows
    <2> QED
      BY <1>1, <1>3, <2>1, <2>2, <2>3 DEF Whole
  <1> QED
    BY <1>2, <1>7, <1>8 DEF OpenInv, FileInv

\* A closed file and a crash keep whatever holds of any file.
LEMMA CloseKeeps ==
  ASSUME OpenInv, Close \/ Crash
  PROVE  OpenInv'
  <1>1. FileKept /\ FileInv /\ Places /\ (~torn => Whole)
    BY DEF Close, Crash, FileKept, OpenInv, FileInv
  <1>2. FileInv'
    BY <1>1, KeptFile
  <1>3. pc' = "closed" /\ plan' = <<>>
    BY <1>1 DEF Close, Crash, Places
  <1>4. Places'
    BY <1>3 DEF Places
  <1>5. ~torn' => Whole'
    <2> SUFFICES ASSUME ~torn'
                 PROVE  Whole'
      OBVIOUS
    <2>1. \/ torn' = torn /\ pc = "open"
          \/ torn' = (torn \/ pc # "open")
      BY DEF Close, Crash
    <2>2. ~torn /\ pc = "open"
      <3>1. CASE torn' = torn /\ pc = "open"
        BY <3>1
      <3>2. CASE torn' = (torn \/ pc # "open")
        <4>1. ~(torn \/ pc # "open")
          BY <3>2
        <4> QED
          BY <4>1
      <3> QED
        BY <2>1, <3>1, <3>2
    <2> QED
      BY <1>1, <1>3, <2>2, KeptForms, VersionCases DEF Whole, FileKept, rows
  <1> QED
    BY <1>2, <1>4, <1>5 DEF OpenInv, FileInv

\* A Set on the open store, with every table in its latest form.
LEMMA ImportKeeps ==
  ASSUME OpenInv, NEW n \in Names, Import(n)
  PROVE  OpenInv'
  <1>1. FileInv /\ Places /\ (~torn => Whole)
    BY DEF OpenInv, FileInv
  <1>2. /\ pc = "open" /\ pc' = "open" /\ plan' = plan /\ torn' = torn
        /\ UNCHANGED <<table, metadataVersion, contentVersion>>
        /\ named' = named \cup {n} /\ digested' = digested \cup {n}
        /\ labelled' = [labelled EXCEPT !["catalog_labels"] = @ \cup {n}]
        /\ filled' = [t \in DataTables |-> filled[t] \cup {n}]
    BY DEF Import
  <1>3. Current /\ contentVersion = ContentSchema /\ plan = <<>>
    BY <1>1, <1>2 DEF Places
  <1>4. Types'
    BY <1>1, <1>2 DEF FileInv, Types, LabelTables
  <1>5. MetadataRecorded'
    BY <1>1, <1>2, VersionCases DEF FileInv, MetadataRecorded
  <1>6. ContentRecorded'
    BY <1>1, <1>2 DEF FileInv, ContentRecorded
  <1>7. RowsNeedTables' /\ LabelsSurvive'
    BY <1>1, <1>2, <1>3, VersionCases
    DEF FileInv, Types, RowsNeedTables, LabelsSurvive, LabelTables, MetadataRecorded
  <1>8. Places'
    BY <1>1, <1>2, <1>3, VersionCases DEF Places
  <1>9. ~torn' => Whole'
    <2>1. ~torn => FormsBefore(10)'
      BY <1>1, <1>2, <1>3, VersionCases DEF Whole, FormsBefore
    <2> QED
      BY <1>1, <1>2, <1>3, <2>1, VersionCases DEF Whole
  <1> QED
    BY <1>4, <1>5, <1>6, <1>7, <1>8, <1>9 DEF OpenInv, FileInv

-----------------------------------------------------------------------------
(***************************************************************************)
(* The statements.                                                         *)
(***************************************************************************)

\* When the tables allow a statement.
LEMMA AllowedWhen ==
  ASSUME NEW t, NEW f
  PROVE  /\ Allowed(Stmt("create", t, f)) <=> table[t] = None
         /\ Allowed(Stmt("alter", t, f)) <=> table[t] \notin {None, f}
         /\ Allowed(Stmt("copy", t, f)) <=> table["catalog_labels"] # None
         /\ Allowed(Stmt("drop", t, f)) <=> table[t] # None
         /\ Allowed(Stmt("rename", t, f)) <=> table["catalog_labels"] = None
         /\ Allowed(Stmt("store version", t, f)) <=> table[t] # None
         /\ Allowed(Stmt("drop if exists", t, f)) /\ Allowed(Stmt("clear digests", t, f))
  BY DEF Allowed, Stmt

\* What a statement that does not fail does.
EffectOf(d, t, f) ==
  /\ d \in {"create", "alter"} =>
       /\ table' = [table EXCEPT ![t] = f]
       /\ UNCHANGED <<metadataVersion, contentVersion, named, digested, labelled, filled>>
  /\ d = "copy" =>
       /\ labelled' = [labelled EXCEPT !["catalog_labels_new"] = labelled["catalog_labels"]]
       /\ UNCHANGED <<table, metadataVersion, contentVersion, named, digested, filled>>
  /\ d = "drop" =>
       /\ table' = [table EXCEPT !["catalog_labels"] = None]
       /\ labelled' = [labelled EXCEPT !["catalog_labels"] = {}]
       /\ UNCHANGED <<metadataVersion, contentVersion, named, digested, filled>>
  /\ d = "rename" =>
       /\ table' = [table EXCEPT !["catalog_labels"] = table["catalog_labels_new"],
                                 !["catalog_labels_new"] = None]
       /\ labelled' = [labelled EXCEPT !["catalog_labels"] = labelled["catalog_labels_new"],
                                       !["catalog_labels_new"] = {}]
       /\ UNCHANGED <<metadataVersion, contentVersion, named, digested, filled>>
  /\ d = "drop if exists" =>
       /\ table' = [table EXCEPT ![t] = None]
       /\ filled' = [u \in DataTables |-> IF u = t THEN {} ELSE filled[u]]
       /\ contentVersion' = IF t = "content_schema_version" THEN None ELSE contentVersion
       /\ UNCHANGED <<metadataVersion, named, digested, labelled>>
  /\ d = "store version" =>
       /\ IF t = "content_schema_version"
          THEN contentVersion' = f /\ UNCHANGED metadataVersion
          ELSE metadataVersion' = f /\ UNCHANGED contentVersion
       /\ UNCHANGED <<table, named, digested, labelled, filled>>
  /\ d = "clear digests" =>
       /\ digested' = {}
       /\ UNCHANGED <<table, metadataVersion, contentVersion, named, labelled, filled>>

\* A statement that is executed and does not fail is allowed and has its effect.
LEMMA Effect ==
  ASSUME NEW d, NEW t, NEW f, plan # <<>>, Head(plan) = Stmt(d, t, f),
         Execute, ~StatementFails
  PROVE  /\ Allowed(Stmt(d, t, f))
         /\ plan' = Tail(plan) /\ pc' = pc /\ torn' = torn
         /\ EffectOf(d, t, f)
  <1>1. Head(plan).do = d /\ Head(plan).table = t /\ Head(plan).form = f
    BY DEF Stmt
  <1> USE DEF Executes, Done, rows, EffectOf
  <1>2. CASE Create
    BY <1>1, <1>2 DEF Create
  <1>3. CASE AddPriorityColumn
    BY <1>1, <1>3 DEF AddPriorityColumn
  <1>4. CASE CopyLabels
    BY <1>1, <1>4 DEF CopyLabels
  <1>5. CASE DropLabels
    BY <1>1, <1>5 DEF DropLabels
  <1>6. CASE RenameLabels
    BY <1>1, <1>6 DEF RenameLabels
  <1>7. CASE DropContent
    BY <1>1, <1>7 DEF DropContent
  <1>8. CASE StoreSchemaVersion
    BY <1>1, <1>8 DEF StoreSchemaVersion
  <1>9. CASE ClearAllDigests
    BY <1>1, <1>9 DEF ClearAllDigests
  <1> QED
    BY <1>2, <1>3, <1>4, <1>5, <1>6, <1>7, <1>8, <1>9 DEF Execute

\* A migration keeps the content tables, and goes on with the next statement.
LEMMA MigrationGoesOn ==
  ASSUME OpenInv, NEW k \in 1..9, pc = "migrate", pc' = "migrate", torn' = torn,
         plan = Rest(Migration, k), plan' = Tail(plan), MigrateAt(k + 1)',
         UNCHANGED <<contentVersion, digested, filled>>,
         \A t \in ContentTables : table'[t] = table[t]
  PROVE  ContentRecorded' /\ Places' /\ (~torn' => Whole')
  <1>1. plan' = Rest(Migration, k + 1) /\ k + 1 \in 1..10
    <2>1. k + 1 \in 1..10
      OBVIOUS
    <2> QED
      BY <2>1, PlanStarts, Zenon
  <1>2. Places'
    <2>1. Migrating'
      BY <1>1 DEF Migrating
    <2> QED
      BY <2>1 DEF Places
  <1>3. ContentRecorded'
    BY TablesApart DEF OpenInv, ContentRecorded
  <1>4. ~torn' => Whole'
    BY TablesApart DEF OpenInv, Whole
  <1> QED
    BY <1>2, <1>3, <1>4

\* Where the k-th statement may fail, an OpenStore was cut short.
LEMMA FailureKeeps ==
  ASSUME OpenInv, StatementFails, torn
  PROVE  OpenInv'
  <1>1. FileKept /\ torn' = torn /\ FileInv /\ Refuse
    BY DEF StatementFails, FileKept, OpenInv, FileInv
  <1>2. FileInv'
    BY <1>1, KeptFile
  <1>3. Places' /\ torn'
    BY <1>1 DEF Refuse, Places
  <1> QED
    BY <1>2, <1>3 DEF OpenInv, FileInv

\* The metadata tables are tables of their own.
LEMMA MetadataNames ==
  /\ "catalog_metadata" \in AllTables /\ "catalog_labels" \in AllTables
  /\ "catalog_labels_new" \in AllTables /\ "metadata_schema_version" \in AllTables
  /\ \A t \in ContentTables : /\ t \in AllTables
                              /\ t # "catalog_metadata" /\ t # "catalog_labels"
                              /\ t # "catalog_labels_new" /\ t # "metadata_schema_version"
  /\ LabelTables = {"catalog_labels", "catalog_labels_new"}
  /\ None # 1 /\ None # 2 /\ None # 3
  BY TableNames, TablesApart, OpenAssumption DEF LabelTables

\* A statement of the migrations, by what it does.
LEMMA MigrationStep ==
  ASSUME OpenInv, NEW k \in 1..9, pc = "migrate", plan = Rest(Migration, k),
         MigrateAt(k), Execute
  PROVE  OpenInv'
  <1>1. /\ plan # <<>> /\ Head(plan) = Migration[k]
        /\ FileInv /\ (~torn => FormsBefore(k)) /\ ~Current
    BY PlanStarts DEF OpenInv, FileInv, MigrateAt
  <1>2. ASSUME NEW d, NEW t, NEW f, Migration[k] = Stmt(d, t, f),
               ~torn => Allowed(Stmt(d, t, f))
        PROVE  \/ OpenInv'
               \/ /\ Allowed(Stmt(d, t, f)) /\ EffectOf(d, t, f)
                  /\ pc' = pc /\ torn' = torn /\ plan' = Tail(plan)
    <2>1. CASE StatementFails
      <3>1. torn
        BY <1>1, <1>2, <2>1 DEF StatementFails
      <3> QED
        BY <2>1, <3>1, FailureKeeps
    <2>2. CASE ~StatementFails
      <3>1. plan # <<>> /\ Head(plan) = Stmt(d, t, f)
        BY <1>1, <1>2
      <3> QED
        BY <2>2, <3>1, Effect
    <2> QED
      BY <2>1, <2>2
  <1>3. ASSUME Types', MetadataRecorded', RowsNeedTables', LabelsSurvive', MigrateAt(k + 1)',
               pc' = pc, torn' = torn, plan' = Tail(plan),
               UNCHANGED <<contentVersion, digested, filled>>,
               \A t \in ContentTables : table'[t] = table[t]
        PROVE  OpenInv'
    <2>1. ContentRecorded' /\ Places' /\ (~torn' => Whole')
      BY <1>3, MigrationGoesOn
    <2> QED
      BY <1>3, <2>1 DEF OpenInv
  <1> USE DEF FileInv, Current, LatestMetadata
  <1>4. CASE k = 1
    <2>1. /\ Migration[k] = Stmt("create", "catalog_metadata", 1)
          /\ Allowed(Stmt("create", "catalog_metadata", 1)) <=>
               table["catalog_metadata"] = None
      BY <1>4, MigrationStatements, AllowedWhen
    <2>2. ~torn => Allowed(Stmt("create", "catalog_metadata", 1))
      BY <1>1, <1>4, <2>1, MetadataNames DEF FormsBefore
    <2>3. SUFFICES ASSUME Allowed(Stmt("create", "catalog_metadata", 1)),
                          EffectOf("create", "catalog_metadata", 1),
                          pc' = pc, torn' = torn, plan' = Tail(plan)
                   PROVE  OpenInv'
      BY <1>2, <2>1, <2>2
    <2>4. /\ table["catalog_metadata"] = None
          /\ table' = [table EXCEPT !["catalog_metadata"] = 1]
          /\ UNCHANGED <<metadataVersion, contentVersion, named, digested, labelled, filled>>
      BY <2>1, <2>3 DEF EffectOf
    <2>5. Types'
      BY <1>1, <2>4, MetadataNames DEF Types
    <2>6. MetadataRecorded'
      BY <1>1, <1>4, <2>4, MetadataNames DEF Types, MetadataRecorded, MigrateAt
    <2>7. RowsNeedTables' /\ LabelsSurvive'
      BY <1>1, <1>4, <2>4, MetadataNames
      DEF Types, RowsNeedTables, LabelsSurvive, MigrateAt
    <2>8. MigrateAt(k + 1)'
      BY <1>1, <1>4, <2>3, <2>4, MetadataNames
      DEF Types, RowsNeedTables, LabelsSurvive, MetadataRecorded, MigrateAt, FormsBefore
    <2>9. \A u \in ContentTables : table'[u] = table[u]
      BY <1>1, <2>4, MetadataNames DEF Types
    <2> QED
      BY <1>3, <2>3, <2>4, <2>5, <2>6, <2>7, <2>8, <2>9
  <1>5. CASE k = 2
    <2>1. /\ Migration[k] = Stmt("create", "catalog_labels", 1)
          /\ Allowed(Stmt("create", "catalog_labels", 1)) <=>
               table["catalog_labels"] = None
      BY <1>5, MigrationStatements, AllowedWhen
    <2>2. ~torn => Allowed(Stmt("create", "catalog_labels", 1))
      BY <1>1, <1>5, <2>1, MetadataNames DEF FormsBefore
    <2>3. SUFFICES ASSUME Allowed(Stmt("create", "catalog_labels", 1)),
                          EffectOf("create", "catalog_labels", 1),
                          pc' = pc, torn' = torn, plan' = Tail(plan)
                   PROVE  OpenInv'
      BY <1>2, <2>1, <2>2
    <2>4. /\ table["catalog_labels"] = None
          /\ table' = [table EXCEPT !["catalog_labels"] = 1]
          /\ UNCHANGED <<metadataVersion, contentVersion, named, digested, labelled, filled>>
      BY <2>1, <2>3 DEF EffectOf
    <2>5. Types'
      BY <1>1, <2>4, MetadataNames DEF Types
    <2>6. MetadataRecorded'
      BY <1>1, <1>5, <2>4, MetadataNames DEF Types, MetadataRecorded, MigrateAt
    <2>7. RowsNeedTables' /\ LabelsSurvive'
      BY <1>1, <1>5, <2>4, MetadataNames
      DEF Types, RowsNeedTables, LabelsSurvive, MigrateAt
    <2>8. MigrateAt(k + 1)'
      BY <1>1, <1>5, <2>3, <2>4, MetadataNames
      DEF Types, RowsNeedTables, LabelsSurvive, MetadataRecorded, MigrateAt, FormsBefore
    <2>9. \A u \in ContentTables : table'[u] = table[u]
      BY <1>1, <2>4, MetadataNames DEF Types
    <2> QED
      BY <1>3, <2>3, <2>4, <2>5, <2>6, <2>7, <2>8, <2>9
  <1>6. CASE k = 3
    <2>1. /\ Migration[k] = Stmt("create", "metadata_schema_version", 1)
          /\ Allowed(Stmt("create", "metadata_schema_version", 1)) <=>
               table["metadata_schema_version"] = None
      BY <1>6, MigrationStatements, AllowedWhen
    <2>2. ~torn => Allowed(Stmt("create", "metadata_schema_version", 1))
      BY <1>1, <1>6, <2>1, MetadataNames DEF FormsBefore
    <2>3. SUFFICES ASSUME Allowed(Stmt("create", "metadata_schema_version", 1)),
                          EffectOf("create", "metadata_schema_version", 1),
                          pc' = pc, torn' = torn, plan' = Tail(plan)
                   PROVE  OpenInv'
      BY <1>2, <2>1, <2>2
    <2>4. /\ table["metadata_schema_version"] = None
          /\ table' = [table EXCEPT !["metadata_schema_version"] = 1]
          /\ UNCHANGED <<metadataVersion, contentVersion, named, digested, labelled, filled>>
      BY <2>1, <2>3 DEF EffectOf
    <2>5. Types'
      BY <1>1, <2>4, MetadataNames DEF Types
    <2>6. MetadataRecorded'
      BY <1>1, <1>6, <2>4, MetadataNames DEF Types, MetadataRecorded, MigrateAt
    <2>7. RowsNeedTables' /\ LabelsSurvive'
      BY <1>1, <1>6, <2>4, MetadataNames
      DEF Types, RowsNeedTables, LabelsSurvive, MigrateAt
    <2>8. MigrateAt(k + 1)'
      BY <1>1, <1>6, <2>3, <2>4, MetadataNames
      DEF Types, RowsNeedTables, LabelsSurvive, MetadataRecorded, MigrateAt, FormsBefore
    <2>9. \A u \in ContentTables : table'[u] = table[u]
      BY <1>1, <2>4, MetadataNames DEF Types
    <2> QED
      BY <1>3, <2>3, <2>4, <2>5, <2>6, <2>7, <2>8, <2>9
  <1>7. CASE k = 4
    <2>1. /\ Migration[k] = Stmt("alter", "catalog_metadata", 2)
          /\ Allowed(Stmt("alter", "catalog_metadata", 2)) <=>
               table["catalog_metadata"] \notin {None, 2}
      BY <1>7, MigrationStatements, AllowedWhen
    <2>2. ~torn => Allowed(Stmt("alter", "catalog_metadata", 2))
      BY <1>1, <1>7, <2>1, MetadataNames DEF FormsBefore
    <2>3. SUFFICES ASSUME Allowed(Stmt("alter", "catalog_metadata", 2)),
                          EffectOf("alter", "catalog_metadata", 2),
                          pc' = pc, torn' = torn, plan' = Tail(plan)
                   PROVE  OpenInv'
      BY <1>2, <2>1, <2>2
    <2>4. /\ table["catalog_metadata"] \notin {None, 2}
          /\ table' = [table EXCEPT !["catalog_metadata"] = 2]
          /\ UNCHANGED <<metadataVersion, contentVersion, named, digested, labelled, filled>>
      BY <2>1, <2>3 DEF EffectOf
    <2>5. Types'
      BY <1>1, <2>4, MetadataNames DEF Types
    <2>6. MetadataRecorded'
      BY <1>1, <1>7, <2>4, MetadataNames DEF Types, MetadataRecorded, MigrateAt
    <2>7. RowsNeedTables' /\ LabelsSurvive'
      BY <1>1, <1>7, <2>4, MetadataNames
      DEF Types, RowsNeedTables, LabelsSurvive, MigrateAt
    <2>8. MigrateAt(k + 1)'
      BY <1>1, <1>7, <2>3, <2>4, MetadataNames
      DEF Types, RowsNeedTables, LabelsSurvive, MetadataRecorded, MigrateAt, FormsBefore
    <2>9. \A u \in ContentTables : table'[u] = table[u]
      BY <1>1, <2>4, MetadataNames DEF Types
    <2> QED
      BY <1>3, <2>3, <2>4, <2>5, <2>6, <2>7, <2>8, <2>9
  <1>8. CASE k = 5
    <2>1. /\ Migration[k] = Stmt("create", "catalog_labels_new", 3)
          /\ Allowed(Stmt("create", "catalog_labels_new", 3)) <=>
               table["catalog_labels_new"] = None
      BY <1>8, MigrationStatements, AllowedWhen
    <2>2. ~torn => Allowed(Stmt("create", "catalog_labels_new", 3))
      BY <1>1, <1>8, <2>1, MetadataNames DEF FormsBefore
    <2>3. SUFFICES ASSUME Allowed(Stmt("create", "catalog_labels_new", 3)),
                          EffectOf("create", "catalog_labels_new", 3),
                          pc' = pc, torn' = torn, plan' = Tail(plan)
                   PROVE  OpenInv'
      BY <1>2, <2>1, <2>2
    <2>4. /\ table["catalog_labels_new"] = None
          /\ table' = [table EXCEPT !["catalog_labels_new"] = 3]
          /\ UNCHANGED <<metadataVersion, contentVersion, named, digested, labelled, filled>>
      BY <2>1, <2>3 DEF EffectOf
    <2>5. Types'
      BY <1>1, <2>4, MetadataNames DEF Types
    <2>6. MetadataRecorded'
      BY <1>1, <1>8, <2>4, MetadataNames DEF Types, MetadataRecorded, MigrateAt
    <2>7. RowsNeedTables' /\ LabelsSurvive'
      BY <1>1, <1>8, <2>4, MetadataNames
      DEF Types, RowsNeedTables, LabelsSurvive, MigrateAt
    <2>8. MigrateAt(k + 1)'
      BY <1>1, <1>8, <2>3, <2>4, MetadataNames
      DEF Types, RowsNeedTables, LabelsSurvive, MetadataRecorded, MigrateAt, FormsBefore
    <2>9. \A u \in ContentTables : table'[u] = table[u]
      BY <1>1, <2>4, MetadataNames DEF Types
    <2> QED
      BY <1>3, <2>3, <2>4, <2>5, <2>6, <2>7, <2>8, <2>9
  <1>9. CASE k = 6
    <2>1. /\ Migration[k] = Stmt("copy", "catalog_labels_new", 3)
          /\ Allowed(Stmt("copy", "catalog_labels_new", 3)) <=>
               table["catalog_labels"] # None
      BY <1>9, MigrationStatements, AllowedWhen
    <2>2. ~torn => Allowed(Stmt("copy", "catalog_labels_new", 3))
      BY <1>1, <1>9, <2>1, MetadataNames DEF FormsBefore
    <2>3. SUFFICES ASSUME Allowed(Stmt("copy", "catalog_labels_new", 3)),
                          EffectOf("copy", "catalog_labels_new", 3),
                          pc' = pc, torn' = torn, plan' = Tail(plan)
                   PROVE  OpenInv'
      BY <1>2, <2>1, <2>2
    <2>4. /\ table["catalog_labels"] # None
          /\ labelled' = [labelled EXCEPT !["catalog_labels_new"] = labelled["catalog_labels"]]
          /\ UNCHANGED <<table, metadataVersion, contentVersion, named, digested, filled>>
      BY <2>1, <2>3 DEF EffectOf
    <2>5. Types'
      BY <1>1, <2>4, MetadataNames DEF Types
    <2>6. MetadataRecorded'
      BY <1>1, <1>9, <2>4, MetadataNames DEF Types, MetadataRecorded, MigrateAt
    <2>7. RowsNeedTables' /\ LabelsSurvive'
      BY <1>1, <1>9, <2>4, MetadataNames
      DEF Types, RowsNeedTables, LabelsSurvive, MigrateAt
    <2>8. MigrateAt(k + 1)'
      BY <1>1, <1>9, <2>3, <2>4, MetadataNames
      DEF Types, RowsNeedTables, LabelsSurvive, MetadataRecorded, MigrateAt, FormsBefore
    <2>9. \A u \in ContentTables : table'[u] = table[u]
      BY <1>1, <2>4, MetadataNames DEF Types
    <2> QED
      BY <1>3, <2>3, <2>4, <2>5, <2>6, <2>7, <2>8, <2>9
  <1>10. CASE k = 7
    <2>1. /\ Migration[k] = Stmt("drop", "catalog_labels", None)
          /\ Allowed(Stmt("drop", "catalog_labels", None)) <=>
               table["catalog_labels"] # None
      BY <1>10, MigrationStatements, AllowedWhen
    <2>2. ~torn => Allowed(Stmt("drop", "catalog_labels", None))
      BY <1>1, <1>10, <2>1, MetadataNames DEF FormsBefore
    <2>3. SUFFICES ASSUME Allowed(Stmt("drop", "catalog_labels", None)),
                          EffectOf("drop", "catalog_labels", None),
                          pc' = pc, torn' = torn, plan' = Tail(plan)
                   PROVE  OpenInv'
      BY <1>2, <2>1, <2>2
    <2>4. /\ table["catalog_labels"] # None
          /\ table' = [table EXCEPT !["catalog_labels"] = None]
          /\ labelled' = [labelled EXCEPT !["catalog_labels"] = {}]
          /\ UNCHANGED <<metadataVersion, contentVersion, named, digested, filled>>
      BY <2>1, <2>3 DEF EffectOf
    <2>5. Types'
      BY <1>1, <2>4, MetadataNames DEF Types
    <2>6. MetadataRecorded'
      BY <1>1, <1>10, <2>4, MetadataNames DEF Types, MetadataRecorded, MigrateAt
    <2>7. RowsNeedTables' /\ LabelsSurvive'
      BY <1>1, <1>10, <2>4, MetadataNames
      DEF Types, RowsNeedTables, LabelsSurvive, MigrateAt
    <2>8. MigrateAt(k + 1)'
      BY <1>1, <1>10, <2>3, <2>4, MetadataNames
      DEF Types, RowsNeedTables, LabelsSurvive, MetadataRecorded, MigrateAt, FormsBefore
    <2>9. \A u \in ContentTables : table'[u] = table[u]
      BY <1>1, <2>4, MetadataNames DEF Types
    <2> QED
      BY <1>3, <2>3, <2>4, <2>5, <2>6, <2>7, <2>8, <2>9
  <1>11. CASE k = 8
    <2>1. /\ Migration[k] = Stmt("rename", "catalog_labels_new", 3)
          /\ Allowed(Stmt("rename", "catalog_labels_new", 3)) <=>
               table["catalog_labels"] = None
      BY <1>11, MigrationStatements, AllowedWhen
    <2>2. ~torn => Allowed(Stmt("rename", "catalog_labels_new", 3))
      BY <1>1, <1>11, <2>1, MetadataNames DEF FormsBefore
    <2>3. SUFFICES ASSUME Allowed(Stmt("rename", "catalog_labels_new", 3)),
                          EffectOf("rename", "catalog_labels_new", 3),
                          pc' = pc, torn' = torn, plan' = Tail(plan)
                   PROVE  OpenInv'
      BY <1>2, <2>1, <2>2
    <2>4. /\ table["catalog_labels"] = None
          /\ table' = [table EXCEPT !["catalog_labels"] = table["catalog_labels_new"],
                                    !["catalog_labels_new"] = None]
          /\ labelled' = [labelled EXCEPT !["catalog_labels"] = labelled["catalog_labels_new"],
                                          !["catalog_labels_new"] = {}]
          /\ UNCHANGED <<metadataVersion, contentVersion, named, digested, filled>>
      BY <2>1, <2>3 DEF EffectOf
    <2>5. Types'
      BY <1>1, <2>4, MetadataNames DEF Types
    <2>6. MetadataRecorded'
      BY <1>1, <1>11, <2>4, MetadataNames DEF Types, MetadataRecorded, MigrateAt
    <2>7. RowsNeedTables' /\ LabelsSurvive'
      BY <1>1, <1>11, <2>4, MetadataNames
      DEF Types, RowsNeedTables, LabelsSurvive, MigrateAt
    <2>8. MigrateAt(k + 1)'
      BY <1>1, <1>11, <2>3, <2>4, MetadataNames
      DEF Types, RowsNeedTables, LabelsSurvive, MetadataRecorded, MigrateAt, FormsBefore
    <2>9. \A u \in ContentTables : table'[u] = table[u]
      BY <1>1, <2>4, MetadataNames DEF Types
    <2> QED
      BY <1>3, <2>3, <2>4, <2>5, <2>6, <2>7, <2>8, <2>9
  <1>12. CASE k = 9
    <2>1. /\ Migration[k] = Stmt("store version", "metadata_schema_version", LatestMetadata)
          /\ Allowed(Stmt("store version", "metadata_schema_version", LatestMetadata)) <=>
               table["metadata_schema_version"] # None
      BY <1>12, MigrationStatements, AllowedWhen
    <2>0. ~torn => /\ table["catalog_metadata"] = 2 /\ table["catalog_labels"] = 3
                   /\ table["metadata_schema_version"] = 1
                   /\ table["catalog_labels_new"] = None
      BY <1>1, <1>12 DEF FormsBefore
    <2>2. ~torn => Allowed(Stmt("store version", "metadata_schema_version", LatestMetadata))
      BY <2>0, <2>1, MetadataNames
    <2>3. SUFFICES ASSUME Allowed(Stmt("store version", "metadata_schema_version", LatestMetadata)),
                          EffectOf("store version", "metadata_schema_version", LatestMetadata),
                          pc' = pc, torn' = torn, plan' = Tail(plan)
                   PROVE  OpenInv'
      BY <1>2, <2>1, <2>2
    <2>4. /\ table["metadata_schema_version"] # None
          /\ metadataVersion' = 3
          /\ UNCHANGED <<table, contentVersion, named, digested, labelled, filled>>
      BY <2>1, <2>3 DEF EffectOf, LatestMetadata
    <2>5. Types'
      BY <1>1, <2>4, MetadataNames DEF Types, LatestMetadata
    <2>6. MetadataRecorded'
      <3>1. table["catalog_labels"] = 3 /\ table["catalog_labels_new"] = None
            /\ table["catalog_metadata"] = 2 /\ 3 \notin LaterMetadata
        BY <1>12, OpenAssumption DEF MigrateAt
      <3> QED
        BY <1>1, <2>4, <3>1 DEF MetadataRecorded
    <2>7. RowsNeedTables' /\ LabelsSurvive'
      BY <1>1, <1>12, <2>4, MetadataNames
      DEF Types, RowsNeedTables, LabelsSurvive, MigrateAt
    <2>8. MigrateAt(k + 1)'
      <3>1. ~torn' => FormsBefore(10)'
        <4>1. ~torn => FormsBefore(10)'
          BY <2>0, <2>4 DEF FormsBefore
        <4>2. torn' = torn
          BY <2>3
        <4> QED
          BY <4>1, <4>2
      <3>2. table["catalog_metadata"] = 2
        BY <1>12 DEF MigrateAt
      <3> QED
        BY <1>12, <2>4, <3>1, <3>2 DEF MigrateAt
    <2>9. \A u \in ContentTables : table'[u] = table[u]
      BY <1>1, <2>4, MetadataNames DEF Types
    <2> QED
      BY <1>3, <2>3, <2>4, <2>5, <2>6, <2>7, <2>8, <2>9
  <1>13. \/ k = 1 \/ k = 2 \/ k = 3 \/ k = 4 \/ k = 5
         \/ k = 6 \/ k = 7 \/ k = 8 \/ k = 9
    OBVIOUS
  <1> QED
    BY <1>4, <1>5, <1>6, <1>7, <1>8, <1>9, <1>10, <1>11, <1>12, <1>13

\* A statement of a rebuild, which the tables never refuse.
LEMMA RebuildStep ==
  ASSUME OpenInv, NEW j \in 1..18, pc = "rebuild", plan = Rest(RebuildPlan, j),
         RebuildAt(j), Execute
  PROVE  OpenInv'
  <1>1. /\ plan # <<>> /\ Head(plan) = RebuildPlan[j]
        /\ FileInv /\ Places /\ (~torn => Whole)
    BY PlanStarts DEF OpenInv, FileInv
  <1>2. ASSUME NEW d, NEW t, NEW f, RebuildPlan[j] = Stmt(d, t, f), Allowed(Stmt(d, t, f))
        PROVE  EffectOf(d, t, f) /\ pc' = pc /\ torn' = torn /\ plan' = Tail(plan)
    <2>1. ~StatementFails /\ plan # <<>> /\ Head(plan) = Stmt(d, t, f)
      BY <1>1, <1>2 DEF StatementFails
    <2> QED
      BY <2>1, Effect
  <1>3. ASSUME Types', ContentRecorded', RebuildAt(j + 1)',
               pc' = pc, torn' = torn, plan' = Tail(plan),
               UNCHANGED <<metadataVersion, named, labelled>>,
               \A t \in MetadataTables : table'[t] = table[t]
        PROVE  OpenInv'
    <2>1. /\ table'["catalog_metadata"] = table["catalog_metadata"]
          /\ table'["catalog_labels"] = table["catalog_labels"]
          /\ table'["catalog_labels_new"] = table["catalog_labels_new"]
          /\ table'["metadata_schema_version"] = table["metadata_schema_version"]
      BY <1>3, TableNames
    <2>2. MetadataRecorded' /\ RowsNeedTables' /\ LabelsSurvive'
      BY <1>1, <1>3, <2>1, MetadataNames, VersionCases
      DEF FileInv, MetadataRecorded, RowsNeedTables, LabelsSurvive
    <2>3. plan' = Rest(RebuildPlan, j + 1) /\ j + 1 \in 1..19
      <3>1. j + 1 \in 1..19
        OBVIOUS
      <3> QED
        BY <1>3, <3>1, PlanStarts, Zenon
    <2>4. Places'
      <3>1. Rebuilding'
        BY <1>3, <2>3 DEF Rebuilding
      <3> QED
        BY <1>1, <1>3, <3>1, VersionCases DEF Places
    <2>5. ~torn' => Whole'
      BY <1>1, <1>3, <2>1, VersionCases DEF Whole, FormsBefore
    <2> QED
      BY <1>3, <2>2, <2>4, <2>5 DEF OpenInv
  <1>4. CASE j \in 1..8
    <2> DEFINE t == DropOrder[j]
    <2>1. /\ t \in ContentTables /\ t \in AllTables
          /\ RebuildPlan[j] = Stmt("drop if exists", t, None)
          /\ Allowed(Stmt("drop if exists", t, None))
      BY <1>4, RebuildStatements, ContentTableNames, MetadataNames, AllowedWhen
    <2>2. EffectOf("drop if exists", t, None) /\ pc' = pc /\ torn' = torn /\ plan' = Tail(plan)
      BY <1>2, <2>1
    <2> HIDE DEF t
    <2>3. /\ table' = [table EXCEPT ![t] = None]
          /\ filled' = [u \in DataTables |-> IF u = t THEN {} ELSE filled[u]]
          /\ contentVersion' = IF t = "content_schema_version" THEN None ELSE contentVersion
          /\ UNCHANGED <<metadataVersion, named, digested, labelled>>
      BY <2>2 DEF EffectOf
    <2>4. Types'
      BY <1>1, <2>1, <2>3 DEF FileInv, Types
    <2>5. /\ \A u \in AllTables : table'[u] = IF u = t THEN None ELSE table[u]
          /\ contentVersion # ContentSchema /\ contentVersion' # ContentSchema
      BY <1>1, <1>4, <2>3, OpenAssumption DEF FileInv, Types, RebuildAt
    <2>6. ContentRecorded'
      BY <1>1, <2>3, <2>5, MetadataNames, TablesApart DEF FileInv, ContentRecorded
    <2>7. RebuildAt(j + 1)'
      <3>1. \A i \in 1..8 : i < j + 1 /\ DropOrder[i] \in DataTables => filled'[DropOrder[i]] = {}
        BY <1>4, <2>3 DEF RebuildAt, t
      <3>2. \A i \in 1..8 : i < j + 1 => table'[DropOrder[i]] = None
        BY <1>4, <2>5, ContentTableNames, MetadataNames DEF RebuildAt, t
      <3>3. j = 8 => \A u \in ContentTables : table'[u] = None
        BY <3>2, ContentTableNames
      <3>4. j + 1 >= 9 => \A i \in 1..8 : table'[CreateOrder[i]] = None /\ ~(i < (j + 1) - 8)
        BY <1>4, <3>3, ContentTableNames
      <3> QED
        BY <1>4, <2>5, <3>1, <3>2, <3>4 DEF RebuildAt
    <2>8. \A u \in MetadataTables : table'[u] = table[u]
      BY <2>1, <2>5, TableNames, TablesApart
    <2> QED
      BY <1>3, <2>2, <2>3, <2>4, <2>6, <2>7, <2>8
  <1>5. CASE j \in 9..16
    <2> DEFINE m == j - 8
               t == CreateOrder[m]
    <2>1. m \in 1..8 /\ 8 + m = j
      BY <1>5
    <2>2. /\ t \in ContentTables /\ t \in AllTables /\ table[t] = None
          /\ RebuildPlan[j] = Stmt("create", t, ContentSchema)
      <3>1. RebuildPlan[8 + m] = Stmt("create", CreateOrder[m], ContentSchema)
        BY <2>1, RebuildStatements
      <3>2. table[CreateOrder[m]] = None
        BY <1>5, <2>1 DEF RebuildAt
      <3> QED
        BY <2>1, <3>1, <3>2, ContentTableNames, MetadataNames
    <2>3. Allowed(Stmt("create", t, ContentSchema))
      BY <2>2, AllowedWhen
    <2>4. EffectOf("create", t, ContentSchema) /\ pc' = pc /\ torn' = torn /\ plan' = Tail(plan)
      BY <1>2, <2>2, <2>3
    <2> HIDE DEF m, t
    <2>5. /\ table' = [table EXCEPT ![t] = ContentSchema]
          /\ UNCHANGED <<metadataVersion, contentVersion, named, digested, labelled, filled>>
      BY <2>4 DEF EffectOf
    <2>6. Types'
      BY <1>1, <2>2, <2>5, OpenAssumption DEF FileInv, Types
    <2>7. /\ \A u \in AllTables : table'[u] = IF u = t THEN ContentSchema ELSE table[u]
          /\ contentVersion # ContentSchema
      BY <1>1, <1>5, <2>5 DEF FileInv, Types, RebuildAt
    <2>8. ContentRecorded'
      BY <1>1, <2>5, <2>7, OpenAssumption, MetadataNames, TablesApart DEF FileInv, ContentRecorded
    <2>9. RebuildAt(j + 1)'
      <3>1. \A i \in 1..8 : table'[CreateOrder[i]] = IF i < (j + 1) - 8 THEN ContentSchema ELSE None
        <4>1. \A i \in 1..8 : table[CreateOrder[i]] = IF i < m THEN ContentSchema ELSE None
          BY <1>5 DEF RebuildAt, m
        <4>2. \A i \in 1..8 : CreateOrder[i] = t <=> i = m
          BY <2>1, ContentTableNames DEF t
        <4>3. \A i \in 1..8 : CreateOrder[i] \in AllTables
          BY ContentTableNames, MetadataNames
        <4>4. \A i \in 1..8 : i < (j + 1) - 8 <=> i < m \/ i = m
          BY <2>1
        <4> QED
          BY <2>1, <2>7, <4>1, <4>2, <4>3, <4>4
      <3>2. \A i \in 1..8 : DropOrder[i] \in DataTables => filled'[DropOrder[i]] = {}
        BY <1>5, <2>5 DEF RebuildAt
      <3>3. ~(j + 1 >= 18) /\ ~(j + 1 <= 9) /\ j + 1 # 19
        BY <1>5
      <3> QED
        BY <2>5, <2>7, <3>1, <3>2, <3>3 DEF RebuildAt
    <2>10. \A u \in MetadataTables : table'[u] = table[u]
      BY <2>2, <2>7, TableNames, TablesApart
    <2> QED
      BY <1>3, <2>4, <2>5, <2>6, <2>8, <2>9, <2>10
  <1>6. ASSUME j \in 17..18
        PROVE  /\ \A u \in ContentTables : table[u] = ContentSchema
               /\ \A u \in DataTables : filled[u] = {}
    <2>1. \A i \in 1..8 : DropOrder[i] \in DataTables => filled[DropOrder[i]] = {}
      BY <1>6 DEF RebuildAt
    <2>2. \A i \in 1..8 : table[CreateOrder[i]] = ContentSchema
      BY <1>6 DEF RebuildAt
    <2> QED
      BY <2>1, <2>2, ContentTableNames, TablesApart
  <1>7. CASE j = 17
    <2>0. /\ \A u \in ContentTables : table[u] = ContentSchema
          /\ \A u \in DataTables : filled[u] = {}
      <3>1. j \in 17..18
        BY <1>7
      <3> QED
        BY <1>6, <3>1
    <2>1. /\ RebuildPlan[j] = Stmt("store version", "content_schema_version", ContentSchema)
          /\ table["content_schema_version"] # None
      <3>1. RebuildPlan[17] = Stmt("store version", "content_schema_version", ContentSchema)
        BY RebuildStatements, Zenon
      <3> QED
        BY <1>7, <2>0, <3>1, TablesApart, OpenAssumption
    <2>2. Allowed(Stmt("store version", "content_schema_version", ContentSchema))
      BY <2>1, AllowedWhen
    <2>3. /\ EffectOf("store version", "content_schema_version", ContentSchema)
          /\ pc' = pc /\ torn' = torn /\ plan' = Tail(plan)
      BY <1>2, <2>1, <2>2
    <2>4. /\ contentVersion' = ContentSchema
          /\ UNCHANGED <<metadataVersion, table, named, digested, labelled, filled>>
      BY <2>3 DEF EffectOf
    <2>5. Types'
      BY <1>1, <2>4, OpenAssumption DEF FileInv, Types
    <2>6. ContentRecorded'
      BY <2>0, <2>1, <2>4 DEF ContentRecorded
    <2>7. RebuildAt(j + 1)'
      BY <1>7, <2>4 DEF RebuildAt
    <2> QED
      BY <1>3, <2>3, <2>4, <2>5, <2>6, <2>7
  <1>8. CASE j = 18
    <2>1. /\ RebuildPlan[j] = Stmt("clear digests", "catalog_metadata", None)
          /\ Allowed(Stmt("clear digests", "catalog_metadata", None))
      BY <1>8, RebuildStatements, AllowedWhen
    <2>2. /\ EffectOf("clear digests", "catalog_metadata", None)
          /\ pc' = pc /\ torn' = torn /\ plan' = Tail(plan)
      BY <1>2, <2>1
    <2>3. /\ digested' = {}
          /\ UNCHANGED <<table, metadataVersion, contentVersion, named, labelled, filled>>
      BY <2>2 DEF EffectOf
    <2>4. Types' /\ ContentRecorded'
      BY <1>1, <2>3 DEF FileInv, Types, ContentRecorded
    <2>5. RebuildAt(j + 1)'
      BY <1>8, <2>3 DEF RebuildAt
    <2> QED
      BY <1>3, <2>2, <2>3, <2>4, <2>5
  <1>9. j \in 1..8 \/ j \in 9..16 \/ j = 17 \/ j = 18
    OBVIOUS
  <1> QED
    BY <1>4, <1>5, <1>7, <1>8, <1>9

-----------------------------------------------------------------------------
(***************************************************************************)
(* The theorems.                                                           *)
(***************************************************************************)
LEMMA InitOpenInv == Init => OpenInv
  <1> SUFFICES ASSUME Init
               PROVE  OpenInv
    OBVIOUS
  <1>1. /\ labelled = [t \in LabelTables |-> IF t = "catalog_labels" THEN named ELSE {}]
        /\ filled = [t \in DataTables |-> digested]
        /\ pc = "closed" /\ plan = <<>> /\ ~torn
    BY DEF Init
  <1>2. Places
    BY <1>1 DEF Places
  <1>3. LabelsSurvive
    BY <1>1 DEF LabelsSurvive, LabelTables
  <1>4. CASE /\ table = [t \in AllTables |-> None]
             /\ metadataVersion = None /\ contentVersion = None
             /\ named = {} /\ digested = {}
    <2>1. Types
      BY <1>1, <1>4 DEF Types
    <2>2. MetadataRecorded /\ ContentRecorded /\ Whole /\ RowsNeedTables
      BY <1>1, <1>4, MetadataNames, TablesApart, OpenAssumption, VersionCases
      DEF MetadataRecorded, ContentRecorded, Whole, FormsBefore, RowsNeedTables, AllTables
    <2> QED
      BY <1>2, <1>3, <2>1, <2>2 DEF OpenInv
  <1>5. ASSUME NEW m \in 1..LatestMetadata \cup LaterMetadata, NEW c \in OldSchemas \cup {ContentSchema},
               NEW unknown \in {None} \cup OldSchemas,
               table = [Schema(m, c) EXCEPT ![UnknownTable] = unknown],
               metadataVersion = m, contentVersion = c,
               named \in SUBSET Names, digested \in SUBSET named
        PROVE  OpenInv
    <2>1. /\ m \in Nat /\ m >= 1 /\ m # None /\ (m \in LaterMetadata <=> m > 3)
          /\ c \in Nat /\ c # None /\ unknown \in Nat \cup {None} /\ 1 # None
      <3>1. m \in Nat /\ m >= 1 /\ (m \in LaterMetadata <=> m > 3)
        BY OpenAssumption DEF LatestMetadata
      <3>2. c \in Nat /\ unknown \in Nat \cup {None}
        BY OpenAssumption
      <3>3. 1 \in Nat
        OBVIOUS
      <3> QED
        BY <3>1, <3>2, <3>3, OpenAssumption, Zenon
    <2>2. \A t \in AllTables : t # UnknownTable => table[t] = Schema(m, c)[t]
      BY <1>5 DEF Schema
    <2>3. /\ table["catalog_metadata"] = IF m > 3 THEN m ELSE IF m >= 2 THEN 2 ELSE 1
          /\ table["catalog_labels"] = IF m >= 3 THEN m ELSE 1
          /\ table["metadata_schema_version"] = 1
          /\ table["catalog_labels_new"] = None
          /\ \A t \in ContentTables : table[t] = c
      BY <2>2, MetadataNames, TablesApart DEF Schema, UnknownTable, LatestMetadata
    <2>4. Types
      <3>1. Schema(m, c) \in [AllTables -> Nat \cup {None}]
        BY <2>1 DEF Schema, LatestMetadata
      <3> QED
        BY <1>1, <1>5, <2>1, <3>1 DEF Types, LatestMetadata
    <2>5. MetadataRecorded
      BY <1>5, <2>1, <2>3 DEF MetadataRecorded, Current, LatestMetadata
    <2>6. ContentRecorded
      BY <1>1, <1>5, <2>1, <2>3, TablesApart DEF ContentRecorded
    <2>7. RowsNeedTables
      <3>1. table["catalog_labels"] # None /\ labelled["catalog_labels_new"] = {}
        BY <1>1, <2>1, <2>3 DEF LabelTables
      <3> QED
        BY <3>1 DEF RowsNeedTables, LabelTables
    <2>8. Whole
      BY <1>1, <1>5, <2>1, <2>3, OpenAssumption
      DEF Whole, FormsBefore, Current, LatestMetadata
    <2> QED
      BY <1>2, <1>3, <2>4, <2>5, <2>6, <2>7, <2>8 DEF OpenInv
  <1> QED
    BY <1>4, <1>5 DEF Init

\* Every step keeps the invariant.
LEMMA NextOpenInv == OpenInv /\ [Next]_vars => OpenInv'
  <1> SUFFICES ASSUME OpenInv, [Next]_vars
               PROVE  OpenInv'
    OBVIOUS
  <1>1. CASE Execute
    <2>1. pc \in {"migrate", "rebuild"} /\ plan # <<>>
      BY <1>1
      DEF Execute, Create, AddPriorityColumn, CopyLabels, DropLabels, RenameLabels, DropContent,
          StoreSchemaVersion, ClearAllDigests, StatementFails, Executes, OpenInv, Places
    <2>2. CASE pc = "migrate"
      <3>1. PICK k \in 1..10 : plan = Rest(Migration, k) /\ MigrateAt(k)
        BY <2>2 DEF OpenInv, Places, Migrating
      <3>2. k \in 1..9 \/ k = 10
        OBVIOUS
      <3>3. k \in 1..9
        BY <2>1, <3>1, <3>2, PlanStarts, Zenon
      <3> QED
        BY <1>1, <2>2, <3>1, <3>3, MigrationStep
    <2>3. CASE pc = "rebuild"
      <3>1. PICK j \in 1..19 : plan = Rest(RebuildPlan, j) /\ RebuildAt(j)
        BY <2>3 DEF OpenInv, Places, Rebuilding
      <3>2. j \in 1..18 \/ j = 19
        OBVIOUS
      <3>3. j \in 1..18
        BY <2>1, <3>1, <3>2, PlanStarts, Zenon
      <3> QED
        BY <1>1, <2>3, <3>1, <3>3, RebuildStep
    <2> QED
      BY <2>1, <2>2, <2>3
  <1>2. CASE UNCHANGED vars
    <2>1. FileKept /\ FileInv /\ UNCHANGED <<pc, plan, torn>>
      BY <1>2 DEF vars, rows, FileKept, OpenInv, FileInv
    <2>2. FileInv'
      BY <2>1, KeptFile
    <2>3. Places'
      <3>1. Migrating' <=> Migrating
        BY <1>2, VersionCases DEF vars, rows, Migrating, MigrateAt, FormsBefore
      <3>2. Rebuilding' <=> Rebuilding
        BY <1>2 DEF vars, rows, Rebuilding, RebuildAt
      <3> QED
        BY <1>2, <3>1, <3>2, VersionCases DEF vars, OpenInv, Places
    <2>4. ~torn' => Whole'
      BY <1>2, KeptForms, <2>1, VersionCases DEF vars, rows, OpenInv, Whole
    <2> QED
      BY <2>2, <2>3, <2>4 DEF OpenInv, FileInv
  <1>3. CASE \E n \in Names : Import(n)
    BY <1>3, ImportKeeps
  <1> QED
    BY <1>1, <1>2, <1>3, ReadKeeps, CheckKeeps, BeginKeeps, OpenedKeeps, CloseKeeps DEF Next

\* The file and OpenStore's place in its statements fit in every state.
THEOREM OpenStoreInv == Spec => []OpenInv
  BY InitOpenInv, NextOpenInv, PTL DEF Spec

\* However many OpenStores were cut short before, wherever in their statements, a store
\* that is open has every table in the form of the version recorded: the latest one, or
\* that of the later release that made the file.
THEOREM OpensComplete == Spec => []OpenIsComplete
  <1>1. OpenInv => OpenIsComplete
    <2> SUFFICES ASSUME OpenInv, pc = "open"
                 PROVE  OpenIsComplete
      BY DEF OpenIsComplete
    <2> DEFINE m == metadataVersion
    <2>1. /\ m \in {LatestMetadata} \cup LaterMetadata /\ contentVersion = ContentSchema
          /\ table["catalog_metadata"] = IF m > LatestMetadata THEN m ELSE 2
          /\ table["catalog_labels"] = m /\ m >= 3 /\ m >= 2
          /\ table["catalog_labels_new"] = None /\ table["metadata_schema_version"] = 1
          /\ \A t \in ContentTables : table[t] = ContentSchema
      <3>1. Current /\ contentVersion = ContentSchema /\ Types
            /\ MetadataRecorded /\ ContentRecorded
        BY DEF OpenInv, Places
      <3>2. m = 3 \/ (m \in LaterMetadata /\ m \in Nat /\ m > 3)
        BY <3>1, OpenAssumption DEF Current, LatestMetadata
      <3>3. /\ m \in {LatestMetadata} \cup LaterMetadata /\ m >= 3 /\ m >= 2 /\ m # None
            /\ m > LatestMetadata => m \in LaterMetadata
            /\ ~(m > LatestMetadata) => m \in {2, 3}
        <4>1. m >= 3 /\ m >= 2
          BY <3>2
        <4>2. /\ m > LatestMetadata => m \in LaterMetadata
              /\ ~(m > LatestMetadata) => m \in {2, 3}
          BY <3>2 DEF LatestMetadata
        <4> QED
          BY <3>1, <4>1, <4>2, VersionCases DEF Current
      <3>4. /\ table["catalog_metadata"] = IF m > LatestMetadata THEN m ELSE 2
            /\ table["catalog_labels"] = m
            /\ table["catalog_labels_new"] = None /\ table["metadata_schema_version"] = 1
        BY <3>1, <3>3, Zenon DEF MetadataRecorded
      <3> QED
        BY <3>1, <3>3, <3>4 DEF ContentRecorded
    <2> HIDE DEF m
    <2>2. \A t \in AllTables \ {UnknownTable} : table[t] = Schema(m, ContentSchema)[t]
      <3>1. ASSUME NEW t \in MetadataTables
            PROVE  table[t] = Schema(m, ContentSchema)[t]
        BY <2>1, <3>1, TableNames, MetadataNames DEF Schema
      <3>2. ASSUME NEW t \in ContentTables
            PROVE  table[t] = Schema(m, ContentSchema)[t]
        BY <2>1, <3>2, MetadataNames DEF Schema
      <3> QED
        BY <3>1, <3>2, TableNames
    <2> QED
      BY <2>1, <2>2 DEF OpenIsComplete, m
  <1> QED
    BY <1>1, OpenStoreInv, PTL

\* The content of a catalog is in an open store with all of its tables or with none.
THEOREM ContentStaysWhole == Spec => []ContentIsWhole
  <1>1. OpenInv => ContentIsWhole
    BY DEF OpenInv, Places, ContentRecorded, ContentIsWhole
  <1> QED
    BY <1>1, OpenStoreInv, PTL

\* No crash between the statements that replace catalog_labels loses a label.
THEOREM LabelsStay == Spec => []LabelsSurvive
  <1>1. OpenInv => LabelsSurvive
    BY DEF OpenInv
  <1> QED
    BY <1>1, OpenStoreInv, PTL

\* Where no OpenStore was cut short, the digests of an open store are those of its content.
THEOREM WholeOpensKeepDigests == Spec => []DigestsOfWholeOpens
  <1>1. OpenInv => DigestsOfWholeOpens
    BY DEF OpenInv, Whole, DigestsOfWholeOpens
  <1> QED
    BY <1>1, OpenStoreInv, PTL

\* Where no OpenStore was cut short, none fails but on a content table it does not know.
THEOREM WholeOpensFailOnUnknown == Spec => []WholeOpensSucceed
  <1>1. OpenInv => WholeOpensSucceed
    BY DEF OpenInv, Whole, WholeOpensSucceed
  <1> QED
    BY <1>1, OpenStoreInv, PTL

=============================================================================
