------------------------ MODULE CatalogStoreProofs ------------------------
(***************************************************************************)
(* Proofs about CatalogStore, for every set of clients, names, labels,     *)
(* packages and options.  What makes the properties inductive is what the  *)
(* open transaction is at each of its stages, as a function of the         *)
(* committed database and of the call (TransactionInv): the committed      *)
(* database changes in one step only, from db to work, and by then work is *)
(* the entry the call asked for.                                           *)
(***************************************************************************)
EXTENDS CatalogStore, TLAPS

SetStages == {"delete content", "import", "digest", "labels", "reserved label",
              "commit"}

\* What a client's place says of its call.
CallInv ==
  \A p \in Clients :
    /\ pc[p] \in SetStages \cup {"begin"} =>
         call[p].name \in Names /\ call[p].cfg \in Configs
    /\ pc[p] \in {"delete", "commit delete", "get row", "get labels"} =>
         call[p].name \in Names
    /\ pc[p] \in {"delete content", "import", "digest"} =>
         call[p].cfg.content # None

\* A transaction is open exactly while its client holds the connection; without
\* one the writer's view is the committed database.
ConnectionInv ==
  /\ ConnectionReturned
  /\ conn = None => work = db

\* The metadata row of the catalog as the transaction of p has it.
RowAt(p) ==
  LET cfg == call[p].cfg
      row == UpsertedRow(db.metadata[call[p].name], cfg)
  IN  IF cfg.content # None /\ pc[p] \in {"labels", "reserved label", "commit"}
      THEN [row EXCEPT !.digest = cfg.content]
      ELSE row

\* The labels, without the reserved one, that the Set of p leaves.
GivenLabels(p) ==
  IF call[p].cfg.labels = None
  THEN db.labels[call[p].name]
  ELSE {l \in call[p].cfg.labels : l.key # Reserved}

LabelsAt(p) ==
  CASE pc[p] = "commit" ->
         {l \in GivenLabels(p) : l.key # Reserved} \cup {ReservedLabelOf(call[p].name)}
    [] pc[p] = "reserved label" -> GivenLabels(p)
    [] OTHER -> db.labels[call[p].name]

\* The content: that of the last commit until deleteAll, and from then on what
\* the importer of this call has written.
ContentAt(p, content) ==
  IF call[p].cfg.content = None \/ pc[p] = "delete content"
  THEN content = db.content[call[p].name]
  ELSE \A item \in content : item.digest = call[p].cfg.content

SetInv(p) ==
  LET n == call[p].name
  IN  /\ ~MissingURI(db, n, call[p].cfg)
      /\ work.metadata = [db.metadata EXCEPT ![n] = RowAt(p)]
      /\ work.labels = [db.labels EXCEPT ![n] = LabelsAt(p)]
      /\ work.content = [db.content EXCEPT ![n] = work.content[n]]
      /\ ContentAt(p, work.content[n])
      /\ pc[p] \in {"reserved label", "commit"} => ~LabelConflict(n, call[p].cfg)

TransactionOf(p) ==
  /\ pc[p] \in SetStages => SetInv(p)
  /\ pc[p] = "commit delete" => work = DeleteMetadata(db, call[p].name)

TransactionInv == \A p \in Clients : TransactionOf(p)

EntriesInv == ReservedLabel /\ NoOrphans /\ DigestNamesContent

IInv == TypeOK /\ CallInv /\ ConnectionInv /\ TransactionInv /\ EntriesInv

-----------------------------------------------------------------------------
(***************************************************************************)
(* What the statements do to databases of the expected type.               *)
(***************************************************************************)

\* A row that is complete stays so under the INSERT or the UPDATEs of a Set that
\* was not refused for want of a URI.
LEMMA UpsertedRowType ==
  ASSUME NEW t \in Tables, NEW n \in Names, NEW cfg \in SetConfig,
         ~MissingURI(t, n, cfg)
  PROVE  UpsertedRow(t.metadata[n], cfg) \in Row
  <1>1. t.metadata[n] \in {None} \cup Row
    BY DEF Tables
  <1> QED
    BY <1>1, DataAssumption DEF MissingURI, UpsertedRow, SetConfig, Row

\* Every statement of Set and Delete maps a database to a database.
LEMMA StatementTypes ==
  ASSUME NEW t \in Tables, NEW n \in Names
  PROVE  /\ \A cfg \in SetConfig : ~MissingURI(t, n, cfg) => UpsertMetadata(t, n, cfg) \in Tables
         /\ DeleteContent(t, n) \in Tables
         /\ \A item \in Item : WritePackage(t, n, item) \in Tables
         /\ \A d \in Digests : t.metadata[n] # None => UpdateDigest(t, n, d) \in Tables
         /\ \A given \in SUBSET Label : ReplaceLabels(t, n, given) \in Tables
         /\ PutReservedLabel(t, n) \in Tables
         /\ DeleteMetadata(t, n) \in Tables
  <1>1. ASSUME NEW cfg \in SetConfig, ~MissingURI(t, n, cfg)
        PROVE  UpsertMetadata(t, n, cfg) \in Tables
    <2>1. UpsertedRow(t.metadata[n], cfg) \in Row
      BY <1>1, UpsertedRowType
    <2> QED
      BY <2>1 DEF UpsertMetadata, Tables
  <1>2. DeleteContent(t, n) \in Tables
    BY DEF DeleteContent, Tables
  <1>3. ASSUME NEW item \in Item
        PROVE  WritePackage(t, n, item) \in Tables
    BY DEF WritePackage, Tables
  <1>4. ASSUME NEW d \in Digests, t.metadata[n] # None
        PROVE  UpdateDigest(t, n, d) \in Tables
    BY <1>4 DEF UpdateDigest, Tables, Row
  <1>5. ASSUME NEW given \in SUBSET Label
        PROVE  ReplaceLabels(t, n, given) \in Tables
    BY DEF ReplaceLabels, Tables
  <1>6. PutReservedLabel(t, n) \in Tables
    BY DataAssumption DEF PutReservedLabel, ReservedLabelOf, Tables, Label
  <1>7. DeleteMetadata(t, n) \in Tables
    BY DEF DeleteMetadata, Tables
  <1> QED
    BY <1>1, <1>2, <1>3, <1>4, <1>5, <1>6, <1>7

\* A Catalog read from a database is one of a row and labels of that database.
LEMMA CatalogType ==
  ASSUME NEW t \in Tables, NEW n \in Present(t)
  PROVE  CatalogOf(t, n) \in CatalogValue
  BY DEF Present, Tables, CatalogOf, CatalogValue

LEMMA ConfigType ==
  ASSUME NEW cfg \in Configs
  PROVE  /\ cfg \in SetConfig
         /\ cfg.content # None => cfg.content \in Digests
         /\ cfg.labels # None => cfg.labels \in SUBSET Label
  BY DataAssumption DEF SetConfig, LabelMap

-----------------------------------------------------------------------------
(***************************************************************************)
(* Types.                                                                  *)
(***************************************************************************)
LEMMA InitialTypes == Init => TypeOK
  <1>1. Init => closed \in BOOLEAN
    BY DEF Init
  <1> QED
    BY <1>1, DataAssumption, StoreAssumption
    DEF Init, TypeOK, EmptyTables, Tables, NoCall, Call, Chains, NoResult, Outcome, Result, Stages

\* A call that is made, and one that is over.
LEMMA CallTypes ==
  ASSUME TypeOK, NEW p \in Clients, NewCall(p) \/ Return(p)
  PROVE  TypeOK'
  <1>1. CASE NewCall(p)
    <2>1. PICK c \in Call, stage \in Stages : Start(p, c, stage)
      <3>1. <<>> \in Chains
        BY DEF Chains
      <3>2. ASSUME NEW m \in Names, NEW cfg \in Configs, CallSet(p, m, cfg)
            PROVE  \E c \in Call, stage \in Stages : Start(p, c, stage)
        BY <3>1, <3>2 DEF CallSet, Call, Stages
      <3>3. ASSUME NEW m \in Names, CallDelete(p, m)
            PROVE  \E c \in Call, stage \in Stages : Start(p, c, stage)
        BY <3>1, <3>3 DEF CallDelete, Call, Stages
      <3>4. ASSUME NEW m \in Names, NEW chain \in Chains, CallGet(p, m, chain)
            PROVE  \E c \in Call, stage \in Stages : Start(p, c, stage)
        BY <3>4 DEF CallGet, Call, Stages, ReadStages
      <3>5. ASSUME NEW chain \in Chains, CallList(p, chain)
            PROVE  \E c \in Call, stage \in Stages : Start(p, c, stage)
        BY <3>5 DEF CallList, Call, Stages, ReadStages
      <3> QED
        BY <1>1, <3>2, <3>3, <3>4, <3>5 DEF NewCall
    <2>2. calls' \in 0..MaxCalls
      BY <2>1, StoreAssumption DEF Start, TypeOK
    <2>3. seen' \in [Clients -> Seq(Tables)]
      BY <2>1 DEF Start, TypeOK
    <2> QED
      BY <2>1, <2>2, <2>3 DEF Start, Goto, TypeOK
  <1>2. CASE Return(p)
    <2>1. NoCall \in Call /\ NoResult \in Result
      BY DEF NoCall, Call, Chains, NoResult, Outcome, Result
    <2> QED
      BY <1>2, <2>1 DEF Return, Goto, TypeOK
  <1> QED
    BY <1>1, <1>2

LEMMA CommitTypes ==
  ASSUME TypeOK, NEW p \in Clients, Commit(p)
  PROVE  db' \in Tables /\ work' \in Tables /\ conn' \in Clients \cup {None}
         /\ importErr' \subseteq Clients /\ call' \in [Clients -> Call]
         /\ seen' \in [Clients -> Seq(Tables)] /\ calls' \in 0..MaxCalls
         /\ closed' \in BOOLEAN
  <1>1. closed' \in BOOLEAN
    BY DEF Commit, TypeOK
  <1> QED
    BY <1>1 DEF Commit, TypeOK

\* What a transaction has of its own catalog, read off SetInv.
LEMMA OwnCatalog ==
  ASSUME TypeOK, CallInv, TransactionInv, NEW p \in Clients, pc[p] \in SetStages
  PROVE  LET n == call[p].name IN
         /\ n \in Names
         /\ call[p].cfg \in Configs
         /\ work.metadata[n] = RowAt(p)
         /\ RowAt(p) \in Row
         /\ RowAt(p) # None
         /\ work.labels[n] = LabelsAt(p)
  <1> DEFINE n == call[p].name
             cfg == call[p].cfg
  <1>1. n \in Names /\ cfg \in Configs
    BY DEF CallInv
  <1>2. SetInv(p)
    BY DEF TransactionInv, TransactionOf
  <1>3. /\ work.metadata[n] = RowAt(p)
        /\ work.labels[n] = LabelsAt(p)
        /\ ~MissingURI(db, n, cfg)
    BY <1>1, <1>2 DEF SetInv, TypeOK, Tables
  <1>4. RowAt(p) \in Row
    <2>1. UpsertedRow(db.metadata[n], cfg) \in Row
      BY <1>1, <1>3, UpsertedRowType, ConfigType DEF TypeOK
    <2>2. cfg.content # None => cfg.content \in Digests
      BY <1>1, ConfigType
    <2> QED
      BY <2>1, <2>2 DEF RowAt, Row
  <1> QED
    BY <1>1, <1>3, <1>4, DataAssumption

LEMMA SetTypes ==
  ASSUME TypeOK, CallInv, TransactionInv, NEW p \in Clients, SetStep(p)
  PROVE  TypeOK'
  <1> DEFINE n == call[p].name
             cfg == call[p].cfg
  <1> USE DEF TypeOK, Goto
  <1>1. ASSUME pc[p] \in SetStages \cup {"begin"}
        PROVE  /\ n \in Names
               /\ cfg \in Configs
               /\ cfg \in SetConfig
               /\ cfg.content # None => cfg.content \in Digests
               /\ cfg.labels # None => cfg.labels \in SUBSET Label
    BY <1>1, ConfigType DEF CallInv
  <1>2. ASSUME NEW t \in Tables, NEW from, NEW to \in Stages, Statement(p, from, to, t)
        PROVE  TypeOK'
    BY <1>2 DEF Statement, callVars
  <1>3. CASE SetBegin(p)
    <2>1. UpsertMetadata(db, n, cfg) \in Tables
      BY <1>1, <1>3, StatementTypes DEF SetBegin
    <2> QED
      BY <1>3, <2>1 DEF SetBegin, Stages, TxStages, callVars
  <1>4. CASE SetMissingURI(p)
    BY <1>4 DEF SetMissingURI, Finish, Outcome, Result, callVars
  <1>5. CASE SetDeleteContent(p)
    <2>1. DeleteContent(work, n) \in Tables
      BY <1>1, <1>5, StatementTypes DEF SetDeleteContent, Statement, SetStages
    <2> QED
      BY <1>2, <1>5, <2>1 DEF SetDeleteContent, Stages, TxStages
  <1>6. CASE ImportPackage(p)
    <2>1. PICK package \in Packages :
            Statement(p, "import", "import",
                      WritePackage(work, n, [digest |-> cfg.content, package |-> package]))
      BY <1>6 DEF ImportPackage
    <2>2. [digest |-> cfg.content, package |-> package] \in Item
      BY <1>1, <1>6 DEF ImportPackage, CallInv, SetStages, Item
    <2>3. WritePackage(work, n, [digest |-> cfg.content, package |-> package]) \in Tables
      BY <1>1, <1>6, <2>2, StatementTypes DEF ImportPackage, SetStages
    <2> QED
      BY <1>2, <2>1, <2>3 DEF Stages, TxStages
  <1>7. CASE ImportReturns(p)
    BY <1>7 DEF ImportReturns, Stages, TxStages, callVars
  <1>8. CASE SetDigest(p)
    <2>1. /\ pc[p] = "digest"
          /\ n \in Names
          /\ cfg \in SetConfig
          /\ cfg.content \in Digests
      BY <1>1, <1>8 DEF SetDigest, Statement, CallInv, SetStages
    <2>3. work.metadata[n] # None
      BY <2>1, OwnCatalog DEF SetStages
    <2>4. UpdateDigest(work, n, cfg.content) \in Tables
      BY <2>1, <2>3, StatementTypes
    <2> QED
      BY <1>2, <1>8, <2>4 DEF SetDigest, Stages, TxStages
  <1>9. CASE SetLabels(p)
    <2>1. (IF cfg.labels = None THEN work ELSE ReplaceLabels(work, n, cfg.labels)) \in Tables
      BY <1>1, <1>9, StatementTypes DEF SetLabels, SetStages
    <2> QED
      BY <1>2, <1>9, <2>1 DEF SetLabels, Stages, TxStages
  <1>10. CASE SetLabelConflict(p)
    BY <1>10 DEF SetLabelConflict, Finish, Rollback, Outcome, Result, callVars
  <1>11. CASE SetReservedLabel(p)
    <2> DEFINE t == PutReservedLabel(work, n)
    <2>1. t \in Tables
      BY <1>1, <1>11, StatementTypes DEF SetReservedLabel, SetStages
    <2>2. n \in Present(t)
      <3>1. n \in Names /\ work.metadata[n] # None
        BY <1>11, OwnCatalog DEF SetReservedLabel, SetStages
      <3>2. t.metadata = work.metadata
        BY DEF PutReservedLabel, Tables
      <3> QED
        BY <3>1, <3>2 DEF Present
    <2>3. CatalogOf(t, n) \in CatalogValue
      BY <2>1, <2>2, CatalogType
    <2> QED
      BY <1>11, <2>1, <2>3 DEF SetReservedLabel, Outcome, Result, Stages, TxStages, callVars
  <1>12. CASE SetCommit(p)
    BY <1>12, CommitTypes DEF SetCommit, Finish
  <1> QED
    BY <1>3, <1>4, <1>5, <1>6, <1>7, <1>8, <1>9, <1>10, <1>11, <1>12 DEF SetStep

LEMMA DeleteTypes ==
  ASSUME TypeOK, CallInv, NEW p \in Clients, DeleteStep(p)
  PROVE  TypeOK'
  <1>1. CASE DeleteBegin(p)
    <2>1. DeleteMetadata(db, call[p].name) \in Tables
      BY <1>1, StatementTypes DEF DeleteBegin, CallInv, TypeOK
    <2> QED
      BY <1>1, <2>1 DEF DeleteBegin, Goto, Stages, TxStages, callVars, TypeOK
  <1>2. CASE DeleteCommit(p)
    BY <1>2, CommitTypes DEF DeleteCommit, Finish, Goto, Outcome, Result, TypeOK
  <1> QED
    BY <1>1, <1>2 DEF DeleteStep

LEMMA ReadTypes ==
  ASSUME TypeOK, CallInv, NEW p \in Clients, ReadStep(p)
  PROVE  TypeOK'
  <1> DEFINE Rows == [name: Names, row: Row]
             RowOf(n) == [name |-> n, row |-> db.metadata[n]]
             Labelled(r, ls) == [name |-> r.name, row |-> r.row, labels |-> ls]
  <1>a. ASSUME NEW n \in Present(db)
        PROVE  RowOf(n) \in Rows
    <2>1. n \in Names /\ db.metadata[n] \in Row
      BY DEF Present, TypeOK, Tables
    <2> QED
      BY <2>1
  <1>b. ASSUME NEW r \in Rows, NEW ls \in SUBSET Label
        PROVE  Labelled(r, ls) \in CatalogValue
    BY DEF CatalogValue
  <1>c. \A q \in Clients : cursor[q] \in SUBSET Rows
    BY DEF TypeOK
  <1>d. \A n \in Names : db.labels[n] \in SUBSET Label
    BY DEF TypeOK, Tables
  <1>1. CASE GetRow(p)
    <2>1. CASE call[p].name \in Present(db)
      <3>1. cursor' = [cursor EXCEPT ![p] = {RowOf(call[p].name)}]
        BY <1>1, <2>1 DEF GetRow
      <3>2. {RowOf(call[p].name)} \in SUBSET Rows
        BY <2>1, <1>a
      <3>3. cursor' \in [Clients -> SUBSET Rows]
        BY <3>1, <3>2 DEF TypeOK
      <3>4. /\ pc' = [pc EXCEPT ![p] = "get labels"]
            /\ UNCHANGED <<db, work, conn, ret, importErr, callVars>>
        BY <1>1, <2>1 DEF GetRow, Goto
      <3> QED
        BY <3>3, <3>4 DEF Stages, ReadStages, callVars, TypeOK
    <2>2. CASE call[p].name \notin Present(db)
      <3>1. /\ Finish(p, Outcome("not found", {}))
            /\ UNCHANGED <<db, work, conn, importErr, callVars>>
        BY <1>1, <2>2 DEF GetRow
      <3> QED
        BY <3>1 DEF Finish, Goto, Outcome, Result, callVars, TypeOK
    <2> QED
      BY <2>1, <2>2
  <1>2. CASE GetLabels(p)
    <2> DEFINE ls == db.labels[call[p].name]
               found == {Labelled(r, ls) : r \in cursor[p]}
    <2>1. ls \in SUBSET Label
      BY <1>2, <1>d DEF GetLabels, CallInv
    <2>2. found \in SUBSET CatalogValue
      BY <2>1, <1>b, <1>c
    <2>3. Outcome("ok", found) \in Result /\ Outcome("not found", {}) \in Result
      BY <2>2 DEF Outcome, Result
    <2>4. ret' = [ret EXCEPT ![p] = IF Matches(Selector(call[p].chain), ls)
                                    THEN Outcome("ok", found)
                                    ELSE Outcome("not found", {})]
      BY <1>2 DEF GetLabels, Finish
    <2>5. ret' \in [Clients -> Result]
      BY <2>3, <2>4 DEF TypeOK
    <2> QED
      BY <1>2, <2>5 DEF GetLabels, Finish, Goto, callVars, TypeOK
  <1>3. CASE ListRows(p)
    <2>1. {RowOf(n) : n \in Present(db)} \in SUBSET Rows
      BY <1>a
    <2>2. cursor' = [cursor EXCEPT ![p] = {RowOf(n) : n \in Present(db)}]
      BY <1>3 DEF ListRows
    <2>3. cursor' \in [Clients -> SUBSET Rows]
      BY <2>1, <2>2 DEF TypeOK
    <2> QED
      BY <1>3, <2>3 DEF ListRows, Goto, Outcome, Result, Stages, ReadStages, callVars, TypeOK
  <1>4. CASE ListLabels(p)
    <2>1. PICK r \in cursor[p] :
            /\ cursor' = [cursor EXCEPT ![p] = @ \ {r}]
            /\ ret' = [ret EXCEPT ![p].catalogs = @ \cup {Labelled(r, db.labels[r.name])}]
            /\ UNCHANGED <<db, work, conn, pc, importErr, callVars>>
      BY <1>4 DEF ListLabels
    <2>2. Labelled(r, db.labels[r.name]) \in CatalogValue
      <3>1. r \in Rows
        BY <1>c
      <3>2. db.labels[r.name] \in SUBSET Label
        BY <3>1, <1>d
      <3> QED
        BY <3>1, <3>2, <1>b
    <2>3. ret' \in [Clients -> Result]
      <3> HIDE DEF Labelled
      <3> QED
        BY <2>1, <2>2 DEF TypeOK, Result
    <2>4. cursor' \in [Clients -> SUBSET Rows]
      BY <2>1, <1>c DEF TypeOK
    <2> QED
      BY <2>1, <2>3, <2>4 DEF callVars, TypeOK
  <1>5. CASE ListReturns(p)
    BY <1>5 DEF ListReturns, Finish, Goto, Outcome, Result, callVars, TypeOK
  <1> QED
    BY <1>1, <1>2, <1>3, <1>4, <1>5 DEF ReadStep

LEMMA FailTypes ==
  ASSUME TypeOK, NEW p \in Clients, Fail(p)
  PROVE  TypeOK'
  BY DEF Fail, Finish, Rollback, Goto, Outcome, Result, callVars, TypeOK

LEMMA CrashTypes ==
  ASSUME TypeOK, Crash
  PROVE  TypeOK'
  <1>1. NoCall \in Call /\ NoResult \in Result
    BY DEF NoCall, Call, Chains, NoResult, Outcome, Result
  <1>2. closed' \in BOOLEAN
    BY DEF Crash
  <1> QED
    BY <1>1, <1>2 DEF Crash, TypeOK

\* Every step keeps the types, given what the invariant says of transactions.
LEMMA TypesPreserved ==
  ASSUME TypeOK, CallInv, TransactionInv, [Next]_vars
  PROVE  TypeOK'
  <1>1. CASE UNCHANGED vars \/ Close
    BY <1>1 DEF vars, Close, TypeOK
  <1>2. CASE Crash
    BY <1>2, CrashTypes
  <1>3. ASSUME NEW p \in Clients, NewCall(p) \/ Step(p) \/ Fail(p) \/ Return(p)
        PROVE  TypeOK'
    BY <1>3, CallTypes, SetTypes, DeleteTypes, ReadTypes, FailTypes DEF Step
  <1> QED
    BY <1>1, <1>2, <1>3 DEF Next

-----------------------------------------------------------------------------
(***************************************************************************)
(* Calls and the connection.                                               *)
(***************************************************************************)
LEMMA CallsPreserved ==
  ASSUME TypeOK, CallInv, [Next]_vars
  PROVE  CallInv'
  <1> USE DEF CallInv, TypeOK, Goto, callVars, SetStages
  <1>1. CASE UNCHANGED vars \/ Close
    BY <1>1 DEF vars, Close
  <1>2. CASE Crash
    BY <1>2 DEF Crash
  <1>3. ASSUME NEW p \in Clients, NewCall(p)
        PROVE  CallInv'
    <2>1. ASSUME NEW n \in Names, NEW cfg \in Configs, CallSet(p, n, cfg)
          PROVE  CallInv'
      BY <2>1 DEF CallSet, Start
    <2>2. ASSUME NEW n \in Names, CallDelete(p, n)
          PROVE  CallInv'
      BY <2>2 DEF CallDelete, Start
    <2>3. ASSUME NEW n \in Names, NEW chain \in Chains, CallGet(p, n, chain)
          PROVE  CallInv'
      BY <2>3 DEF CallGet, Start
    <2>4. ASSUME NEW chain \in Chains, CallList(p, chain)
          PROVE  CallInv'
      BY <2>4 DEF CallList, Start
    <2> QED
      BY <1>3, <2>1, <2>2, <2>3, <2>4 DEF NewCall
  <1>4. ASSUME NEW p \in Clients, SetStep(p)
        PROVE  CallInv'
    <2>1. CASE SetBegin(p)
      BY <1>4, <2>1 DEF SetBegin
    <2>2. CASE SetMissingURI(p)
      BY <2>2 DEF SetMissingURI, Finish
    <2>3. CASE SetDeleteContent(p) \/ ImportPackage(p) \/ ImportReturns(p) \/ SetDigest(p)
      BY <2>3 DEF SetDeleteContent, ImportPackage, ImportReturns, SetDigest, Statement
    <2>4. CASE SetLabels(p) \/ SetReservedLabel(p)
      BY <2>4 DEF SetLabels, SetReservedLabel, Statement
    <2>5. CASE SetLabelConflict(p)
      BY <2>5 DEF SetLabelConflict, Finish
    <2>6. CASE SetCommit(p)
      BY <2>6 DEF SetCommit, Finish, Commit
    <2> QED
      BY <1>4, <2>1, <2>2, <2>3, <2>4, <2>5, <2>6 DEF SetStep
  <1>5. ASSUME NEW p \in Clients, DeleteStep(p)
        PROVE  CallInv'
    <2>1. CASE DeleteBegin(p)
      BY <2>1 DEF DeleteBegin, Finish
    <2>2. CASE DeleteCommit(p)
      BY <2>2 DEF DeleteCommit, Finish, Commit
    <2> QED
      BY <1>5, <2>1, <2>2 DEF DeleteStep
  <1>6. ASSUME NEW p \in Clients, ReadStep(p)
        PROVE  CallInv'
    <2>1. CASE GetRow(p)
      <3>1. call' = call /\ \A q \in Clients : pc'[q] = pc[q] \/ (q = p /\ pc'[q] \in {"get labels", "done"})
        BY <2>1 DEF GetRow, Finish
      <3> QED
        BY <2>1, <3>1 DEF GetRow
    <2>2. CASE GetLabels(p)
      <3>1. call' = call /\ \A q \in Clients : pc'[q] = pc[q] \/ (q = p /\ pc'[q] = "done")
        BY <2>2 DEF GetLabels, Finish
      <3> QED
        BY <2>2, <3>1 DEF GetLabels
    <2>3. CASE ListRows(p)
      BY <2>3 DEF ListRows
    <2>4. CASE ListLabels(p)
      BY <2>4 DEF ListLabels
    <2>5. CASE ListReturns(p)
      BY <2>5 DEF ListReturns, Finish
    <2> QED
      BY <1>6, <2>1, <2>2, <2>3, <2>4, <2>5 DEF ReadStep
  <1>7. ASSUME NEW p \in Clients, Fail(p) \/ Return(p)
        PROVE  CallInv'
    <2>1. CASE Fail(p)
      <3>1. call' = call /\ \A q \in Clients : pc'[q] = pc[q] \/ (q = p /\ pc'[q] = "done")
        BY <2>1 DEF Fail, Finish
      <3> QED
        BY <3>1
    <2>2. CASE Return(p)
      <3>1. \A q \in Clients :
              (pc'[q] = pc[q] /\ call'[q] = call[q]) \/ (q = p /\ pc'[q] = "idle")
        BY <2>2 DEF Return
      <3> QED
        BY <3>1
    <2> QED
      BY <1>7, <2>1, <2>2
  <1> QED
    BY <1>1, <1>2, <1>3, <1>4, <1>5, <1>6, <1>7 DEF Next, Step

LEMMA ConnectionPreserved ==
  ASSUME TypeOK, ConnectionInv, [Next]_vars
  PROVE  ConnectionInv'
  <1> USE StoreAssumption
      DEF ConnectionInv, ConnectionReturned, TypeOK, Goto, callVars, TxStages
  <1>1. CASE UNCHANGED vars \/ Close
    BY <1>1 DEF vars, Close
  <1>2. CASE Crash
    BY <1>2 DEF Crash
  <1>3. ASSUME NEW p \in Clients, NewCall(p)
        PROVE  ConnectionInv'
    <2>1. CASE \E n \in Names, cfg \in Configs : CallSet(p, n, cfg)
      BY <2>1 DEF CallSet, Start
    <2>2. CASE \E n \in Names : CallDelete(p, n)
      BY <2>2 DEF CallDelete, Start
    <2>3. CASE \E n \in Names, chain \in Chains : CallGet(p, n, chain)
      BY <2>3 DEF CallGet, Start
    <2>4. CASE \E chain \in Chains : CallList(p, chain)
      BY <2>4 DEF CallList, Start
    <2> QED
      BY <1>3, <2>1, <2>2, <2>3, <2>4 DEF NewCall
  <1>4. ASSUME NEW p \in Clients, SetStep(p)
        PROVE  ConnectionInv'
    <2>1. CASE SetBegin(p)
      BY <2>1 DEF SetBegin
    <2>2. CASE SetMissingURI(p)
      BY <2>2 DEF SetMissingURI, Finish
    <2>3. CASE SetDeleteContent(p) \/ ImportPackage(p) \/ ImportReturns(p) \/ SetDigest(p)
      BY <2>3 DEF SetDeleteContent, ImportPackage, ImportReturns, SetDigest, Statement
    <2>4. CASE SetLabels(p) \/ SetReservedLabel(p)
      BY <2>4 DEF SetLabels, SetReservedLabel, Statement
    <2>5. CASE SetLabelConflict(p)
      BY <2>5 DEF SetLabelConflict, Finish, Rollback
    <2>6. CASE SetCommit(p)
      BY <2>6 DEF SetCommit, Finish, Commit
    <2> QED
      BY <1>4, <2>1, <2>2, <2>3, <2>4, <2>5, <2>6 DEF SetStep
  <1>5. ASSUME NEW p \in Clients, DeleteStep(p)
        PROVE  ConnectionInv'
    <2>1. CASE DeleteBegin(p)
      BY <2>1 DEF DeleteBegin, Finish
    <2>2. CASE DeleteCommit(p)
      BY <2>2 DEF DeleteCommit, Finish, Commit
    <2> QED
      BY <1>5, <2>1, <2>2 DEF DeleteStep
  <1>6. ASSUME NEW p \in Clients, ReadStep(p)
        PROVE  ConnectionInv'
    <2>1. CASE GetRow(p)
      BY <2>1 DEF GetRow, Finish
    <2>2. CASE GetLabels(p)
      BY <2>2 DEF GetLabels, Finish
    <2>3. CASE ListRows(p)
      BY <2>3 DEF ListRows
    <2>4. CASE ListLabels(p)
      BY <2>4 DEF ListLabels
    <2>5. CASE ListReturns(p)
      BY <2>5 DEF ListReturns, Finish
    <2> QED
      BY <1>6, <2>1, <2>2, <2>3, <2>4, <2>5 DEF ReadStep
  <1>7. ASSUME NEW p \in Clients, Fail(p)
        PROVE  ConnectionInv'
    BY <1>7 DEF Fail, Finish, Rollback
  <1>8. ASSUME NEW p \in Clients, Return(p)
        PROVE  ConnectionInv'
    BY <1>8 DEF Return
  <1> QED
    BY <1>1, <1>2, <1>3, <1>4, <1>5, <1>6, <1>7, <1>8 DEF Next, Step

-----------------------------------------------------------------------------
(***************************************************************************)
(* The open transaction.                                                   *)
(***************************************************************************)

\* What holds of the transaction of q does not depend on the steps of others
\* that leave the databases alone.
LEMMA Bystander ==
  ASSUME NEW q \in Clients, TransactionOf(q), UNCHANGED <<db, work>>,
         pc'[q] = pc[q], call'[q] = call[q]
  PROVE  TransactionOf(q)'
  BY DEF TransactionOf, SetInv, RowAt, LabelsAt, GivenLabels, ContentAt

\* Only the client of the open transaction is inside one.
LEMMA OneTransaction ==
  ASSUME ConnectionInv, NEW p \in Clients, NEW q \in Clients, q # p,
         conn = None \/ pc[p] \in TxStages
  PROVE  pc[q] \notin TxStages
  BY StoreAssumption DEF ConnectionInv, ConnectionReturned

LEMMA SetTransactions ==
  ASSUME TypeOK, CallInv, ConnectionInv, TransactionInv, NEW p \in Clients, SetStep(p)
  PROVE  TransactionInv'
  <1> DEFINE n == call[p].name
             cfg == call[p].cfg
  <1> USE DEF TransactionInv
  <1>1. ASSUME NEW to, to \in SetStages \cup {"done"}, pc' = [pc EXCEPT ![p] = to],
               UNCHANGED call, conn = None \/ pc[p] \in TxStages, TransactionOf(p)'
        PROVE  TransactionInv'
    <2>1. ASSUME NEW q \in Clients, q # p
          PROVE  pc'[q] \notin TxStages
      BY <1>1, <2>1, OneTransaction DEF TypeOK
    <2> QED
      BY <1>1, <2>1 DEF TransactionOf, TxStages, SetStages
  <1>2. ASSUME UNCHANGED <<db, work, call>>, pc' = [pc EXCEPT ![p] = "done"]
        PROVE  TransactionInv'
    <2>1. TransactionOf(p)'
      BY <1>2 DEF TransactionOf, SetStages, TypeOK
    <2>2. ASSUME NEW q \in Clients, q # p
          PROVE  TransactionOf(q)'
      BY <1>2, <2>2, Bystander DEF TypeOK
    <2> QED
      BY <2>1, <2>2
  <1>3. CASE SetBegin(p)
    <2>1. /\ pc' = [pc EXCEPT ![p] = IF cfg.content = None THEN "labels" ELSE "delete content"]
          /\ db' = db /\ call' = call /\ conn = None
          /\ ~MissingURI(db, n, cfg)
          /\ work' = UpsertMetadata(db, n, cfg)
          /\ n \in Names
      BY <1>3 DEF SetBegin, Goto, callVars, CallInv
    <2>2. SetInv(p)'
      BY <2>1 DEF SetInv, RowAt, LabelsAt, ContentAt, UpsertMetadata, TypeOK, Tables
    <2>3. TransactionOf(p)'
      BY <2>1, <2>2 DEF TransactionOf, TypeOK
    <2> QED
      BY <1>1, <2>1, <2>3 DEF SetStages
  <1>4. ASSUME NEW from \in SetStages, NEW to \in SetStages,
               pc[p] = from, pc' = [pc EXCEPT ![p] = to], UNCHANGED <<db, call>>,
               SetInv(p)'
        PROVE  TransactionInv'
    <2>1. TransactionOf(p)'
      BY <1>4 DEF TransactionOf, SetStages, TypeOK
    <2> QED
      BY <1>1, <1>4, <2>1 DEF SetStages, TxStages
  <1>5. ASSUME pc[p] \in SetStages
        PROVE  SetInv(p) /\ n \in Names /\ cfg \in Configs
    BY <1>5 DEF TransactionOf, CallInv
  <1> USE DEF TypeOK, Tables, SetStages
  <1>6. CASE SetDeleteContent(p)
    <2>1. /\ pc[p] = "delete content" /\ pc' = [pc EXCEPT ![p] = "import"]
          /\ db' = db /\ call' = call
          /\ work' = DeleteContent(work, n)
      BY <1>6 DEF SetDeleteContent, Statement, Goto, callVars
    <2>2. SetInv(p)'
      <3>1. /\ work'.metadata = work.metadata
            /\ work'.labels = work.labels
            /\ work'.content = [work.content EXCEPT ![n] = {}]
        BY <2>1 DEF DeleteContent
      <3>2. RowAt(p)' = RowAt(p) /\ LabelsAt(p)' = LabelsAt(p)
        BY <2>1 DEF RowAt, LabelsAt
      <3>3. ContentAt(p, work.content[n])'
        BY <1>5, <2>1, <3>1 DEF ContentAt, CallInv
      <3>4. work'.content = [db'.content EXCEPT ![n] = work'.content[n]]
        BY <1>5, <2>1, <3>1 DEF SetInv
      <3> QED
        BY <1>5, <2>1, <3>1, <3>2, <3>3, <3>4 DEF SetInv
    <2> QED
      BY <1>4, <2>1, <2>2
  <1>7. CASE ImportPackage(p)
    <2>1. PICK package \in Packages :
            work' = WritePackage(work, n, [digest |-> cfg.content, package |-> package])
      BY <1>7 DEF ImportPackage, Statement
    <2>2. /\ pc[p] = "import" /\ pc' = [pc EXCEPT ![p] = "import"]
          /\ db' = db /\ call' = call
          /\ cfg.content # None
      BY <1>7 DEF ImportPackage, Statement, Goto, callVars, CallInv
    <2>3. SetInv(p)'
      <3> DEFINE item == [digest |-> cfg.content, package |-> package]
      <3>1. /\ work'.metadata = work.metadata
            /\ work'.labels = work.labels
            /\ work'.content = [work.content EXCEPT ![n] = @ \cup {item}]
        BY <2>1 DEF WritePackage
      <3>2. RowAt(p)' = RowAt(p) /\ LabelsAt(p)' = LabelsAt(p)
        BY <2>2 DEF RowAt, LabelsAt
      <3>3. ContentAt(p, work.content[n])'
        <4>1. \A i \in work.content[n] : i.digest = cfg.content
          BY <1>5, <2>2 DEF SetInv, ContentAt
        <4>2. work'.content[n] = work.content[n] \cup {item}
          BY <1>5, <2>2, <3>1
        <4> QED
          BY <2>2, <4>1, <4>2 DEF ContentAt
      <3>4. work'.content = [db'.content EXCEPT ![n] = work'.content[n]]
        <4> HIDE DEF item
        <4> QED
          BY <1>5, <2>2, <3>1 DEF SetInv
      <3> QED
        BY <1>5, <2>2, <3>1, <3>2, <3>3, <3>4 DEF SetInv
    <2> QED
      BY <1>4, <2>2, <2>3
  <1>8. CASE ImportReturns(p)
    <2>1. /\ pc[p] = "import" /\ pc' = [pc EXCEPT ![p] = "digest"]
          /\ db' = db /\ call' = call /\ work' = work
      BY <1>8 DEF ImportReturns, Goto, callVars
    <2>2. SetInv(p)'
      BY <1>5, <2>1 DEF SetInv, RowAt, LabelsAt, ContentAt
    <2> QED
      BY <1>4, <2>1, <2>2
  <1>9. CASE SetDigest(p)
    <2>1. /\ pc[p] = "digest" /\ pc' = [pc EXCEPT ![p] = "labels"]
          /\ db' = db /\ call' = call
          /\ work' = UpdateDigest(work, n, cfg.content)
          /\ cfg.content # None
      BY <1>9 DEF SetDigest, Statement, Goto, callVars, CallInv
    <2>2. SetInv(p)'
      BY <1>5, <2>1 DEF SetInv, RowAt, LabelsAt, ContentAt, UpdateDigest
    <2> QED
      BY <1>4, <2>1, <2>2
  <1>10. CASE SetLabels(p)
    <2>1. /\ pc[p] = "labels" /\ pc' = [pc EXCEPT ![p] = "reserved label"]
          /\ db' = db /\ call' = call
          /\ work' = IF cfg.labels = None THEN work ELSE ReplaceLabels(work, n, cfg.labels)
          /\ ~LabelConflict(n, cfg)
      BY <1>10 DEF SetLabels, Statement, Goto, callVars
    <2>2. SetInv(p)'
      BY <1>5, <2>1 DEF SetInv, RowAt, LabelsAt, GivenLabels, ContentAt, ReplaceLabels
    <2> QED
      BY <1>4, <2>1, <2>2
  <1>11. CASE SetReservedLabel(p)
    <2>1. /\ pc[p] = "reserved label" /\ pc' = [pc EXCEPT ![p] = "commit"]
          /\ db' = db /\ call' = call
          /\ work' = PutReservedLabel(work, n)
      BY <1>11 DEF SetReservedLabel, Goto, callVars
    <2>2. SetInv(p)'
      <3>1. /\ work'.metadata = work.metadata /\ work'.content = work.content
            /\ work'.labels = [work.labels EXCEPT ![n] =
                                 {l \in @ : l.key # Reserved} \cup {ReservedLabelOf(n)}]
        BY <2>1 DEF PutReservedLabel
      <3>2. RowAt(p)' = RowAt(p)
        BY <2>1 DEF RowAt
      <3>3. /\ LabelsAt(p) = GivenLabels(p) /\ GivenLabels(p)' = GivenLabels(p)
            /\ LabelsAt(p)' = {l \in GivenLabels(p)' : l.key # Reserved} \cup {ReservedLabelOf(n)}
        BY <2>1 DEF LabelsAt, GivenLabels
      <3>4. work'.labels = [db'.labels EXCEPT ![n] = LabelsAt(p)']
        <4>1. PICK given : given = GivenLabels(p)
          OBVIOUS
        <4>2. work.labels = [db.labels EXCEPT ![n] = given] /\ n \in DOMAIN db.labels
          BY <1>5, <2>1, <3>3, <4>1 DEF SetInv, CallInv, TypeOK, Tables
        <4>3. PICK labels : labels = {l \in given : l.key # Reserved} \cup {ReservedLabelOf(n)}
          OBVIOUS
        <4>4. work'.labels = [work.labels EXCEPT ![n] = labels]
          BY <3>1, <4>2, <4>3
        <4>5. LabelsAt(p)' = labels
          BY <3>3, <4>1, <4>3
        <4> QED
          BY <2>1, <4>2, <4>4, <4>5
      <3>5. ContentAt(p, work.content[n])'
        BY <1>5, <2>1, <3>1 DEF SetInv, ContentAt
      <3> QED
        BY <1>5, <2>1, <3>1, <3>2, <3>4, <3>5 DEF SetInv
    <2> QED
      BY <1>4, <2>1, <2>2
  <1>12. CASE SetMissingURI(p)
    BY <1>2, <1>12 DEF SetMissingURI, Finish, Goto, callVars
  <1>13. CASE SetLabelConflict(p) \/ SetCommit(p)
    <2>1. /\ pc[p] \in TxStages /\ pc' = [pc EXCEPT ![p] = "done"]
          /\ call' = call
      BY <1>13 DEF SetLabelConflict, SetCommit, Commit, Finish, Goto, callVars, TxStages
    <2>2. TransactionOf(p)'
      BY <2>1 DEF TransactionOf
    <2> QED
      BY <1>1, <2>1, <2>2
  <1> QED
    BY <1>3, <1>6, <1>7, <1>8, <1>9, <1>10, <1>11, <1>12, <1>13 DEF SetStep

\* Every step keeps the open transaction what its stage says it is.
LEMMA TransactionsPreserved ==
  ASSUME TypeOK, CallInv, ConnectionInv, TransactionInv, [Next]_vars
  PROVE  TransactionInv'
  <1> USE DEF TransactionInv
  <1>1. ASSUME NEW p \in Clients, UNCHANGED <<db, work>>,
               \A q \in Clients : q # p => pc'[q] = pc[q] /\ call'[q] = call[q],
               TransactionOf(p)'
        PROVE  TransactionInv'
    BY <1>1, Bystander
  <1>2. ASSUME NEW p \in Clients, UNCHANGED <<db, work>>, NEW to,
               to \notin TxStages, pc' = [pc EXCEPT ![p] = to],
               \A q \in Clients : q # p => call'[q] = call[q]
        PROVE  TransactionInv'
    <2>1. TransactionOf(p)'
      BY <1>2 DEF TransactionOf, SetStages, TxStages, TypeOK
    <2> QED
      BY <1>1, <1>2, <2>1 DEF TypeOK
  <1>3. CASE UNCHANGED vars \/ Close
    BY <1>3, Bystander DEF vars, Close
  <1>4. CASE Crash
    BY <1>4 DEF Crash, TransactionOf, SetStages
  <1>5. ASSUME NEW p \in Clients, NewCall(p)
        PROVE  TransactionInv'
    <2>1. PICK stage \in {"begin", "delete"} \cup ReadStages : \E c : Start(p, c, stage)
      BY <1>5 DEF NewCall, CallSet, CallDelete, CallGet, CallList, ReadStages
    <2> QED
      BY <1>2, <2>1 DEF Start, Goto, TypeOK, TxStages, ReadStages
  <1>6. ASSUME NEW p \in Clients, Return(p)
        PROVE  TransactionInv'
    BY <1>2, <1>6 DEF Return, Goto, TypeOK, TxStages
  <1>7. ASSUME NEW p \in Clients, SetStep(p)
        PROVE  TransactionInv'
    BY <1>7, SetTransactions
  <1>8. ASSUME NEW p \in Clients, conn = None \/ pc[p] \in TxStages,
               \A q \in Clients : q # p => pc'[q] = pc[q], TransactionOf(p)'
        PROVE  TransactionInv'
    <2>1. ASSUME NEW q \in Clients, q # p
          PROVE  pc'[q] \notin TxStages
      BY <1>8, <2>1, OneTransaction
    <2> QED
      BY <1>8, <2>1 DEF TransactionOf, TxStages, SetStages
  <1>9. ASSUME NEW p \in Clients, DeleteStep(p)
        PROVE  TransactionInv'
    <2>1. CASE DeleteBegin(p)
      <3>1. TransactionOf(p)'
        BY <2>1 DEF DeleteBegin, Goto, callVars, TransactionOf, SetStages, TypeOK
      <3> QED
        BY <1>8, <2>1, <3>1 DEF DeleteBegin, Goto, TypeOK
    <2>2. CASE DeleteCommit(p)
      <3>1. TransactionOf(p)'
        BY <2>2 DEF DeleteCommit, Finish, Goto, TransactionOf, SetStages, TypeOK
      <3> QED
        BY <1>8, <2>2, <3>1 DEF DeleteCommit, Finish, Goto, TypeOK, TxStages
    <2> QED
      BY <1>9, <2>1, <2>2 DEF DeleteStep
  <1>10. ASSUME NEW p \in Clients, ReadStep(p)
         PROVE  TransactionInv'
    <2>1. CASE GetRow(p)
      <3>1. PICK to \in {"get labels", "done"} : pc' = [pc EXCEPT ![p] = to]
        BY <2>1 DEF GetRow, Finish, Goto
      <3> QED
        BY <1>2, <2>1, <3>1 DEF GetRow, callVars, TxStages
    <2>2. CASE GetLabels(p)
      BY <1>2, <2>2 DEF GetLabels, Finish, Goto, callVars, TxStages
    <2>3. CASE ListRows(p)
      BY <1>2, <2>3 DEF ListRows, Goto, callVars, TxStages
    <2>4. CASE ListLabels(p)
      BY <2>4, Bystander DEF ListLabels, callVars
    <2>5. CASE ListReturns(p)
      BY <1>2, <2>5 DEF ListReturns, Finish, Goto, callVars, TxStages
    <2> QED
      BY <1>10, <2>1, <2>2, <2>3, <2>4, <2>5 DEF ReadStep
  <1>11. ASSUME NEW p \in Clients, Fail(p)
         PROVE  TransactionInv'
    <2>1. TransactionOf(p)'
      BY <1>11 DEF Fail, Finish, Goto, TransactionOf, SetStages, TypeOK
    <2>2. CASE pc[p] \in TxStages
      BY <1>8, <1>11, <2>1, <2>2 DEF Fail, Finish, Goto, TypeOK
    <2>3. CASE pc[p] \notin TxStages
      BY <1>1, <1>11, <2>1, <2>3, StoreAssumption
      DEF Fail, Finish, Goto, Rollback, callVars, ConnectionInv, ConnectionReturned, TypeOK
    <2> QED
      BY <2>2, <2>3
  <1> QED
    BY <1>3, <1>4, <1>5, <1>6, <1>7, <1>9, <1>10, <1>11 DEF Next, Step

-----------------------------------------------------------------------------
(***************************************************************************)
(* The committed database.                                                 *)
(***************************************************************************)

\* It changes only when the transaction of a Set or Delete commits.
LEMMA OnlyCommitsChange ==
  ASSUME [Next]_vars, db' # db
  PROVE  \E p \in Clients : SetCommit(p) \/ DeleteCommit(p)
  <1>1. UNCHANGED vars => db' = db
    BY DEF vars
  <1>2. Close \/ Crash => db' = db
    BY DEF Close, Crash
  <1>3. \A p \in Clients : NewCall(p) \/ Fail(p) \/ Return(p) \/ ReadStep(p) => db' = db
    BY DEF NewCall, CallSet, CallDelete, CallGet, CallList, Start, Fail, Return, ReadStep,
           GetRow, GetLabels, ListRows, ListLabels, ListReturns
  <1>4. \A p \in Clients : SetStep(p) => db' = db \/ SetCommit(p)
    BY DEF SetStep, SetBegin, SetMissingURI, SetDeleteContent, ImportPackage,
           ImportReturns, SetDigest, SetLabels, SetLabelConflict, SetReservedLabel, Statement
  <1>5. \A p \in Clients : DeleteStep(p) => db' = db \/ DeleteCommit(p)
    BY DEF DeleteStep, DeleteBegin
  <1> QED
    BY <1>1, <1>2, <1>3, <1>4, <1>5 DEF Next, Step

\* The entry of the one catalog that a Set changes, when it commits.
LEMMA SetEntry ==
  ASSUME TypeOK, CallInv, TransactionInv, NEW p \in Clients, SetCommit(p)
  PROVE  LET n == call[p].name
             cfg == call[p].cfg
             row == UpsertedRow(db.metadata[n], cfg)
         IN  /\ n \in Names /\ cfg \in Configs
             /\ ~MissingURI(db, n, cfg) /\ ~LabelConflict(n, cfg)
             /\ db'.metadata[n] = IF cfg.content = None THEN row
                                  ELSE [row EXCEPT !.digest = cfg.content]
             /\ row \in Row /\ db'.metadata[n] # None
             /\ db'.labels[n] = {l \in GivenLabels(p) : l.key # Reserved}
                                  \cup {ReservedLabelOf(n)}
             /\ ContentAt(p, db'.content[n])
             /\ \A m \in Names \ {n} : /\ db'.metadata[m] = db.metadata[m]
                                       /\ db'.labels[m] = db.labels[m]
                                       /\ db'.content[m] = db.content[m]
  <1> DEFINE n == call[p].name
             cfg == call[p].cfg
             row == UpsertedRow(db.metadata[n], cfg)
  <1>1. pc[p] = "commit" /\ db' = work
    BY DEF SetCommit, Commit
  <1>2. SetInv(p)
    BY <1>1 DEF TransactionInv, TransactionOf, SetStages
  <1>3. /\ n \in Names /\ cfg \in Configs
        /\ work.metadata[n] = RowAt(p) /\ RowAt(p) # None
        /\ work.labels[n] = LabelsAt(p)
    BY <1>1, OwnCatalog DEF SetStages
  <1>4. row \in Row
    BY <1>2, <1>3, UpsertedRowType, ConfigType DEF SetInv, TypeOK
  <1>5. RowAt(p) = IF cfg.content = None THEN row ELSE [row EXCEPT !.digest = cfg.content]
    BY <1>1 DEF RowAt
  <1>6. LabelsAt(p) = {l \in GivenLabels(p) : l.key # Reserved} \cup {ReservedLabelOf(n)}
    BY <1>1 DEF LabelsAt
  <1>7. ~MissingURI(db, n, cfg) /\ ~LabelConflict(n, cfg) /\ ContentAt(p, work.content[n])
    BY <1>1, <1>2 DEF SetInv
  <1>8. \A m \in Names \ {n} : /\ work.metadata[m] = db.metadata[m]
                               /\ work.labels[m] = db.labels[m]
                               /\ work.content[m] = db.content[m]
    BY <1>2 DEF SetInv, TypeOK, Tables
  <1> QED
    BY <1>1, <1>3, <1>4, <1>5, <1>6, <1>7, <1>8

\* What a committed Set leaves satisfies the three properties of entries.
LEMMA EntriesPreserved ==
  ASSUME TypeOK, CallInv, TransactionInv, EntriesInv, [Next]_vars
  PROVE  EntriesInv'
  <1> USE DEF EntriesInv, ReservedLabel, NoOrphans, DigestNamesContent, Present
  <1>1. CASE db' = db
    BY <1>1
  <1>2. ASSUME NEW p \in Clients, SetCommit(p)
        PROVE  EntriesInv'
    <2> DEFINE n == call[p].name
               cfg == call[p].cfg
               row == UpsertedRow(db.metadata[n], cfg)
    <2>1. /\ n \in Names /\ cfg \in Configs
          /\ db'.metadata[n] = IF cfg.content = None THEN row
                               ELSE [row EXCEPT !.digest = cfg.content]
          /\ row \in Row /\ db'.metadata[n] # None
          /\ db'.labels[n] = {l \in GivenLabels(p) : l.key # Reserved}
                               \cup {ReservedLabelOf(n)}
          /\ ContentAt(p, db'.content[n])
      BY <1>2, SetEntry
    <2>2. \A m \in Names \ {n} : /\ db'.metadata[m] = db.metadata[m]
                                 /\ db'.labels[m] = db.labels[m]
                                 /\ db'.content[m] = db.content[m]
      BY <1>2, SetEntry
    <2>3. ReservedLabel'
      <3>1. {l \in db'.labels[n] : l.key = Reserved} = {ReservedLabelOf(n)}
        <4>1. PICK given, mine : given = GivenLabels(p) /\ mine = ReservedLabelOf(n)
          OBVIOUS
        <4>2. mine.key = Reserved
          BY <4>1 DEF ReservedLabelOf
        <4>3. PICK labels : labels = db'.labels[n]
          OBVIOUS
        <4>4. labels = {l \in given : l.key # Reserved} \cup {mine}
          BY <2>1, <4>1, <4>3
        <4>5. {l \in labels : l.key = Reserved} = {mine}
          BY <4>2, <4>4
        <4> QED
          BY <4>1, <4>3, <4>5
      <3> QED
        BY <2>2, <3>1
    <2>4. NoOrphans'
      BY <2>1, <2>2
    <2>5. DigestNamesContent'
      <3>1. \A item \in db'.content[n] : item.digest = db'.metadata[n].digest
        <4>1. CASE cfg.content = None /\ db.metadata[n] = None
          <5>1. db'.content[n] = {}
            BY <2>1, <4>1 DEF ContentAt
          <5> QED
            BY ONLY <5>1
        <4>2. CASE cfg.content = None /\ db.metadata[n] # None
          <5>1. db'.content[n] = db.content[n] /\ db'.metadata[n] = row
            BY ONLY <2>1, <4>2 DEF ContentAt
          <5>2. row.digest = db.metadata[n].digest
            BY ONLY <4>2 DEF UpsertedRow
          <5>3. \A item \in db.content[n] : item.digest = db.metadata[n].digest
            BY <2>1, <4>2
          <5> HIDE DEF row
          <5> QED
            BY ONLY <5>1, <5>2, <5>3, Zenon
        <4>3. CASE cfg.content # None
          <5>1. \A item \in db'.content[n] : item.digest = cfg.content
            BY <1>2, <2>1, <4>3 DEF ContentAt, SetCommit
          <5>2. db'.metadata[n].digest = cfg.content
            BY <2>1, <4>3 DEF Row
          <5> QED
            BY ONLY <5>1, <5>2, Zenon
        <4> QED
          BY ONLY <4>1, <4>2, <4>3
      <3>2. ASSUME NEW m \in Names \ {n}, db'.metadata[m] # None
            PROVE  \A item \in db'.content[m] : item.digest = db'.metadata[m].digest
        BY <2>2, <3>2
      <3> HIDE DEF n, row, cfg
      <3> QED
        BY ONLY <3>1, <3>2 DEF DigestNamesContent, Present
    <2> QED
      BY <2>3, <2>4, <2>5
  <1>3. ASSUME NEW p \in Clients, DeleteCommit(p)
        PROVE  EntriesInv'
    <2>1. db' = DeleteMetadata(db, call[p].name) /\ call[p].name \in Names
      BY <1>3 DEF DeleteCommit, Commit, TransactionInv, TransactionOf, CallInv
    <2> QED
      BY <2>1 DEF DeleteMetadata, TypeOK, Tables
  <1> QED
    BY <1>1, <1>2, <1>3, OnlyCommitsChange

-----------------------------------------------------------------------------
(***************************************************************************)
(* The invariant and what follows from it.                                 *)
(***************************************************************************)
LEMMA InitialInvariant == Init => IInv
  <1> SUFFICES ASSUME Init PROVE IInv
    OBVIOUS
  <1>1. TypeOK
    BY InitialTypes
  <1>2. CallInv /\ TransactionInv
    BY DEF Init, CallInv, TransactionInv, TransactionOf, SetStages
  <1>3. ConnectionInv
    BY StoreAssumption DEF Init, ConnectionInv, ConnectionReturned, TxStages
  <1>4. EntriesInv
    BY DEF Init, EntriesInv, ReservedLabel, NoOrphans, DigestNamesContent, EmptyTables, Present
  <1> QED
    BY <1>1, <1>2, <1>3, <1>4 DEF IInv

LEMMA InvariantPreserved == IInv /\ [Next]_vars => IInv'
  BY TypesPreserved, CallsPreserved, ConnectionPreserved, TransactionsPreserved,
     EntriesPreserved DEF IInv

LEMMA Invariance == Spec => []IInv
  BY InitialInvariant, InvariantPreserved, PTL DEF Spec

\* The variables of the store and of its clients keep their types.
THEOREM TypeCorrect == Spec => []TypeOK
  <1>1. IInv => TypeOK
    BY DEF IInv
  <1> QED
    BY <1>1, Invariance, PTL

\* Labels given by callers never remove, change or duplicate the reserved label
\* of a committed catalog (Set, sqlite.go:158-185).
THEOREM ReservedLabelKept == Spec => []ReservedLabel
  <1>1. IInv => ReservedLabel
    BY DEF IInv, EntriesInv
  <1> QED
    BY <1>1, Invariance, PTL

\* What is left of a deleted catalog, and of a Set that failed, is nothing
\* (sqlite.go:90 and 209).
THEOREM NothingOrphaned == Spec => []NoOrphans
  <1>1. IInv => NoOrphans
    BY DEF IInv, EntriesInv
  <1> QED
    BY <1>1, Invariance, PTL

\* The digest of a catalog is that of the import that wrote its content
\* (sqlite.go:136-156).
THEOREM DigestCorrect == Spec => []DigestNamesContent
  <1>1. IInv => DigestNamesContent
    BY DEF IInv, EntriesInv
  <1> QED
    BY <1>1, Invariance, PTL

\* Whatever ends a Set or a Delete, the writer connection is free after it
\* (sqlite.go:90 and 207).
THEOREM ConnectionAlwaysReturned == Spec => []ConnectionReturned
  <1>1. IInv => ConnectionReturned
    BY DEF IInv, ConnectionInv
  <1> QED
    BY <1>1, Invariance, PTL

-----------------------------------------------------------------------------
(***************************************************************************)
(* Refinement.                                                             *)
(***************************************************************************)

\* A Set that commits is the Set of the abstract store.
LEMMA SetImplemented ==
  ASSUME TypeOK, CallInv, TransactionInv, NoOrphans, NEW p \in Clients, SetCommit(p)
  PROVE  Abstract!Set(call[p].name, call[p].cfg)
  <1> DEFINE n == call[p].name
             cfg == call[p].cfg
             row == UpsertedRow(db.metadata[n], cfg)
             written == {i.package : i \in db'.content[n]}
  <1>1. /\ n \in Names /\ cfg \in Configs
        /\ ~MissingURI(db, n, cfg) /\ ~LabelConflict(n, cfg)
        /\ db'.metadata[n] = IF cfg.content = None THEN row
                             ELSE [row EXCEPT !.digest = cfg.content]
        /\ row \in Row /\ db'.metadata[n] # None
        /\ db'.labels[n] = {l \in GivenLabels(p) : l.key # Reserved}
                             \cup {ReservedLabelOf(n)}
        /\ ContentAt(p, db'.content[n])
    BY SetEntry
  <1>2. \A m \in Names \ {n} : /\ db'.metadata[m] = db.metadata[m]
                               /\ db'.labels[m] = db.labels[m]
                               /\ db'.content[m] = db.content[m]
    BY SetEntry
  <1>3. db' \in Tables
    BY CommitTypes DEF SetCommit
  <1>4. Entries[n] = None <=> db.metadata[n] = None
    <2>1. CASE db.metadata[n] # None
      <3>1. Entries[n] \in Entry
        BY <1>1, <2>1 DEF Entries, Entry, TypeOK, Tables, Row
      <3> QED
        BY <2>1, <3>1, DataAssumption
    <2> QED
      BY <1>1, <2>1 DEF Entries
  <1>5. written \in SUBSET Packages
    <2>1. db'.content \in [Names -> SUBSET Item]
      BY <1>3, Zenon DEF Tables
    <2>2. \A i \in db'.content[n] : i \in Item
      BY <1>1, <2>1
    <2>3. \A i \in Item : i.package \in Packages
      BY DEF Item
    <2> QED
      BY <2>2, <2>3
  <1>6. Entries'[n] = Abstract!NewEntry(n, Entries[n], cfg, written)
    <2> DEFINE old == Entries[n]
               new == Abstract!NewEntry(n, old, cfg, written)
               oldRow == UpsertedRow(old, cfg)
    <2>1. old # None => /\ old.uri = db.metadata[n].uri
                        /\ old.digest = db.metadata[n].digest
                        /\ old.priority = db.metadata[n].priority
                        /\ old.labels = db.labels[n]
                        /\ old.content = db.content[n]
      BY <1>1, <1>4 DEF Entries
    <2>2. oldRow = row
      BY <1>4, <2>1 DEF UpsertedRow
    <2>3. db'.labels[n] = {ReservedLabelOf(n)} \cup
                            IF cfg.labels = None
                            THEN IF old = None THEN {} ELSE {l \in old.labels : l.key # Reserved}
                            ELSE {l \in cfg.labels : l.key # Reserved}
      <3>1. old = None => db.labels[n] = {}
        BY <1>1, <1>4 DEF NoOrphans, Present
      <3> QED
        BY <1>1, <2>1, <3>1 DEF GivenLabels
    <2>4. db'.content[n] = IF cfg.content = None
                           THEN IF old = None THEN {} ELSE old.content
                           ELSE {[digest |-> cfg.content, package |-> q] : q \in written}
      <3>1. CASE cfg.content = None
        BY <1>1, <1>4, <2>1, <3>1 DEF NoOrphans, Present, ContentAt
      <3>2. CASE cfg.content # None
        <4>1. \A item \in db'.content[n] : item.digest = cfg.content /\ item \in Item
          BY <1>1, <1>3, <3>2 DEF ContentAt, SetCommit, Tables
        <4>2. \A item \in db'.content[n] : item = [digest |-> cfg.content, package |-> item.package]
          BY <4>1 DEF Item
        <4> QED
          BY <3>2, <4>2
      <3> QED
        BY <3>1, <3>2
    <2>5. db'.metadata[n] = [uri |-> row.uri, priority |-> row.priority,
                             digest |-> IF cfg.content = None THEN row.digest ELSE cfg.content]
      BY <1>1 DEF Row
    <2>6. Entries'[n] = [uri      |-> db'.metadata[n].uri,
                         digest   |-> db'.metadata[n].digest,
                         priority |-> db'.metadata[n].priority,
                         labels   |-> db'.labels[n],
                         content  |-> db'.content[n]]
      BY <1>1 DEF Entries
    <2>7. /\ Abstract!UpsertedRow(old, cfg) = row
          /\ Abstract!ReservedLabelOf(n) = ReservedLabelOf(n)
      BY <2>2 DEF Abstract!UpsertedRow, UpsertedRow, Abstract!ReservedLabelOf, ReservedLabelOf
    <2>8. Entries'[n] = [uri      |-> row.uri,
                         priority |-> row.priority,
                         digest   |-> IF cfg.content = None THEN row.digest ELSE cfg.content,
                         labels   |-> db'.labels[n],
                         content  |-> db'.content[n]]
      BY <2>5, <2>6
    <2> HIDE DEF old, row, written, oldRow
    <2>9. new = [uri      |-> row.uri,
                 priority |-> row.priority,
                 digest   |-> IF cfg.content = None THEN row.digest ELSE cfg.content,
                 labels   |-> db'.labels[n],
                 content  |-> db'.content[n]]
      <3> DEFINE labels  == {ReservedLabelOf(n)} \cup
                              IF cfg.labels = None
                              THEN IF old = None THEN {}
                                   ELSE {l \in old.labels : l.key # Reserved}
                              ELSE {l \in cfg.labels : l.key # Reserved}
                 content == IF cfg.content = None
                            THEN IF old = None THEN {} ELSE old.content
                            ELSE {[digest |-> cfg.content, package |-> q] : q \in written}
      <3>1. new = [uri      |-> row.uri,
                   priority |-> row.priority,
                   digest   |-> IF cfg.content = None THEN row.digest ELSE cfg.content,
                   labels   |-> labels,
                   content  |-> content]
        BY ONLY <2>7, Zenon DEF Abstract!NewEntry
      <3>2. labels = db'.labels[n] /\ content = db'.content[n]
        BY ONLY <2>3, <2>4, Zenon
      <3> HIDE DEF labels, content
      <3> QED
        BY ONLY <3>1, <3>2, Zenon
    <2>10. Entries'[n] = new
      <3> HIDE DEF new
      <3> QED
        BY ONLY <2>8, <2>9, Zenon
    <2> QED
      BY ONLY <2>10, Zenon DEF old
  <1>7. Entries' = [Entries EXCEPT ![n] = Entries'[n]]
    <2>1. \A m \in Names \ {n} : Entries'[m] = Entries[m]
      BY ONLY <1>2 DEF Entries
    <2>2. DOMAIN Entries = Names /\ Entries' = [m \in Names |-> Entries'[m]]
      BY DEF Entries
    <2>3. \A m \in Names : Entries'[m] = [Entries EXCEPT ![n] = Entries'[n]][m]
      BY ONLY <2>1, <2>2
    <2>4. [Entries EXCEPT ![n] = Entries'[n]] = [m \in Names |-> [Entries EXCEPT ![n] = Entries'[n]][m]]
      BY ONLY <2>2
    <2> QED
      BY ONLY <2>2, <2>3, <2>4
  <1>8. Entries[n] = None => cfg.uri # None
    BY <1>1, <1>4 DEF MissingURI
  <1> HIDE DEF written
  <1> QED
    BY <1>1, <1>5, <1>6, <1>7, <1>8 DEF Abstract!Set, Abstract!LabelConflict, LabelConflict

\* A Delete that commits is the Delete of the abstract store.
LEMMA DeleteImplemented ==
  ASSUME TypeOK, CallInv, TransactionInv, NEW p \in Clients, DeleteCommit(p)
  PROVE  Abstract!Delete(call[p].name)
  <1>1. db' = DeleteMetadata(db, call[p].name) /\ call[p].name \in Names
    BY DEF DeleteCommit, Commit, TransactionInv, TransactionOf, CallInv
  <1> QED
    BY <1>1 DEF Abstract!Delete, Entries, DeleteMetadata, TypeOK, Tables

LEMMA StepImplemented == IInv /\ [Next]_vars => [Abstract!Next]_Entries
  <1> SUFFICES ASSUME IInv, [Next]_vars PROVE [Abstract!Next]_Entries
    OBVIOUS
  <1>1. CASE db' = db
    BY <1>1 DEF Entries
  <1>2. ASSUME NEW p \in Clients, SetCommit(p)
        PROVE  Abstract!Next
    <2>1. Abstract!Set(call[p].name, call[p].cfg)
      BY <1>2, SetImplemented DEF IInv, EntriesInv
    <2>2. call[p].name \in Names /\ call[p].cfg \in Configs
      BY <1>2, SetEntry DEF IInv
    <2> QED
      BY <2>1, <2>2 DEF Abstract!Next
  <1>3. ASSUME NEW p \in Clients, DeleteCommit(p)
        PROVE  Abstract!Next
    <2>1. Abstract!Delete(call[p].name)
      BY <1>3, DeleteImplemented DEF IInv
    <2>2. call[p].name \in Names
      BY <1>3 DEF DeleteCommit, IInv, CallInv
    <2> QED
      BY <2>1, <2>2 DEF Abstract!Next
  <1> QED
    BY <1>1, <1>2, <1>3, OnlyCommitsChange

\* Concurrent clients, failures and crashes notwithstanding, the committed
\* database changes as the atomic map of store.go does.
THEOREM Implementation == Spec => ImplementsAtomicStore
  <1>1. Init => Abstract!Init
    BY DEF Init, EmptyTables, Entries, Abstract!Init
  <1> QED
    BY <1>1, StepImplemented, Invariance, PTL DEF Spec, ImplementsAtomicStore, Abstract!Spec

=============================================================================
