------------------------- MODULE CatalogCallProofs -------------------------
(***************************************************************************)
(* What the calls of CatalogStore return, for every set of clients, names, *)
(* labels, packages and options.  A Set has read its result before it      *)
(* commits, so what ties the result to the committed entry is what the     *)
(* transaction has read by then (ResultInv).  A reader's statements run on *)
(* one committed database each: what it has read so far is tied to the     *)
(* databases it has met (ReadInv).                                         *)
(***************************************************************************)
EXTENDS CatalogStoreProofs

NewStep(p) == NewCall(p) \/ Step(p) \/ Fail(p) \/ Return(p)

-----------------------------------------------------------------------------
(***************************************************************************)
(* The operation a client's place belongs to.                              *)
(***************************************************************************)
OperationOf(p) ==
  /\ pc[p] \in SetStages \cup {"begin"} => call[p].op = "set"
  /\ pc[p] \in {"delete", "commit delete"} => call[p].op = "delete"
  /\ pc[p] \in {"get row", "get labels"} => call[p].op = "get"
  /\ pc[p] \in {"list rows", "list labels"} =>
       call[p].op = "list" /\ call[p].name = None
  /\ call[p].op \in {"set", "delete"} => call[p].chain = <<>>

OperationInv == \A p \in Clients : OperationOf(p)

\* Past the import, content that is not complete is remembered as such; before the
\* commit the result is the entry as it will be committed.
Complete(content) == {i.package : i \in content} = Packages

ResultOf(p) ==
  LET n == call[p].name
      incomplete == call[p].cfg.content # None /\ ~Complete(work.content[n])
  IN  /\ pc[p] \in {"digest", "labels", "reserved label"} /\ incomplete => p \in importErr
      /\ pc[p] = "commit" =>
           /\ ret[p].status \in {"ok", "partial"}
           /\ ret[p].catalogs = {CatalogOf(work, n)}
           /\ incomplete => ret[p].status = "partial"

ResultInv == \A p \in Clients : ResultOf(p)

CallsInv == IInv /\ OperationInv /\ ResultInv

\* The rows of a database, and the row that a Catalog was made of.
RowOf(t, n) == [name |-> n, row |-> t.metadata[n]]
RowsOf(t) == {RowOf(t, n) : n \in Present(t)}
RowOfCatalog(c) == [name |-> c.name, row |-> c.row]

\* ReservedLabel, of any database.
ReservedIn(t) ==
  \A n \in Present(t) : {l \in t.labels[n] : l.key = Reserved} = {ReservedLabelOf(n)}

\* A reader has met whatever was committed since its call began, last of all the database
\* as it is.
SeenOf(p) ==
  /\ \A i \in DOMAIN seen[p] : ReservedIn(seen[p][i])
  /\ pc[p] \in ReadStages => Len(seen[p]) > 0 /\ seen[p][Len(seen[p])] = db

LabelsSince(p, i, c) ==
  \E j \in DOMAIN seen[p] : i <= j /\ c.labels = seen[p][j].labels[c.name]

\* The row a Get has read.
GetOf(p) ==
  pc[p] = "get labels" =>
    \E i \in DOMAIN seen[p] : /\ call[p].name \in Present(seen[p][i])
                              /\ cursor[p] = {RowOf(seen[p][i], call[p].name)}

\* The rows a List has read, those that have their labels and those that wait for them.
ListOf(p) ==
  pc[p] = "list labels" =>
    /\ ret[p].status = "ok"
    /\ \E i \in DOMAIN seen[p] :
         /\ {RowOfCatalog(c) : c \in ret[p].catalogs} \cup cursor[p] = RowsOf(seen[p][i])
         /\ \A c \in ret[p].catalogs : LabelsSince(p, i, c)

\* The answer of a Get: there was no such catalog, or one whose labels do not match, or one
\* whose labels match.
GetAnswered(p) ==
  LET n == call[p].name
      selector == Selector(call[p].chain)
  IN  /\ n \in Names
      /\ \/ /\ ret[p].catalogs = {}
            /\ \E i \in DOMAIN seen[p] :
                 n \notin Present(seen[p][i]) \/ ~Matches(selector, seen[p][i].labels[n])
         \/ \E i, j \in DOMAIN seen[p] :
              /\ i <= j
              /\ n \in Present(seen[p][i])
              /\ Matches(selector, seen[p][j].labels[n])
              /\ ret[p].catalogs = {[name |-> n, row |-> seen[p][i].metadata[n],
                                     labels |-> seen[p][j].labels[n]]}

\* The answer of a List: the catalogs of one database that match.
ListAnswered(p) ==
  \E all \in SUBSET CatalogValue, i \in DOMAIN seen[p] :
    /\ {RowOfCatalog(c) : c \in all} = RowsOf(seen[p][i])
    /\ \A c \in all : LabelsSince(p, i, c)
    /\ ret[p].catalogs = {c \in all : Matches(Selector(call[p].chain), c.labels)}

DoneOf(p) ==
  /\ pc[p] = "done" /\ ret[p].status = "error" => ret[p].catalogs = {}
  /\ Answered(p, {"get"}) => GetAnswered(p)
  /\ Answered(p, {"list"}) => ListAnswered(p)

ReadOf(p) == SeenOf(p) /\ GetOf(p) /\ ListOf(p) /\ DoneOf(p)

ReadInv == \A p \in Clients : ReadOf(p)

-----------------------------------------------------------------------------
\* A step is one of a client, a crash, or changes at most that the store is closed.
LEMMA StepCases ==
  ASSUME [Next]_vars
  PROVE  (UNCHANGED vars \/ Close) \/ Crash \/ \E p \in Clients : NewStep(p)
  BY DEF Next, NewStep

\* A new call puts its client before the first stage of the call.
LEMMA NewCalls ==
  ASSUME NEW p \in Clients, NewCall(p)
  PROVE  \E c \in Call, stage \in {"begin", "delete", "get row", "list rows"} :
           /\ Start(p, c, stage)
           /\ stage = "begin" => c.op = "set" /\ c.chain = <<>>
           /\ stage = "delete" => c.op = "delete" /\ c.chain = <<>>
           /\ stage = "get row" => c.op = "get" /\ c.name \in Names
           /\ stage = "list rows" => c.op = "list" /\ c.name = None
  <1> DEFINE Made == \E c \in Call, stage \in {"begin", "delete", "get row", "list rows"} :
                       /\ Start(p, c, stage)
                       /\ stage = "begin" => c.op = "set" /\ c.chain = <<>>
                       /\ stage = "delete" => c.op = "delete" /\ c.chain = <<>>
                       /\ stage = "get row" => c.op = "get" /\ c.name \in Names
                       /\ stage = "list rows" => c.op = "list" /\ c.name = None
  <1>1. <<>> \in Chains
    BY DEF Chains
  <1>2. ASSUME NEW n \in Names, NEW cfg \in Configs, CallSet(p, n, cfg)
        PROVE  Made
    <2> DEFINE c == [op |-> "set", name |-> n, cfg |-> cfg, chain |-> <<>>]
    <2>1. c \in Call /\ c.op = "set" /\ c.chain = <<>>
      BY <1>1 DEF Call
    <2>2. Start(p, c, "begin")
      BY <1>2 DEF CallSet
    <2> QED
      BY <2>1, <2>2
  <1>3. ASSUME NEW n \in Names, CallDelete(p, n)
        PROVE  Made
    <2> DEFINE c == [op |-> "delete", name |-> n, cfg |-> None, chain |-> <<>>]
    <2>1. c \in Call /\ c.op = "delete" /\ c.chain = <<>>
      BY <1>1 DEF Call
    <2>2. Start(p, c, "delete")
      BY <1>3 DEF CallDelete
    <2> QED
      BY <2>1, <2>2
  <1>4. ASSUME NEW n \in Names, NEW chain \in Chains, CallGet(p, n, chain)
        PROVE  Made
    <2> DEFINE c == [op |-> "get", name |-> n, cfg |-> None, chain |-> chain]
    <2>1. c \in Call /\ c.op = "get" /\ c.name \in Names
      BY DEF Call
    <2>2. Start(p, c, "get row")
      BY <1>4 DEF CallGet
    <2> QED
      BY <2>1, <2>2
  <1>5. ASSUME NEW chain \in Chains, CallList(p, chain)
        PROVE  Made
    <2> DEFINE c == [op |-> "list", name |-> None, cfg |-> None, chain |-> chain]
    <2>1. c \in Call /\ c.op = "list" /\ c.name = None
      BY DEF Call
    <2>2. Start(p, c, "list rows")
      BY <1>5 DEF CallList
    <2> QED
      BY <2>1, <2>2
  <1> QED
    BY <1>2, <1>3, <1>4, <1>5 DEF NewCall

\* A step of one client leaves the place, the call, the result and the cursor of every
\* other alone.
LEMMA OnesOwn ==
  ASSUME TypeOK, NEW p \in Clients, NEW q \in Clients, q # p, NewStep(p)
  PROVE  /\ pc'[q] = pc[q] /\ call'[q] = call[q] /\ ret'[q] = ret[q]
         /\ cursor'[q] = cursor[q]
         /\ q \in importErr' <=> q \in importErr
  <1> USE DEF TypeOK, Goto, Finish, callVars
  <1>1. CASE NewCall(p)
    <2>1. PICK c \in Call, stage \in {"begin", "delete", "get row", "list rows"} :
            Start(p, c, stage)
      BY <1>1, NewCalls
    <2> QED
      BY <2>1 DEF Start
  <1>2. CASE SetStep(p)
    <2>1. CASE SetBegin(p) \/ SetMissingURI(p)
      BY <2>1 DEF SetBegin, SetMissingURI
    <2>2. CASE SetDeleteContent(p) \/ ImportPackage(p) \/ ImportReturns(p) \/ SetDigest(p)
      BY <2>2 DEF SetDeleteContent, ImportPackage, ImportReturns, SetDigest, Statement
    <2>3. CASE SetLabels(p) \/ SetReservedLabel(p)
      BY <2>3 DEF SetLabels, SetReservedLabel, Statement
    <2>4. CASE SetLabelConflict(p) \/ SetCommit(p)
      BY <2>4 DEF SetLabelConflict, SetCommit, Rollback, Commit
    <2> QED
      BY <1>2, <2>1, <2>2, <2>3, <2>4 DEF SetStep
  <1>3. CASE DeleteStep(p)
    BY <1>3 DEF DeleteStep, DeleteBegin, DeleteCommit, Commit
  <1>4. CASE ReadStep(p)
    <2>1. CASE GetRow(p) \/ GetLabels(p)
      BY <2>1 DEF GetRow, GetLabels
    <2>2. CASE ListRows(p) \/ ListReturns(p)
      BY <2>2 DEF ListRows, ListReturns
    <2>3. CASE ListLabels(p)
      BY <2>3 DEF ListLabels
    <2> QED
      BY <1>4, <2>1, <2>2, <2>3 DEF ReadStep
  <1>5. CASE Fail(p) \/ Return(p)
    BY <1>5 DEF Fail, Return, Rollback
  <1> QED
    BY <1>1, <1>2, <1>3, <1>4, <1>5 DEF NewStep, Step

\* The databases change in the steps of a client that begins a transaction or has one.
LEMMA OthersWait ==
  ASSUME TypeOK, ConnectionInv, NEW p \in Clients, NEW q \in Clients, q # p,
         pc[q] \in TxStages, NewStep(p)
  PROVE  UNCHANGED <<db, work>>
  <1>1. conn = q /\ conn # None /\ pc[p] \notin TxStages
    BY StoreAssumption DEF ConnectionInv, ConnectionReturned
  <1>2. CASE NewCall(p) \/ Return(p)
    BY <1>2, NewCalls DEF Start, Return
  <1>3. CASE SetStep(p) \/ DeleteStep(p)
    BY <1>1, <1>3 DEF SetStep, SetBegin, SetMissingURI, SetDeleteContent, ImportPackage,
         ImportReturns, SetDigest, SetLabels, SetLabelConflict, SetReservedLabel, SetCommit,
         DeleteStep, DeleteBegin, DeleteCommit, Statement, TxStages
  <1>4. CASE ReadStep(p)
    BY <1>4 DEF ReadStep, GetRow, GetLabels, ListRows, ListLabels, ListReturns
  <1>5. CASE Fail(p)
    BY <1>1, <1>5 DEF Fail, Rollback
  <1> QED
    BY <1>2, <1>3, <1>4, <1>5 DEF NewStep, Step

\* A step of a client's own is one of the operation it is in.
LEMMA Moves ==
  ASSUME TypeOK, NEW p \in Clients, Step(p)
  PROVE  /\ call' = call
         /\ \/ pc[p] \in SetStages \cup {"begin"} /\ pc'[p] \in SetStages \cup {"done"}
            \/ pc[p] \in {"delete", "commit delete"} /\ pc'[p] \in {"commit delete", "done"}
            \/ pc[p] = "get row" /\ pc'[p] \in {"get labels", "done"}
            \/ pc[p] = "get labels" /\ pc'[p] = "done"
            \/ pc[p] = "list rows" /\ pc'[p] = "list labels"
            \/ pc[p] = "list labels" /\ pc'[p] \in {"list labels", "done"}
  <1> USE DEF TypeOK, Goto, Finish, callVars, SetStages
  <1>1. CASE SetStep(p)
    <2>1. CASE SetBegin(p) \/ SetMissingURI(p)
      BY <2>1 DEF SetBegin, SetMissingURI
    <2>2. CASE SetDeleteContent(p) \/ ImportPackage(p) \/ ImportReturns(p) \/ SetDigest(p)
      BY <2>2 DEF SetDeleteContent, ImportPackage, ImportReturns, SetDigest, Statement
    <2>3. CASE SetLabels(p) \/ SetReservedLabel(p)
      BY <2>3 DEF SetLabels, SetReservedLabel, Statement
    <2>4. CASE SetLabelConflict(p) \/ SetCommit(p)
      BY <2>4 DEF SetLabelConflict, SetCommit, Commit
    <2> QED
      BY <1>1, <2>1, <2>2, <2>3, <2>4 DEF SetStep
  <1>2. CASE DeleteStep(p)
    BY <1>2 DEF DeleteStep, DeleteBegin, DeleteCommit, Commit
  <1>3. CASE ReadStep(p)
    <2>1. CASE GetRow(p) \/ GetLabels(p)
      BY <2>1 DEF GetRow, GetLabels
    <2>2. CASE ListRows(p) \/ ListReturns(p)
      BY <2>2 DEF ListRows, ListReturns
    <2>3. CASE ListLabels(p)
      BY <2>3 DEF ListLabels
    <2> QED
      BY <1>3, <2>1, <2>2, <2>3 DEF ReadStep
  <1> QED
    BY <1>1, <1>2, <1>3 DEF Step

LEMMA OperationsPreserved ==
  ASSUME TypeOK, OperationInv, [Next]_vars
  PROVE  OperationInv'
  <1> USE DEF OperationInv
  <1>1. CASE UNCHANGED vars \/ Close
    BY <1>1 DEF vars, Close, OperationOf
  <1>2. CASE Crash
    BY <1>2 DEF Crash, OperationOf, NoCall, SetStages
  <1>3. ASSUME NEW p \in Clients, NewStep(p)
        PROVE  OperationInv'
    <2>1. ASSUME NEW q \in Clients, q # p
          PROVE  OperationOf(q)'
      BY <1>3, <2>1, OnesOwn DEF OperationOf
    <2>2. OperationOf(p)'
      <3> USE DEF TypeOK, Goto, SetStages
      <3>1. CASE NewCall(p)
        <4>1. PICK c \in Call, stage \in {"begin", "delete", "get row", "list rows"} :
                /\ Start(p, c, stage)
                /\ stage = "begin" => c.op = "set" /\ c.chain = <<>>
                /\ stage = "delete" => c.op = "delete" /\ c.chain = <<>>
                /\ stage = "get row" => c.op = "get"
                /\ stage = "list rows" => c.op = "list" /\ c.name = None
          BY <3>1, NewCalls
        <4>2. pc'[p] = stage /\ call'[p] = c
          BY <4>1 DEF Start
        <4> QED
          BY <4>1, <4>2 DEF OperationOf
      <3>2. CASE Step(p)
        BY <3>2, Moves DEF OperationOf
      <3>3. CASE Fail(p)
        BY <3>3 DEF OperationOf, Fail, Finish, callVars
      <3>4. CASE Return(p)
        BY <3>4 DEF OperationOf, Return, NoCall
      <3> QED
        BY <1>3, <3>1, <3>2, <3>3, <3>4 DEF NewStep
    <2> QED
      BY <2>1, <2>2
  <1> QED
    BY <1>1, <1>2, <1>3, StepCases

-----------------------------------------------------------------------------
LEMMA OutcomeFields ==
  \A status, catalogs : /\ Outcome(status, catalogs).status = status
                        /\ Outcome(status, catalogs).catalogs = catalogs
  BY DEF Outcome

(***************************************************************************)
(* What a Set returns.                                                     *)
(***************************************************************************)

\* A stage of a Set leaves the content alone, but for the first two.
LEMMA ContentOfStage ==
  ASSUME TypeOK, CallInv, NEW p \in Clients, SetDigest(p) \/ SetLabels(p) \/ SetReservedLabel(p)
  PROVE  /\ call' = call /\ importErr' = importErr
         /\ work'.content = work.content
  <1>1. CASE SetDigest(p)
    BY <1>1 DEF SetDigest, Statement, callVars, UpdateDigest, TypeOK, Tables
  <1>2. CASE SetLabels(p)
    BY <1>2 DEF SetLabels, Statement, callVars, ReplaceLabels, TypeOK, Tables
  <1>3. CASE SetReservedLabel(p)
    BY <1>3 DEF SetReservedLabel, callVars, PutReservedLabel, TypeOK, Tables
  <1> QED
    BY <1>1, <1>2, <1>3

LEMMA OwnResult ==
  ASSUME TypeOK, CallInv, ResultInv, NEW p \in Clients, NewStep(p)
  PROVE  ResultOf(p)'
  <1> USE DEF TypeOK, Goto
  <1>1. ASSUME pc'[p] \notin {"digest", "labels", "reserved label", "commit"}
        PROVE  ResultOf(p)'
    BY <1>1 DEF ResultOf
  <1>2. CASE SetBegin(p)
    BY <1>2 DEF SetBegin, ResultOf, callVars
  <1>3. CASE ImportReturns(p)
    BY <1>3 DEF ImportReturns, ResultOf, Complete, callVars
  <1>4. CASE SetDigest(p)
    <2>1. pc[p] = "digest" /\ pc'[p] = "labels"
      BY <1>4 DEF SetDigest, Statement
    <2> QED
      BY <1>4, <2>1, ContentOfStage DEF ResultOf, ResultInv
  <1>5. CASE SetLabels(p)
    <2>1. pc[p] = "labels" /\ pc'[p] = "reserved label"
      BY <1>5 DEF SetLabels, Statement
    <2> QED
      BY <1>5, <2>1, ContentOfStage DEF ResultOf, ResultInv
  <1>6. CASE SetReservedLabel(p)
    <2>1. ResultOf(p) /\ call' = call /\ work'.content = work.content
      BY <1>6, ContentOfStage DEF ResultInv
    <2> DEFINE status == IF p \in importErr THEN "partial" ELSE "ok"
               catalogs == {CatalogOf(work', call[p].name)}
    <2>2. pc[p] = "reserved label" /\ pc'[p] = "commit"
      BY <1>6 DEF SetReservedLabel
    <2>3. ret'[p] = Outcome(status, catalogs)
      BY <1>6 DEF SetReservedLabel
    <2>4. ret'[p].status = status /\ ret'[p].catalogs = catalogs
      <3> HIDE DEF status, catalogs
      <3> QED
        BY <2>3, OutcomeFields
    <2> QED
      BY <2>1, <2>2, <2>4 DEF ResultOf, CatalogOf
  <1>7. CASE NewCall(p)
    <2>1. PICK c \in Call, stage \in {"begin", "delete", "get row", "list rows"} :
            Start(p, c, stage)
      BY <1>7, NewCalls
    <2> QED
      BY <1>1, <2>1 DEF Start
  <1>8. CASE \/ SetMissingURI(p) \/ SetDeleteContent(p) \/ ImportPackage(p)
             \/ SetLabelConflict(p) \/ SetCommit(p)
    BY <1>1, <1>8 DEF SetMissingURI, SetDeleteContent, ImportPackage, SetLabelConflict,
         SetCommit, Statement, Finish
  <1>9. CASE DeleteStep(p)
    BY <1>1, <1>9 DEF DeleteStep, DeleteBegin, DeleteCommit, Finish
  <1>10. CASE ReadStep(p)
    <2>1. pc'[p] \in {"get labels", "list labels", "done"}
      <3>1. pc[p] \in ReadStages
        BY <1>10 DEF ReadStep, GetRow, GetLabels, ListRows, ListLabels, ListReturns, ReadStages
      <3> QED
        BY <1>10, <3>1, Moves DEF Step, ReadStages, SetStages
    <2> QED
      BY <1>1, <2>1
  <1>11. CASE Fail(p) \/ Return(p)
    BY <1>1, <1>11 DEF Fail, Return, Finish
  <1> QED
    BY <1>2, <1>3, <1>4, <1>5, <1>6, <1>7, <1>8, <1>9, <1>10, <1>11
    DEF NewStep, Step, SetStep

LEMMA ResultsPreserved ==
  ASSUME TypeOK, CallInv, ConnectionInv, ResultInv, [Next]_vars
  PROVE  ResultInv'
  <1>1. CASE UNCHANGED vars \/ Close
    BY <1>1 DEF vars, Close, ResultInv, ResultOf
  <1>2. CASE Crash
    BY <1>2 DEF Crash, ResultInv, ResultOf
  <1>3. ASSUME NEW p \in Clients, NewStep(p)
        PROVE  ResultInv'
    <2>1. ASSUME NEW q \in Clients, q # p
          PROVE  ResultOf(q)'
      <3>1. CASE pc[q] \in TxStages
        BY <1>3, <2>1, <3>1, OnesOwn, OthersWait DEF ResultOf, ResultInv
      <3>2. CASE pc[q] \notin TxStages
        BY <1>3, <2>1, <3>2, OnesOwn DEF ResultOf, TxStages
      <3> QED
        BY <3>1, <3>2
    <2> QED
      BY <1>3, <2>1, OwnResult DEF ResultInv
  <1> QED
    BY <1>1, <1>2, <1>3, StepCases

LEMMA InitialCalls == Init => CallsInv
  <1>1. Init => OperationInv /\ ResultInv
    BY DEF Init, OperationInv, OperationOf, ResultInv, ResultOf, NoCall, SetStages
  <1> QED
    BY <1>1, InitialInvariant DEF CallsInv

LEMMA CallsInvPreserved == CallsInv /\ [Next]_vars => CallsInv'
  BY InvariantPreserved, OperationsPreserved, ResultsPreserved DEF CallsInv, IInv

LEMMA CallsInvariance == Spec => []CallsInv
  BY InitialCalls, CallsInvPreserved, PTL DEF Spec

\* A client's call that changes the committed database succeeds, or reports a partial
\* import, and is over (Commit, sqlite.go:196-200 and 214).
LEMMA CommitSucceeds ==
  ASSUME CallsInv, [Next]_vars, db' # db
  PROVE  \E p \in Clients :
           /\ pc[p] \in TxStages
           /\ pc'[p] = "done"
           /\ ret'[p].status \in {"ok", "partial"}
  <1>1. PICK p \in Clients : SetCommit(p) \/ DeleteCommit(p)
    BY OnlyCommitsChange
  <1>2. CASE SetCommit(p)
    <2>1. pc[p] = "commit" /\ pc'[p] = "done" /\ ret'[p] = ret[p]
      BY <1>2 DEF SetCommit, Finish, Goto, CallsInv, IInv, TypeOK
    <2> QED
      BY <2>1 DEF CallsInv, ResultInv, ResultOf, TxStages
  <1>3. CASE DeleteCommit(p)
    <2>1. pc[p] = "commit delete" /\ pc'[p] = "done" /\ ret'[p].status = "ok"
      BY <1>3 DEF DeleteCommit, Finish, Goto, Outcome, CallsInv, IInv, TypeOK
    <2> QED
      BY <2>1 DEF TxStages
  <1> QED
    BY <1>1, <1>2, <1>3

\* The step in which a Set that does not fail is over is its Commit.
LEMMA SetEndsWithCommit ==
  ASSUME CallsInv, [Next]_vars, NEW p \in Clients,
         call[p].op = "set", pc[p] \in Stages, pc'[p] = "done",
         ret'[p].status # "error"
  PROVE  SetCommit(p)
  <1> USE DEF CallsInv, IInv, TypeOK, Goto
  <1>0. pc[p] # pc'[p]
    BY DEF Stages, TxStages, ReadStages
  <1>1. ~UNCHANGED vars /\ ~Close /\ ~Crash
    BY <1>0 DEF vars, Close, Crash
  <1>2. NewStep(p)
    BY <1>0, <1>1, StepCases, OnesOwn
  <1>3. ~NewCall(p) /\ ~Return(p)
    <2>1. ASSUME NewCall(p)
          PROVE  FALSE
      <3>1. PICK c \in Call, stage \in {"begin", "delete", "get row", "list rows"} :
              Start(p, c, stage)
        BY <2>1, NewCalls
      <3> QED
        BY <3>1 DEF Start
    <2> QED
      BY <2>1 DEF Return
  <1>4. ~Fail(p) /\ ~SetMissingURI(p) /\ ~SetLabelConflict(p)
    BY DEF Fail, SetMissingURI, SetLabelConflict, Finish, Outcome
  <1>5. pc[p] \in SetStages \cup {"begin"}
    <2>1. pc[p] \notin {"delete", "commit delete", "get row", "get labels", "list rows",
                       "list labels"}
      BY DEF OperationInv, OperationOf
    <2> QED
      BY <2>1 DEF Stages, TxStages, ReadStages, SetStages
  <1>6. SetStep(p)
    BY <1>2, <1>3, <1>4, <1>5 DEF NewStep, Step, DeleteStep, DeleteBegin, DeleteCommit, ReadStep,
         GetRow, GetLabels, ListRows, ListLabels, ListReturns, SetStages
  <1>7. ~SetBegin(p) /\ ~SetDeleteContent(p) /\ ~ImportPackage(p) /\ ~ImportReturns(p)
        /\ ~SetDigest(p) /\ ~SetLabels(p) /\ ~SetReservedLabel(p)
    BY DEF SetBegin, SetDeleteContent, ImportPackage, ImportReturns, SetDigest, SetLabels,
         SetReservedLabel, Statement
  <1> QED
    BY <1>4, <1>6, <1>7 DEF SetStep

\* A call that returns an error has changed nothing, and only its last step changes the
\* committed database (the deferred Rollback, sqlite.go:90 and 207).
THEOREM ErrorsCommitNothing == Spec => ErrorCommitsNothing
  <1> DEFINE Succeeds ==
        db' # db =>
          \E p \in Clients :
            /\ pc[p] \in TxStages
            /\ pc'[p] = "done"
            /\ ret'[p].status \in {"ok", "partial"}
  <1>1. CallsInv /\ [Next]_vars => [Succeeds]_vars
    BY CommitSucceeds
  <1> QED
    BY <1>1, CallsInvariance, PTL DEF Spec, ErrorCommitsNothing

\* The result of a Set that succeeds is the entry it committed, and content that is not
\* complete is reported as partial (sqlite.go:139-152 and 187-200).
THEOREM SetsReportWhatTheyCommit == Spec => SetReportsWhatItCommitted
  <1> DEFINE Reported(p) ==
        LET n == call[p].name
            imported == {i.package : i \in db'.content[n]}
        IN  (/\ call[p].op = "set"
             /\ pc[p] \in Stages
             /\ pc'[p] = "done"
             /\ ret'[p].status # "error")
            => /\ ret'[p].catalogs = {CatalogOf(db', n)}
               /\ (call[p].cfg.content # None /\ imported # Packages)
                    => ret'[p].status = "partial"
  <1>1. ASSUME CallsInv, [Next]_vars, NEW p \in Clients
        PROVE  Reported(p)
    <2>1. SUFFICES ASSUME /\ call[p].op = "set"
                          /\ pc[p] \in Stages
                          /\ pc'[p] = "done"
                          /\ ret'[p].status # "error"
                   PROVE  Reported(p)
      OBVIOUS
    <2>2. SetCommit(p)
      BY <1>1, <2>1, SetEndsWithCommit
    <2>3. pc[p] = "commit" /\ db' = work /\ ret'[p] = ret[p]
      BY <1>1, <2>2 DEF SetCommit, Commit, Finish, CallsInv, IInv, TypeOK
    <2>4. ResultOf(p)
      BY <1>1 DEF CallsInv, ResultInv
    <2> QED
      BY <2>3, <2>4 DEF ResultOf, Complete
  <1>2. CallsInv /\ [Next]_vars => [\A p \in Clients : Reported(p)]_vars
    BY <1>1
  <1> QED
    BY <1>2, CallsInvariance, PTL DEF Spec, SetReportsWhatItCommitted

-----------------------------------------------------------------------------
(***************************************************************************)
(* What a Get and a List return.                                           *)
(***************************************************************************)

\* What a step of one client does to the history of another: a commit is appended to it if
\* the other is reading.
LEMMA OthersHistory ==
  ASSUME TypeOK, NEW p \in Clients, NEW q \in Clients, q # p, NewStep(p)
  PROVE  \/ db' = db /\ seen'[q] = seen[q]
         \/ seen'[q] = IF pc[q] \in ReadStages THEN Append(seen[q], db') ELSE seen[q]
  <1> USE DEF TypeOK, callVars
  <1>1. CASE NewCall(p)
    <2>1. PICK c \in Call, stage \in {"begin", "delete", "get row", "list rows"} :
            Start(p, c, stage)
      BY <1>1, NewCalls
    <2> QED
      BY <2>1 DEF Start
  <1>2. CASE SetCommit(p) \/ DeleteCommit(p)
    BY <1>2 DEF SetCommit, DeleteCommit, Commit
  <1>3. CASE SetStep(p) /\ ~SetCommit(p)
    BY <1>3 DEF SetStep, SetBegin, SetMissingURI, SetDeleteContent, ImportPackage,
         ImportReturns, SetDigest, SetLabels, SetLabelConflict, SetReservedLabel, Statement
  <1>4. CASE DeleteStep(p) /\ ~DeleteCommit(p)
    BY <1>4 DEF DeleteStep, DeleteBegin
  <1>5. CASE ReadStep(p)
    BY <1>5 DEF ReadStep, GetRow, GetLabels, ListRows, ListLabels, ListReturns
  <1>6. CASE Fail(p) \/ Return(p)
    BY <1>6 DEF Fail, Return
  <1> QED
    BY <1>1, <1>2, <1>3, <1>4, <1>5, <1>6 DEF NewStep, Step

\* What was read stays true of a longer history.
LEMMA LongerHistory ==
  ASSUME NEW q \in Clients, ReadOf(q),
         pc'[q] = pc[q], call'[q] = call[q], ret'[q] = ret[q], cursor'[q] = cursor[q],
         DOMAIN seen[q] \subseteq DOMAIN seen'[q],
         \A i \in DOMAIN seen[q] : seen'[q][i] = seen[q][i]
  PROVE  GetOf(q)' /\ ListOf(q)' /\ DoneOf(q)'
  <1>1. GetOf(q)'
    BY DEF ReadOf, GetOf
  <1>2. ASSUME NEW i \in DOMAIN seen[q], NEW c, LabelsSince(q, i, c)
        PROVE  LabelsSince(q, i, c)'
    BY <1>2 DEF LabelsSince
  <1>3. ListOf(q)'
    <2>1. CASE pc[q] = "list labels"
      <3>1. PICK i \in DOMAIN seen[q] :
              /\ {RowOfCatalog(c) : c \in ret[q].catalogs} \cup cursor[q] = RowsOf(seen[q][i])
              /\ \A c \in ret[q].catalogs : LabelsSince(q, i, c)
        BY <2>1 DEF ReadOf, ListOf
      <3>2. \A c \in ret'[q].catalogs : LabelsSince(q, i, c)'
        BY <1>2, <3>1
      <3>3. i \in DOMAIN seen'[q] /\ seen'[q][i] = seen[q][i]
        OBVIOUS
      <3> QED
        BY <2>1, <3>1, <3>2, <3>3 DEF ReadOf, ListOf
    <2> QED
      BY <2>1 DEF ListOf
  <1>4. Answered(q, {"get"}) => GetAnswered(q)'
    BY DEF ReadOf, DoneOf, GetAnswered
  <1>5. Answered(q, {"list"}) => ListAnswered(q)'
    <2>1. CASE Answered(q, {"list"})
      <3>1. PICK all \in SUBSET CatalogValue, i \in DOMAIN seen[q] :
              /\ {RowOfCatalog(c) : c \in all} = RowsOf(seen[q][i])
              /\ \A c \in all : LabelsSince(q, i, c)
              /\ ret[q].catalogs = {c \in all : Matches(Selector(call[q].chain), c.labels)}
        BY <2>1 DEF ReadOf, DoneOf, ListAnswered
      <3>2. \A c \in all : LabelsSince(q, i, c)'
        BY <1>2, <3>1
      <3>3. i \in DOMAIN seen'[q] /\ seen'[q][i] = seen[q][i]
        OBVIOUS
      <3> QED
        BY <3>1, <3>2, <3>3 DEF ListAnswered
    <2> QED
      BY <2>1
  <1>5a. Answered(q, {"get"})' => Answered(q, {"get"})
    BY DEF Answered
  <1>5b. Answered(q, {"list"})' => Answered(q, {"list"})
    BY DEF Answered
  <1>6. DoneOf(q)'
    BY <1>4, <1>5, <1>5a, <1>5b DEF ReadOf, DoneOf
  <1> QED
    BY <1>1, <1>3, <1>6

LEMMA OthersRead ==
  ASSUME TypeOK, TypeOK', EntriesInv', ReadInv,
         NEW p \in Clients, NEW q \in Clients, q # p, NewStep(p)
  PROVE  ReadOf(q)'
  <1>1. /\ pc'[q] = pc[q] /\ call'[q] = call[q] /\ ret'[q] = ret[q]
        /\ cursor'[q] = cursor[q]
    BY OnesOwn
  <1>2. seen[q] \in Seq(Tables) /\ db' \in Tables
    BY DEF TypeOK
  <1>3. ReadOf(q) /\ SeenOf(q)
    BY DEF ReadInv, ReadOf
  <1>4. ReservedIn(db')
    BY DEF EntriesInv, ReservedLabel, ReservedIn
  <1>5. CASE db' = db /\ seen'[q] = seen[q]
    <2>1. SeenOf(q)'
      BY <1>1, <1>3, <1>5 DEF SeenOf
    <2> QED
      BY <1>1, <1>3, <1>5, <2>1, LongerHistory DEF ReadOf
  <1>6. CASE pc[q] \notin ReadStages /\ seen'[q] = seen[q]
    <2>1. SeenOf(q)'
      BY <1>1, <1>3, <1>6 DEF SeenOf
    <2> QED
      BY <1>1, <1>3, <1>6, <2>1, LongerHistory DEF ReadOf
  <1>7. CASE seen'[q] = Append(seen[q], db')
    <2>1. /\ DOMAIN seen[q] \subseteq DOMAIN seen'[q]
          /\ \A i \in DOMAIN seen[q] : seen'[q][i] = seen[q][i]
          /\ Len(seen'[q]) = Len(seen[q]) + 1
          /\ Len(seen[q]) \in Nat
          /\ seen'[q][Len(seen'[q])] = db'
          /\ \A i \in DOMAIN seen'[q] : i \in DOMAIN seen[q] \/ i = Len(seen'[q])
      BY <1>2, <1>7
    <2>2. \A i \in DOMAIN seen'[q] : ReservedIn(seen'[q][i])
      BY <1>3, <1>4, <2>1 DEF SeenOf
    <2>3. SeenOf(q)'
      BY <2>1, <2>2 DEF SeenOf, ReservedIn
    <2> QED
      BY <1>1, <1>3, <2>1, <2>3, LongerHistory DEF ReadOf
  <1> QED
    BY <1>5, <1>6, <1>7, OthersHistory

\* The last database a reader has met is the committed one.
LEMMA LastMet ==
  ASSUME TypeOK, NEW p \in Clients, SeenOf(p), pc[p] \in ReadStages
  PROVE  /\ Len(seen[p]) \in DOMAIN seen[p]
         /\ seen[p][Len(seen[p])] = db
         /\ \A i \in DOMAIN seen[p] : i <= Len(seen[p])
  <1>1. seen[p] \in Seq(Tables) /\ Len(seen[p]) > 0
    BY DEF TypeOK, SeenOf
  <1> QED
    BY <1>1 DEF SeenOf

\* The statements of a Get.
LEMMA GetReads ==
  ASSUME TypeOK, CallInv, OperationInv, ReadInv, NEW p \in Clients, GetRow(p) \/ GetLabels(p)
  PROVE  ReadOf(p)'
  <1> DEFINE n == call[p].name
             last == Len(seen[p])
  <1>1. /\ pc[p] \in {"get row", "get labels"}
        /\ db' = db /\ call' = call /\ seen' = seen
    BY DEF GetRow, GetLabels, callVars
  <1>2. n \in Names /\ call[p].op = "get"
    BY <1>1 DEF CallInv, OperationInv, OperationOf
  <1>3. SeenOf(p) /\ GetOf(p)
    BY DEF ReadInv, ReadOf
  <1>4. /\ last \in DOMAIN seen[p] /\ seen[p][last] = db
        /\ \A i \in DOMAIN seen[p] : i <= last
    BY <1>1, <1>3, LastMet DEF ReadStages
  <1>5. SeenOf(p)'
    BY <1>1, <1>3, <1>4 DEF SeenOf, ReadStages
  <1>6. CASE GetRow(p) /\ n \in Present(db)
    <2>1. /\ cursor'[p] = {RowOf(db, n)} /\ pc'[p] = "get labels"
      BY <1>6 DEF GetRow, Goto, RowOf, TypeOK
    <2>2. GetOf(p)'
      BY <1>1, <1>4, <1>6, <2>1 DEF GetOf
    <2> QED
      BY <1>5, <2>1, <2>2 DEF ReadOf, ListOf, DoneOf, Answered
  <1>7. CASE GetRow(p) /\ n \notin Present(db)
    <2>1. /\ pc'[p] = "done" /\ ret'[p] = Outcome("not found", {})
      BY <1>7 DEF GetRow, Finish, Goto, TypeOK
    <2>2. ret'[p].catalogs = {} /\ ret'[p].status = "not found"
      BY <2>1, OutcomeFields
    <2>3. GetAnswered(p)'
      <3>1. seen[p] = seen'[p] /\ n = call'[p].name
        BY <1>1
      <3>2. last \in DOMAIN seen'[p] /\ n \notin Present(seen'[p][last])
        BY <1>4, <1>7, <3>1
      <3> HIDE DEF n, last
      <3> QED
        BY <1>2, <2>2, <3>1, <3>2 DEF GetAnswered
    <2> QED
      BY <1>1, <1>2, <1>5, <2>1, <2>2, <2>3 DEF ReadOf, GetOf, ListOf, DoneOf, Answered
  <1>8. CASE GetLabels(p)
    <2> DEFINE labels == db.labels[n]
               selector == Selector(call[p].chain)
               found == {[name |-> r.name, row |-> r.row, labels |-> labels] : r \in cursor[p]}
    <2>1. PICK i \in DOMAIN seen[p] : /\ n \in Present(seen[p][i])
                                      /\ cursor[p] = {RowOf(seen[p][i], n)}
      BY <1>3, <1>8 DEF GetLabels, GetOf
    <2>2. found = {[name |-> n, row |-> seen[p][i].metadata[n], labels |-> labels]}
      BY <2>1 DEF RowOf
    <2>3. /\ pc'[p] = "done"
          /\ ret'[p] = IF Matches(selector, labels) THEN Outcome("ok", found)
                                                    ELSE Outcome("not found", {})
      BY <1>8 DEF GetLabels, Finish, Goto, TypeOK
    <2>4. GetAnswered(p)'
      <3>1. CASE Matches(selector, labels)
        <4>1. ret'[p].catalogs = found
          <5> HIDE DEF found
          <5> QED
            BY <2>3, <3>1, OutcomeFields
        <4>2. ret'[p].catalogs = {[name |-> n, row |-> seen[p][i].metadata[n],
                                   labels |-> seen[p][last].labels[n]]}
          BY <1>4, <2>2, <4>1
        <4>3. i <= last /\ Matches(selector, seen[p][last].labels[n])
          BY <1>4, <3>1
        <4>4. seen'[p] = seen[p] /\ call'[p].name = n /\ call'[p] = call[p]
          BY <1>1
        <4>5. \E k, m \in DOMAIN seen[p] :
                /\ k <= m /\ n \in Present(seen[p][k])
                /\ Matches(selector, seen[p][m].labels[n])
                /\ ret'[p].catalogs = {[name |-> n, row |-> seen[p][k].metadata[n],
                                        labels |-> seen[p][m].labels[n]]}
          <5> HIDE DEF n, last, selector, labels, found
          <5> QED
            BY <1>4, <2>1, <4>2, <4>3
        <4> HIDE DEF last, found
        <4> QED
          BY ONLY <1>2, <4>4, <4>5, Zenon DEF GetAnswered
      <3>2. CASE ~Matches(selector, labels)
        <4>1. ret'[p].catalogs = {}
          <5> HIDE DEF found
          <5> QED
            BY <2>3, <3>2, OutcomeFields
        <4>2. ~Matches(selector, seen[p][last].labels[n])
          BY <1>4, <3>2
        <4>3. seen'[p] = seen[p] /\ call'[p].name = n /\ call'[p] = call[p]
          BY <1>1
        <4>4. last \in DOMAIN seen[p]
          BY <1>4
        <4>5. \E k \in DOMAIN seen[p] :
                \/ n \notin Present(seen[p][k])
                \/ ~Matches(selector, seen[p][k].labels[n])
          BY ONLY <4>2, <4>4, Zenon
        <4>6. selector = Selector(call'[p].chain)
          BY <4>3, Zenon
        <4> HIDE DEF n, last, found, selector
        <4> QED
          BY ONLY <1>2, <4>1, <4>3, <4>5, <4>6, Zenon DEF GetAnswered
      <3> QED
        BY <3>1, <3>2
    <2>5. ret'[p].status # "error"
      <3>1. ret'[p].status \in {"ok", "not found"}
        <4> HIDE DEF found, selector, labels
        <4>1. ret'[p] = Outcome("ok", found) \/ ret'[p] = Outcome("not found", {})
          BY ONLY <2>3, Zenon
        <4> HIDE DEF n, last
        <4> QED
          BY ONLY <4>1, OutcomeFields, Zenon
      <3> QED
        BY <3>1
    <2> QED
      BY <1>1, <1>2, <1>5, <2>3, <2>4, <2>5 DEF ReadOf, GetOf, ListOf, DoneOf, Answered
  <1> QED
    BY <1>6, <1>7, <1>8

\* The statements of a List.
LEMMA ListReads ==
  ASSUME TypeOK, OperationInv, ReadInv, NEW p \in Clients,
         ListRows(p) \/ ListLabels(p) \/ ListReturns(p)
  PROVE  ReadOf(p)'
  <1> DEFINE last == Len(seen[p])
  <1>1. /\ pc[p] \in {"list rows", "list labels"}
        /\ db' = db /\ call' = call /\ seen' = seen
    BY DEF ListRows, ListLabels, ListReturns, callVars
  <1>2. call[p].op = "list"
    BY <1>1 DEF OperationInv, OperationOf
  <1>3. SeenOf(p) /\ ListOf(p)
    BY DEF ReadInv, ReadOf
  <1>4. /\ last \in DOMAIN seen[p] /\ seen[p][last] = db
        /\ \A i \in DOMAIN seen[p] : i <= last
    BY <1>1, <1>3, LastMet DEF ReadStages
  <1>5. SeenOf(p)'
    BY <1>1, <1>3, <1>4 DEF SeenOf, ReadStages
  <1>6. CASE ListRows(p)
    <2>1. /\ pc'[p] = "list labels" /\ cursor'[p] = RowsOf(db) /\ ret'[p] = Outcome("ok", {})
      BY <1>6 DEF ListRows, Goto, RowsOf, RowOf, TypeOK
    <2>2. ret'[p].catalogs = {} /\ ret'[p].status = "ok"
      BY <2>1, OutcomeFields
    <2>3. {RowOfCatalog(c) : c \in ret'[p].catalogs} \cup cursor'[p] = RowsOf(seen[p][last])
      BY <1>4, <2>1, <2>2
    <2> HIDE DEF last
    <2>4. ListOf(p)'
      BY <1>1, <1>4, <2>2, <2>3 DEF ListOf
    <2> QED
      BY <1>5, <2>1, <2>4 DEF ReadOf, GetOf, DoneOf, Answered
  <1>7. ASSUME pc[p] = "list labels"
        PROVE  \E i \in DOMAIN seen[p] :
                 /\ {RowOfCatalog(c) : c \in ret[p].catalogs} \cup cursor[p] = RowsOf(seen[p][i])
                 /\ \A c \in ret[p].catalogs : LabelsSince(p, i, c)
    BY <1>3, <1>7 DEF ListOf
  <1>8. CASE ListLabels(p)
    <2> DEFINE Labelled(r) == [name |-> r.name, row |-> r.row, labels |-> db.labels[r.name]]
    <2>1. PICK r \in cursor[p] : /\ cursor' = [cursor EXCEPT ![p] = @ \ {r}]
                                 /\ ret' = [ret EXCEPT ![p].catalogs = @ \cup {Labelled(r)}]
      BY <1>8 DEF ListLabels
    <2>2. pc[p] = "list labels" /\ pc' = pc /\ r \in [name: Names, row: Row]
      BY <1>8 DEF ListLabels, TypeOK
    <2>3. PICK i \in DOMAIN seen[p] :
            /\ {RowOfCatalog(c) : c \in ret[p].catalogs} \cup cursor[p] = RowsOf(seen[p][i])
            /\ \A c \in ret[p].catalogs : LabelsSince(p, i, c)
      BY <1>7, <2>2
    <2>4. ret'[p].status = "ok" /\ ret'[p].catalogs = ret[p].catalogs \cup {Labelled(r)}
      <3> HIDE DEF Labelled
      <3> QED
        BY <1>3, <2>1, <2>2 DEF ListOf, TypeOK, Result
    <2>5. RowOfCatalog(Labelled(r)) = r
      BY <2>2 DEF RowOfCatalog
    <2>6. LabelsSince(p, i, Labelled(r))
      BY <1>4 DEF LabelsSince
    <2> HIDE DEF Labelled
    <2>7. cursor'[p] = cursor[p] \ {r}
      BY <2>1 DEF TypeOK
    <2>8. {RowOfCatalog(c) : c \in ret'[p].catalogs}
            = {RowOfCatalog(c) : c \in ret[p].catalogs} \cup {r}
      BY <2>4, <2>5
    <2>9. {RowOfCatalog(c) : c \in ret'[p].catalogs} \cup cursor'[p] = RowsOf(seen[p][i])
      BY <2>1, <2>3, <2>7, <2>8
    <2>10. \A c \in ret'[p].catalogs : LabelsSince(p, i, c)'
      <3>1. \A c \in ret'[p].catalogs : LabelsSince(p, i, c)
        BY <2>3, <2>4, <2>6
      <3> QED
        BY <1>1, <3>1 DEF LabelsSince
    <2>11. ListOf(p)'
      BY <1>1, <2>4, <2>9, <2>10 DEF ListOf
    <2> QED
      BY <1>5, <2>2, <2>11 DEF ReadOf, GetOf, DoneOf, Answered
  <1>9. CASE ListReturns(p)
    <2> DEFINE all == ret[p].catalogs
               matching == {c \in all : Matches(Selector(call[p].chain), c.labels)}
    <2>1. /\ pc[p] = "list labels" /\ cursor[p] = {} /\ pc'[p] = "done"
          /\ ret'[p] = Outcome("ok", matching)
      BY <1>9 DEF ListReturns, Finish, Goto, TypeOK
    <2>2. PICK i \in DOMAIN seen[p] :
            /\ {RowOfCatalog(c) : c \in all} \cup cursor[p] = RowsOf(seen[p][i])
            /\ \A c \in all : LabelsSince(p, i, c)
      BY <1>7, <2>1
    <2>3. ret'[p].status = "ok" /\ ret'[p].catalogs = matching
      <3>1. ret'[p] = Outcome("ok", matching)
        BY <2>1
      <3> HIDE DEF matching
      <3> QED
        BY ONLY <3>1, OutcomeFields
    <2>4. all \in SUBSET CatalogValue
      BY DEF TypeOK, Result
    <2>5. {RowOfCatalog(c) : c \in all} = RowsOf(seen'[p][i])
      BY <1>1, <2>1, <2>2
    <2>6. \A c \in all : LabelsSince(p, i, c)'
      BY <1>1, <2>2 DEF LabelsSince
    <2>7. ret'[p].catalogs = {c \in all : Matches(Selector(call'[p].chain), c.labels)}
      BY <1>1, <2>3
    <2>8. ListAnswered(p)'
      <3> HIDE DEF all
      <3> QED
        BY <1>1, <2>4, <2>5, <2>6, <2>7 DEF ListAnswered
    <2> QED
      BY <1>1, <1>2, <1>5, <2>1, <2>3, <2>8 DEF ReadOf, GetOf, ListOf, DoneOf, Answered
  <1> QED
    BY <1>6, <1>8, <1>9

LEMMA FirstMet ==
  ASSUME NEW s, NEW t, s = <<t>>
  PROVE  DOMAIN s = {1} /\ s[1] = t /\ Len(s) > 0 /\ s[Len(s)] = t
  OBVIOUS

LEMMA NoneMet ==
  ASSUME NEW s, s = <<>>
  PROVE  DOMAIN s = {}
  OBVIOUS

LEMMA OwnRead ==
  ASSUME TypeOK, CallInv, OperationInv, ResultInv, EntriesInv, ReadInv, NEW p \in Clients, NewStep(p)
  PROVE  ReadOf(p)'
  <1> USE DEF TypeOK, Goto, Finish, callVars
  <1>1. ReadOf(p) /\ SeenOf(p)
    BY DEF ReadInv, ReadOf
  <1>2. CASE NewCall(p)
    <2>1. PICK c \in Call, stage \in {"begin", "delete", "get row", "list rows"} :
            Start(p, c, stage)
      BY <1>2, NewCalls
    <2>2. /\ pc'[p] = stage /\ db' = db
          /\ seen'[p] = IF stage \in ReadStages THEN <<db>> ELSE <<>>
      BY <2>1 DEF Start
    <2> HIDE DEF TypeOK
    <2>3. SeenOf(p)'
      <3>1. ReservedIn(db)
        BY DEF EntriesInv, ReservedLabel, ReservedIn
      <3>2. CASE stage \in ReadStages
        <4>1. seen'[p] = <<db>>
          BY <2>2, <3>2
        <4>2. /\ DOMAIN seen'[p] = {1} /\ seen'[p][1] = db
              /\ Len(seen'[p]) > 0 /\ seen'[p][Len(seen'[p])] = db
          BY ONLY <4>1, FirstMet
        <4>3. \A i \in DOMAIN seen'[p] : ReservedIn(seen'[p][i])
          BY <3>1, <4>2
        <4>4. db' = db
          BY <2>2
        <4> QED
          BY ONLY <4>2, <4>3, <4>4 DEF SeenOf, ReservedIn
      <3>3. CASE stage \notin ReadStages
        <4>1. seen'[p] = <<>>
          BY <2>2, <3>3
        <4>2. DOMAIN seen'[p] = {} /\ pc'[p] \notin ReadStages
          BY <2>2, <3>3, <4>1, NoneMet
        <4> QED
          BY <4>2 DEF SeenOf
      <3> QED
        BY <3>2, <3>3
    <2> QED
      BY <2>2, <2>3 DEF ReadOf, GetOf, ListOf, DoneOf, Answered
  <1>3. ASSUME pc'[p] \notin ReadStages, seen'[p] = seen[p], DoneOf(p)'
        PROVE  ReadOf(p)'
    <2>1. SeenOf(p)'
      BY <1>1, <1>3 DEF SeenOf, ReservedIn
    <2> QED
      BY <1>3, <2>1 DEF ReadOf, GetOf, ListOf, ReadStages
  <1>4. ASSUME pc'[p] = "done", seen'[p] = seen[p], ret'[p] = Outcome("error", {})
        PROVE  ReadOf(p)'
    <2>1. ret'[p].catalogs = {} /\ ret'[p].status = "error"
      BY ONLY <1>4, OutcomeFields
    <2> QED
      BY <1>3, <1>4, <2>1 DEF DoneOf, Answered, ReadStages
  <1>5. ASSUME pc'[p] \notin ReadStages \cup {"done"}, seen'[p] = seen[p]
        PROVE  ReadOf(p)'
    BY <1>3, <1>5 DEF DoneOf, Answered
  <1>6. CASE ReadStep(p)
    BY <1>6, GetReads, ListReads DEF ReadStep
  <1>7. CASE Return(p)
    BY <1>7 DEF Return, ReadOf, SeenOf, GetOf, ListOf, DoneOf, Answered, ReadStages
  <1>8. CASE Fail(p)
    BY <1>4, <1>8 DEF Fail
  <1>9. CASE SetMissingURI(p) \/ SetLabelConflict(p)
    BY <1>4, <1>9 DEF SetMissingURI, SetLabelConflict
  <1>10. CASE SetBegin(p) \/ SetReservedLabel(p) \/ ImportReturns(p) \/ DeleteBegin(p)
    BY <1>5, <1>10
    DEF SetBegin, SetReservedLabel, ImportReturns, DeleteBegin, ReadStages
  <1>11. CASE SetDeleteContent(p) \/ ImportPackage(p) \/ SetDigest(p) \/ SetLabels(p)
    BY <1>5, <1>11
    DEF SetDeleteContent, ImportPackage, SetDigest, SetLabels, Statement, ReadStages
  <1>12. CASE SetCommit(p) \/ DeleteCommit(p)
    <2>1. /\ pc[p] \in {"commit", "commit delete"} /\ pc'[p] = "done"
          /\ call' = call /\ seen'[p] = seen[p]
      BY <1>12 DEF SetCommit, DeleteCommit, Commit, ReadStages
    <2>2. call'[p].op \in {"set", "delete"}
      BY <2>1 DEF OperationInv, OperationOf, SetStages
    <2>3. ret'[p].status # "error"
      <3>1. CASE SetCommit(p)
        BY <3>1 DEF SetCommit, ResultInv, ResultOf
      <3>2. CASE DeleteCommit(p)
        BY <3>2, OutcomeFields DEF DeleteCommit
      <3> QED
        BY <1>12, <3>1, <3>2
    <2> QED
      BY <1>3, <2>1, <2>2, <2>3 DEF DoneOf, Answered, ReadStages
  <1> QED
    BY <1>2, <1>6, <1>7, <1>8, <1>9, <1>10, <1>11, <1>12 DEF NewStep, Step, SetStep, DeleteStep

LEMMA ReadsPreserved ==
  ASSUME CallsInv, ReadInv, [Next]_vars
  PROVE  ReadInv'
  <1>1. TypeOK' /\ EntriesInv'
    BY InvariantPreserved DEF CallsInv, IInv
  <1>2. CASE UNCHANGED vars \/ Close
    <2>1. ASSUME NEW p \in Clients
          PROVE  ReadOf(p)'
      <3>1. ReadOf(p) /\ UNCHANGED <<db, pc, call, cursor, ret, seen>>
        BY <1>2 DEF ReadInv, vars, Close
      <3>2. SeenOf(p)'
        BY <3>1 DEF ReadOf, SeenOf, ReservedIn
      <3> QED
        BY <3>1, <3>2, LongerHistory DEF ReadOf
    <2> QED
      BY <2>1 DEF ReadInv
  <1>3. CASE Crash
    <2>1. ASSUME NEW p \in Clients
          PROVE  pc'[p] = "idle" /\ DOMAIN seen'[p] = {}
      BY <1>3, NoneMet DEF Crash
    <2>2. ASSUME NEW p \in Clients
          PROVE  ReadOf(p)'
      BY <2>1 DEF ReadOf, SeenOf, GetOf, ListOf, DoneOf, Answered, ReadStages
    <2> QED
      BY <2>2 DEF ReadInv
  <1>4. ASSUME NEW p \in Clients, NewStep(p)
        PROVE  ReadInv'
    <2>1. ReadOf(p)'
      BY <1>4, OwnRead DEF CallsInv, IInv
    <2>2. ASSUME NEW q \in Clients, q # p
          PROVE  ReadOf(q)'
      BY <1>1, <1>4, <2>2, OthersRead DEF CallsInv, IInv
    <2> QED
      BY <2>1, <2>2 DEF ReadInv
  <1> QED
    BY <1>2, <1>3, <1>4, StepCases

LEMMA ReadsInvariance == Spec => [](CallsInv /\ ReadInv)
  <1>1. Init => ReadInv
    <2>1. ASSUME Init, NEW p \in Clients
          PROVE  ReadOf(p)
      <3>1. pc[p] = "idle" /\ DOMAIN seen[p] = {}
        BY <2>1, NoneMet DEF Init
      <3> QED
        BY <3>1 DEF ReadOf, SeenOf, GetOf, ListOf, DoneOf, Answered, ReadStages
    <2> QED
      BY <2>1 DEF ReadInv
  <1> QED
    BY <1>1, InitialCalls, CallsInvPreserved, ReadsPreserved, PTL DEF Spec

\* A Catalog of a List that answers: its row is that of the one database, and its labels
\* are of that database or a later one.
LEMMA ListedCatalog ==
  ASSUME TypeOK, NEW p \in Clients, ListAnswered(p), NEW c \in ret[p].catalogs
  PROVE  \E i, j \in DOMAIN seen[p] :
           /\ i <= j
           /\ c.row = seen[p][i].metadata[c.name]
           /\ c.labels = seen[p][j].labels[c.name]
  <1>1. PICK all \in SUBSET CatalogValue, i \in DOMAIN seen[p] :
          /\ {RowOfCatalog(d) : d \in all} = RowsOf(seen[p][i])
          /\ \A d \in all : LabelsSince(p, i, d)
          /\ ret[p].catalogs = {d \in all : Matches(Selector(call[p].chain), d.labels)}
    BY DEF ListAnswered
  <1>2. c \in all
    BY <1>1
  <1>3. RowOfCatalog(c) \in RowsOf(seen[p][i])
    BY <1>1, <1>2
  <1>4. PICK n : RowOfCatalog(c) = RowOf(seen[p][i], n)
    BY <1>3 DEF RowsOf
  <1>5. c.name = n /\ c.row = seen[p][i].metadata[n]
    BY <1>4 DEF RowOfCatalog, RowOf
  <1>6. PICK j \in DOMAIN seen[p] : i <= j /\ c.labels = seen[p][j].labels[c.name]
    BY <1>1, <1>2 DEF LabelsSince
  <1> QED
    BY <1>5, <1>6

\* A Catalog of a Get or a List is a committed row with committed labels that are not
\* older (Get and List, sqlite.go:198-252 and 268-326).
THEOREM ReadersSeeCommitted == Spec => []ReadsCommitted
  <1>1. ASSUME CallsInv, ReadInv, NEW p \in Clients, Answered(p, {"get", "list"}),
               NEW c \in ret[p].catalogs
        PROVE  \E i, j \in 1..Len(seen[p]) :
                 /\ i <= j
                 /\ c.row = seen[p][i].metadata[c.name]
                 /\ c.labels = seen[p][j].labels[c.name]
    <2>1. TypeOK /\ DoneOf(p) /\ DOMAIN seen[p] = 1..Len(seen[p])
      BY <1>1 DEF CallsInv, IInv, TypeOK, ReadInv, ReadOf
    <2>2. CASE Answered(p, {"get"})
      <3>1. GetAnswered(p) /\ ret[p].catalogs # {}
        BY <1>1, <2>1, <2>2 DEF DoneOf
      <3>2. PICK i, j \in DOMAIN seen[p] :
              /\ i <= j
              /\ ret[p].catalogs = {[name |-> call[p].name, row |-> seen[p][i].metadata[call[p].name],
                                     labels |-> seen[p][j].labels[call[p].name]]}
        BY <3>1 DEF GetAnswered
      <3>3. c = [name |-> call[p].name, row |-> seen[p][i].metadata[call[p].name],
                 labels |-> seen[p][j].labels[call[p].name]]
        BY <1>1, <3>2
      <3> QED
        BY <2>1, <3>2, <3>3
    <2>3. CASE Answered(p, {"list"})
      <3>1. ListAnswered(p)
        BY <2>1, <2>3 DEF DoneOf
      <3> QED
        BY <1>1, <2>1, <3>1, ListedCatalog
    <2> QED
      BY <1>1, <2>2, <2>3 DEF Answered
  <1>2. CallsInv /\ ReadInv => ReadsCommitted
    BY <1>1 DEF ReadsCommitted
  <1> QED
    BY <1>2, ReadsInvariance, PTL

\* Whatever is written while a List on the store itself runs, its rows are those of one
\* committed database (List, sqlite.go:219-252).
THEOREM ListsAreOneState == Spec => []ListIsOneState
  <1>1. ASSUME CallsInv, ReadInv, NEW p \in Clients, Answered(p, {"list"}),
               call[p].chain = <<>>
        PROVE  \E i \in 1..Len(seen[p]) :
                 {[name |-> c.name, row |-> c.row] : c \in ret[p].catalogs} =
                   {[name |-> n, row |-> seen[p][i].metadata[n]] : n \in Present(seen[p][i])}
    <2>1. DOMAIN seen[p] = 1..Len(seen[p]) /\ ListAnswered(p)
      BY <1>1 DEF CallsInv, IInv, TypeOK, ReadInv, ReadOf, DoneOf
    <2>2. PICK all \in SUBSET CatalogValue, i \in DOMAIN seen[p] :
            /\ {RowOfCatalog(c) : c \in all} = RowsOf(seen[p][i])
            /\ ret[p].catalogs = {c \in all : Matches(Selector(call[p].chain), c.labels)}
      BY <2>1 DEF ListAnswered
    <2>3. Selector(call[p].chain) = {} /\ {} # Nothing
      BY <1>1, DataAssumption DEF Selector
    <2>4. ret[p].catalogs = all
      BY <2>2, <2>3 DEF Matches
    <2> QED
      BY <2>1, <2>2, <2>4 DEF RowOfCatalog, RowsOf, RowOf
  <1>2. CallsInv /\ ReadInv => ListIsOneState
    BY <1>1 DEF ListIsOneState
  <1> QED
    BY <1>2, ReadsInvariance, PTL

-----------------------------------------------------------------------------
(***************************************************************************)
(* Select.                                                                 *)
(***************************************************************************)

\* The selector of a chain without Nothing requires what each selector given does.
LEMMA MatchesEach ==
  ASSUME Nothing \notin Selectors, NEW chain \in Chains, NEW labels,
         Matches(Selector(chain), labels), NEW i \in DOMAIN chain
  PROVE  Matches(chain[i], labels)
  <1>1. CASE chain = <<>>
    BY <1>1, NoneMet
  <1>2. ASSUME NEW a \in Selectors, chain = <<a>>
        PROVE  Matches(chain[i], labels)
    <2>1. Len(chain) = 1 /\ chain # <<>> /\ chain[1] = a /\ i = 1
      BY <1>2
    <2>2. Selector(chain) = a
      BY <2>1 DEF Selector
    <2> QED
      BY <2>1, <2>2
  <1>3. ASSUME NEW a \in Selectors, NEW b \in Selectors, chain = <<a, b>>
        PROVE  Matches(chain[i], labels)
    <2>1. Len(chain) = 2 /\ chain # <<>> /\ chain[1] = a /\ chain[2] = b /\ i \in {1, 2}
      BY <1>3
    <2>2. Selector(chain) = AndSelector(a, b)
      BY <2>1 DEF Selector
    <2>3. AndSelector(a, b) = a \cup b /\ a # Nothing /\ b # Nothing
      BY DEF AndSelector, Requirements
    <2> QED
      BY <2>1, <2>2, <2>3 DEF Matches
  <1> QED
    BY <1>1, <1>2, <1>3 DEF Chains

\* The selector on a catalog's own name matches the labels of every database that has it.
LEMMA OwnNameMatches ==
  ASSUME NEW n \in Names, NEW t, ReservedIn(t), n \in Present(t)
  PROVE  Matches(Selector(<<{ReservedLabelOf(n)}>>), t.labels[n])
  <1> DEFINE selector == {ReservedLabelOf(n)}
  <1>1. Selector(<<selector>>) = selector
    <2> HIDE DEF selector
    <2> QED
      BY DEF Selector
  <1>2. selector # Nothing
    <2>1. selector \in SUBSET Label
      BY DataAssumption DEF ReservedLabelOf, Label
    <2> QED
      BY <2>1, DataAssumption
  <1>3. ReservedLabelOf(n) \in t.labels[n]
    BY DEF ReservedIn
  <1> QED
    BY <1>1, <1>2, <1>3 DEF Matches

\* Every Catalog of a call that is over matches the selector of the store it was made on.
LEMMA AnswersMatch ==
  ASSUME CallsInv, ReadInv, NEW p \in Clients, pc[p] = "done", call[p].op \in {"get", "list"},
         NEW c \in ret[p].catalogs
  PROVE  Matches(Selector(call[p].chain), c.labels)
  <1>1. DoneOf(p)
    BY DEF ReadInv, ReadOf
  <1>2. ret[p].status # "error"
    BY <1>1 DEF DoneOf
  <1>3. CASE call[p].op = "get"
    BY <1>1, <1>2, <1>3 DEF DoneOf, Answered, GetAnswered
  <1>4. CASE call[p].op = "list"
    BY <1>1, <1>2, <1>4 DEF DoneOf, Answered, ListAnswered
  <1> QED
    BY <1>3, <1>4

\* A catalog that exists all through a call is found through its own name.
LEMMA OwnNameFound ==
  ASSUME CallsInv, ReadInv, NEW p \in Clients, Answered(p, {"get", "list"}), NEW n \in Names,
         call[p].chain = <<{ReservedLabelOf(n)}>>, call[p].name \in {n, None},
         \A i \in DOMAIN seen[p] : n \in Present(seen[p][i])
  PROVE  \E c \in ret[p].catalogs : c.name = n
  <1>1. SeenOf(p) /\ DoneOf(p)
    BY DEF ReadInv, ReadOf
  <1>2. \A i \in DOMAIN seen[p] : Matches(Selector(call[p].chain), seen[p][i].labels[n])
    BY <1>1, OwnNameMatches DEF SeenOf
  <1>3. CASE Answered(p, {"get"})
    <2>1. GetAnswered(p) /\ call[p].name = n
      BY <1>1, <1>3, DataAssumption DEF DoneOf, GetAnswered
    <2>2. PICK i, j \in DOMAIN seen[p] :
            ret[p].catalogs = {[name |-> n, row |-> seen[p][i].metadata[n],
                                labels |-> seen[p][j].labels[n]]}
      BY <1>2, <2>1 DEF GetAnswered
    <2> QED
      BY <2>2
  <1>4. CASE Answered(p, {"list"})
    <2>1. PICK all \in SUBSET CatalogValue, i \in DOMAIN seen[p] :
            /\ {RowOfCatalog(c) : c \in all} = RowsOf(seen[p][i])
            /\ \A c \in all : LabelsSince(p, i, c)
            /\ ret[p].catalogs = {c \in all : Matches(Selector(call[p].chain), c.labels)}
      BY <1>1, <1>4 DEF DoneOf, ListAnswered
    <2>2. RowOf(seen[p][i], n) \in RowsOf(seen[p][i])
      BY DEF RowsOf
    <2>3. PICK c \in all : RowOfCatalog(c) = RowOf(seen[p][i], n)
      BY <2>1, <2>2
    <2>4. c.name = n
      BY <2>3 DEF RowOfCatalog, RowOf
    <2>5. Matches(Selector(call[p].chain), c.labels)
      BY <1>2, <2>1, <2>4 DEF LabelsSince
    <2> QED
      BY <2>1, <2>4, <2>5
  <1> QED
    BY <1>3, <1>4 DEF Answered

\* Select returns the catalogs that match every selector given to it, if none of them is
\* Nothing, which Select on a Select forgets (andSelector, sqlite.go:380-383); and no reader
\* misses a catalog for want of its reserved label (Set, sqlite.go:158-185).
THEOREM SelectsExactly ==
  ASSUME Nothing \notin Selectors
  PROVE  Spec => []SelectedExactly
  <1>1. ASSUME CallsInv, ReadInv, NEW p \in Clients, pc[p] = "done",
               NEW c \in ret[p].catalogs, NEW i \in DOMAIN call[p].chain
        PROVE  Matches(call[p].chain[i], c.labels)
    <2>1. call[p] \in Call /\ OperationOf(p)
      BY <1>1 DEF CallsInv, IInv, TypeOK, OperationInv
    <2>2. call[p].op \in {"get", "list"}
      BY <1>1, <2>1, NoneMet DEF OperationOf, Call
    <2>3. Matches(Selector(call[p].chain), c.labels)
      BY <1>1, <2>2, AnswersMatch
    <2> QED
      BY <1>1, <2>1, <2>3, MatchesEach DEF Call
  <1>2. ASSUME CallsInv, ReadInv, NEW p \in Clients
        PROVE  DOMAIN seen[p] = 1..Len(seen[p])
    BY <1>2 DEF CallsInv, IInv, TypeOK
  <1>3. CallsInv /\ ReadInv => SelectedExactly
    BY <1>1, <1>2, OwnNameFound DEF SelectedExactly
  <1> QED
    BY <1>3, ReadsInvariance, PTL

=============================================================================
