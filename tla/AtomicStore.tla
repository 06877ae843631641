---------------------------- MODULE AtomicStore ----------------------------
(***************************************************************************)
(* What catalogv1.Store promises of writes: the store is a map from names  *)
(* to entries, a Set changes the entry of one name in one indivisible step *)
(* (metadata, labels, content and digest together), and a Delete removes   *)
(* one.  Nothing else changes the store.                                   *)
(***************************************************************************)
EXTENDS StoreData

VARIABLE store

TypeInvariant == store \in [Names -> {None} \cup Entry]

(***************************************************************************)
(* The entry that Set(n, cfg) leaves where the entry was old: every option *)
(* given replaces its part, every option not given keeps it.  written is   *)
(* what the importer wrote, all of it or, in a partial import, some.       *)
(***************************************************************************)
NewEntry(n, old, cfg, written) ==
  LET row == UpsertedRow(old, cfg)
      kept == IF old = None THEN {} ELSE {l \in old.labels : l.key # Reserved}
  IN  [uri      |-> row.uri,
       priority |-> row.priority,
       digest   |-> IF cfg.content = None THEN row.digest ELSE cfg.content,
       labels   |-> {ReservedLabelOf(n)} \cup
                      IF cfg.labels = None
                      THEN kept
                      ELSE {l \in cfg.labels : l.key # Reserved},
       content  |-> IF cfg.content = None
                    THEN IF old = None THEN {} ELSE old.content
                    ELSE {[digest |-> cfg.content, package |-> p] : p \in written}]

Init == store = [n \in Names |-> None]

Set(n, cfg) ==
  /\ store[n] = None => cfg.uri # None
  /\ ~LabelConflict(n, cfg)
  /\ \E written \in SUBSET Packages :
       store' = [store EXCEPT ![n] = NewEntry(n, store[n], cfg, written)]

Delete(n) == store' = [store EXCEPT ![n] = None]

Next == \E n \in Names : Delete(n) \/ \E cfg \in Configs : Set(n, cfg)

Spec == Init /\ [][Next]_store
=============================================================================
