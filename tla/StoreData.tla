----------------------------- MODULE StoreData -----------------------------
(***************************************************************************)
(* The data of a catalog store: the options of a Set call, the rows of the *)
(* catalog_metadata and catalog_labels tables, and the content of a        *)
(* catalog, with the effect of each SQL statement of Set and Delete on     *)
(* them.  AtomicStore and CatalogStore both speak about these data.        *)
(***************************************************************************)
EXTENDS FiniteSets, Naturals, Sequences

CONSTANTS
  Names,            \* catalog names
  URIs,             \* catalog URIs
  Priorities,       \* catalog priorities
  DefaultPriority,  \* the priority of an entry created without WithPriority
  LabelKeys,        \* label keys, the reserved one included
  LabelValues,      \* label values, the catalog names included
  Reserved,         \* labelCatalogName
  Digests,          \* the digests a caller passes to WithContent
  NoDigest,         \* the empty digest of an entry without content
  Packages,         \* the packages an importer writes
  Configs,          \* the option sets callers pass to Set
  Nothing,          \* labels.Nothing(), the selector that matches no labels
  None              \* an option that is not given, a row that does not exist

Label == [key: LabelKeys, value: LabelValues]

\* A map[string]string of labels: a key has one value.
LabelMap == {L \in SUBSET Label : \A l, m \in L : l.key = m.key => l = m}

\* A package as the importer that came with digest d writes it: the digest
\* tells the content of one import from the content of another.
Item == [digest: Digests, package: Packages]

\* A row of catalog_metadata.  None stands for a name that has no row.
Row == [uri: URIs, digest: Digests \cup {NoDigest}, priority: Priorities]

\* The database: catalog_metadata, catalog_labels and the content_* tables.
Tables == [metadata: [Names -> {None} \cup Row],
           labels:   [Names -> SUBSET Label],
           content:  [Names -> SUBSET Item]]

\* All that the store holds of a catalog.
Entry == [uri: URIs, digest: Digests \cup {NoDigest}, priority: Priorities,
          labels: SUBSET Label, content: SUBSET Item]

\* SetConfig: each field is None unless the caller gave the option.
SetConfig == [uri:      {None} \cup URIs,
              priority: {None} \cup Priorities,
              labels:   {None} \cup LabelMap,
              content:  {None} \cup Digests]

ASSUME DataAssumption ==
  /\ None \notin URIs \cup Priorities \cup Digests \cup {NoDigest}
  /\ None \notin Names
  /\ \A L \in SUBSET Label : L \notin {None, Nothing}
  /\ None \notin Row /\ None \notin Entry
  /\ NoDigest \notin Digests
  /\ DefaultPriority \in Priorities
  /\ Reserved \in LabelKeys
  /\ Names \subseteq LabelValues
  /\ Configs \subseteq SetConfig

EmptyTables == [metadata |-> [n \in Names |-> None],
                labels   |-> [n \in Names |-> {}],
                content  |-> [n \in Names |-> {}]]

ReservedLabelOf(n) == [key |-> Reserved, value |-> n]

(***************************************************************************)
(* The statements of Set.                                                  *)
(***************************************************************************)

\* Mutation: a creation without WithURI is let through.
MissingURIUnchecked(t, n, cfg) == FALSE

\* A new entry without WithURI is refused.
MissingURI(t, n, cfg) == t.metadata[n] = None /\ cfg.uri = None

\* The row after the INSERT of a new entry, or after the UPDATEs of an old one.
UpsertedRow(row, cfg) ==
  IF row = None
  THEN [uri      |-> cfg.uri,
        digest   |-> NoDigest,
        priority |-> IF cfg.priority = None THEN DefaultPriority ELSE cfg.priority]
  ELSE [uri      |-> IF cfg.uri = None THEN row.uri ELSE cfg.uri,
        digest   |-> row.digest,
        priority |-> IF cfg.priority = None THEN row.priority ELSE cfg.priority]

UpsertMetadata(t, n, cfg) == [t EXCEPT !.metadata[n] = UpsertedRow(@, cfg)]

\* Mutation: the import adds to the content that is there.
DeleteContentSkipped(t, n) == t

\* contentWriter.deleteAll: the graphs and the bundles of the catalog go, the
\* rest of its content by ON DELETE CASCADE.
DeleteContent(t, n) == [t EXCEPT !.content[n] = {}]

WritePackage(t, n, item) ==
  [t EXCEPT !.content[n] = @ \cup {item}]

UpdateDigest(t, n, d) ==
  [t EXCEPT !.metadata[n].digest = d]

\* A caller may name the reserved label only with the catalog's own name.
LabelConflict(n, cfg) ==
  /\ cfg.labels # None
  /\ \E l \in cfg.labels : l.key = Reserved /\ l.value # n

\* Mutation: the labels given are added to the old ones.
ReplaceLabelsAdds(t, n, given) ==
  [t EXCEPT !.labels[n] = @ \cup {l \in given : l.key # Reserved}]

\* DELETE the old labels, INSERT the given ones but the reserved one.
ReplaceLabels(t, n, given) ==
  [t EXCEPT !.labels[n] = {l \in given : l.key # Reserved}]

\* Mutation: only a catalog without labels gets the reserved one.
PutReservedLabelIfNone(t, n) ==
  IF t.labels[n] = {} THEN [t EXCEPT !.labels[n] = {ReservedLabelOf(n)}] ELSE t

\* INSERT OR REPLACE of the reserved label: (catalog_name, key) is the key.
PutReservedLabel(t, n) ==
  [t EXCEPT !.labels[n] = {l \in @ : l.key # Reserved} \cup {ReservedLabelOf(n)}]

\* Mutation: foreign keys are off, nothing cascades.
DeleteMetadataOnly(t, n) == [t EXCEPT !.metadata[n] = None]

(***************************************************************************)
(* The statement of Delete: labels and content go by ON DELETE CASCADE.    *)
(***************************************************************************)
DeleteMetadata(t, n) ==
  [metadata |-> [t.metadata EXCEPT ![n] = None],
   labels   |-> [t.labels EXCEPT ![n] = {}],
   content  |-> [t.content EXCEPT ![n] = {}]]

(***************************************************************************)
(* What a reader gets: a Catalog value is a row and the labels read for    *)
(* it.                                                                     *)
(***************************************************************************)
CatalogValue == [name: Names, row: Row, labels: SUBSET Label]

Present(t) == {n \in Names : t.metadata[n] # None}

CatalogOf(t, n) ==
  [name |-> n, row |-> t.metadata[n], labels |-> t.labels[n]]

(***************************************************************************)
(* Selectors of the labels package: Nothing, or the set of the labels that *)
(* the selector requires.  andSelector adds the requirements of the second *)
(* to those of the first, and Nothing has none.                            *)
(***************************************************************************)
Matches(selector, labels) == selector # Nothing /\ selector \subseteq labels

Requirements(selector) == IF selector = Nothing THEN {} ELSE selector

AndSelector(a, b) == IF a = Nothing THEN Nothing ELSE a \cup Requirements(b)

\* The selector of a store after at most two calls of Select.
Selector(chain) ==
  CASE chain = <<>>     -> {}
    [] Len(chain) = 1 -> chain[1]
    [] Len(chain) = 2 -> AndSelector(chain[1], chain[2])
=============================================================================
