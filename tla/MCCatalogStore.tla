--------------------------- MODULE MCCatalogStore ---------------------------
(***************************************************************************)
(* Instances of CatalogStore for TLC.  The names are strings, since a      *)
(* label's value may be the name of a catalog; the rest are model values.  *)
(***************************************************************************)
EXTENDS CatalogStore, TLC

CONSTANTS p1, p2, u1, u2, d1, d2, tier, gold, reserved

L(k, v) == [key |-> k, value |-> v]

\* The option sets of the callers: a creation, with content and without; an
\* update of single parts; labels that name the catalog itself under the
\* reserved key, and labels that name another.
Create   == [uri |-> u1, priority |-> None, labels |-> None, content |-> None]
Import1  == [uri |-> u1, priority |-> None, labels |-> {L(tier, gold)}, content |-> d1]
Reimport == [uri |-> None, priority |-> 1, labels |-> None, content |-> d2]
Relabel  == [uri |-> u2, priority |-> None, labels |-> {L(reserved, "a")}, content |-> None]
Unlabel  == [uri |-> None, priority |-> None, labels |-> {}, content |-> None]

AllConfigs == {Create, Import1, Reimport, Relabel}
ReadConfigs == {Create, Relabel, Unlabel}

NoSelectors == {}
ByNameOrTier == {{L(reserved, "a")}, {L(tier, gold)}}

Symmetry == Permutations(Clients)
=============================================================================
