----------------------------- MODULE BundleOrder -----------------------------
(***************************************************************************)
(* bundle/v1: how releases, versions with a release, and bundles by the    *)
(* name of their package, version and release compare.  As in the code a   *)
(* comparison is -1, 0 or 1.  A semantic version is the number of its      *)
(* place in the order of versions; an alphanumeric identifier, and the     *)
(* name of a package, the number of its place in the lexical order.  The   *)
(* empty name is the first, with the place 0.                              *)
(***************************************************************************)
EXTENDS Integers, Sequences

\* The identifiers between the dots of a release: bsemver.PRVersion.
Identifier == [numeric : BOOLEAN, place : Nat]
Release == Seq(Identifier)
VersionRelease == [version : Nat, release : Release]
NameVersionRelease == [name : Nat, version : Nat, release : Release]

ComparePlaces(m, n) == IF m < n THEN -1 ELSE IF m > n THEN 1 ELSE 0

\* A numeric identifier is below an alphanumeric one.
CompareIdentifiers(a, b) ==
  IF a.numeric = b.numeric THEN ComparePlaces(a.place, b.place)
  ELSE IF a.numeric THEN -1 ELSE 1

\* Where both releases have an identifier, and not the same.
Differences(r, o) ==
  {i \in 1 .. Len(r) : i <= Len(o) /\ CompareIdentifiers(r[i], o[i]) # 0}

First(positions) == CHOOSE i \in positions : \A j \in positions : i <= j

\* Release.Compare: the first difference, or the shorter below the longer; the
\* empty release is the shortest.
CompareReleases(r, o) ==
  IF Differences(r, o) = {}
  THEN ComparePlaces(Len(r), Len(o))
  ELSE LET i == First(Differences(r, o)) IN CompareIdentifiers(r[i], o[i])

\* VersionRelease.Compare: the version, and the release between equal versions.
CompareVersionReleases(v, w) ==
  IF ComparePlaces(v.version, w.version) # 0
  THEN ComparePlaces(v.version, w.version)
  ELSE CompareReleases(v.release, w.release)

\* NameVersionRelease.Compare: the name of the package comes first.
CompareNameVersionReleases(v, w) ==
  IF ComparePlaces(v.name, w.name) # 0
  THEN ComparePlaces(v.name, w.name)
  ELSE CompareVersionReleases(v, w)
=============================================================================
