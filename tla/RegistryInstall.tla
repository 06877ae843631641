--------------------------- MODULE RegistryInstall ---------------------------
(* Where a registry+v1 bundle is installed and which namespaces it watches: the rules *)
(* of the configuration (ValidateConfig) and the rules of the renderer, which are     *)
(* written down twice and have to agree.                                              *)
EXTENDS Sequences

CONSTANTS Namespaces,   \* the names that are DNS-1123 labels
          BadNames,     \* other names that are not empty
          Absent,       \* an option, annotation or field that is not set
          Null,         \* watchNamespace: null
          Malformed,    \* a namespace template that cannot be parsed
          SystemNamespace(_)   \* "<package>-system" of a package name

Names == Namespaces \cup BadNames \cup {""}

ASSUME NamesAssumption ==
  /\ "" \notin Namespaces \cup BadNames
  /\ Namespaces \cap BadNames = {}
  /\ Absent \notin Names /\ Null \notin Names \cup {Absent}

InstallModes == {"AllNamespaces", "OwnNamespace", "SingleNamespace", "MultiNamespace"}
AllNamespaces == <<"">>   \* the target namespaces that stand for all of them

----------------------------------------------------------------------------
(* The configuration.  A value of watchNamespace is Absent, Null or a name. *)

isWatchNamespaceConfigurable(modes) == modes \cap {"OwnNamespace", "SingleNamespace"} # {}
isWatchNamespaceConfigRequired(modes) ==
  isWatchNamespaceConfigurable(modes) /\ "AllNamespaces" \notin modes

\* Mutation: the format lets SingleNamespace watch the namespace of the operator.
FormatUnchecked(modes, watch, known) ==
  known # "" => (modes \cap {"OwnNamespace", "SingleNamespace"} = {"OwnNamespace"} => watch = known)

\* The format of the schema; it is not checked if the install namespace is not known ("").
FormatHolds(modes, watch, known) ==
  known # "" =>
    /\ modes \cap {"OwnNamespace", "SingleNamespace"} = {"OwnNamespace"} => watch = known
    /\ modes \cap {"OwnNamespace", "SingleNamespace"} = {"SingleNamespace"} => watch # known

\* UnmarshalConfig with the schema of the bundle; the pattern of names is that of namespaces.
ConfigAccepted(modes, watch, known) ==
  \/ watch = Absent /\ ~isWatchNamespaceConfigRequired(modes)
  \/ /\ watch = Null
     /\ isWatchNamespaceConfigurable(modes) /\ ~isWatchNamespaceConfigRequired(modes)
  \/ /\ watch \in Namespaces
     /\ isWatchNamespaceConfigurable(modes) /\ FormatHolds(modes, watch, known)

\* The option a caller makes of GetWatchNamespace: no namespaces for a nil.
GetWatchNamespace(watch) == IF watch \in {Absent, Null} THEN <<>> ELSE <<watch>>

----------------------------------------------------------------------------
(* The renderer. *)

defaultTargetNamespaces(modes) == IF "AllNamespaces" \in modes THEN AllNamespaces ELSE <<>>
WithTargetNamespaces(modes, given) ==
  IF given = <<>> THEN defaultTargetNamespaces(modes) ELSE given

Elements(s) == {s[i] : i \in DOMAIN s}

validateTargetNamespaces(modes, install, targets) ==
  LET set == Elements(targets)
      several == \E m, n \in set : m # n
  IN \/ set = {""} /\ "AllNamespaces" \in modes
     \/ set = {install} /\ install # "" /\ "OwnNamespace" \in modes
     \/ \E n \in set : set = {n} /\ n \notin {"", install} /\ "SingleNamespace" \in modes
     \/ /\ several /\ "MultiNamespace" \in modes /\ "" \notin set
        /\ install \in set => "OwnNamespace" \in modes

\* deriveNamespace: the template is authoritative, whatever it says.
deriveNamespace(b) ==
  CASE b.template # Absent -> b.template
    [] b.template = Absent /\ b.suggested # Absent -> b.suggested
    [] OTHER -> SystemNamespace(b.package)

\* resolveInstallNamespace: the name, which is refused unless it is in Namespaces.
InstallNamespace(b, selfManaged) == IF selfManaged # Absent THEN selfManaged ELSE deriveNamespace(b)

=============================================================================
