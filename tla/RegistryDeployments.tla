-------------------------- MODULE RegistryDeployments --------------------------
(* How a deployment configuration is applied to a pod.  A pod is a record:             *)
(*   containers    sequence of [env, envFrom, mounts, resources], env a sequence of    *)
(*                 [name, value] and mounts one of [name, path]                        *)
(*   initMounts    the names of the volumes that its init containers mount             *)
(*   volumes       sequence of [name, source]                                          *)
(*   labels        a set                                                               *)
(*   affinity      Absent or [node, pod, anti], each Absent, Erased ({}) or a value    *)
(*   tolerations, nodeSelector, annotations                                            *)
(* A configuration has env, envFrom, volumes, mounts, resources (one container's), and *)
(* affinity, tolerations, nodeSelector and annotations.  A value of an annotation is   *)
(* a sequence, what its commas separate.                                               *)
EXTENDS RegistryManifests

CONSTANT Erased   \* an affinity, or a part of one, that is there and empty

\* Mutation: a variable that is there keeps its value.
EnvironmentKeepsDeclared(env, config) ==
  env \o Without(config, NamesOf(env))

\* The place of the last variable of a name, which is the one that counts.
LastOf(vars, name) == Max({i \in DOMAIN vars : vars[i].name = name})

\* The last variable of a name is overridden, by the last; of a new name each is added.
applyEnvironmentConfig(env, config) ==
  LET Overridden(i) == env[i].name \in NamesOf(config) /\ i = LastOf(env, env[i].name)
  IN [i \in DOMAIN env |-> IF Overridden(i) THEN config[LastOf(config, env[i].name)] ELSE env[i]]
     \o Without(config, NamesOf(env))

\* Mutation: the mounts of the configuration replace those of the container.
ContainerMountsReplaced(c, config) ==
  [c EXCEPT !.env = applyEnvironmentConfig(@, config.env), !.envFrom = @ \cup config.envFrom,
            !.mounts = config.mounts]

applyToContainer(c, config) ==
  [c EXCEPT !.env = applyEnvironmentConfig(@, config.env),
            !.envFrom = @ \cup config.envFrom,
            !.mounts = @ \o config.mounts,
            !.resources = IF config.resources = Absent THEN @ ELSE config.resources]

Override(old, new) ==
  CASE new = Absent -> old
    [] new = Erased -> Absent
    [] OTHER -> new

NoAffinity == [node |-> Absent, pod |-> Absent, anti |-> Absent]
isAffinityEmpty(a) == \A part \in DOMAIN a : a[part] \in {Absent, Erased}

\* The parts of the affinity that the pod has or is given; nothing to do for NoAffinity.
MergedAffinity(affinity, config) ==
  [part \in DOMAIN NoAffinity |->
     Override((IF affinity = Absent THEN NoAffinity ELSE affinity)[part], config[part])]

applyAffinityConfig(affinity, config) ==
  IF config = Absent THEN affinity
  ELSE IF config = NoAffinity \/ isAffinityEmpty(MergedAffinity(affinity, config)) THEN Absent
  ELSE MergedAffinity(affinity, config)

\* Of two maps merged the second has the last word.
MergeMaps(f, g) ==
  [key \in DOMAIN f \cup DOMAIN g |-> IF key \in DOMAIN g THEN g[key] ELSE f[key]]

\* applyCustomConfigToDeployment, what is in the pod.
applyCustomConfig(pod, config) ==
  IF config = Absent THEN pod
  ELSE [pod EXCEPT
          !.containers = Mapped(@, LAMBDA c : applyToContainer(c, config)),
          !.volumes = @ \o config.volumes,
          !.tolerations = @ \cup config.tolerations,
          !.nodeSelector = IF config.nodeSelector = Absent THEN @ ELSE config.nodeSelector,
          !.affinity = applyAffinityConfig(@, config.affinity),
          !.annotations = MergeMaps(config.annotations, @)]

\* The annotations of the template, over those of the CSV, under those of OLM.
TemplateAnnotations(b, pod, targets, install) ==
  LET olm == [key \in {"olm.targetNamespaces", "olm.operatorNamespace"} |->
                IF key = "olm.targetNamespaces" THEN targets ELSE <<install>>]
  IN MergeMaps(MergeMaps(b.annotations, pod.annotations), olm)

Deployment(b, d, pod, config, targets, install) ==
  [kind |-> "Deployment", ns |-> install, name |-> d.name,
   pod |-> applyCustomConfig([pod EXCEPT !.annotations = TemplateAnnotations(b, pod, targets, install)],
                             config),
   annotations |-> IF config = Absent THEN <<>> ELSE config.annotations]

----------------------------------------------------------------------------
(* The deployment spec is copied, but not what it points to: containers, the affinity  *)
(* and the array of the volumes stay those of the bundle, and what is written to them  *)
(* is written to the bundle.                                                           *)

\* What the bundle's own pod has become when the configuration was applied to its copy.
ConfiguredInPlace(pod, config) ==
  IF config = Absent THEN pod
  ELSE [pod EXCEPT
          !.containers = Mapped(@, LAMBDA c : applyToContainer(c, config)),
          !.affinity = IF config.affinity \in {Absent, NoAffinity} \/ @ = Absent THEN @
                       ELSE MergedAffinity(@, config.affinity)]

\* And when the certificates were mounted, which made after of the pod before: the array
\* is shared unless the configuration added volumes.
CertifiedInPlace(pod, before, after, config) ==
  [pod EXCEPT
     !.containers = after.containers,
     !.volumes = IF config = Absent \/ config.volumes = <<>> THEN DeletedInPlace(before) ELSE @]

=============================================================================
