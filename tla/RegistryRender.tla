---------------------------- MODULE RegistryRender ----------------------------
(* A caller that renders one registry+v1 bundle again and again: ValidateConfig, which *)
(* a caller may make first, and ToPlainManifests, one action per generator.            *)
(* A request is a record: watch, the watchNamespace of the configuration, or           *)
(* Unconfigured if there is none; known, the install namespace ValidateConfig is told; *)
(* targets, the namespaces otherwise given; self, provider and config, the options     *)
(* WithSelfManagedInstallNamespace, WithCertificateProvider and WithDeploymentConfig.  *)
EXTENDS RegistryDeployments

CONSTANTS Bundles,        \* the bundles a caller may have loaded
          Offered(_, _),  \* the requests tried on a bundle, at its first, second... rendering
          MaxRenders,     \* bound: calls of ToPlainManifests
          Parts,          \* what a part of an affinity may be
          Unconfigured,
          NoRequest

\* What Go's types say of a pod and of a configuration: their lists are finite.
IsSlice(s) == s \in Seq(Elements(s))
IsAffinity(a) == a = Absent \/ a \in [DOMAIN NoAffinity -> Parts]
IsContainer(c) ==
  DOMAIN c = {"env", "envFrom", "mounts", "resources"} /\ IsSlice(c.env) /\ IsSlice(c.mounts)
IsPod(pod) ==
  /\ DOMAIN pod = {"containers", "initMounts", "volumes", "labels", "affinity", "tolerations",
                   "nodeSelector", "annotations"}
  /\ IsSlice(pod.containers) /\ IsSlice(pod.volumes) /\ IsAffinity(pod.affinity)
  /\ \A c \in Elements(pod.containers) : IsContainer(c)
IsConfig(config) ==
  /\ IsSlice(config.env) /\ IsSlice(config.mounts) /\ IsSlice(config.volumes)
  /\ IsAffinity(config.affinity)

\* What is decoded from manifests, and the options that Go's types allow.  CRDs are kept
\* apart from the other objects (source.go:110); the providers are the repository's two.
ASSUME PartsAssumption ==
  {Absent, Erased} \subseteq Parts /\ Absent \notin [DOMAIN NoAffinity -> Parts]
ASSUME BundlesAssumption ==
  \A b \in Bundles :
    /\ IsSlice(b.permissions) /\ IsSlice(b.clusterPermissions)
    /\ \A p \in Elements(b.permissions) \cup Elements(b.clusterPermissions) :
         p = [sa |-> p.sa, rules |-> p.rules]
    /\ \A d \in Elements(b.deployments) : IsPod(d.pod)
    /\ \A o \in Elements(b.others) : o.kind # "CustomResourceDefinition"
ASSUME RequestsAssumption ==
  /\ MaxRenders \in Nat
  /\ \A b \in Bundles, n \in 1..MaxRenders : \A r \in Offered(b, n) :
       /\ r.targets \in Seq(Names) /\ r.provider \in {Absent, "cert-manager", "service-ca"}
       /\ r.config # Absent => IsConfig(r.config)

VARIABLES bundle,    \* the bundle as it was loaded
          pods,      \* the pods of its deployments, as they are now
          call,      \* the call that runs or the last one that did
          renders    \* how many there were

vars == <<bundle, pods, call, renders>>

LoadedPods(b) == Mapped(b.deployments, LAMBDA d : d.pod)
NoCall == [step |-> "idle", request |-> NoRequest, targets |-> <<>>, ns |-> "",
           objects |-> {}, error |-> ""]

Init == /\ bundle \in Bundles
        /\ pods = LoadedPods(bundle)
        /\ call = NoCall
        /\ renders = 0

At(step) == call.step = step /\ UNCHANGED <<bundle, renders>>
Refuse(error) == call' = [call EXCEPT !.step = "failed", !.error = error, !.objects = {}]
           /\ UNCHANGED pods

\* A generator that adds objects, or refuses the bundle for one of the errors that hold.
Generate(step, next, errors, objects) ==
  /\ At(step)
  /\ IF errors # {} THEN \E e \in errors : Refuse(e)
     ELSE /\ call' = [call EXCEPT !.step = next, !.objects = @ \cup objects]
          /\ UNCHANGED pods

Call(r) ==
  /\ call.step \in {"idle", "failed", "returned"} /\ renders < MaxRenders
  /\ renders' = renders + 1
  /\ call' = [NoCall EXCEPT !.step = IF r.watch = Unconfigured THEN "validate" ELSE "configure",
                            !.request = r]
  /\ UNCHANGED <<bundle, pods>>

UnmarshalConfig ==
  /\ At("configure")
  /\ IF ConfigAccepted(bundle.modes, call.request.watch, call.request.known)
     THEN call' = [call EXCEPT !.step = "validate"] /\ UNCHANGED pods
     ELSE Refuse("configuration")

\* The targets the caller asks for, given to it or read from the configuration.
Requested(r) == IF r.watch = Unconfigured THEN r.targets ELSE GetWatchNamespace(r.watch)

Validate ==
  /\ At("validate")
  /\ IF Valid(bundle)
     THEN /\ call' = [call EXCEPT !.step = "namespace",
                        !.targets = WithTargetNamespaces(bundle.modes, Requested(call.request))]
          /\ UNCHANGED pods
     ELSE Refuse("invalid")

BundleNamespaceGenerator ==
  /\ At("namespace")
  /\ LET ns == InstallNamespace(bundle, call.request.self)
     IN IF ns \notin Namespaces THEN Refuse("namespace")
        ELSE IF ~validateTargetNamespaces(bundle.modes, ns, call.targets) THEN Refuse("targets")
        ELSE /\ call' = [call EXCEPT !.step = "accounts", !.ns = ns,
                           !.objects = IF call.request.self # Absent THEN {}
                                       ELSE {[kind |-> "Namespace", ns |-> "", name |-> ns]}]
             /\ UNCHANGED pods

BundleCSVServiceAccountGenerator ==
  Generate("accounts", "permissions", {}, ServiceAccounts(bundle, call.ns))

BundleCSVPermissionsGenerator ==
  Generate("permissions", "cluster permissions", {}, Permissions(bundle, call.targets, call.ns))

BundleCSVClusterPermissionsGenerator ==
  Generate("cluster permissions", "crds", {},
           ClusterPermissions(bundle, call.targets, call.ns))

BundleCRDGenerator ==
  Generate("crds", "resources",
           IF MultipleConversions(bundle) THEN {"conversions"}
           ELSE IF UnknownFieldsPreserved(bundle) THEN {"preserveUnknownFields"} ELSE {},
           CRDs(bundle, call.ns))

BundleAdditionalResourcesGenerator ==
  Generate("resources", "deployments",
           IF UnsupportedObject(bundle) THEN {"unsupported"} ELSE {},
           AdditionalResources(bundle, call.ns))

BundleCSVDeploymentGenerator ==
  /\ At("deployments")
  /\ call' = [call EXCEPT
                !.step = "validating",
                !.objects = @ \cup
                   {Deployment(bundle, bundle.deployments[i], pods[i], call.request.config,
                               call.targets, call.ns) : i \in DOMAIN pods}]
  /\ pods' = Mapped(pods, LAMBDA p : ConfiguredInPlace(p, call.request.config))

BundleValidatingWebhookResourceGenerator ==
  Generate("validating", "mutating", {},
           WebhookConfigurations(bundle, "validating", call.targets, call.ns))

BundleMutatingWebhookResourceGenerator ==
  Generate("mutating", "services", {},
           WebhookConfigurations(bundle, "mutating", call.targets, call.ns))

BundleDeploymentServiceResourceGenerator ==
  Generate("services", "certificates", {}, Services(bundle, call.ns))

\* A deployment gets its certificates if it has webhooks and there is a provider.
IsCertified(o) ==
  /\ o.kind = "Deployment" /\ o.name \in WithWebhooks(bundle)
  /\ call.request.provider # Absent

CertifiedPod(o) ==
  ensureCorrectDeploymentCertVolumes(
    o.pod, CertName(WebhookServiceNameForDeployment(o.name)))

CertProviderResourceGenerator ==
  LET Transformed(o) == IF IsCertified(o) THEN [o EXCEPT !.pod = CertifiedPod(o)]
                        ELSE IF Provisioned(o) THEN InjectCABundle(o, call.request.provider)
                        ELSE o
      Own(d) == CHOOSE o \in call.objects : o.kind = "Deployment" /\ o.name = d.name
  IN /\ At("certificates")
     /\ call' = [call EXCEPT
                   !.step = "returned",
                   !.objects = {Transformed(o) : o \in @}
                                 \cup AdditionalObjects(bundle, call.request.provider, call.ns)]
     /\ pods' = [i \in DOMAIN pods |->
          LET o == Own(bundle.deployments[i])
          IN IF IsCertified(o)
             THEN CertifiedInPlace(pods[i], o.pod, CertifiedPod(o), call.request.config)
             ELSE pods[i]]

Next ==
  \/ \E r \in Offered(bundle, renders + 1) : Call(r)
  \/ UnmarshalConfig \/ Validate \/ BundleNamespaceGenerator
  \/ BundleCSVServiceAccountGenerator \/ BundleCSVPermissionsGenerator
  \/ BundleCSVClusterPermissionsGenerator \/ BundleCRDGenerator
  \/ BundleAdditionalResourcesGenerator \/ BundleCSVDeploymentGenerator
  \/ BundleValidatingWebhookResourceGenerator \/ BundleMutatingWebhookResourceGenerator
  \/ BundleDeploymentServiceResourceGenerator \/ CertProviderResourceGenerator

Spec == Init /\ [][Next]_vars

----------------------------------------------------------------------------
(* What a rendering is: the objects of the call that has returned. *)

Returned == call.step = "returned"
Rendered(kind) == {o \in call.objects : o.kind = kind}
The(kind, ns, name) == {o \in Rendered(kind) : o.ns = ns /\ o.name = name}
RolesOf(kind, b) == {r \in The(kind, b.ns, b.name) : "hash" \in DOMAIN r /\ r.hash = b.role}
One(kind, ns, name) == Cardinality(The(kind, ns, name)) = 1

\* The bindings that are generated; a bundle may bring others.
Bindings(kind) == {b \in Rendered(kind) : "subject" \in DOMAIN b}

\* The rights of the accounts: <<namespace and name of the account, rule, scope>>, the
\* scope of a cluster role being <<>>.
Granted ==
  (UNION {{<<b.subject.ns, b.subject.name, rule, <<b.ns>>>> :
             rule \in UNION {r.rules : r \in RolesOf("Role", b)}} : b \in Bindings("RoleBinding")})
  \cup
  (UNION {{<<b.subject.ns, b.subject.name, rule, <<>>>> :
             rule \in UNION {r.rules : r \in RolesOf("ClusterRole", b)}} :
               b \in Bindings("ClusterRoleBinding")})

\* Those the bundle asks for, given what is watched.
Declared ==
  LET Rights(p, rules, scope) == {<<call.ns, saNameOrDefault(p), rule, scope>> : rule \in rules}
      everywhere == Elements(call.targets) = {""}
  IN (UNION {Rights(p, p.rules, <<>>) : p \in Elements(bundle.clusterPermissions)}) \cup
     (UNION {IF everywhere THEN Rights(p, p.rules \cup {NamespacesRule}, <<>>)
             ELSE UNION {Rights(p, p.rules, <<t>>) : t \in Elements(call.targets)} :
               p \in Elements(bundle.permissions)})

\* The accounts have the rights that the bundle declares, in the namespaces that are
\* watched and nowhere else (generators.go:104-177), and the webhooks and the operator are
\* told the same namespaces (:597, :77).  Unless all namespaces were asked for twice.
ScopeIsExact ==
  Returned /\ (Elements(call.targets) = {""} => Len(call.targets) = 1) =>
    /\ Granted = Declared
    /\ \A o \in Rendered("validating") \cup Rendered("mutating") :
         o.selector = IF call.targets = AllNamespaces THEN Absent ELSE Elements(call.targets)
    /\ \A o \in Rendered("Deployment") : o.pod.annotations["olm.targetNamespaces"] = call.targets

(* What the code checks nowhere and the properties on references need.                 *)

\* No two deployments with webhooks get an issuer of one name, which is cut most, and no
\* object that the bundle brings has the name of a generated one or of another it brings.
NamesApart ==
  /\ \A d, e \in WithWebhooks(bundle) :
       LET Issuer(x) == IssuerName(CertName(WebhookServiceNameForDeployment(x)))
       IN Issuer(d) = Issuer(e) => d = e
  /\ \A o \in Elements(bundle.others) : \A x, y \in The(o.kind, call.ns, o.name) : x = y

\* No target is given and no permission declared twice, nor is one that is promoted.
NothingRepeated ==
  /\ IsInjective(call.targets) /\ IsInjective(bundle.permissions)
  /\ IsInjective(AllClusterPermissions(bundle, call.targets))

\* A deployment with webhooks has matchLabels, and they are among the labels of its pod
\* and of the pod of no other.
SelectorsApart ==
  \A d, e \in Elements(bundle.deployments) :
    d.name \in WithWebhooks(bundle) =>
      /\ d.selector \notin {Absent, {}}
      /\ d.selector \subseteq e.pod.labels <=> d.name = e.name

Referring ==
  {o \in UNION {Rendered(k) : k \in {"validating", "mutating", "CustomResourceDefinition"}} :
      o.service # Absent}

\* The webhooks that a rendered object is made of: by the validators there is one.
WebhooksOf(o) ==
  {w \in Elements(bundle.webhooks) :
     IF w.type = "conversion"
     THEN o.kind = "CustomResourceDefinition" /\ o.name \in Elements(w.crds)
     ELSE o.kind = w.type /\ o.name = w.name}

\* Its service, as generated; a bundle may bring another of the name.
ServicesOf(o) == {s \in The("Service", call.ns, o.service.name) : "selects" \in DOMAIN s}

\* The deployments whose pods a service sends requests to; an empty selector is no selector.
Behind(s) ==
  {d \in Rendered("Deployment") : d.ns = s.ns /\ s.selects # {} /\ s.selects \subseteq d.pod.labels}

\* What a rendered object refers to is rendered too: the role of a binding, its account
\* (but for the default one), the service of a webhook with its port, and of the pods that
\* the labels put behind the service all are of the webhook's deployment.  It is there
\* once unless names clash or the bundle or the caller repeats something.  A port that is
\* not set refers to none.
ReferencesResolve ==
  LET Resolved(found, once) == found # {} /\ (once => Cardinality(found) = 1)
  IN Returned =>
    /\ \A b \in Bindings("RoleBinding") : Resolved(RolesOf("Role", b), NothingRepeated)
    /\ \A b \in Bindings("ClusterRoleBinding") : Resolved(RolesOf("ClusterRole", b), NothingRepeated)
    /\ \A b \in Bindings("RoleBinding") \cup Bindings("ClusterRoleBinding") :
         \/ b.subject.name = "default"
         \/ Resolved(The("ServiceAccount", call.ns, b.subject.name), NamesApart)
    /\ \A o \in Referring :
         /\ Resolved(The("Service", call.ns, o.service.name), NamesApart)
         /\ \E w \in WebhooksOf(o), s \in ServicesOf(o) :
              /\ One("Deployment", call.ns, w.deployment)
              /\ SelectorsApart => Behind(s) = The("Deployment", call.ns, w.deployment)
              /\ o.service.port > 0 => \E p \in s.ports : p.port = o.service.port

\* The secret that the provider's certificate for the service of a webhook is in.
SecretsBehind(o, service) ==
  IF call.request.provider = "cert-manager"
  THEN {c.secret : c \in {d \in Rendered("Certificate") :
                            o.ca = <<d.ns, d.name>> /\ One("Issuer", d.ns, d.issuer)}}
  ELSE IF o.ca = <<"inject-cabundle">> THEN Elements(service.ca) ELSE {}

\* With a provider, whoever calls a webhook trusts the certificate of the secret that
\* every container of the pods behind its service has at both paths, and has nothing else
\* there, whatever the bundle or the configuration mounts (generators.go:403-593).
CertificatesTrusted ==
  Returned /\ NamesApart /\ SelectorsApart /\ call.request.provider # Absent =>
    \A o \in Referring : \A s \in ServicesOf(o) :
      \A d \in Behind(s) : \A c \in Elements(d.pod.containers) :
        \A path \in ProtectedPaths :
          LET at == {i \in DOMAIN c.mounts : c.mounts[i].path = path}
          IN /\ Cardinality(at) = 1
             /\ \A i \in at :
                  LET volumes == {k \in DOMAIN d.pod.volumes : d.pod.volumes[k].name = c.mounts[i].name}
                  IN /\ Cardinality(volumes) = 1
                     /\ {d.pod.volumes[k].source : k \in volumes} = SecretsBehind(o, s)

\* ValidateConfig (bundle/registryv1.go, config.go) and the renderer (namespace.go) decide
\* alike on a watchNamespace, when they speak of the same install namespace: except for
\* bundles of which the renderer has to be told several namespaces, which the
\* configuration cannot, and for a null, which only bundles with a choice may be given.
ConfigAgreesWithRender ==
  LET r == call.request
      install == InstallNamespace(bundle, r.self)
  IN call.step = "failed" /\ r.watch # Unconfigured /\ r.known = install =>
       /\ call.error = "targets" =>
            bundle.modes \cap {"AllNamespaces", "OwnNamespace", "SingleNamespace"} = {}
       /\ call.error = "configuration" /\ r.watch \in Namespaces \cup {Absent} =>
            ~validateTargetNamespaces(bundle.modes, install,
                WithTargetNamespaces(bundle.modes, GetWatchNamespace(r.watch)))

\* What the validators let pass does not fail in a generator, but for what no validator
\* looks at: the namespaces and preserveUnknownFields.
ValidatedRenders ==
  call.error \in {"", "configuration", "invalid", "namespace", "targets", "preserveUnknownFields"}

\* The names that certificates may displace: of their own volumes, and what a pod, or the
\* configuration of one of the first n calls, mounts where they go.
Origins(loaded, b, n) ==
  LET configs == {r.config : r \in UNION {Offered(b, k) : k \in 1..n}} \ {Absent}
  IN VolumesToRemove(loaded) \cup
       {m.name : m \in {x \in UNION {Elements(c.mounts) : c \in configs} : x.path \in ProtectedPaths}}
Displaced(d) ==
  IF d.name \notin WithWebhooks(bundle) \/ (renders = 1 /\ call.request.provider = Absent) THEN {}
  ELSE Origins(d.pod, bundle, renders)
Kept(items, now, displaced) ==
  \A x \in Elements(items) : x.name \in displaced \/ x \in Elements(now)
ValueOf(env, name) == env[LastOf(env, name)].value

AppliedTo(c, config, displaced) ==
  /\ \A name \in NamesOf(config.env) :
       name \in NamesOf(c.env) /\ ValueOf(c.env, name) = ValueOf(config.env, name)
  /\ config.envFrom \subseteq c.envFrom
  /\ config.resources # Absent => c.resources = config.resources
  /\ Kept(config.mounts, c.mounts, displaced)

AffinityApplied(now, affinity) ==
  /\ affinity = NoAffinity => now = Absent
  /\ affinity # Absent => \A part \in DOMAIN NoAffinity :
       affinity[part] # Absent =>
         (IF now = Absent THEN Absent ELSE now[part])
           = IF affinity[part] = Erased THEN Absent ELSE affinity[part]

Applied(pod, config, displaced) ==
  /\ \A c \in Elements(pod.containers) : AppliedTo(c, config, displaced)
  /\ Kept(config.volumes, pod.volumes, displaced)
  /\ config.tolerations \subseteq pod.tolerations
  /\ config.nodeSelector # Absent => pod.nodeSelector = config.nodeSelector
  /\ AffinityApplied(pod.affinity, config.affinity)
  /\ DOMAIN config.annotations \subseteq DOMAIN pod.annotations

\* The configuration of a call holds in what it returns, whatever was rendered from the
\* bundle before: its variables have the last word, its parts of the affinity replace
\* or erase those that are there (generators.go:615-889).
ConfigApplied ==
  Returned /\ call.request.config # Absent =>
    \A e \in Elements(bundle.deployments) : \A d \in The("Deployment", call.ns, e.name) :
      Applied(d.pod, call.request.config, Displaced(e))

Declares(pod, loaded, displaced) ==
  /\ DOMAIN loaded.containers = DOMAIN pod.containers
  /\ \A k \in DOMAIN loaded.containers :
       /\ NamesOf(loaded.containers[k].env) \subseteq NamesOf(pod.containers[k].env)
       /\ loaded.containers[k].envFrom \subseteq pod.containers[k].envFrom
       /\ Kept(loaded.containers[k].mounts, pod.containers[k].mounts, displaced)
  /\ Kept(loaded.volumes, pod.volumes, displaced)
  /\ loaded.tolerations \subseteq pod.tolerations
  /\ pod.labels = loaded.labels /\ pod.initMounts = loaded.initMounts

\* What the bundle declares for its pods is never lost, over any number of renderings:
\* containers with their variables and mounts, the mounts of init containers, volumes (but
\* for what the certificates displace), tolerations, the labels that services select by,
\* and the annotations of the template with their values, unless OLM has its own.
DeclaredKept ==
  Returned =>
    \A e \in Elements(bundle.deployments) : \A d \in The("Deployment", call.ns, e.name) :
      /\ Declares(d.pod, e.pod, Displaced(e))
      /\ \A key \in DOMAIN e.pod.annotations :
           \/ key \in {"olm.targetNamespaces", "olm.operatorNamespace"}
           \/ d.pod.annotations[key] = e.pod.annotations[key]

\* Every mount of a bundle's pod and of a configuration has its volume in one of them.
Covered(pod, config) ==
  (UNION {NamesOf(c.mounts) : c \in Elements(pod.containers)}) \cup pod.initMounts
    \cup (IF config = Absent THEN {} ELSE NamesOf(config.mounts))
  \subseteq NamesOf(pod.volumes) \cup IF config = Absent THEN {} ELSE NamesOf(config.volumes)

\* The volumes that certificates take away and do not bring back.
TakenAway(pod, config) ==
  VolumesToRemove(applyCustomConfig(pod, config)) \ NamesOf(certVolumeConfigs)

\* A first rendering leaves no mount without its volume, unless the bundle and the
\* configuration together have one, or an init container mounts a volume that certificates
\* take away: from containers they take the mounts too (generators.go:535-593).
MountsHaveVolumes ==
  Returned /\ renders = 1 =>
    \A e \in Elements(bundle.deployments) :
      /\ Covered(e.pod, call.request.config)
      /\ e.pod.initMounts \cap TakenAway(e.pod, call.request.config) = {}
      => \A d \in The("Deployment", call.ns, e.name) : Covered(d.pod, Absent)

\* Generators treat the bundle as read-only (render.go:35).
BundleReadOnly == pods = LoadedPods(bundle)

=============================================================================
