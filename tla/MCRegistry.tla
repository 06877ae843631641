----------------------------- MODULE MCRegistry -----------------------------
EXTENDS RegistryRender

MCSystemNamespace(package) == IF package \in {"", "Pkg"} THEN "Pkg-system" ELSE "pkg-system"
MCNoDots(d) == IF d = "d.x" THEN "d-x" ELSE d   \* "d.x" and "d-x" have one service
\* Of the longest names only the issuers have to be cut, which makes them one.
MCCut(base, suffix) ==
  IF suffix = "selfsigned-issuer" /\ base \in {"long1-service-cert", "long2-service-cert"}
  THEN "long" ELSE base

Permission(sa, rules) == [sa |-> sa, rules |-> rules]
Webhook(type, name, d, crds, port, target) ==
  [type |-> type, name |-> name, deployment |-> d, crds |-> crds, port |-> port,
   target |-> target, rules |-> {[group |-> "apps", resource |-> "deployments"]}]
Env(name, value) == [name |-> name, value |-> value]
Mount(name, path) == [name |-> name, path |-> path]
Volume(name) == [name |-> name, source |-> "of " \o name]

Container == [env |-> <<>>, envFrom |-> {}, mounts |-> <<>>, resources |-> "small"]
Pod == [containers |-> <<Container>>, initMounts |-> {}, volumes |-> <<>>, labels |-> {},
        affinity |-> Absent, tolerations |-> {}, nodeSelector |-> Absent, annotations |-> <<>>]
DepOf(name, selector, pod) ==
  [name |-> name, selector |-> selector, pod |-> [pod EXCEPT !.labels = {name, "all"}]]
Dep(name) == DepOf(name, {name}, Pod)
Base == [package |-> "pkg", template |-> Absent, suggested |-> Absent, modes |-> {"AllNamespaces"},
         annotations |-> <<>>, permissions |-> <<>>, clusterPermissions |-> <<>>,
         deployments |-> <<Dep("d")>>, webhooks |-> <<>>, owned |-> {}, crds |-> <<>>,
         others |-> <<>>]
Request == [watch |-> Unconfigured, known |-> "", targets |-> <<>>, self |-> "op",
            provider |-> Absent, config |-> Absent]

----------------------------------------------------------------------------
(* Scopes: every set of install modes, every shape of targets, every watchNamespace. *)

ScopeBundles ==
  {[Base EXCEPT !.modes = modes,
      !.permissions = <<Permission("a", {"r1"}), Permission("a", {"r2"}), Permission("", {"r1"})>>,
      !.clusterPermissions = <<Permission("b", {"r1", "r3"})>>,
      !.webhooks = <<Webhook("validating", "v", "d", <<>>, 0, Absent)>>] :
        modes \in SUBSET InstallModes}
ScopeRequests ==
  {[Request EXCEPT !.targets = t] :
     t \in {<<>>, <<"">>, <<"", "">>, <<"op">>, <<"w">>, <<"w", "w">>, <<"w", "op">>, <<"v", "w">>,
            <<"w", "">>}}
  \cup {[Request EXCEPT !.watch = w, !.known = k] :
          w \in {Absent, Null, "op", "w", "Bad", ""}, k \in {"op", ""}}

(* Install namespaces: every annotation with every other. *)
NamespaceBundles ==
  {[Base EXCEPT !.template = t, !.suggested = s, !.package = p, !.annotations = [of |-> <<"namespaces">>]] :
     t \in {Absent, Malformed, "", "w", "Bad"}, s \in {Absent, "", "v", "Bad"}, p \in {"pkg", "Pkg", ""}}
NamespaceRequests == {[Request EXCEPT !.self = s] : s \in {Absent, "", "op", "Bad"}}

----------------------------------------------------------------------------
(* Webhooks, CRDs and certificates: a bundle with everything, and its defects. *)

Whole ==
  [Base EXCEPT
     !.deployments = <<Dep("d.x"), Dep("e")>>,
     !.webhooks = <<Webhook("validating", "v", "d.x", <<>>, 443, 9443),
                    Webhook("mutating", "v", "d.x", <<>>, 8443, Absent),
                    Webhook("conversion", "c", "e", <<"crd1">>, 0, Absent)>>,
     !.owned = {"crd1"},
     !.crds = <<[name |-> "crd1", preserve |-> FALSE], [name |-> "crd2", preserve |-> TRUE]>>,
     !.others = <<[kind |-> "ConfigMap", name |-> "m"], [kind |-> "ClusterRole", name |-> "n"],
                  [kind |-> "RoleBinding", name |-> "b"]>>]
WithWebhook(w) == [Whole EXCEPT !.webhooks = Append(@, w)]
Ruled(rule) == [Webhook("validating", "w", "e", <<>>, 443, Absent) EXCEPT !.rules = {rule}]
WebhookBundles ==
  { Whole,
    WithWebhook(Webhook("mutating", "w", "e", <<>>, 443, 9443)),
    WithWebhook(Webhook("validating", "w", "d.x", <<>>, 443, 8443)),
    WithWebhook(Ruled([group |-> "admissionregistration.k8s.io", resource |-> "other"])),
    [Whole EXCEPT !.deployments = Append(@, Dep("d-x")),
                  !.webhooks = Append(@, Webhook("mutating", "w", "d-x", <<>>, 443, 9443))],
    [Whole EXCEPT !.deployments = <<Dep("long1"), Dep("long2")>>,
                  !.webhooks = <<Webhook("validating", "v", "long1", <<>>, 443, 9443),
                                 Webhook("mutating", "v", "long2", <<>>, 443, 9443)>>],
    [Whole EXCEPT !.deployments[1].selector = {"all"}],
    [Whole EXCEPT !.deployments[1].selector = Absent],
    [Whole EXCEPT !.deployments = Append(@, DepOf("d", {"e"}, Pod)),
                  !.deployments[2].selector = {"e", "all"}],
    [Whole EXCEPT !.permissions = <<Permission("a", {"r1"})>>,
                  !.clusterPermissions = <<Permission("a", {"r2"}), Permission("b", {"r2"})>>,
                  !.others = Append(@, [kind |-> "ServiceAccount", name |-> "a"])],
    [Whole EXCEPT !.permissions = <<Permission("a", {"r1"}), Permission("a", {"r1"})>>,
                  !.clusterPermissions = <<Permission("b", {"r2"}), Permission("b", {"r2"})>>],
    [Whole EXCEPT !.others = @ \o @],
    [Whole EXCEPT !.others = Append(@, [kind |-> "Service", name |-> "e-service"])],
    [Whole EXCEPT !.deployments = Append(@, Dep("e"))],
    [Whole EXCEPT !.deployments = Append(@, Dep("Bad"))],
    [Whole EXCEPT !.owned = @ \cup {"crd3"}],
    [Whole EXCEPT !.crds = Append(@, [name |-> "crd1", preserve |-> FALSE])],
    [Whole EXCEPT !.package = ""],
    [Whole EXCEPT !.modes = @ \cup {"OwnNamespace"}],
    WithWebhook(Webhook("mutating", "w", "f", <<>>, 443, Absent)),
    WithWebhook(Webhook("mutating", "v", "e", <<>>, 443, Absent)),
    WithWebhook(Webhook("conversion", "d", "e", <<"crd1">>, 443, Absent)),
    [Whole EXCEPT !.webhooks[3].crds = <<"crd1", "crd1">>],
    [Whole EXCEPT !.webhooks[3].crds = <<"crd2">>],
    [Whole EXCEPT !.webhooks[3].crds = <<"crd2">>, !.owned = @ \cup {"crd2"}],
    WithWebhook(Webhook("mutating", "Bad", "e", <<>>, 443, Absent)),
    WithWebhook(Ruled([group |-> "*", resource |-> "pods"])),
    WithWebhook(Ruled([group |-> "admissionregistration.k8s.io", resource |-> "*"])),
    [Whole EXCEPT !.others = Append(@, [kind |-> "Pod", name |-> "m"])] }
Providers == {Absent, "cert-manager", "service-ca"}
WebhookRequests == {[Request EXCEPT !.provider = p] : p \in Providers}

----------------------------------------------------------------------------
(* Deployments: pods that mount where certificates go, configurations, two renderings. *)

MCParts == {Absent, Erased, "zone", "apart", "together"}
Affinity(node, pod) == [node |-> node, pod |-> pod, anti |-> Absent]
Pods ==
  { [Pod EXCEPT !.annotations = [k |-> <<"pod">>],
       !.affinity = Affinity("zone", Erased), !.tolerations = {"t1"}, !.nodeSelector = "linux",
       !.volumes = <<Volume("data"), Volume("tls")>>,
       !.containers = << [Container EXCEPT !.env = <<Env("A", "1"), Env("A", "2")>>, !.envFrom = {"s"},
                            !.mounts = <<Mount("data", "/data"), Mount("tls", certVolumeConfigs[1].path)>>],
                         [Container EXCEPT !.env = <<Env("B", "1")>>,
                            !.mounts = <<Mount("tls", "/tls")>>] >>,
       !.initMounts = {"data"}],
    [Pod EXCEPT !.volumes = <<Volume("webhook-cert"), Volume("data")>>,
       !.affinity = Affinity("zone", "apart"),
       !.initMounts = {"webhook-cert"},
       !.containers = << [Container EXCEPT !.mounts = <<Mount("webhook-cert", "/old"),
                                                        Mount("data", "/data")>>] >>],
    \* An init container fills the volume of the container's certificate.
    [Pod EXCEPT !.volumes = <<Volume("tls")>>, !.initMounts = {"tls"},
       !.containers = << [Container EXCEPT !.mounts = <<Mount("tls", certVolumeConfigs[2].path)>>] >>] }
PodBundles ==
  {[Base EXCEPT !.deployments = <<DepOf("d", {"d"}, p)>>, !.annotations = [k |-> <<"csv">>],
                !.webhooks = <<Webhook("validating", "v", "d", <<>>, 443, Absent)>>] : p \in Pods}
NoConfig == [env |-> <<>>, envFrom |-> {}, volumes |-> <<>>, mounts |-> <<>>, resources |-> Absent,
             affinity |-> Absent, tolerations |-> {}, nodeSelector |-> Absent, annotations |-> <<>>]
Configs ==
  { Absent,
    [NoConfig EXCEPT !.env = <<Env("A", "3"), Env("C", "3"), Env("C", "4")>>, !.envFrom = {"s", "t"},
       !.volumes = <<Volume("extra")>>, !.mounts = <<Mount("extra", "/extra")>>,
       !.affinity = Affinity(Erased, Absent), !.resources = "large"],
    [NoConfig EXCEPT !.volumes = <<Volume("own")>>, !.affinity = NoAffinity,
       !.mounts = <<Mount("own", certVolumeConfigs[1].path), Mount("own", "/own")>>],
    [NoConfig EXCEPT !.env = <<Env("A", "5")>>, !.affinity = Affinity(Absent, "together"),
       !.tolerations = {"t2"}, !.nodeSelector = "arm",
       !.annotations = [k |-> <<"config">>, m |-> <<"config">>]] }
PodRequests == {[Request EXCEPT !.provider = p, !.config = c] : p \in Providers, c \in Configs}

MCBundles == ScopeBundles \cup NamespaceBundles \cup WebhookBundles \cup PodBundles
MCOffered(b, n) ==
  CASE b \in PodBundles -> PodRequests
    [] b \in ScopeBundles -> IF n = 1 THEN ScopeRequests ELSE {}
    [] b \in WebhookBundles -> IF n = 1 THEN WebhookRequests ELSE {}
    [] OTHER -> IF n = 1 THEN NamespaceRequests ELSE {}

=============================================================================
