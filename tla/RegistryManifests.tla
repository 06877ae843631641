-------------------------- MODULE RegistryManifests --------------------------
(* The resource generators of the registry+v1 renderer, each as the set of the        *)
(* objects it adds.  An object is a record with a kind, a namespace ns ("" for none), *)
(* a name and what the properties look at.  Where the code may append two that look   *)
(* alike, of tells them apart: the place of what an object is made of, or the name of *)
(* the deployment it is made for.                                                     *)
EXTENDS RegistryChecks, FiniteSets, FiniteSetsExt

CONSTANTS NoDots(_),  \* a name with its dots replaced by dashes
          Cut(_, _)   \* what the suffix of a name leaves of its base

Mapped(s, Op(_)) == [i \in DOMAIN s |-> Op(s[i])]

----------------------------------------------------------------------------
(* Accounts and permissions. *)

saNameOrDefault(p) == IF p.sa = "" THEN "default" ELSE p.sa

ServiceAccounts(b, ns) ==
  LET names == {saNameOrDefault(p) : p \in Elements(b.permissions) \cup Elements(b.clusterPermissions)}
  IN {[kind |-> "ServiceAccount", ns |-> ns, name |-> sa] : sa \in names \ {"default"}}

\* DefaultUniqueNameGenerator: the name is of the account, with a hash of the whole
\* permission, which stands for the permission itself.
Hash(p) == p

RoleAndBinding(p, of, kind, binding, ns, install) ==
  LET sa == saNameOrDefault(p)
  IN { [kind |-> kind, ns |-> ns, name |-> sa, of |-> of, hash |-> Hash(p), rules |-> p.rules],
       [kind |-> binding, ns |-> ns, name |-> sa, of |-> of, hash |-> Hash(p), role |-> Hash(p),
        subject |-> [ns |-> install, name |-> sa]] }

RolesInTargets(b, targets, install) ==
  UNION {RoleAndBinding(b.permissions[k], <<i, k>>, "Role", "RoleBinding", targets[i], install) :
           i \in DOMAIN targets, k \in DOMAIN b.permissions}

\* Mutation: roles also for all namespaces, in a namespace without a name.
PermissionsAlways(b, targets, install) == RolesInTargets(b, targets, install)

\* Nothing if all namespaces are watched: the permissions are promoted.
Permissions(b, targets, install) ==
  IF targets = AllNamespaces THEN {} ELSE RolesInTargets(b, targets, install)

NamespacesRule == "get, list and watch namespaces"

\* Those of the bundle, and after them the promoted ones.
AllClusterPermissions(b, targets) ==
  b.clusterPermissions \o
    IF targets # AllNamespaces THEN <<>>
    ELSE Mapped(b.permissions, LAMBDA p : [p EXCEPT !.rules = @ \cup {NamespacesRule}])

ClusterPermissions(b, targets, install) ==
  LET all == AllClusterPermissions(b, targets)
  IN UNION {RoleAndBinding(all[k], <<k>>, "ClusterRole", "ClusterRoleBinding", "", install) :
              k \in DOMAIN all}

----------------------------------------------------------------------------
(* Custom resource definitions, webhooks, services and the other objects of the bundle. *)

ObjectNameForBaseAndSuffix(base, suffix) == Cut(base, suffix) \o "-" \o suffix
WebhookServiceNameForDeployment(d) == ObjectNameForBaseAndSuffix(NoDots(d), "service")
NoCA == <<>>

ServiceReference(w, install) ==
  [ns |-> install, name |-> WebhookServiceNameForDeployment(w.deployment), port |-> w.port]

\* The webhook that converts a CRD, if there is one.
ConversionsOf(b, crd) ==
  {w \in Elements(b.webhooks) : w.type = "conversion" /\ crd \in Elements(w.crds)}

MultipleConversions(b) ==
  LET crds == ConversionReferences(b) IN \E i, j \in DOMAIN crds : i # j /\ crds[i] = crds[j]
UnknownFieldsPreserved(b) ==
  \E c \in Elements(b.crds) : c.preserve /\ ConversionsOf(b, c.name) # {}

CRDs(b, install) ==
  {[kind |-> "CustomResourceDefinition", ns |-> "", name |-> c.name, ca |-> NoCA,
    service |-> IF ConversionsOf(b, c.name) = {} THEN Absent
                ELSE ServiceReference(CHOOSE w \in ConversionsOf(b, c.name) : TRUE, install)] :
      c \in Elements(b.crds)}

UnsupportedObject(b) == \E o \in Elements(b.others) : o.kind \notin SupportedKinds
AdditionalResources(b, install) ==
  {[kind |-> b.others[i].kind, ns |-> IF b.others[i].kind \in NamespacedKinds THEN install ELSE "",
    name |-> b.others[i].name, of |-> <<i>>] : i \in DOMAIN b.others}

getWebhookNamespaceSelector(targets) ==
  IF targets # <<>> /\ "" \notin Elements(targets) THEN Elements(targets) ELSE Absent

WebhookConfigurations(b, type, targets, install) ==
  {[kind |-> type, ns |-> install, name |-> w.name, ca |-> NoCA,
    service |-> ServiceReference(w, install),
    selector |-> getWebhookNamespaceSelector(targets)] :
      w \in {v \in Elements(b.webhooks) : v.type = type}}

getWebhookServicePort(w) ==
  LET port == IF w.port > 0 THEN w.port ELSE 443
  IN [port |-> port, target |-> IF w.target = Absent THEN port ELSE w.target]

\* Mutation: a service has the ports of the first webhook of its deployment.
PortsOfFirst(b, d) ==
  {getWebhookServicePort(Head(SelectSeq(b.webhooks, LAMBDA w : w.deployment = d)))}

PortsOf(b, d) == {getWebhookServicePort(w) : w \in {v \in Elements(b.webhooks) : v.deployment = d}}

WithWebhooks(b) == {w.deployment : w \in Elements(b.webhooks)}

\* A service selects by the matchLabels of the deployment, or nothing.
Services(b, install) ==
  {[kind |-> "Service", ns |-> install, name |-> WebhookServiceNameForDeployment(d.name),
    of |-> d.name, ports |-> PortsOf(b, d.name), ca |-> NoCA,
    selects |-> IF d.selector = Absent THEN {} ELSE d.selector] :
      d \in {e \in Elements(b.deployments) : e.name \in WithWebhooks(b)}}

----------------------------------------------------------------------------
(* Certificates: cert-manager issues one per service, the OpenShift service CA is told *)
(* by an annotation of the service.                                                    *)

CertName(service) == ObjectNameForBaseAndSuffix(service, "cert")
IssuerName(cert) == ObjectNameForBaseAndSuffix(cert, "selfsigned-issuer")

InjectCABundle(o, provider) ==
  CASE provider = "cert-manager" /\ o.kind # "Service" ->
         [o EXCEPT !.ca = <<o.service.ns, CertName(o.service.name)>>]
    [] provider = "service-ca" /\ o.kind # "Service" -> [o EXCEPT !.ca = <<"inject-cabundle">>]
    [] provider = "service-ca" /\ o.kind = "Service" -> [o EXCEPT !.ca = <<CertName(o.name)>>]
    [] OTHER -> o

\* The objects whose provisioner is found: conversion and admission webhooks, services.
Provisioned(o) == "ca" \in DOMAIN o /\ (o.kind # "Service" => o.service # Absent)

AdditionalObjects(b, provider, install) ==
  LET Certified(d, cert) ==
        { [kind |-> "Issuer", ns |-> install, name |-> IssuerName(cert), of |-> d],
          [kind |-> "Certificate", ns |-> install, name |-> cert, of |-> d, secret |-> cert,
           issuer |-> IssuerName(cert)] }
  IN IF provider # "cert-manager" THEN {}
     ELSE UNION {Certified(d, CertName(WebhookServiceNameForDeployment(d))) : d \in WithWebhooks(b)}

certVolumeConfigs ==
  << [name |-> "webhook-cert", path |-> "/tmp/k8s-webhook-server/serving-certs"],
     [name |-> "apiservice-cert", path |-> "/apiserver.local.config/certificates"] >>
ProtectedPaths == {c.path : c \in Elements(certVolumeConfigs)}

\* Mutation: only the volumes with the names of certificates.
ProtectedVolumes(pod) == NamesOf(certVolumeConfigs)

\* ensureCorrectDeploymentCertVolumes: the names of the volumes to remove.
VolumesToRemove(pod) ==
  NamesOf(certVolumeConfigs) \cup
    UNION {{m.name : m \in {n \in Elements(c.mounts) : n.path \in ProtectedPaths}} :
              c \in Elements(pod.containers)}

\* What slices.DeleteFunc leaves of a list: all but the items of these names.
Without(s, names) ==
  LET left[n \in 0..Len(s)] ==
        IF n = 0 THEN <<>>
        ELSE IF s[n].name \in names THEN left[n - 1] ELSE Append(left[n - 1], s[n])
  IN left[Len(s)]

\* Mutation: mounts are removed by their paths, as volumes are found.
CertVolumesByPath(pod, secret) ==
  LET volumes == Mapped(certVolumeConfigs, LAMBDA c : [name |-> c.name, source |-> secret])
  IN [pod EXCEPT
        !.volumes = Without(@, VolumesToRemove(pod)) \o volumes,
        !.containers = Mapped(@, LAMBDA c : [c EXCEPT
           !.mounts = SelectSeq(@, LAMBDA m : m.path \notin ProtectedPaths) \o certVolumeConfigs])]

\* The volumes go, and the mounts of them in the containers; init containers keep theirs.
ensureCorrectDeploymentCertVolumes(pod, secret) ==
  LET Kept(s) == Without(s, VolumesToRemove(pod))
      volumes == Mapped(certVolumeConfigs, LAMBDA c : [name |-> c.name, source |-> secret])
  IN [pod EXCEPT
        !.volumes = Kept(@) \o volumes,
        !.containers = Mapped(@, LAMBDA c : [c EXCEPT !.mounts = Kept(@) \o certVolumeConfigs])]

\* What slices.DeleteFunc leaves of the array it was given: zeros at the end.
NoVolume == [name |-> "", source |-> ""]
DeletedInPlace(pod) ==
  LET kept == Without(pod.volumes, VolumesToRemove(pod))
  IN [i \in DOMAIN pod.volumes |-> IF i <= Len(kept) THEN kept[i] ELSE NoVolume]

=============================================================================
