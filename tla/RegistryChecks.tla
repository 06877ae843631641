---------------------------- MODULE RegistryChecks ----------------------------
(* The validators of a registry+v1 bundle.  A bundle is a record:                     *)
(*   package, template, suggested    the package and the namespace annotations        *)
(*   modes                           the supported install modes                      *)
(*   annotations                     the other annotations of the CSV                 *)
(*   permissions, clusterPermissions sequences of [sa, rules]                         *)
(*   deployments                     sequence of [name, selector, pod], the selector  *)
(*                                   Absent or its matchLabels, a set                 *)
(*   webhooks                        sequence of [type, name, deployment, crds, port, *)
(*                                   target, rules], rules a set of [group, resource] *)
(*   owned                           the names of the CRDs the CSV owns               *)
(*   crds, others                    sequences of [name, preserve] and [kind, name]   *)
EXTENDS RegistryInstall, Integers, SequencesExt

CONSTANTS Subdomains,      \* the names that are DNS-1123 subdomains
          SupportedKinds,  \* the kinds registrybundle.IsSupported knows
          NamespacedKinds  \* those of them that have a namespace

ASSUME KindsAssumption ==
  /\ NamespacedKinds \subseteq SupportedKinds
  /\ SupportedKinds \cap {"Deployment", "validating", "mutating"} = {}

UniqueNames(s) == \A i, j \in DOMAIN s : s[i].name = s[j].name => i = j
NamesOf(s) == {x.name : x \in Elements(s)}
Webhooks(b, types) == SelectSeq(b.webhooks, LAMBDA w : w.type \in types)
Conversions(b) == Webhooks(b, {"conversion"})

CheckDeploymentSpecUniqueness(b) == UniqueNames(b.deployments)
CheckDeploymentNameIsDNS1123SubDomain(b) == NamesOf(b.deployments) \subseteq Subdomains
CheckOwnedCRDExistence(b) == b.owned \subseteq NamesOf(b.crds)
CheckCRDResourceUniqueness(b) == UniqueNames(b.crds)
CheckPackageNameNotEmpty(b) == b.package # ""
CheckConversionWebhookSupport(b) == Conversions(b) # <<>> => b.modes = {"AllNamespaces"}

CheckWebhookDeploymentReferentialIntegrity(b) ==
  \A w \in Elements(b.webhooks) : w.deployment \in NamesOf(b.deployments)

CheckWebhookNameUniqueness(b) ==
  \A type \in {"validating", "mutating", "conversion"} : UniqueNames(Webhooks(b, {type}))

CheckConversionWebhooksReferenceOwnedCRDs(b) ==
  \A w \in Elements(Conversions(b)) : Elements(w.crds) \subseteq b.owned

\* Mutation: a webhook that lists a CRD twice counts once.
ReferenceUniquenessByWebhook(b) ==
  LET whs == Conversions(b)
  IN \A i, j \in DOMAIN whs : Elements(whs[i].crds) \cap Elements(whs[j].crds) # {} => i = j

\* Every reference counts, also a second one of the same webhook.
ConversionReferences(b) == FlattenSeq([i \in DOMAIN Conversions(b) |-> Conversions(b)[i].crds])
CheckConversionWebhookCRDReferenceUniqueness(b) ==
  LET crds == ConversionReferences(b)
  IN \A i, j \in DOMAIN crds : crds[i] = crds[j] => i = j

CheckWebhookNameIsDNS1123SubDomain(b) == NamesOf(b.webhooks) \subseteq Subdomains

forbiddenWebhookRuleAPIGroups == {"olm.operatorframework.io", "*"}
forbiddenAdmissionRegistrationResources ==
  {"*", "mutatingwebhookconfiguration", "mutatingwebhookconfigurations",
   "validatingwebhookconfiguration", "validatingwebhookconfigurations"}

CheckWebhookRules(b) ==
  \A w \in Elements(Webhooks(b, {"validating", "mutating"})) : \A rule \in w.rules :
    /\ rule.group \notin forbiddenWebhookRuleAPIGroups
    /\ rule.group = "admissionregistration.k8s.io" =>
         rule.resource \notin forbiddenAdmissionRegistrationResources

CheckObjectSupport(b) == \A o \in Elements(b.others) : o.kind \in SupportedKinds

\* BundleValidator: every check is made, and each has to pass.
Valid(b) ==
  /\ CheckDeploymentSpecUniqueness(b)
  /\ CheckDeploymentNameIsDNS1123SubDomain(b)
  /\ CheckCRDResourceUniqueness(b)
  /\ CheckOwnedCRDExistence(b)
  /\ CheckPackageNameNotEmpty(b)
  /\ CheckConversionWebhookSupport(b)
  /\ CheckWebhookDeploymentReferentialIntegrity(b)
  /\ CheckWebhookNameUniqueness(b)
  /\ CheckWebhookNameIsDNS1123SubDomain(b)
  /\ CheckConversionWebhookCRDReferenceUniqueness(b)
  /\ CheckConversionWebhooksReferenceOwnedCRDs(b)
  /\ CheckWebhookRules(b)
  /\ CheckObjectSupport(b)

=============================================================================
