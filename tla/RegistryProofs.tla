--------------------------- MODULE RegistryProofs ---------------------------
(* ValidateConfig, the validators and the renderer agree; the objects of a rendering   *)
(* are about the namespaces that were asked for, and what they refer to is rendered    *)
(* too; the pods have what the bundle declares, the configuration asks for and the     *)
(* certificates need: for every bundle, request and number of renderings.              *)
EXTENDS RegistryRender, FiniteSetTheorems, SequenceTheorems, WellFoundedInduction, TLAPS

WatchOf(modes, watch) == WithTargetNamespaces(modes, GetWatchNamespace(watch))
ConfigurableModes == {"AllNamespaces", "OwnNamespace", "SingleNamespace"}

\* The targets that a watchNamespace stands for.
LEMMA WatchedNamespaces ==
  ASSUME NEW modes, NEW watch
  PROVE  /\ watch \notin {Absent, Null} => Elements(WatchOf(modes, watch)) = {watch}
         /\ watch \in {Absent, Null} =>
              Elements(WatchOf(modes, watch)) = IF "AllNamespaces" \in modes THEN {""} ELSE {}
<1>1. \A x : Elements(<<x>>) = {x}
  BY DEF Elements
<1>2. Elements(<<>>) = {}
  BY DEF Elements
<1>3. \A x : <<x>> # <<>>
  OBVIOUS
<1>4. CASE watch \in {Absent, Null}
  BY <1>1, <1>2, <1>4 DEF WatchOf, WithTargetNamespaces, GetWatchNamespace,
                           defaultTargetNamespaces, AllNamespaces
<1>5. CASE watch \notin {Absent, Null}
  BY <1>1, <1>3, <1>5 DEF WatchOf, WithTargetNamespaces, GetWatchNamespace
<1>6. QED
  BY <1>4, <1>5

\* What the configuration accepts for an install namespace, the renderer takes for it, if
\* the bundle has a mode that a configuration can choose (bundle/registryv1.go:52-229,
\* namespace.go:50-92).
THEOREM AcceptedIsRendered ==
  ASSUME NEW modes, NEW install \in Namespaces, NEW watch,
         ConfigAccepted(modes, watch, install), modes \cap ConfigurableModes # {}
  PROVE  validateTargetNamespaces(modes, install, WatchOf(modes, watch))
<1> DEFINE set == Elements(WatchOf(modes, watch))
<1>1. install # "" /\ "" \notin Namespaces /\ Absent \notin Namespaces /\ Null \notin Namespaces
  BY NamesAssumption DEF Names
<1>2. CASE watch \in {Absent, Null}
  <2>1. "AllNamespaces" \in modes
    BY <1>1, <1>2, NamesAssumption DEF ConfigAccepted, isWatchNamespaceConfigRequired,
         isWatchNamespaceConfigurable, ConfigurableModes
  <2>2. set = {""}
    BY <1>2, <2>1, WatchedNamespaces
  <2>3. QED
    BY <2>1, <2>2 DEF validateTargetNamespaces
<1>3. CASE watch \notin {Absent, Null}
  <2>1. /\ watch \in Namespaces /\ isWatchNamespaceConfigurable(modes)
        /\ FormatHolds(modes, watch, install)
    BY <1>3 DEF ConfigAccepted
  <2>2. set = {watch}
    BY <1>3, WatchedNamespaces
  <2>3. CASE watch = install
    <3>1. "OwnNamespace" \in modes
      BY <1>1, <2>1, <2>3 DEF FormatHolds, isWatchNamespaceConfigurable
    <3>2. QED
      BY <1>1, <2>2, <2>3, <3>1 DEF validateTargetNamespaces
  <2>4. CASE watch # install
    <3>1. "SingleNamespace" \in modes
      BY <1>1, <2>1, <2>4 DEF FormatHolds, isWatchNamespaceConfigurable
    <3>2. QED
      BY <1>1, <2>1, <2>2, <2>4, <3>1 DEF validateTargetNamespaces
  <2>5. QED
    BY <2>3, <2>4
<1>4. QED
  BY <1>2, <1>3

\* What the renderer takes, the configuration accepts: a name or none, for any install
\* namespace, also one that is not valid.
THEOREM RenderedIsAccepted ==
  ASSUME NEW modes, NEW install, NEW watch \in Namespaces \cup {Absent},
         validateTargetNamespaces(modes, install, WatchOf(modes, watch))
  PROVE  ConfigAccepted(modes, watch, install)
<1> DEFINE set == Elements(WatchOf(modes, watch))
<1>1. "" \notin Namespaces /\ Absent \notin Namespaces /\ Null \notin Namespaces /\ Absent # Null
  BY NamesAssumption DEF Names
<1>2. CASE watch = Absent
  <2>1. set = IF "AllNamespaces" \in modes THEN {""} ELSE {}
    BY <1>2, WatchedNamespaces
  <2>2. "AllNamespaces" \in modes
    BY <2>1 DEF validateTargetNamespaces
  <2>3. QED
    BY <1>2, <2>2 DEF ConfigAccepted, isWatchNamespaceConfigRequired
<1>3. CASE watch \in Namespaces
  <2>1. set = {watch} /\ watch # ""
    BY <1>1, <1>3, WatchedNamespaces
  <2>2. \/ watch = install /\ "OwnNamespace" \in modes
        \/ watch # install /\ "SingleNamespace" \in modes
    BY <2>1 DEF validateTargetNamespaces
  <2>3. isWatchNamespaceConfigurable(modes)
    BY <2>2 DEF isWatchNamespaceConfigurable
  <2>4. FormatHolds(modes, watch, install)
    <3>1. CASE watch = install
      BY <2>2, <3>1, "OwnNamespace" # "SingleNamespace" DEF FormatHolds
    <3>2. CASE watch # install
      <4>1. "SingleNamespace" \in modes \cap {"OwnNamespace", "SingleNamespace"}
        BY <2>2, <3>2
      <4>2. "SingleNamespace" \notin {"OwnNamespace"}
        OBVIOUS
      <4>3. modes \cap {"OwnNamespace", "SingleNamespace"} # {"OwnNamespace"}
        BY <4>1, <4>2
      <4>4. QED
        BY <3>2, <4>3 DEF FormatHolds
    <3>3. QED
      BY <3>1, <3>2
  <2>5. QED
    BY <1>3, <2>3, <2>4 DEF ConfigAccepted
<1>4. QED
  BY <1>2, <1>3

----------------------------------------------------------------------------
(* The calls.  What a step of a call may count on: the decisions of the earlier ones. *)

Generating == {"accounts", "permissions", "cluster permissions", "crds", "resources",
               "deployments", "validating", "mutating", "services", "certificates"}
CallShape ==
  call = [step |-> call.step, request |-> call.request, targets |-> call.targets,
          ns |-> call.ns, objects |-> call.objects, error |-> call.error]
Configured(r) == r.watch # Unconfigured => ConfigAccepted(bundle.modes, r.watch, r.known)

Decisions ==
  /\ CallShape
  /\ call.step # "failed" => call.error = ""
  /\ call.step = "configure" => call.request.watch # Unconfigured
  /\ call.step \in {"validate", "namespace"} => Configured(call.request)
  /\ call.step = "namespace" =>
       call.targets = WithTargetNamespaces(bundle.modes, Requested(call.request))
  /\ call.step \in Generating \cup {"namespace"} => Valid(bundle)

CallInv == Decisions /\ ValidatedRenders /\ ConfigAgreesWithRender

\* A bundle that is valid gives the generators of CRDs and of other objects no cause to
\* refuse it, but for the unknown fields (generators.go:209-283, validator.go).
LEMMA ValidGenerates ==
  ASSUME Valid(bundle)
  PROVE  ~MultipleConversions(bundle) /\ ~UnsupportedObject(bundle)
<1>1. ~MultipleConversions(bundle)
  BY DEF Valid, CheckConversionWebhookCRDReferenceUniqueness, MultipleConversions
<1>2. ~UnsupportedObject(bundle)
  BY DEF Valid, CheckObjectSupport, UnsupportedObject
<1>3. QED
  BY <1>1, <1>2

\* A generator that only adds objects keeps what has been decided.
LEMMA GenerateKeepsDecisions ==
  ASSUME NEW step \in Generating, NEW next \in Generating, NEW errors, NEW objects, CallInv,
         errors \subseteq {"preserveUnknownFields"}, Generate(step, next, errors, objects)
  PROVE  CallInv'
<1>1. call.step = step /\ UNCHANGED bundle /\ Valid(bundle)
  BY DEF Generate, At, CallInv, Decisions
<1>2. CASE errors # {}
  <2>1. call' = [call EXCEPT !.step = "failed", !.error = "preserveUnknownFields", !.objects = {}]
    BY <1>2 DEF Generate, Refuse
  <2>2. /\ call'.step = "failed" /\ call'.error = "preserveUnknownFields"
        /\ CallShape'
    BY <2>1 DEF CallInv, Decisions, CallShape
  <2>3. QED
    BY <2>2 DEF CallInv, Decisions, ValidatedRenders, ConfigAgreesWithRender, Generating
<1>3. CASE errors = {}
  <2>1. call' = [call EXCEPT !.step = next, !.objects = @ \cup objects]
    BY <1>3 DEF Generate
  <2>2. /\ call'.step = next /\ call'.error = call.error
        /\ CallShape'
    BY <2>1 DEF CallInv, Decisions, CallShape
  <2>3. next \notin {"failed", "configure", "validate", "namespace"}
        /\ step \notin {"failed", "configure", "validate", "namespace"}
    BY DEF Generating
  <2>4. QED
    BY <1>1, <2>2, <2>3 DEF CallInv, Decisions, ValidatedRenders, ConfigAgreesWithRender
<1>4. QED
  BY <1>2, <1>3

LEMMA AppendKeepsDecisions ==
  ASSUME NEW step \in Generating, NEW next \in Generating, CallInv,
         \E objects : Generate(step, next, {}, objects)
  PROVE  CallInv'
<1>1. PICK objects : Generate(step, next, {}, objects)
  OBVIOUS
<1>2. {} \subseteq {"preserveUnknownFields"}
  OBVIOUS
<1>3. QED
  BY <1>1, <1>2, GenerateKeepsDecisions

LEMMA InitDecides == Init => CallInv
<1> SUFFICES ASSUME Init PROVE CallInv
  OBVIOUS
<1>1. call.step = "idle" /\ call.error = "" /\ CallShape
  BY DEF Init, NoCall, CallShape
<1>2. QED
  BY <1>1 DEF CallInv, Decisions, ValidatedRenders, ConfigAgreesWithRender, Generating

LEMMA CallKeepsDecisions ==
  ASSUME CallInv, NEW r, Call(r)
  PROVE  CallInv'
<1>1. /\ call'.step = IF r.watch = Unconfigured THEN "validate" ELSE "configure"
      /\ call'.request = r /\ call'.error = "" /\ CallShape'
  BY DEF Call, NoCall, CallShape
<1>2. Configured(r)' <=> (r.watch # Unconfigured => ConfigAccepted(bundle.modes, r.watch, r.known))
  BY DEF Call, Configured
<1>3. QED
  BY <1>1, <1>2 DEF CallInv, Decisions, ValidatedRenders, ConfigAgreesWithRender, Generating

\* A configuration that is refused would not have been rendered: RenderedIsAccepted.
LEMMA UnmarshalConfigKeepsDecisions ==
  ASSUME CallInv, UnmarshalConfig
  PROVE  CallInv'
<1> DEFINE r == call.request
<1>1. call.step = "configure" /\ bundle' = bundle /\ r.watch # Unconfigured
  BY DEF UnmarshalConfig, At, CallInv, Decisions
<1>2. CASE ConfigAccepted(bundle.modes, r.watch, r.known)
  <2>1. call' = [call EXCEPT !.step = "validate"]
    BY <1>2 DEF UnmarshalConfig
  <2>2. /\ call'.step = "validate" /\ call'.request = r /\ call'.error = call.error
        /\ CallShape'
    BY <2>1 DEF CallInv, Decisions, CallShape
  <2>3. Configured(call.request)'
    BY <1>1, <1>2, <2>2 DEF Configured
  <2>4. QED
    BY <1>1, <2>2, <2>3 DEF CallInv, Decisions, ValidatedRenders, ConfigAgreesWithRender, Generating
<1>3. CASE ~ConfigAccepted(bundle.modes, r.watch, r.known)
  <2>1. call' = [call EXCEPT !.step = "failed", !.error = "configuration", !.objects = {}]
    BY <1>3 DEF UnmarshalConfig, Refuse
  <2>2. /\ call'.step = "failed" /\ call'.request = r /\ call'.error = "configuration"
        /\ CallShape'
    BY <2>1 DEF CallInv, Decisions, CallShape
  <2>3. ASSUME r.known = InstallNamespace(bundle, r.self), r.watch \in Namespaces \cup {Absent}
        PROVE  ~validateTargetNamespaces(bundle.modes, InstallNamespace(bundle, r.self),
                  WithTargetNamespaces(bundle.modes, GetWatchNamespace(r.watch)))
    BY <1>3, <2>3, RenderedIsAccepted DEF WatchOf
  <2>4. ConfigAgreesWithRender'
    BY <1>1, <2>2, <2>3 DEF ConfigAgreesWithRender
  <2>5. QED
    BY <2>2, <2>4 DEF CallInv, Decisions, ValidatedRenders, Generating
<1>4. QED
  BY <1>2, <1>3

LEMMA ValidateKeepsDecisions ==
  ASSUME CallInv, Validate
  PROVE  CallInv'
<1>1. call.step = "validate" /\ bundle' = bundle /\ Configured(call.request)
  BY DEF Validate, At, CallInv, Decisions
<1>2. CASE Valid(bundle)
  <2> DEFINE targets == WithTargetNamespaces(bundle.modes, Requested(call.request))
  <2>1. call' = [call EXCEPT !.step = "namespace", !.targets = targets]
    BY <1>2 DEF Validate
  <2>2. /\ call'.step = "namespace" /\ call'.request = call.request
        /\ call'.error = call.error /\ call'.targets = targets /\ CallShape'
    BY <2>1 DEF CallInv, Decisions, CallShape
  <2>3. Configured(call.request)' /\ Valid(bundle)'
    BY <1>1, <1>2, <2>2 DEF Configured
  <2>4. targets = WithTargetNamespaces(bundle.modes, Requested(call.request))'
    BY <1>1, <2>2
  <2>5. QED
    BY <1>1, <2>2, <2>3, <2>4 DEF CallInv, Decisions, ValidatedRenders, ConfigAgreesWithRender,
         Generating
<1>3. CASE ~Valid(bundle)
  <2>1. call' = [call EXCEPT !.step = "failed", !.error = "invalid", !.objects = {}]
    BY <1>3 DEF Validate, Refuse
  <2>2. call'.step = "failed" /\ call'.error = "invalid" /\ CallShape'
    BY <2>1 DEF CallInv, Decisions, CallShape
  <2>3. QED
    BY <2>2 DEF CallInv, Decisions, ValidatedRenders, ConfigAgreesWithRender, Generating
<1>4. QED
  BY <1>2, <1>3

\* Targets that come from a configuration are refused only for bundles that have no mode to
\* choose: AcceptedIsRendered.
LEMMA NamespaceKeepsDecisions ==
  ASSUME CallInv, BundleNamespaceGenerator
  PROVE  CallInv'
<1> DEFINE r == call.request
           ns == InstallNamespace(bundle, r.self)
<1>1. /\ call.step = "namespace" /\ bundle' = bundle /\ Configured(r) /\ Valid(bundle)
      /\ call.targets = WithTargetNamespaces(bundle.modes, Requested(r))
      /\ call.error = ""
  BY DEF BundleNamespaceGenerator, At, CallInv, Decisions
<1>2. CASE ns \notin Namespaces
  <2>1. call' = [call EXCEPT !.step = "failed", !.error = "namespace", !.objects = {}]
    BY <1>2 DEF BundleNamespaceGenerator, Refuse
  <2>2. call'.step = "failed" /\ call'.error = "namespace" /\ CallShape'
    BY <2>1 DEF CallInv, Decisions, CallShape
  <2>3. QED
    BY <2>2 DEF CallInv, Decisions, ValidatedRenders, ConfigAgreesWithRender, Generating
<1>3. CASE ns \in Namespaces /\ ~validateTargetNamespaces(bundle.modes, ns, call.targets)
  <2>1. call' = [call EXCEPT !.step = "failed", !.error = "targets", !.objects = {}]
    BY <1>3 DEF BundleNamespaceGenerator, Refuse
  <2>2. /\ call'.step = "failed" /\ call'.request = r /\ call'.error = "targets"
        /\ CallShape'
    BY <2>1 DEF CallInv, Decisions, CallShape
  <2>3. ASSUME r.watch # Unconfigured, r.known = ns
        PROVE  bundle.modes \cap ConfigurableModes = {}
    <3>1. ConfigAccepted(bundle.modes, r.watch, ns)
      BY <1>1, <2>3 DEF Configured
    <3>2. call.targets = WatchOf(bundle.modes, r.watch)
      BY <1>1, <2>3 DEF Requested, WatchOf
    <3>3. QED
      BY <1>3, <3>1, <3>2, AcceptedIsRendered
  <2>4. ConfigAgreesWithRender'
    BY <1>1, <2>2, <2>3 DEF ConfigAgreesWithRender, ConfigurableModes
  <2>5. QED
    BY <2>2, <2>4 DEF CallInv, Decisions, ValidatedRenders, Generating
<1>4. CASE ns \in Namespaces /\ validateTargetNamespaces(bundle.modes, ns, call.targets)
  <2>1. PICK objects : call' = [call EXCEPT !.step = "accounts", !.ns = ns, !.objects = objects]
    BY <1>4 DEF BundleNamespaceGenerator
  <2>2. call'.step = "accounts" /\ call'.error = call.error /\ CallShape'
    BY <2>1 DEF CallInv, Decisions, CallShape
  <2>3. QED
    BY <1>1, <2>2 DEF CallInv, Decisions, ValidatedRenders, ConfigAgreesWithRender, Generating
<1>5. QED
  BY <1>2, <1>3, <1>4

LEMMA DeploymentsKeepDecisions ==
  ASSUME CallInv, BundleCSVDeploymentGenerator
  PROVE  CallInv'
<1>1. call.step = "deployments" /\ bundle' = bundle /\ Valid(bundle) /\ call.error = ""
  BY DEF BundleCSVDeploymentGenerator, At, CallInv, Decisions, Generating
<1>2. PICK objects : call' = [call EXCEPT !.step = "validating", !.objects = objects]
  BY DEF BundleCSVDeploymentGenerator
<1>3. call'.step = "validating" /\ call'.error = "" /\ CallShape'
  BY <1>1, <1>2 DEF CallInv, Decisions, CallShape
<1>4. QED
  BY <1>1, <1>3 DEF CallInv, Decisions, ValidatedRenders, ConfigAgreesWithRender, Generating

LEMMA CertificatesKeepDecisions ==
  ASSUME CallInv, CertProviderResourceGenerator
  PROVE  CallInv'
<1>1. call.step = "certificates" /\ bundle' = bundle /\ call.error = ""
  BY DEF CertProviderResourceGenerator, At, CallInv, Decisions
<1>2. PICK objects : call' = [call EXCEPT !.step = "returned", !.objects = objects]
  BY DEF CertProviderResourceGenerator
<1>3. call'.step = "returned" /\ call'.error = "" /\ CallShape'
  BY <1>1, <1>2 DEF CallInv, Decisions, CallShape
<1>4. QED
  BY <1>3 DEF CallInv, Decisions, ValidatedRenders, ConfigAgreesWithRender, Generating

LEMMA NextKeepsDecisions == CallInv /\ [Next]_vars => CallInv'
<1> SUFFICES ASSUME CallInv, [Next]_vars PROVE CallInv'
  OBVIOUS
<1>0. /\ "accounts" \in Generating /\ "permissions" \in Generating
      /\ "cluster permissions" \in Generating /\ "crds" \in Generating
      /\ "resources" \in Generating /\ "deployments" \in Generating
      /\ "validating" \in Generating /\ "mutating" \in Generating
      /\ "services" \in Generating /\ "certificates" \in Generating
  BY DEF Generating
<1>1. ASSUME NEW r \in Offered(bundle, renders + 1), Call(r) PROVE CallInv'
  BY <1>1, CallKeepsDecisions
<1>2. CASE UnmarshalConfig
  BY <1>2, UnmarshalConfigKeepsDecisions
<1>3. CASE Validate
  BY <1>3, ValidateKeepsDecisions
<1>4. CASE BundleNamespaceGenerator
  BY <1>4, NamespaceKeepsDecisions
<1>5. CASE BundleCSVServiceAccountGenerator
  <2>1. \E objects : Generate("accounts", "permissions", {}, objects)
    BY <1>5 DEF BundleCSVServiceAccountGenerator
  <2>2. QED
    BY <1>0, <2>1, AppendKeepsDecisions
<1>6. CASE BundleCSVPermissionsGenerator
  <2>1. \E objects : Generate("permissions", "cluster permissions", {}, objects)
    BY <1>6 DEF BundleCSVPermissionsGenerator
  <2>2. QED
    BY <1>0, <2>1, AppendKeepsDecisions
<1>7. CASE BundleCSVClusterPermissionsGenerator
  <2>1. \E objects : Generate("cluster permissions", "crds", {}, objects)
    BY <1>7 DEF BundleCSVClusterPermissionsGenerator
  <2>2. QED
    BY <1>0, <2>1, AppendKeepsDecisions
<1>8. CASE BundleCRDGenerator
  <2>1. ~MultipleConversions(bundle)
    BY <1>8, ValidGenerates DEF BundleCRDGenerator, Generate, At, CallInv, Decisions, Generating
  <2>2. PICK errors : /\ errors \subseteq {"preserveUnknownFields"}
                      /\ Generate("crds", "resources", errors, CRDs(bundle, call.ns))
    BY <1>8, <2>1 DEF BundleCRDGenerator
  <2>3. QED
    BY <1>0, <2>2, GenerateKeepsDecisions, Zenon
<1>9. CASE BundleAdditionalResourcesGenerator
  <2>1. ~UnsupportedObject(bundle)
    BY <1>9, ValidGenerates
       DEF BundleAdditionalResourcesGenerator, Generate, At, CallInv, Decisions, Generating
  <2>2. \E objects : Generate("resources", "deployments", {}, objects)
    BY <1>9, <2>1 DEF BundleAdditionalResourcesGenerator
  <2>3. QED
    BY <1>0, <2>2, AppendKeepsDecisions
<1>10. CASE BundleCSVDeploymentGenerator
  BY <1>10, DeploymentsKeepDecisions
<1>11. CASE BundleValidatingWebhookResourceGenerator
  <2>1. \E objects : Generate("validating", "mutating", {}, objects)
    BY <1>11 DEF BundleValidatingWebhookResourceGenerator
  <2>2. QED
    BY <1>0, <2>1, AppendKeepsDecisions
<1>12. CASE BundleMutatingWebhookResourceGenerator
  <2>1. \E objects : Generate("mutating", "services", {}, objects)
    BY <1>12 DEF BundleMutatingWebhookResourceGenerator
  <2>2. QED
    BY <1>0, <2>1, AppendKeepsDecisions
<1>13. CASE BundleDeploymentServiceResourceGenerator
  <2>1. \E objects : Generate("services", "certificates", {}, objects)
    BY <1>13 DEF BundleDeploymentServiceResourceGenerator
  <2>2. QED
    BY <1>0, <2>1, AppendKeepsDecisions
<1>14. CASE CertProviderResourceGenerator
  BY <1>14, CertificatesKeepDecisions
<1>15. CASE UNCHANGED vars
  BY <1>15 DEF vars, CallInv, Decisions, CallShape, Configured, Generating, ValidatedRenders,
     ConfigAgreesWithRender, Requested
<1>16. QED
  BY <1>1, <1>2, <1>3, <1>4, <1>5, <1>6, <1>7, <1>8, <1>9, <1>10, <1>11, <1>12, <1>13, <1>14,
     <1>15 DEF Next

LEMMA CallsDecide == Spec => []CallInv
BY InitDecides, NextKeepsDecisions, PTL DEF Spec

\* ValidateConfig and the renderer never differ on a configuration, over any number of
\* calls (config.go, namespace.go:50-92).
THEOREM ConfigAgrees == Spec => []ConfigAgreesWithRender
<1>1. CallInv => ConfigAgreesWithRender
  BY DEF CallInv
<1>2. QED
  BY <1>1, CallsDecide, PTL

\* What the validators let pass fails in no generator, but for the namespaces and
\* preserveUnknownFields (validator.go, generators.go:209-283).
THEOREM ValidatedAlwaysRender == Spec => []ValidatedRenders
<1>1. CallInv => ValidatedRenders
  BY DEF CallInv
<1>2. QED
  BY <1>1, CallsDecide, PTL

----------------------------------------------------------------------------
(* The objects of a rendering, and what they say of the namespaces that are watched.    *)

CallFields == {"step", "request", "targets", "ns", "objects", "error"}

Grants(b, targets, ns) == Permissions(b, targets, ns) \cup ClusterPermissions(b, targets, ns)
Ungranting(o) == "hash" \notin DOMAIN o /\ "subject" \notin DOMAIN o

\* An object that the scope is not about, a deployment and a webhook that are told of it.
Plain(o) == Ungranting(o) /\ o.kind \notin {"Deployment", "validating", "mutating"}
Informed(o, targets) ==
  /\ Ungranting(o) /\ o.kind = "Deployment" /\ "pod" \in DOMAIN o
  /\ "annotations" \in DOMAIN o.pod /\ o.pod.annotations["olm.targetNamespaces"] = targets
Selecting(o, targets) ==
  /\ Ungranting(o) /\ o.kind \in {"validating", "mutating"}
  /\ "selector" \in DOMAIN o /\ o.selector = getWebhookNamespaceSelector(targets)

Explained(o, b, targets, ns) ==
  /\ "kind" \in DOMAIN o
  /\ o \in Grants(b, targets, ns) \/ Plain(o) \/ Informed(o, targets) \/ Selecting(o, targets)

\* Targets that were not refused.
Watched(targets) ==
  Elements(targets) = {""} \/ (targets # <<>> /\ "" \notin Elements(targets))

Later == {"crds", "resources", "deployments", "validating", "mutating", "services",
          "certificates", "returned"}

Objects ==
  /\ call.step \in Generating \cup {"returned"} =>
       /\ Watched(call.targets)
       /\ \A o \in call.objects : Explained(o, bundle, call.targets, call.ns)
  /\ call.step \in Later \cup {"cluster permissions"} =>
       Permissions(bundle, call.targets, call.ns) \subseteq call.objects
  /\ call.step \in Later => ClusterPermissions(bundle, call.targets, call.ns) \subseteq call.objects

Inputs ==
  /\ bundle \in Bundles /\ renders \in Nat /\ DOMAIN call = CallFields
  /\ DOMAIN pods = DOMAIN bundle.deployments
  /\ \A i \in DOMAIN pods : "annotations" \in DOMAIN pods[i]
  /\ call.step \in {"configure", "validate"} => call.request.targets \in Seq(Names)
  /\ call.step \in Generating \cup {"namespace", "returned"} =>
       call.targets \in Seq(Elements(call.targets))

ScopeInv == Inputs /\ Objects

\* A call that has not got to the generators, or has failed, has no objects to speak of.
LEMMA RefusedKeepsScope ==
  ASSUME ScopeInv, NEW error, Refuse(error), UNCHANGED <<bundle, renders>>
  PROVE  ScopeInv'
<1>1. call' = [call EXCEPT !.step = "failed", !.error = error, !.objects = {}] /\ pods' = pods
  BY DEF Refuse
<1>2. DOMAIN call' = CallFields /\ call'.step = "failed"
  BY <1>1 DEF ScopeInv, Inputs, CallFields
<1>3. QED
  BY <1>1, <1>2 DEF ScopeInv, Inputs, Objects, Generating, Later

\* A generator whose objects are explained, and that brings the roles when it is its turn.
LEMMA GeneratedKeepsScope ==
  ASSUME ScopeInv, NEW step \in Generating, NEW next \in Generating \cup {"returned"}, NEW objects,
         call.step = step, UNCHANGED <<bundle, renders>>,
         call' = [call EXCEPT !.step = next, !.objects = objects],
         DOMAIN pods' = DOMAIN pods, \A i \in DOMAIN pods : "annotations" \in DOMAIN pods'[i],
         \A o \in objects : Explained(o, bundle, call.targets, call.ns),
         next \in Later \cup {"cluster permissions"} =>
           Permissions(bundle, call.targets, call.ns) \subseteq objects,
         next \in Later => ClusterPermissions(bundle, call.targets, call.ns) \subseteq objects
  PROVE  ScopeInv'
<1>1. /\ DOMAIN call' = CallFields /\ call'.step = next /\ call'.objects = objects
      /\ call'.targets = call.targets /\ call'.ns = call.ns
  BY DEF ScopeInv, Inputs, CallFields
<1>2. Inputs'
  <2>1. next \notin {"configure", "validate"}
    BY DEF Generating
  <2>2. QED
    BY <1>1, <2>1 DEF ScopeInv, Inputs
<1>3. Objects'
  BY <1>1 DEF ScopeInv, Objects
<1>4. QED
  BY <1>2, <1>3 DEF ScopeInv

LEMMA AppendKeepsScope ==
  ASSUME ScopeInv, NEW step \in Generating, NEW next \in Generating, NEW errors, NEW objects,
         Generate(step, next, errors, objects),
         errors = {} => \A o \in objects : Explained(o, bundle, call.targets, call.ns),
         next \in Later \cup {"cluster permissions"} =>
           \/ step \in Later \cup {"cluster permissions"}
           \/ Permissions(bundle, call.targets, call.ns) \subseteq objects,
         next \in Later =>
           \/ step \in Later
           \/ ClusterPermissions(bundle, call.targets, call.ns) \subseteq objects
  PROVE  ScopeInv'
<1>1. call.step = step /\ UNCHANGED <<bundle, renders, pods>>
  BY DEF Generate, At, Refuse
<1>2. CASE errors # {}
  <2>1. PICK e \in errors : Refuse(e)
    BY <1>2 DEF Generate
  <2>2. QED
    BY <1>1, <2>1, RefusedKeepsScope
<1>3. CASE errors = {}
  <2>1. PICK all : all = call.objects \cup objects
    OBVIOUS
  <2>2. call' = [call EXCEPT !.step = next, !.objects = all]
    BY <1>3, <2>1 DEF Generate
  <2>3. \A o \in all : Explained(o, bundle, call.targets, call.ns)
    BY <1>1, <1>3, <2>1 DEF ScopeInv, Objects
  <2>4. /\ next \in Later \cup {"cluster permissions"} =>
             Permissions(bundle, call.targets, call.ns) \subseteq all
        /\ next \in Later => ClusterPermissions(bundle, call.targets, call.ns) \subseteq all
    BY <1>1, <2>1 DEF ScopeInv, Objects
  <2>5. DOMAIN pods' = DOMAIN pods /\ \A i \in DOMAIN pods : "annotations" \in DOMAIN pods'[i]
    BY <1>1 DEF ScopeInv, Inputs
  <2>6. QED
    BY <1>1, <2>2, <2>3, <2>4, <2>5, GeneratedKeepsScope
<1>4. QED
  BY <1>2, <1>3

\* The generators that the scope is not about.
LEMMA PlainObjects ==
  ASSUME NEW b, NEW targets, NEW ns
  PROVE  /\ \A o \in ServiceAccounts(b, ns) : Explained(o, b, targets, ns)
         /\ \A o \in CRDs(b, ns) : Explained(o, b, targets, ns)
         /\ ~UnsupportedObject(b) =>
              \A o \in AdditionalResources(b, ns) : Explained(o, b, targets, ns)
         /\ \A o \in Services(b, ns) : Explained(o, b, targets, ns)
         /\ \A provider : \A o \in AdditionalObjects(b, provider, ns) : Explained(o, b, targets, ns)
<1>1. \A o \in ServiceAccounts(b, ns) : Explained(o, b, targets, ns)
  <2> SUFFICES ASSUME NEW o \in ServiceAccounts(b, ns) PROVE Explained(o, b, targets, ns)
    OBVIOUS
  <2>1. PICK sa : o = [kind |-> "ServiceAccount", ns |-> ns, name |-> sa]
    BY Zenon DEF ServiceAccounts
  <2>2. QED
    BY <2>1 DEF Explained, Plain, Ungranting
<1>2. \A o \in CRDs(b, ns) : Explained(o, b, targets, ns)
  <2> SUFFICES ASSUME NEW o \in CRDs(b, ns) PROVE Explained(o, b, targets, ns)
    OBVIOUS
  <2>1. PICK name, service :
          o = [kind |-> "CustomResourceDefinition", ns |-> "", name |-> name, ca |-> NoCA,
               service |-> service]
    BY Zenon DEF CRDs
  <2>2. QED
    BY <2>1 DEF Explained, Plain, Ungranting
<1>3. ~UnsupportedObject(b) =>
        \A o \in AdditionalResources(b, ns) : Explained(o, b, targets, ns)
  <2> SUFFICES ASSUME ~UnsupportedObject(b), NEW o \in AdditionalResources(b, ns)
               PROVE  Explained(o, b, targets, ns)
    OBVIOUS
  <2>1. PICK i, at :
          /\ i \in DOMAIN b.others
          /\ o = [kind |-> b.others[i].kind, ns |-> at, name |-> b.others[i].name, of |-> <<i>>]
    BY Zenon DEF AdditionalResources
  <2>2. b.others[i].kind \notin {"Deployment", "validating", "mutating"}
    BY <2>1, KindsAssumption DEF UnsupportedObject, Elements
  <2>3. QED
    BY <2>1, <2>2 DEF Explained, Plain, Ungranting
<1>4. \A o \in Services(b, ns) : Explained(o, b, targets, ns)
  BY DEF Services, Explained, Plain, Ungranting
<1>5. \A provider : \A o \in AdditionalObjects(b, provider, ns) : Explained(o, b, targets, ns)
  <2> SUFFICES ASSUME NEW provider, NEW o \in AdditionalObjects(b, provider, ns)
               PROVE  Explained(o, b, targets, ns)
    OBVIOUS
  <2>1. PICK d, cert :
          \/ o = [kind |-> "Issuer", ns |-> ns, name |-> IssuerName(cert), of |-> d]
          \/ o = [kind |-> "Certificate", ns |-> ns, name |-> cert, of |-> d, secret |-> cert,
                  issuer |-> IssuerName(cert)]
    BY DEF AdditionalObjects
  <2>2. QED
    BY <2>1 DEF Explained, Plain, Ungranting
<1>6. QED
  BY <1>1, <1>2, <1>3, <1>4, <1>5

LEMMA WebhookObjects ==
  ASSUME NEW b, NEW targets, NEW ns, NEW type \in {"validating", "mutating"}
  PROVE  \A o \in WebhookConfigurations(b, type, targets, ns) : Explained(o, b, targets, ns)
BY DEF WebhookConfigurations, Explained, Selecting, Ungranting

\* Roles and bindings have kinds of their own, and no certificates.
RoleKinds == {"Role", "RoleBinding", "ClusterRole", "ClusterRoleBinding"}

LEMMA RolesByPlace ==
  ASSUME NEW b, NEW targets, NEW install, NEW o
  PROVE  o \in RolesInTargets(b, targets, install) <=>
           \E i \in DOMAIN targets, k \in DOMAIN b.permissions :
             o \in RoleAndBinding(b.permissions[k], <<i, k>>, "Role", "RoleBinding", targets[i],
                                  install)
<1> DEFINE placed(i, k) ==
      RoleAndBinding(b.permissions[k], <<i, k>>, "Role", "RoleBinding", targets[i], install)
<1>1. RolesInTargets(b, targets, install) =
        UNION {placed(i, k) : i \in DOMAIN targets, k \in DOMAIN b.permissions}
  BY DEF RolesInTargets
<1> HIDE DEF placed
<1>2. o \in RolesInTargets(b, targets, install) <=>
        \E i \in DOMAIN targets, k \in DOMAIN b.permissions : o \in placed(i, k)
  BY <1>1
<1>3. QED
  BY <1>2 DEF placed

LEMMA GrantObjects ==
  ASSUME NEW b, NEW targets, NEW ns, NEW o \in Grants(b, targets, ns)
  PROVE  "kind" \in DOMAIN o /\ o.kind \in RoleKinds /\ "ca" \notin DOMAIN o
<1>1. ASSUME NEW p, NEW of, NEW kind \in RoleKinds, NEW binding \in RoleKinds, NEW t,
             o \in RoleAndBinding(p, of, kind, binding, t, ns)
      PROVE  "kind" \in DOMAIN o /\ o.kind \in RoleKinds /\ "ca" \notin DOMAIN o
  BY <1>1 DEF RoleAndBinding
<1>2. CASE o \in Permissions(b, targets, ns)
  <2>1. PICK p, of, t : o \in RoleAndBinding(p, of, "Role", "RoleBinding", t, ns)
    BY <1>2, RolesByPlace DEF Permissions
  <2>2. "Role" \in RoleKinds /\ "RoleBinding" \in RoleKinds
    BY DEF RoleKinds
  <2>3. QED
    BY <1>1, <2>1, <2>2
<1>3. CASE o \in ClusterPermissions(b, targets, ns)
  <2>1. PICK p, of : o \in RoleAndBinding(p, of, "ClusterRole", "ClusterRoleBinding", "", ns)
    BY <1>3 DEF ClusterPermissions
  <2>2. "ClusterRole" \in RoleKinds /\ "ClusterRoleBinding" \in RoleKinds
    BY DEF RoleKinds
  <2>3. QED
    BY <1>1, <2>1, <2>2
<1>4. QED
  BY <1>2, <1>3 DEF Grants

LEMMA LastHasTheWord ==
  ASSUME NEW f, NEW g, NEW key \in DOMAIN g
  PROVE  key \in DOMAIN MergeMaps(f, g) /\ MergeMaps(f, g)[key] = g[key]
BY DEF MergeMaps

\* The annotations that OLM adds to the template have the first word.
LEMMA DeploymentInformed ==
  ASSUME NEW b, NEW d, NEW pod, "annotations" \in DOMAIN pod, NEW config, NEW targets, NEW ns
  PROVE  Explained(Deployment(b, d, pod, config, targets, ns), b, targets, ns)
<1>1. PICK told : told = TemplateAnnotations(b, pod, targets, ns)
  OBVIOUS
<1>2. "olm.targetNamespaces" \in DOMAIN told /\ told["olm.targetNamespaces"] = targets
  <2>1. PICK olm : olm = [key \in {"olm.targetNamespaces", "olm.operatorNamespace"} |->
                            IF key = "olm.targetNamespaces" THEN targets ELSE <<ns>>]
    OBVIOUS
  <2>2. "olm.targetNamespaces" \in DOMAIN olm /\ olm["olm.targetNamespaces"] = targets
    BY <2>1
  <2>3. told = MergeMaps(MergeMaps(b.annotations, pod.annotations), olm)
    BY <1>1, <2>1 DEF TemplateAnnotations
  <2>4. QED
    BY <2>2, <2>3, LastHasTheWord
<1>3. PICK before : before = [pod EXCEPT !.annotations = told]
  OBVIOUS
<1>4. "annotations" \in DOMAIN before /\ before.annotations = told
  BY <1>3
<1>5. PICK after : after = applyCustomConfig(before, config)
  OBVIOUS
<1>6. "annotations" \in DOMAIN after /\ after.annotations["olm.targetNamespaces"] = targets
  <2>1. CASE config = Absent
    BY <1>2, <1>4, <1>5, <2>1 DEF applyCustomConfig
  <2>2. CASE config # Absent
    <3>1. PICK all : all = MergeMaps(config.annotations, told)
      OBVIOUS
    <3>2. all["olm.targetNamespaces"] = targets
      BY <1>2, <3>1, LastHasTheWord
    <3>3. /\ "annotations" \in DOMAIN after
          /\ after.annotations = MergeMaps(config.annotations, before.annotations)
      BY <1>4, <1>5, <2>2 DEF applyCustomConfig
    <3>4. QED
      BY <1>4, <3>1, <3>2, <3>3
  <2>3. QED
    BY <2>1, <2>2
<1>7. PICK o : o = Deployment(b, d, pod, config, targets, ns)
  OBVIOUS
<1>8. /\ DOMAIN o = {"kind", "ns", "name", "pod", "annotations"}
      /\ o.kind = "Deployment" /\ o.pod = after
  BY <1>1, <1>3, <1>5, <1>7 DEF Deployment
<1>9. QED
  BY <1>6, <1>7, <1>8 DEF Explained, Informed, Ungranting

\* A certificate changes neither what an object grants nor whom it is told to watch.
LEMMA CertificatesExplained ==
  ASSUME NEW b, NEW targets, NEW ns, NEW o, Explained(o, b, targets, ns), NEW provider, NEW secret
  PROVE  /\ Explained(InjectCABundle(o, provider), b, targets, ns) \/ "ca" \notin DOMAIN o
         /\ o.kind = "Deployment" =>
              Explained([o EXCEPT !.pod = ensureCorrectDeploymentCertVolumes(o.pod, secret)],
                        b, targets, ns)
<1>1. ASSUME "ca" \in DOMAIN o
      PROVE  Explained(InjectCABundle(o, provider), b, targets, ns)
  <2>1. PICK q : q = InjectCABundle(o, provider)
    OBVIOUS
  <2>2. q = o \/ \E ca : q = [o EXCEPT !.ca = ca]
    BY <2>1 DEF InjectCABundle
  <2>3. CASE \E ca : q = [o EXCEPT !.ca = ca]
    <3>1. PICK ca : q = [o EXCEPT !.ca = ca]
      BY <2>3
    <3>2. o \notin Grants(b, targets, ns)
      BY <1>1, GrantObjects
    <3>3. DOMAIN q = DOMAIN o /\ \A field \in DOMAIN o : field # "ca" => q[field] = o[field]
      BY <3>1
    <3>4. QED
      BY <2>1, <3>2, <3>3 DEF Explained, Plain, Informed, Selecting, Ungranting
  <2>4. QED
    BY <2>1, <2>2, <2>3
<1>2. ASSUME o.kind = "Deployment"
      PROVE  Explained([o EXCEPT !.pod = ensureCorrectDeploymentCertVolumes(o.pod, secret)],
                       b, targets, ns)
  <2>1. o \notin Grants(b, targets, ns)
    BY <1>2, GrantObjects DEF RoleKinds
  <2>2. "kind" \in DOMAIN o /\ Informed(o, targets)
    BY <1>2, <2>1 DEF Explained, Plain, Selecting
  <2>3. PICK pod : pod = ensureCorrectDeploymentCertVolumes(o.pod, secret)
    OBVIOUS
  <2>4. "annotations" \in DOMAIN pod /\ pod.annotations = o.pod.annotations
    BY <2>2, <2>3 DEF Informed, ensureCorrectDeploymentCertVolumes
  <2>5. PICK q : q = [o EXCEPT !.pod = pod]
    OBVIOUS
  <2>6. DOMAIN q = DOMAIN o /\ q.kind = o.kind /\ q.pod = pod
    BY <2>2, <2>5 DEF Informed
  <2>7. Informed(q, targets)
    BY <2>2, <2>4, <2>6 DEF Informed, Ungranting
  <2>8. QED
    BY <2>2, <2>3, <2>5, <2>6, <2>7 DEF Explained
<1>3. QED
  BY <1>1, <1>2

----------------------------------------------------------------------------
(* The steps. *)

LEMMA SequenceOfElements ==
  ASSUME NEW S, NEW s \in Seq(S)
  PROVE  s \in Seq(Elements(s))
<1>1. DOMAIN s = 1..Len(s) /\ Len(s) \in Nat /\ s = [i \in 1..Len(s) |-> s[i]]
  OBVIOUS
<1>2. \A i \in 1..Len(s) : s[i] \in Elements(s)
  BY <1>1 DEF Elements
<1>3. QED
  BY <1>1, <1>2

LEMMA InitScope == Init => ScopeInv
<1> SUFFICES ASSUME Init PROVE ScopeInv
  OBVIOUS
<1>1. /\ DOMAIN call = CallFields /\ call.step = "idle" /\ bundle \in Bundles /\ renders \in Nat
  BY DEF Init, NoCall, CallFields
<1>2. DOMAIN pods = DOMAIN bundle.deployments
  BY DEF Init, LoadedPods, Mapped
<1>3. \A i \in DOMAIN pods : pods[i] = bundle.deployments[i].pod
  BY <1>2 DEF Init, LoadedPods, Mapped
<1>4. \A i \in DOMAIN pods : "annotations" \in DOMAIN pods[i]
  BY <1>1, <1>2, <1>3, BundlesAssumption DEF Elements, IsPod
<1>5. QED
  BY <1>1, <1>2, <1>4 DEF ScopeInv, Inputs, Objects, Generating, Later

LEMMA CallKeepsScope ==
  ASSUME ScopeInv, NEW r \in Offered(bundle, renders + 1), Call(r)
  PROVE  ScopeInv'
<1>1. /\ DOMAIN call' = CallFields /\ call'.step \in {"validate", "configure"} /\ call'.request = r
      /\ UNCHANGED <<bundle, pods>> /\ renders' = renders + 1
  BY DEF Call, NoCall, CallFields
<1>2. renders + 1 \in 1..MaxRenders /\ renders + 1 \in Nat
  BY RequestsAssumption DEF Call, ScopeInv, Inputs
<1>3. r.targets \in Seq(Names)
  BY <1>2, RequestsAssumption DEF ScopeInv, Inputs
<1>4. QED
  BY <1>1, <1>2, <1>3 DEF ScopeInv, Inputs, Objects, Generating, Later

LEMMA UnmarshalConfigKeepsScope ==
  ASSUME ScopeInv, UnmarshalConfig
  PROVE  ScopeInv'
<1>1. call.step = "configure" /\ UNCHANGED <<bundle, renders>>
  BY DEF UnmarshalConfig, At
<1>2. CASE call' = [call EXCEPT !.step = "validate"] /\ UNCHANGED pods
  <2>1. /\ DOMAIN call' = CallFields /\ call'.step = "validate" /\ call'.request = call.request
    BY <1>2 DEF ScopeInv, Inputs, CallFields
  <2>2. QED
    BY <1>1, <1>2, <2>1 DEF ScopeInv, Inputs, Objects, Generating, Later
<1>3. CASE Refuse("configuration")
  BY <1>1, <1>3, RefusedKeepsScope
<1>4. QED
  BY <1>2, <1>3 DEF UnmarshalConfig

LEMMA ValidateKeepsScope ==
  ASSUME ScopeInv, Validate
  PROVE  ScopeInv'
<1>1. call.step = "validate" /\ UNCHANGED <<bundle, renders>>
  BY DEF Validate, At
<1>2. CASE Valid(bundle)
  <2>1. PICK targets : targets = WithTargetNamespaces(bundle.modes, Requested(call.request))
    OBVIOUS
  <2>2. call' = [call EXCEPT !.step = "namespace", !.targets = targets] /\ UNCHANGED pods
    BY <1>2, <2>1 DEF Validate
  <2>3. \E S : targets \in Seq(S)
    <3>1. call.request.targets \in Seq(Names)
      BY <1>1 DEF ScopeInv, Inputs
    <3>2. \A x : <<x>> \in Seq({x}) /\ <<>> \in Seq({x})
      OBVIOUS
    <3>3. QED
      BY <2>1, <3>1, <3>2 DEF WithTargetNamespaces, Requested, GetWatchNamespace,
                              defaultTargetNamespaces, AllNamespaces
  <2>4. targets \in Seq(Elements(targets))
    BY <2>3, SequenceOfElements
  <2>5. DOMAIN call' = CallFields /\ call'.step = "namespace" /\ call'.targets = targets
    BY <2>2 DEF ScopeInv, Inputs, CallFields
  <2>6. QED
    BY <1>1, <2>2, <2>4, <2>5 DEF ScopeInv, Inputs, Objects, Generating, Later
<1>3. CASE ~Valid(bundle)
  <2>1. Refuse("invalid")
    BY <1>3 DEF Validate
  <2>2. QED
    BY <1>1, <2>1, RefusedKeepsScope
<1>4. QED
  BY <1>2, <1>3

\* Targets that are not refused are all namespaces, or names of some.
LEMMA AcceptedAreWatched ==
  ASSUME NEW modes, NEW install \in Namespaces, NEW targets,
         validateTargetNamespaces(modes, install, targets)
  PROVE  Watched(targets)
<1>1. install # ""
  BY NamesAssumption
<1>2. Elements(targets) # {} => targets # <<>>
  BY DEF Elements
<1>3. QED
  BY <1>1, <1>2 DEF validateTargetNamespaces, Watched

LEMMA NamespaceKeepsScope ==
  ASSUME ScopeInv, BundleNamespaceGenerator
  PROVE  ScopeInv'
<1> DEFINE ns == InstallNamespace(bundle, call.request.self)
<1>1. call.step = "namespace" /\ UNCHANGED <<bundle, renders>>
  BY DEF BundleNamespaceGenerator, At
<1>2. CASE \E error : Refuse(error)
  BY <1>1, <1>2, RefusedKeepsScope
<1>3. CASE ~\E error : Refuse(error)
  <2>1. ns \in Namespaces /\ validateTargetNamespaces(bundle.modes, ns, call.targets)
    BY <1>3 DEF BundleNamespaceGenerator
  <2>2. Watched(call.targets)
    BY <2>1, AcceptedAreWatched
  <2>3. PICK namespace : namespace = [kind |-> "Namespace", ns |-> "", name |-> ns]
    OBVIOUS
  <2>4. PICK objects : objects = IF call.request.self # Absent THEN {} ELSE {namespace}
    OBVIOUS
  <2>5. /\ call' = [call EXCEPT !.step = "accounts", !.ns = ns, !.objects = objects]
        /\ UNCHANGED pods
    BY <1>3, <2>1, <2>3, <2>4, Zenon DEF BundleNamespaceGenerator
  <2> HIDE DEF ns
  <2>6. DOMAIN call = CallFields /\ DOMAIN call' = CallFields
    BY <2>5 DEF ScopeInv, Inputs
  <2>7. /\ call'.step = "accounts" /\ call'.targets = call.targets
        /\ call'.ns = ns /\ call'.objects = objects
    BY <2>5, <2>6 DEF CallFields
  <2>8. Explained(namespace, bundle, call.targets, ns)
    <3>1. namespace.kind = "Namespace" /\ DOMAIN namespace = {"kind", "ns", "name"}
      BY <2>3
    <3> QED
      BY <3>1 DEF Explained, Plain, Ungranting
  <2>9. \A o \in objects : Explained(o, bundle, call.targets, ns)
    BY <2>4, <2>8
  <2>10. Inputs'
    <3>1. /\ call.targets \in Seq(Elements(call.targets))
          /\ "accounts" \notin {"configure", "validate"}
      BY <1>1 DEF ScopeInv, Inputs
    <3> QED
      BY <1>1, <2>5, <2>6, <2>7, <3>1 DEF ScopeInv, Inputs
  <2>11. Objects'
    <3>1. /\ "accounts" \notin Later /\ "accounts" # "cluster permissions"
      BY DEF Later
    <3>2. \A o \in call'.objects : Explained(o, bundle', call'.targets, call'.ns)
      BY <1>1, <2>7, <2>9
    <3>3. Watched(call'.targets)
      BY <2>2, <2>7
    <3> QED
      BY <2>7, <3>1, <3>2, <3>3 DEF Objects
  <2>12. QED
    BY <2>2, <2>5, <2>7, <2>10, <2>11 DEF ScopeInv, Inputs
<1>4. QED
  BY <1>2, <1>3

LEMMA DeploymentsKeepScope ==
  ASSUME ScopeInv, BundleCSVDeploymentGenerator
  PROVE  ScopeInv'
<1> DEFINE made(i) == Deployment(bundle, bundle.deployments[i], pods[i], call.request.config,
                                 call.targets, call.ns)
<1>1. call.step = "deployments" /\ UNCHANGED <<bundle, renders>>
  BY DEF BundleCSVDeploymentGenerator, At
<1>2. PICK objects : objects = call.objects \cup {made(i) : i \in DOMAIN pods}
  OBVIOUS
<1>3. call' = [call EXCEPT !.step = "validating", !.objects = objects]
  BY <1>2 DEF BundleCSVDeploymentGenerator
<1>4. \A i \in DOMAIN pods : Explained(made(i), bundle, call.targets, call.ns)
  BY DeploymentInformed DEF ScopeInv, Inputs
<1>5. \A o \in objects : Explained(o, bundle, call.targets, call.ns)
  BY <1>1, <1>2, <1>4 DEF ScopeInv, Objects, Generating
<1>6. /\ Permissions(bundle, call.targets, call.ns) \subseteq objects
      /\ ClusterPermissions(bundle, call.targets, call.ns) \subseteq objects
  BY <1>1, <1>2 DEF ScopeInv, Objects, Later
<1>7. DOMAIN pods' = DOMAIN pods /\ \A i \in DOMAIN pods : "annotations" \in DOMAIN pods'[i]
  <2>1. DOMAIN pods' = DOMAIN pods
    BY DEF BundleCSVDeploymentGenerator, Mapped
  <2>2. ASSUME NEW i \in DOMAIN pods
        PROVE  "annotations" \in DOMAIN pods'[i]
    <3>1. pods'[i] = ConfiguredInPlace(pods[i], call.request.config)
      BY DEF BundleCSVDeploymentGenerator, Mapped
    <3>2. DOMAIN ConfiguredInPlace(pods[i], call.request.config) = DOMAIN pods[i]
      BY DEF ConfiguredInPlace
    <3>3. QED
      BY <3>1, <3>2 DEF ScopeInv, Inputs
  <2>3. QED
    BY <2>1, <2>2
<1>8. "deployments" \in Generating /\ "validating" \in Generating
  BY DEF Generating
<1>9. QED
  BY <1>1, <1>3, <1>5, <1>6, <1>7, <1>8, GeneratedKeepsScope

LEMMA CertificatesKeepScope ==
  ASSUME ScopeInv, CertProviderResourceGenerator
  PROVE  ScopeInv'
<1> DEFINE provider == call.request.provider
           transformed(o) == IF IsCertified(o) THEN [o EXCEPT !.pod = CertifiedPod(o)]
                             ELSE IF Provisioned(o) THEN InjectCABundle(o, provider) ELSE o
<1>1. call.step = "certificates" /\ UNCHANGED <<bundle, renders>>
  BY DEF CertProviderResourceGenerator, At
<1>2. PICK objects : objects = {transformed(o) : o \in call.objects}
                                 \cup AdditionalObjects(bundle, provider, call.ns)
  OBVIOUS
<1>3. call' = [call EXCEPT !.step = "returned", !.objects = objects]
  BY <1>2 DEF CertProviderResourceGenerator
<1>4. \A o \in call.objects : Explained(o, bundle, call.targets, call.ns)
  BY <1>1 DEF ScopeInv, Objects, Generating
<1>5. \A o \in objects : Explained(o, bundle, call.targets, call.ns)
  <2>1. ASSUME NEW o \in call.objects
        PROVE  Explained(transformed(o), bundle, call.targets, call.ns)
    <3>1. CASE IsCertified(o)
      BY <1>4, <3>1, CertificatesExplained DEF IsCertified, CertifiedPod
    <3>2. CASE ~IsCertified(o) /\ Provisioned(o)
      BY <1>4, <3>2, CertificatesExplained DEF Provisioned
    <3>3. CASE ~IsCertified(o) /\ ~Provisioned(o)
      BY <1>4, <3>3
    <3>4. QED
      BY <3>1, <3>2, <3>3
  <2>2. \A o \in AdditionalObjects(bundle, provider, call.ns) :
          Explained(o, bundle, call.targets, call.ns)
    BY PlainObjects
  <2>3. QED
    BY <1>2, <2>1, <2>2
<1>6. Grants(bundle, call.targets, call.ns) \subseteq objects
  <2>1. Grants(bundle, call.targets, call.ns) \subseteq call.objects
    BY <1>1 DEF ScopeInv, Objects, Later, Grants
  <2>2. \A o \in Grants(bundle, call.targets, call.ns) : transformed(o) = o
    BY GrantObjects DEF IsCertified, Provisioned, RoleKinds
  <2>3. QED
    BY <1>2, <2>1, <2>2
<1>7. DOMAIN pods' = DOMAIN pods /\ \A i \in DOMAIN pods : "annotations" \in DOMAIN pods'[i]
  <2>1. DOMAIN pods' = DOMAIN pods
    BY DEF CertProviderResourceGenerator
  <2>2. ASSUME NEW i \in DOMAIN pods
        PROVE  "annotations" \in DOMAIN pods'[i]
    <3>1. \/ pods'[i] = pods[i]
          \/ \E before, after :
               pods'[i] = CertifiedInPlace(pods[i], before, after, call.request.config)
      BY DEF CertProviderResourceGenerator
    <3>2. \A before, after :
            DOMAIN CertifiedInPlace(pods[i], before, after, call.request.config) = DOMAIN pods[i]
      BY DEF CertifiedInPlace
    <3>3. QED
      BY <3>1, <3>2 DEF ScopeInv, Inputs
  <2>3. QED
    BY <2>1, <2>2
<1>8. "certificates" \in Generating
  BY DEF Generating
<1>9. QED
  BY <1>1, <1>3, <1>5, <1>6, <1>7, <1>8, GeneratedKeepsScope DEF Grants

LEMMA NextKeepsScope == ScopeInv /\ [Next]_vars => ScopeInv'
<1> SUFFICES ASSUME ScopeInv, [Next]_vars PROVE ScopeInv'
  OBVIOUS
<1>0. /\ "accounts" \in Generating /\ "permissions" \in Generating
      /\ "cluster permissions" \in Generating /\ "crds" \in Generating
      /\ "resources" \in Generating /\ "deployments" \in Generating
      /\ "validating" \in Generating /\ "mutating" \in Generating
      /\ "services" \in Generating /\ "certificates" \in Generating
  BY DEF Generating
<1>1. ASSUME NEW r \in Offered(bundle, renders + 1), Call(r) PROVE ScopeInv'
  BY <1>1, CallKeepsScope
<1>2. CASE UnmarshalConfig
  BY <1>2, UnmarshalConfigKeepsScope
<1>3. CASE Validate
  BY <1>3, ValidateKeepsScope
<1>4. CASE BundleNamespaceGenerator
  BY <1>4, NamespaceKeepsScope
<1>5. CASE BundleCSVServiceAccountGenerator
  <2>1. "permissions" \notin Later \cup {"cluster permissions"}
    BY DEF Later
  <2>2. QED
    BY <1>0, <1>5, <2>1, PlainObjects, AppendKeepsScope DEF BundleCSVServiceAccountGenerator
<1>6. CASE BundleCSVPermissionsGenerator
  <2>1. \A o \in Permissions(bundle, call.targets, call.ns) :
          Explained(o, bundle, call.targets, call.ns)
    BY GrantObjects DEF Explained, Grants
  <2>2. "cluster permissions" \notin Later
    BY DEF Later
  <2>3. QED
    BY <1>0, <1>6, <2>1, <2>2, AppendKeepsScope DEF BundleCSVPermissionsGenerator
<1>7. CASE BundleCSVClusterPermissionsGenerator
  <2>1. \A o \in ClusterPermissions(bundle, call.targets, call.ns) :
          Explained(o, bundle, call.targets, call.ns)
    BY GrantObjects DEF Explained, Grants
  <2>2. QED
    BY <1>0, <1>7, <2>1, AppendKeepsScope DEF BundleCSVClusterPermissionsGenerator
<1>8. CASE BundleCRDGenerator
  <2>1. PICK errors : Generate("crds", "resources", errors, CRDs(bundle, call.ns))
    BY <1>8 DEF BundleCRDGenerator
  <2>2. "crds" \in Later
    BY DEF Later
  <2>3. QED
    BY <1>0, <2>1, <2>2, PlainObjects, AppendKeepsScope
<1>9. CASE BundleAdditionalResourcesGenerator
  <2>1. PICK errors : /\ Generate("resources", "deployments", errors,
                                  AdditionalResources(bundle, call.ns))
                      /\ errors = {} => ~UnsupportedObject(bundle)
    BY <1>9 DEF BundleAdditionalResourcesGenerator
  <2>2. "resources" \in Later
    BY DEF Later
  <2>3. QED
    BY <1>0, <2>1, <2>2, PlainObjects, AppendKeepsScope
<1>10. CASE BundleCSVDeploymentGenerator
  BY <1>10, DeploymentsKeepScope
<1>11. CASE BundleValidatingWebhookResourceGenerator
  <2>1. "validating" \in Later
    BY DEF Later
  <2>2. QED
    BY <1>0, <1>11, <2>1, WebhookObjects, AppendKeepsScope
       DEF BundleValidatingWebhookResourceGenerator
<1>12. CASE BundleMutatingWebhookResourceGenerator
  <2>1. "mutating" \in Later
    BY DEF Later
  <2>2. QED
    BY <1>0, <1>12, <2>1, WebhookObjects, AppendKeepsScope
       DEF BundleMutatingWebhookResourceGenerator
<1>13. CASE BundleDeploymentServiceResourceGenerator
  <2>1. "services" \in Later
    BY DEF Later
  <2>2. QED
    BY <1>0, <1>13, <2>1, PlainObjects, AppendKeepsScope
       DEF BundleDeploymentServiceResourceGenerator
<1>14. CASE CertProviderResourceGenerator
  BY <1>14, CertificatesKeepScope
<1>15. CASE UNCHANGED vars
  BY <1>15 DEF vars, ScopeInv, Inputs, Objects
<1>16. QED
  BY <1>1, <1>2, <1>3, <1>4, <1>5, <1>6, <1>7, <1>8, <1>9, <1>10, <1>11, <1>12, <1>13, <1>14,
     <1>15 DEF Next

LEMMA ScopesHold == Spec => []ScopeInv
BY InitScope, NextKeepsScope, PTL DEF Spec

----------------------------------------------------------------------------
(* What a rendering grants: a binding has the one role of its permission, because a name *)
(* has a hash of the whole permission.                                                   *)

RoleFor(p, of, kind, ns) ==
  [kind |-> kind, ns |-> ns, name |-> saNameOrDefault(p), of |-> of, hash |-> Hash(p),
   rules |-> p.rules]
BindingFor(p, of, kind, ns, install) ==
  [kind |-> kind, ns |-> ns, name |-> saNameOrDefault(p), of |-> of, hash |-> Hash(p),
   role |-> Hash(p), subject |-> [ns |-> install, name |-> saNameOrDefault(p)]]
Everywhere == <<>>
Right(p, rule, scope) == <<call.ns, saNameOrDefault(p), rule, scope>>

\* The permissions that are granted in each target, those that are granted everywhere, and
\* the places of both: of a target and a permission, and of a cluster permission.
Promoted ==
  {[p EXCEPT !.rules = @ \cup {NamespacesRule}] : p \in Elements(bundle.permissions)}
Local == IF call.targets = AllNamespaces THEN {} ELSE Elements(bundle.permissions)
Global == Elements(bundle.clusterPermissions)
            \cup IF call.targets = AllNamespaces THEN Promoted ELSE {}

AllGlobal == AllClusterPermissions(bundle, call.targets)
LocalPlaces == IF call.targets = AllNamespaces THEN {} ELSE DOMAIN bundle.permissions

LocalRole(i, k) == RoleFor(bundle.permissions[k], <<i, k>>, "Role", call.targets[i])
LocalBinding(i, k) ==
  BindingFor(bundle.permissions[k], <<i, k>>, "RoleBinding", call.targets[i], call.ns)
GlobalRole(k) == RoleFor(AllGlobal[k], <<k>>, "ClusterRole", "")
GlobalBinding(k) == BindingFor(AllGlobal[k], <<k>>, "ClusterRoleBinding", "", call.ns)

\* The roles and bindings of a rendering: one of each for every permission and namespace.
LEMMA GrantedObjects ==
  ASSUME NEW o
  PROVE  o \in Grants(bundle, call.targets, call.ns) <=>
           \/ \E i \in DOMAIN call.targets, k \in LocalPlaces :
                o = LocalRole(i, k) \/ o = LocalBinding(i, k)
           \/ \E k \in DOMAIN AllGlobal : o = GlobalRole(k) \/ o = GlobalBinding(k)
<1>1. \A p, of, kind, binding, t :
        RoleAndBinding(p, of, kind, binding, t, call.ns) =
          {RoleFor(p, of, kind, t), BindingFor(p, of, binding, t, call.ns)}
  BY DEF RoleAndBinding, RoleFor, BindingFor
<1>2. o \in Permissions(bundle, call.targets, call.ns) <=>
        \E i \in DOMAIN call.targets, k \in LocalPlaces :
          o = LocalRole(i, k) \/ o = LocalBinding(i, k)
  <2>1. CASE call.targets = AllNamespaces
    BY <2>1 DEF Permissions, LocalPlaces
  <2>2. CASE call.targets # AllNamespaces
    <3> DEFINE placed(i, k) == RoleAndBinding(bundle.permissions[k], <<i, k>>, "Role", "RoleBinding",
                                              call.targets[i], call.ns)
    <3>1. /\ LocalPlaces = DOMAIN bundle.permissions
          /\ Permissions(bundle, call.targets, call.ns) = RolesInTargets(bundle, call.targets, call.ns)
      BY <2>2 DEF Permissions, LocalPlaces
    <3>2. \A i, k : placed(i, k) = {LocalRole(i, k), LocalBinding(i, k)}
      BY <1>1, Zenon DEF LocalRole, LocalBinding
    <3>3. o \in RolesInTargets(bundle, call.targets, call.ns) <=>
            \E i \in DOMAIN call.targets, k \in DOMAIN bundle.permissions : o \in placed(i, k)
      BY RolesByPlace
    <3> HIDE DEF placed
    <3>4. QED
      BY <3>1, <3>2, <3>3
  <2>3. QED
    BY <2>1, <2>2
<1>3. o \in ClusterPermissions(bundle, call.targets, call.ns) <=>
        \E k \in DOMAIN AllGlobal : o = GlobalRole(k) \/ o = GlobalBinding(k)
  <2>1. ClusterPermissions(bundle, call.targets, call.ns) =
          UNION {RoleAndBinding(AllGlobal[k], <<k>>, "ClusterRole", "ClusterRoleBinding", "",
                                call.ns) : k \in DOMAIN AllGlobal}
    BY Zenon DEF ClusterPermissions, AllGlobal
  <2>2. \A k : RoleAndBinding(AllGlobal[k], <<k>>, "ClusterRole", "ClusterRoleBinding", "", call.ns) =
                 {GlobalRole(k), GlobalBinding(k)}
    BY <1>1, Zenon DEF GlobalRole, GlobalBinding
  <2>3. ClusterPermissions(bundle, call.targets, call.ns) =
          UNION {{GlobalRole(k), GlobalBinding(k)} : k \in DOMAIN AllGlobal}
    BY <2>1, <2>2
  <2>4. QED
    BY <2>3
<1>4. QED
  BY <1>2, <1>3 DEF Grants

LEMMA GrantsByKind ==
  ASSUME NEW o \in Grants(bundle, call.targets, call.ns)
  PROVE  /\ "hash" \in DOMAIN o
         /\ o.kind = "Role" => \E i \in DOMAIN call.targets, k \in LocalPlaces : o = LocalRole(i, k)
         /\ o.kind = "RoleBinding" =>
              \E i \in DOMAIN call.targets, k \in LocalPlaces : o = LocalBinding(i, k)
         /\ o.kind = "ClusterRole" => \E k \in DOMAIN AllGlobal : o = GlobalRole(k)
         /\ o.kind = "ClusterRoleBinding" => \E k \in DOMAIN AllGlobal : o = GlobalBinding(k)
<1>1. \A i, k : /\ LocalRole(i, k).kind = "Role" /\ "hash" \in DOMAIN LocalRole(i, k)
                /\ LocalBinding(i, k).kind = "RoleBinding" /\ "hash" \in DOMAIN LocalBinding(i, k)
  BY DEF LocalRole, LocalBinding, RoleFor, BindingFor
<1>2. \A k : /\ GlobalRole(k).kind = "ClusterRole" /\ "hash" \in DOMAIN GlobalRole(k)
             /\ GlobalBinding(k).kind = "ClusterRoleBinding" /\ "hash" \in DOMAIN GlobalBinding(k)
  BY DEF GlobalRole, GlobalBinding, RoleFor, BindingFor
<1>3. CASE \E i \in DOMAIN call.targets, k \in LocalPlaces :
             o = LocalRole(i, k) \/ o = LocalBinding(i, k)
  <2>1. PICK i \in DOMAIN call.targets, k \in LocalPlaces :
          o = LocalRole(i, k) \/ o = LocalBinding(i, k)
    BY <1>3
  <2>2. CASE o = LocalRole(i, k)
    <3>1. o.kind = "Role" /\ "hash" \in DOMAIN o
      BY <1>1, <2>2
    <3>2. QED
      BY <2>2, <3>1
  <2>3. CASE o = LocalBinding(i, k)
    <3>1. o.kind = "RoleBinding" /\ "hash" \in DOMAIN o
      BY <1>1, <2>3
    <3>2. QED
      BY <2>3, <3>1
  <2>4. QED
    BY <2>1, <2>2, <2>3
<1>4. CASE \E k \in DOMAIN AllGlobal : o = GlobalRole(k) \/ o = GlobalBinding(k)
  <2>1. PICK k \in DOMAIN AllGlobal : o = GlobalRole(k) \/ o = GlobalBinding(k)
    BY <1>4
  <2>2. CASE o = GlobalRole(k)
    <3>1. o.kind = "ClusterRole" /\ "hash" \in DOMAIN o
      BY <1>2, <2>2
    <3>2. QED
      BY <2>2, <3>1
  <2>3. CASE o = GlobalBinding(k)
    <3>1. o.kind = "ClusterRoleBinding" /\ "hash" \in DOMAIN o
      BY <1>2, <2>3
    <3>2. QED
      BY <2>3, <3>1
  <2>4. QED
    BY <2>1, <2>2, <2>3
<1>5. QED
  BY <1>3, <1>4, GrantedObjects

LEMMA RenderedGrants ==
  ASSUME ScopeInv, Returned, NEW o
  PROVE  o \in call.objects /\ ("hash" \in DOMAIN o \/ "subject" \in DOMAIN o) <=>
           o \in Grants(bundle, call.targets, call.ns)
<1>1. Grants(bundle, call.targets, call.ns) \subseteq call.objects
  BY DEF ScopeInv, Objects, Later, Grants, Returned
<1>2. ASSUME o \in call.objects, "hash" \in DOMAIN o \/ "subject" \in DOMAIN o
      PROVE  o \in Grants(bundle, call.targets, call.ns)
  BY <1>2 DEF ScopeInv, Objects, Returned, Explained, Plain, Informed, Selecting, Ungranting
<1>3. ASSUME o \in Grants(bundle, call.targets, call.ns)
      PROVE  "hash" \in DOMAIN o
  BY <1>3, GrantsByKind
<1>4. QED
  BY <1>1, <1>2, <1>3

\* The roles a binding finds are of its namespace and of a permission that is the same.
LEMMA LocalRights ==
  ASSUME ScopeInv, Returned
  PROVE  /\ \A o : o \in Bindings("RoleBinding") <=>
                     \E i \in DOMAIN call.targets, k \in LocalPlaces : o = LocalBinding(i, k)
         /\ \A i \in DOMAIN call.targets, k \in LocalPlaces : \A r :
              r \in RolesOf("Role", LocalBinding(i, k)) <=>
                \E j \in DOMAIN call.targets, l \in LocalPlaces :
                  /\ r = LocalRole(j, l) /\ call.targets[j] = call.targets[i]
                  /\ bundle.permissions[l] = bundle.permissions[k]
<1>1. ASSUME NEW o
      PROVE  o \in Bindings("RoleBinding") <=>
               \E i \in DOMAIN call.targets, k \in LocalPlaces : o = LocalBinding(i, k)
  <2>1. ASSUME o \in Bindings("RoleBinding")
        PROVE  \E i \in DOMAIN call.targets, k \in LocalPlaces : o = LocalBinding(i, k)
    <3>1. o \in Grants(bundle, call.targets, call.ns) /\ o.kind = "RoleBinding"
      BY <2>1, RenderedGrants DEF Bindings, Rendered
    <3>2. QED
      BY <3>1, GrantsByKind
  <2>2. ASSUME NEW i \in DOMAIN call.targets, NEW k \in LocalPlaces, o = LocalBinding(i, k)
        PROVE  o \in Bindings("RoleBinding")
    <3>1. o \in call.objects
      BY <2>2, GrantedObjects, RenderedGrants
    <3>2. "subject" \in DOMAIN o /\ o.kind = "RoleBinding"
      BY <2>2 DEF LocalBinding, BindingFor
    <3>3. QED
      BY <3>1, <3>2 DEF Bindings, Rendered
  <2>3. QED
    BY <2>1, <2>2
<1>2. ASSUME NEW i \in DOMAIN call.targets, NEW k \in LocalPlaces, NEW r
      PROVE  r \in RolesOf("Role", LocalBinding(i, k)) <=>
               \E j \in DOMAIN call.targets, l \in LocalPlaces :
                 /\ r = LocalRole(j, l) /\ call.targets[j] = call.targets[i]
                 /\ bundle.permissions[l] = bundle.permissions[k]
  <2>0. PICK p, t, b : p = bundle.permissions[k] /\ t = call.targets[i] /\ b = LocalBinding(i, k)
    OBVIOUS
  <2>1. b.ns = t /\ b.name = saNameOrDefault(p) /\ b.role = p
    BY <2>0 DEF LocalBinding, BindingFor, Hash
  <2>2. ASSUME r \in RolesOf("Role", b)
        PROVE  \E j \in DOMAIN call.targets, l \in LocalPlaces :
                 r = LocalRole(j, l) /\ call.targets[j] = t /\ bundle.permissions[l] = p
    <3>1. /\ r \in Grants(bundle, call.targets, call.ns) /\ r.kind = "Role" /\ r.ns = t
          /\ r.hash = p
      BY <2>1, <2>2, RenderedGrants DEF RolesOf, The, Rendered
    <3>2. PICK j \in DOMAIN call.targets, l \in LocalPlaces : r = LocalRole(j, l)
      BY <3>1, GrantsByKind
    <3>3. call.targets[j] = t /\ bundle.permissions[l] = p
      BY <3>1, <3>2 DEF LocalRole, RoleFor, Hash
    <3>4. QED
      BY <3>2, <3>3
  <2>3. ASSUME NEW j \in DOMAIN call.targets, NEW l \in LocalPlaces, r = LocalRole(j, l),
               call.targets[j] = t, bundle.permissions[l] = p
        PROVE  r \in RolesOf("Role", b)
    <3>1. r \in call.objects
      BY <2>3, GrantedObjects, RenderedGrants
    <3>2. /\ "hash" \in DOMAIN r /\ r.kind = "Role" /\ r.ns = t /\ r.name = saNameOrDefault(p)
          /\ r.hash = p
      BY <2>3 DEF LocalRole, RoleFor, Hash
    <3>3. QED
      BY <2>1, <3>1, <3>2 DEF RolesOf, The, Rendered
  <2>4. QED
    BY <2>0, <2>2, <2>3
<1>3. QED
  BY <1>1, <1>2

LEMMA GlobalRights ==
  ASSUME ScopeInv, Returned
  PROVE  /\ \A o : o \in Bindings("ClusterRoleBinding") <=>
                     \E k \in DOMAIN AllGlobal : o = GlobalBinding(k)
         /\ \A k \in DOMAIN AllGlobal : \A r :
              r \in RolesOf("ClusterRole", GlobalBinding(k)) <=>
                \E l \in DOMAIN AllGlobal : r = GlobalRole(l) /\ AllGlobal[l] = AllGlobal[k]
<1>1. ASSUME NEW o
      PROVE  o \in Bindings("ClusterRoleBinding") <=> \E k \in DOMAIN AllGlobal : o = GlobalBinding(k)
  <2>1. ASSUME o \in Bindings("ClusterRoleBinding")
        PROVE  \E k \in DOMAIN AllGlobal : o = GlobalBinding(k)
    <3>1. o \in Grants(bundle, call.targets, call.ns) /\ o.kind = "ClusterRoleBinding"
      BY <2>1, RenderedGrants DEF Bindings, Rendered
    <3>2. QED
      BY <3>1, GrantsByKind
  <2>2. ASSUME NEW k \in DOMAIN AllGlobal, o = GlobalBinding(k)
        PROVE  o \in Bindings("ClusterRoleBinding")
    <3>1. o \in call.objects
      BY <2>2, GrantedObjects, RenderedGrants
    <3>2. "subject" \in DOMAIN o /\ o.kind = "ClusterRoleBinding"
      BY <2>2 DEF GlobalBinding, BindingFor
    <3>3. QED
      BY <3>1, <3>2 DEF Bindings, Rendered
  <2>3. QED
    BY <2>1, <2>2
<1>2. ASSUME NEW k \in DOMAIN AllGlobal, NEW r
      PROVE  r \in RolesOf("ClusterRole", GlobalBinding(k)) <=>
               \E l \in DOMAIN AllGlobal : r = GlobalRole(l) /\ AllGlobal[l] = AllGlobal[k]
  <2>0. PICK p, b : p = AllGlobal[k] /\ b = GlobalBinding(k)
    OBVIOUS
  <2>1. b.ns = "" /\ b.name = saNameOrDefault(p) /\ b.role = p
    BY <2>0 DEF GlobalBinding, BindingFor, Hash
  <2>2. ASSUME r \in RolesOf("ClusterRole", b)
        PROVE  \E l \in DOMAIN AllGlobal : r = GlobalRole(l) /\ AllGlobal[l] = p
    <3>1. /\ r \in Grants(bundle, call.targets, call.ns) /\ r.kind = "ClusterRole" /\ r.hash = p
      BY <2>1, <2>2, RenderedGrants DEF RolesOf, The, Rendered
    <3>2. PICK l \in DOMAIN AllGlobal : r = GlobalRole(l)
      BY <3>1, GrantsByKind
    <3>3. AllGlobal[l] = p
      BY <3>1, <3>2 DEF GlobalRole, RoleFor, Hash
    <3>4. QED
      BY <3>2, <3>3
  <2>3. ASSUME NEW l \in DOMAIN AllGlobal, r = GlobalRole(l), AllGlobal[l] = p
        PROVE  r \in RolesOf("ClusterRole", b)
    <3>1. r \in call.objects
      BY <2>3, GrantedObjects, RenderedGrants
    <3>2. /\ "hash" \in DOMAIN r /\ r.kind = "ClusterRole" /\ r.ns = ""
          /\ r.name = saNameOrDefault(p) /\ r.hash = p
      BY <2>3 DEF GlobalRole, RoleFor, Hash
    <3>3. QED
      BY <2>1, <3>1, <3>2 DEF RolesOf, The, Rendered
  <2>4. QED
    BY <2>0, <2>2, <2>3
<1>3. QED
  BY <1>1, <1>2

\* The cluster permissions and the promoted ones, as a list and as a set.
LEMMA AllGlobalIsGlobal ==
  ASSUME ScopeInv
  PROVE  Elements(AllGlobal) = Global
<1>0. PICK s, t : s = bundle.clusterPermissions /\ t = bundle.permissions
  OBVIOUS
<1>1. s \in Seq(Elements(s)) /\ t \in Seq(Elements(t))
  BY <1>0, BundlesAssumption DEF ScopeInv, Inputs, IsSlice
<1>2. PICK all : all = AllGlobal
  OBVIOUS
<1>3. CASE call.targets # AllNamespaces
  <2>1. all = s \o <<>>
    BY <1>0, <1>2, <1>3 DEF AllGlobal, AllClusterPermissions
  <2>2. all = s
    BY <1>1, <2>1
  <2>3. QED
    BY <1>0, <1>2, <1>3, <2>2 DEF Global
<1>4. CASE call.targets = AllNamespaces
  <2>1. PICK u : u = [i \in DOMAIN t |-> [t[i] EXCEPT !.rules = @ \cup {NamespacesRule}]]
    OBVIOUS
  <2>2. all = s \o u
    BY <1>0, <1>2, <1>4, <2>1, Zenon DEF AllGlobal, AllClusterPermissions, Mapped
  <2>3. PICK m, n : m = Len(s) /\ n = Len(t)
    OBVIOUS
  <2>4. m \in Nat /\ n \in Nat /\ DOMAIN s = 1..m /\ DOMAIN t = 1..n
    BY <1>1, <2>3
  <2>5. Promoted = {u[i] : i \in 1..n}
    BY <1>0, <2>1, <2>4 DEF Promoted, Elements
  <2>6. DOMAIN u = 1..n /\ u \in Seq(Promoted) /\ Len(u) = n
    <3> DEFINE promoted(p) == [p EXCEPT !.rules = @ \cup {NamespacesRule}]
    <3>1. u = [i \in 1..n |-> promoted(t[i])]
      BY <2>1, <2>4
    <3> HIDE DEF promoted
    <3>2. DOMAIN u = 1..n /\ u = [i \in 1..n |-> u[i]]
      BY <3>1
    <3>3. u \in [1..n -> Promoted]
      BY <2>5, <3>2
    <3>4. QED
      BY <2>4, <3>2, <3>3
  <2>7. /\ DOMAIN all = 1..(m + n)
        /\ \A i \in 1..(m + n) : all[i] = IF i <= m THEN s[i] ELSE u[i - m]
    <3>1. PICK W : Elements(s) \subseteq W /\ Promoted \subseteq W
      <4>1. Elements(s) \subseteq Elements(s) \cup Promoted /\ Promoted \subseteq Elements(s) \cup Promoted
        OBVIOUS
      <4>2. QED
        BY <4>1
    <3>2. s \in Seq(W) /\ u \in Seq(W)
      BY <1>1, <2>6, <3>1
    <3>3. /\ all \in Seq(W) /\ Len(all) = Len(s) + Len(u)
          /\ \A i \in 1 .. Len(s) + Len(u) : all[i] = IF i <= Len(s) THEN s[i] ELSE u[i - Len(s)]
      BY <2>2, <3>2, ConcatProperties, Zenon
    <3>4. QED
      BY <2>3, <2>4, <2>6, <3>3
  <2>8. Elements(s) = {s[i] : i \in 1..m} /\ Elements(all) = {all[i] : i \in 1..(m + n)}
    BY <2>4, <2>7 DEF Elements
  <2>9. Elements(all) \subseteq Elements(s) \cup Promoted
    <3> SUFFICES ASSUME NEW i \in 1..(m + n) PROVE all[i] \in Elements(s) \cup Promoted
      BY <2>8
    <3>1. i <= m => i \in 1..m
      BY <2>4
    <3>2. i > m => i - m \in 1..n
      BY <2>4
    <3>3. QED
      BY <2>4, <2>5, <2>7, <2>8, <3>1, <3>2
  <2>10. Elements(s) \subseteq Elements(all)
    <3> SUFFICES ASSUME NEW i \in 1..m PROVE s[i] \in Elements(all)
      BY <2>8
    <3>1. i \in 1..(m + n) /\ i <= m
      BY <2>4
    <3>2. QED
      BY <2>7, <2>8, <3>1
  <2>11. Promoted \subseteq Elements(all)
    <3> SUFFICES ASSUME NEW i \in 1..n PROVE u[i] \in Elements(all)
      BY <2>5
    <3>1. m + i \in 1..(m + n) /\ ~(m + i <= m) /\ (m + i) - m = i
      BY <2>4
    <3>2. all[m + i] = u[i]
      BY <2>7, <3>1
    <3>3. QED
      BY <2>8, <3>1, <3>2
  <2>12. QED
    BY <1>0, <1>2, <1>4, <2>9, <2>10, <2>11 DEF Global
<1>5. QED
  BY <1>3, <1>4

\* What an account may do through a binding with the roles it finds.
RightsOf(b, roles, scope) ==
  {<<b.subject.ns, b.subject.name, rule, scope>> : rule \in UNION {r.rules : r \in roles}}

LEMMA RightsOfRoles ==
  ASSUME NEW p, NEW of, NEW binding, NEW t, NEW roles, NEW scope, NEW x,
         roles # {}, \A r \in roles : r.rules = p.rules
  PROVE  x \in RightsOf(BindingFor(p, of, binding, t, call.ns), roles, scope) <=>
           \E rule \in p.rules : x = Right(p, rule, scope)
<1>1. PICK b : b = BindingFor(p, of, binding, t, call.ns)
  OBVIOUS
<1>2. b.subject.ns = call.ns /\ b.subject.name = saNameOrDefault(p)
  BY <1>1 DEF BindingFor
<1>3. \A rule : rule \in UNION {r.rules : r \in roles} <=> rule \in p.rules
  OBVIOUS
<1>4. x \in RightsOf(b, roles, scope) <=> \E rule \in p.rules : x = Right(p, rule, scope)
  BY <1>2, <1>3 DEF RightsOf, Right
<1>5. QED
  BY <1>1, <1>4

LEMMA GrantedRights ==
  ASSUME ScopeInv, Returned, NEW x
  PROVE  x \in Granted <=>
           \/ \E p \in Local, t \in Elements(call.targets) :
                \E rule \in p.rules : x = Right(p, rule, <<t>>)
           \/ \E p \in Global : \E rule \in p.rules : x = Right(p, rule, Everywhere)
<1>1. x \in Granted <=>
        \/ \E b \in Bindings("RoleBinding") : x \in RightsOf(b, RolesOf("Role", b), <<b.ns>>)
        \/ \E b \in Bindings("ClusterRoleBinding") :
             x \in RightsOf(b, RolesOf("ClusterRole", b), Everywhere)
  <2>1. Granted =
          (UNION {RightsOf(b, RolesOf("Role", b), <<b.ns>>) : b \in Bindings("RoleBinding")}) \cup
          (UNION {RightsOf(b, RolesOf("ClusterRole", b), Everywhere) :
                    b \in Bindings("ClusterRoleBinding")})
    BY Zenon DEF Granted, RightsOf, Everywhere
  <2>2. QED
    BY <2>1
<1>2. ASSUME NEW i \in DOMAIN call.targets, NEW k \in LocalPlaces, NEW b, b = LocalBinding(i, k)
      PROVE  x \in RightsOf(b, RolesOf("Role", b), <<b.ns>>) <=>
               \E rule \in bundle.permissions[k].rules :
                 x = Right(bundle.permissions[k], rule, <<call.targets[i]>>)
  <2>1. PICK p, t, roles : p = bundle.permissions[k] /\ t = call.targets[i] /\ roles = RolesOf("Role", b)
    OBVIOUS
  <2>2. roles # {}
    BY <1>2, <2>1, LocalRights
  <2>3. \A r \in roles : r.rules = p.rules
    <3> SUFFICES ASSUME NEW r \in roles PROVE r.rules = p.rules
      OBVIOUS
    <3>1. PICK j, l : r = LocalRole(j, l) /\ bundle.permissions[l] = p
      BY <1>2, <2>1, LocalRights
    <3>2. QED
      BY <3>1 DEF LocalRole, RoleFor
  <2>4. b = BindingFor(p, <<i, k>>, "RoleBinding", t, call.ns)
    BY <1>2, <2>1 DEF LocalBinding
  <2>5. b.ns = t
    BY <2>4 DEF BindingFor
  <2>6. x \in RightsOf(b, roles, <<t>>) <=> \E rule \in p.rules : x = Right(p, rule, <<t>>)
    BY <2>2, <2>3, <2>4, RightsOfRoles
  <2>7. QED
    BY <2>1, <2>5, <2>6
<1>3. ASSUME NEW k \in DOMAIN AllGlobal, NEW b, b = GlobalBinding(k)
      PROVE  x \in RightsOf(b, RolesOf("ClusterRole", b), Everywhere) <=>
               \E rule \in AllGlobal[k].rules : x = Right(AllGlobal[k], rule, Everywhere)
  <2>1. PICK p, none, roles : p = AllGlobal[k] /\ none = "" /\ roles = RolesOf("ClusterRole", b)
    OBVIOUS
  <2>2. roles # {}
    BY <1>3, <2>1, GlobalRights
  <2>3. \A r \in roles : r.rules = p.rules
    <3> SUFFICES ASSUME NEW r \in roles PROVE r.rules = p.rules
      OBVIOUS
    <3>1. PICK l : r = GlobalRole(l) /\ AllGlobal[l] = p
      BY <1>3, <2>1, GlobalRights
    <3>2. QED
      BY <3>1 DEF GlobalRole, RoleFor
  <2>4. b = BindingFor(p, <<k>>, "ClusterRoleBinding", none, call.ns)
    BY <1>3, <2>1 DEF GlobalBinding
  <2>5. x \in RightsOf(b, roles, Everywhere) <=> \E rule \in p.rules : x = Right(p, rule, Everywhere)
    BY <2>2, <2>3, <2>4, RightsOfRoles
  <2>6. QED
    BY <2>1, <2>5
<1>4. (\E b \in Bindings("RoleBinding") : x \in RightsOf(b, RolesOf("Role", b), <<b.ns>>)) <=>
        \E p \in Local, t \in Elements(call.targets) :
          \E rule \in p.rules : x = Right(p, rule, <<t>>)
  <2> DEFINE granted(b) == x \in RightsOf(b, RolesOf("Role", b), <<b.ns>>)
             right(p, t) == \E rule \in p.rules : x = Right(p, rule, <<t>>)
  <2>0. \A i \in DOMAIN call.targets, k \in LocalPlaces :
          granted(LocalBinding(i, k)) <=> right(bundle.permissions[k], call.targets[i])
    BY <1>2
  <2>1. \A b : b \in Bindings("RoleBinding") <=>
          \E i \in DOMAIN call.targets, k \in LocalPlaces : b = LocalBinding(i, k)
    BY LocalRights
  <2>2. \A p : p \in Local <=> \E k \in LocalPlaces : p = bundle.permissions[k]
    BY DEF Local, LocalPlaces, Elements
  <2>3. \A t : t \in Elements(call.targets) <=> \E i \in DOMAIN call.targets : t = call.targets[i]
    BY DEF Elements
  <2> HIDE DEF granted, right
  <2>4. (\E b \in Bindings("RoleBinding") : granted(b)) <=>
          \E p \in Local, t \in Elements(call.targets) : right(p, t)
    BY <2>0, <2>1, <2>2, <2>3
  <2>5. QED
    BY <2>4 DEF granted, right
<1>5. (\E b \in Bindings("ClusterRoleBinding") :
         x \in RightsOf(b, RolesOf("ClusterRole", b), Everywhere)) <=>
        \E p \in Global : \E rule \in p.rules : x = Right(p, rule, Everywhere)
  <2>1. (\E b \in Bindings("ClusterRoleBinding") :
           x \in RightsOf(b, RolesOf("ClusterRole", b), Everywhere)) <=>
          \E k \in DOMAIN AllGlobal : \E rule \in AllGlobal[k].rules :
            x = Right(AllGlobal[k], rule, Everywhere)
    BY <1>3, GlobalRights
  <2>2. \A p : p \in Global <=> \E k \in DOMAIN AllGlobal : p = AllGlobal[k]
    BY AllGlobalIsGlobal DEF Elements
  <2>3. QED
    BY <2>1, <2>2
<1>6. QED
  BY <1>1, <1>4, <1>5

\* The same of what the bundle asks for.
RightsFor(p, rules, scope) == {Right(p, rule, scope) : rule \in rules}

LEMMA DeclaredRights ==
  ASSUME NEW x
  PROVE  x \in Declared <=>
           \/ \E p \in Elements(bundle.clusterPermissions) : x \in RightsFor(p, p.rules, Everywhere)
           \/ /\ Elements(call.targets) = {""}
              /\ \E p \in Elements(bundle.permissions) :
                   x \in RightsFor(p, p.rules \cup {NamespacesRule}, Everywhere)
           \/ /\ Elements(call.targets) # {""}
              /\ \E p \in Elements(bundle.permissions), t \in Elements(call.targets) :
                   x \in RightsFor(p, p.rules, <<t>>)
<1> DEFINE asked(p) == IF Elements(call.targets) = {""}
                       THEN RightsFor(p, p.rules \cup {NamespacesRule}, Everywhere)
                       ELSE UNION {RightsFor(p, p.rules, <<t>>) : t \in Elements(call.targets)}
<1>1. Declared =
        (UNION {RightsFor(p, p.rules, Everywhere) : p \in Elements(bundle.clusterPermissions)}) \cup
        (UNION {asked(p) : p \in Elements(bundle.permissions)})
  BY Zenon DEF Declared, RightsFor, Right, Everywhere
<1>2. \A p : x \in asked(p) <=>
        IF Elements(call.targets) = {""}
        THEN x \in RightsFor(p, p.rules \cup {NamespacesRule}, Everywhere)
        ELSE \E t \in Elements(call.targets) : x \in RightsFor(p, p.rules, <<t>>)
  OBVIOUS
<1> HIDE DEF asked
<1>3. x \in Declared <=>
        \/ \E p \in Elements(bundle.clusterPermissions) : x \in RightsFor(p, p.rules, Everywhere)
        \/ \E p \in Elements(bundle.permissions) : x \in asked(p)
  BY <1>1
<1>4. QED
  BY <1>2, <1>3

\* A permission that is promoted is of the same account and has one rule more.
LEMMA PromotedRights ==
  ASSUME ScopeInv, NEW p \in Elements(bundle.permissions), NEW q,
         q = [p EXCEPT !.rules = @ \cup {NamespacesRule}]
  PROVE  /\ q.rules = p.rules \cup {NamespacesRule}
         /\ saNameOrDefault(q) = saNameOrDefault(p)
<1>1. p = [sa |-> p.sa, rules |-> p.rules]
  BY BundlesAssumption DEF ScopeInv, Inputs
<1>2. q.sa = p.sa /\ q.rules = p.rules \cup {NamespacesRule}
  BY <1>1
<1>3. QED
  BY <1>2 DEF saNameOrDefault

LEMMA OneElement ==
  ASSUME NEW S, NEW s \in Seq(S), NEW x
  PROVE  /\ Elements(<<x>>) = {x}
         /\ Len(s) = 1 /\ Elements(s) = {x} => s = <<x>>
<1>1. \A y : Elements(<<y>>) = {y}
  BY DEF Elements
<1>2. ASSUME Len(s) = 1, Elements(s) = {x}
      PROVE  s = <<x>>
  <2>1. DOMAIN s = 1..1
    BY <1>2
  <2>2. s[1] \in Elements(s)
    BY <2>1 DEF Elements
  <2>3. s[1] = x
    BY <1>2, <2>2
  <2>4. QED
    BY <1>2, <2>3
<1>3. QED
  BY <1>1, <1>2

LEMMA TargetsOfAll ==
  ASSUME ScopeInv, Returned, Elements(call.targets) = {""} => Len(call.targets) = 1
  PROVE  Elements(call.targets) = {""} <=> call.targets = AllNamespaces
<1>1. call.targets \in Seq(Elements(call.targets))
  BY DEF ScopeInv, Inputs, Returned
<1>2. ASSUME Elements(call.targets) = {""}
      PROVE  call.targets = AllNamespaces
  BY <1>1, <1>2, OneElement DEF AllNamespaces
<1>3. ASSUME call.targets = AllNamespaces
      PROVE  Elements(call.targets) = {""}
  BY <1>1, <1>3, OneElement DEF AllNamespaces
<1>4. QED
  BY <1>2, <1>3

LEMMA GrantedIsDeclared ==
  ASSUME ScopeInv, Returned, Elements(call.targets) = {""} => Len(call.targets) = 1
  PROVE  Granted = Declared
<1> SUFFICES ASSUME NEW x PROVE x \in Granted <=> x \in Declared
  OBVIOUS
<1> DEFINE all == call.targets = AllNamespaces
<1>1. all <=> Elements(call.targets) = {""}
  BY TargetsOfAll
<1>2. \A p, rules, scope : x \in RightsFor(p, rules, scope) <=>
        \E rule \in rules : x = Right(p, rule, scope)
  BY DEF RightsFor
<1>3. (\E p \in Local, t \in Elements(call.targets) :
         \E rule \in p.rules : x = Right(p, rule, <<t>>)) <=>
        /\ ~all
        /\ \E p \in Elements(bundle.permissions), t \in Elements(call.targets) :
             x \in RightsFor(p, p.rules, <<t>>)
  BY <1>2 DEF Local
<1>4. (\E p \in Promoted : \E rule \in p.rules : x = Right(p, rule, Everywhere)) <=>
        \E p \in Elements(bundle.permissions) :
          x \in RightsFor(p, p.rules \cup {NamespacesRule}, Everywhere)
  <2>1. ASSUME NEW p \in Elements(bundle.permissions), NEW q,
               q = [p EXCEPT !.rules = @ \cup {NamespacesRule}]
        PROVE  (\E rule \in q.rules : x = Right(q, rule, Everywhere)) <=>
                 x \in RightsFor(p, p.rules \cup {NamespacesRule}, Everywhere)
    <3>1. q.rules = p.rules \cup {NamespacesRule}
      BY <2>1, PromotedRights
    <3>2. \A rule : Right(q, rule, Everywhere) = Right(p, rule, Everywhere)
      <4>1. saNameOrDefault(q) = saNameOrDefault(p)
        BY <2>1, PromotedRights
      <4>2. QED
        BY <4>1 DEF Right
    <3>3. x \in RightsFor(p, p.rules \cup {NamespacesRule}, Everywhere) <=>
            \E rule \in p.rules \cup {NamespacesRule} : x = Right(p, rule, Everywhere)
      BY <1>2
    <3>4. QED
      BY <3>1, <3>2, <3>3
  <2>2. QED
    BY <2>1 DEF Promoted
<1>5. (\E p \in Global : \E rule \in p.rules : x = Right(p, rule, Everywhere)) <=>
        \/ \E p \in Elements(bundle.clusterPermissions) : x \in RightsFor(p, p.rules, Everywhere)
        \/ all /\ \E p \in Promoted : \E rule \in p.rules : x = Right(p, rule, Everywhere)
  BY <1>2 DEF Global
<1>6. QED
  BY <1>1, <1>3, <1>4, <1>5, GrantedRights, DeclaredRights

\* In what a rendering returns the accounts have the rights that the bundle declares, in
\* the namespaces that are watched and nowhere else, whatever the bundle, the request and
\* the renderings before it; its webhooks and its operator are told the same namespaces
\* (generators.go:104-177, :597, :77).
THEOREM ScopesAreExact == Spec => []ScopeIsExact
<1>1. ASSUME ScopeInv
      PROVE  ScopeIsExact
  <2> SUFFICES ASSUME Returned, Elements(call.targets) = {""} => Len(call.targets) = 1
               PROVE  /\ Granted = Declared
                      /\ \A o \in Rendered("validating") \cup Rendered("mutating") :
                           o.selector = IF call.targets = AllNamespaces THEN Absent
                                        ELSE Elements(call.targets)
                      /\ \A o \in Rendered("Deployment") :
                           o.pod.annotations["olm.targetNamespaces"] = call.targets
    BY DEF ScopeIsExact
  <2>1. Granted = Declared
    BY <1>1, GrantedIsDeclared
  <2>2. ASSUME NEW o \in call.objects, o.kind \in {"Deployment", "validating", "mutating"}
        PROVE  Informed(o, call.targets) \/ Selecting(o, call.targets)
    <3>1. o \notin Grants(bundle, call.targets, call.ns)
      BY <2>2, GrantObjects DEF RoleKinds
    <3>2. QED
      BY <1>1, <2>2, <3>1 DEF ScopeInv, Objects, Returned, Explained, Plain
  <2>3. getWebhookNamespaceSelector(call.targets) =
          IF call.targets = AllNamespaces THEN Absent ELSE Elements(call.targets)
    BY <1>1, TargetsOfAll
       DEF ScopeInv, Objects, Returned, Watched, getWebhookNamespaceSelector
  <2>4. ASSUME NEW o \in Rendered("validating") \cup Rendered("mutating")
        PROVE  o.selector = IF call.targets = AllNamespaces THEN Absent
                            ELSE Elements(call.targets)
    BY <2>2, <2>3, <2>4 DEF Rendered, Informed, Selecting
  <2>5. ASSUME NEW o \in Rendered("Deployment")
        PROVE  o.pod.annotations["olm.targetNamespaces"] = call.targets
    BY <2>2, <2>5 DEF Rendered, Informed, Selecting
  <2>6. QED
    BY <2>1, <2>4, <2>5
<1>2. QED
  BY <1>1, ScopesHold, PTL

----------------------------------------------------------------------------
(* What the objects of a rendering are, and what is there once its generator has run. *)

HaveAccounts == Later \cup {"permissions", "cluster permissions"}
HaveDeployments == {"validating", "mutating", "services", "certificates", "returned"}
HaveServices == {"certificates", "returned"}

\* An object with nothing but a name.
Bare(o) == o = [kind |-> o.kind, ns |-> o.ns, name |-> o.name]
IsDeployment(o, d, ns) ==
  /\ DOMAIN o = {"kind", "ns", "name", "pod", "annotations"}
  /\ o.kind = "Deployment" /\ o.ns = ns /\ o.name = d
\* The deployments with webhooks, and the service that is generated for one of them.
Served(b) == {d \in Elements(b.deployments) : d.name \in WithWebhooks(b)}
Selected(d) == IF d.selector = Absent THEN {} ELSE d.selector
IsService(s, d, b, ns) ==
  /\ DOMAIN s = {"kind", "ns", "name", "of", "ports", "ca", "selects"}
  /\ s.kind = "Service" /\ s.ns = ns /\ s.name = WebhookServiceNameForDeployment(d.name)
  /\ s.of = d.name /\ s.ports = PortsOf(b, d.name) /\ s.selects = Selected(d)

CertOf(d) == CertName(WebhookServiceNameForDeployment(d))
CertificateOf(d, ns) ==
  [kind |-> "Certificate", ns |-> ns, name |-> CertOf(d), of |-> d, secret |-> CertOf(d),
   issuer |-> IssuerName(CertOf(d))]
IssuerOf(d, ns) == [kind |-> "Issuer", ns |-> ns, name |-> IssuerName(CertOf(d)), of |-> d]

FromBundle(o, b) ==
  /\ o = [kind |-> o.kind, ns |-> o.ns, name |-> o.name, of |-> o.of]
  /\ \E x \in Elements(b.others) : x.kind = o.kind /\ x.name = o.name

\* The webhooks of a bundle that an object may be made of.
MadeOf(o, b) ==
  {w \in Elements(b.webhooks) :
     IF w.type = "conversion"
     THEN o.kind = "CustomResourceDefinition" /\ o.name \in Elements(w.crds)
     ELSE o.kind = w.type /\ o.name = w.name}

Known(o, b, ns) ==
  /\ "kind" \in DOMAIN o
  /\ o.kind = "ServiceAccount" => Bare(o) \/ FromBundle(o, b)
  /\ o.kind = "Deployment" => \E d \in NamesOf(b.deployments) : IsDeployment(o, d, ns)
  /\ o.kind = "Service" => FromBundle(o, b) \/ \E d \in Served(b) : IsService(o, d, b, ns)
  /\ o.kind = "Issuer" => FromBundle(o, b) \/ \E d \in WithWebhooks(b) : o = IssuerOf(d, ns)
  /\ o.kind = "Certificate" =>
       FromBundle(o, b) \/ \E d \in WithWebhooks(b) : o = CertificateOf(d, ns)
  /\ o.kind \in {"validating", "mutating", "CustomResourceDefinition"} =>
       /\ {"name", "service", "ca"} \subseteq DOMAIN o
       /\ o.service = Absent \/ \E w \in MadeOf(o, b) : o.service = ServiceReference(w, ns)

\* No deployment and no service is there twice that is generated for one name.
Distinct(objects) ==
  /\ \A o, q \in objects :
       o.kind = "Deployment" /\ q.kind = "Deployment" /\ o.name = q.name => o = q
  /\ \A o, q \in {s \in objects : {"selects", "of"} \subseteq DOMAIN s} : o.of = q.of => o = q

\* What is there before a step, and what cannot be there yet.
Present(b, ns, step, objects) ==
  /\ step \in HaveAccounts => ServiceAccounts(b, ns) \subseteq objects
  /\ IF step \in HaveDeployments
     THEN \A d \in NamesOf(b.deployments) : \E o \in objects : IsDeployment(o, d, ns)
     ELSE \A o \in objects : o.kind # "Deployment"
  /\ IF step \in HaveServices
     THEN \A d \in Served(b) : \E s \in objects : IsService(s, d, b, ns)
     ELSE \A o \in objects : "selects" \notin DOMAIN o

Linked(b, ns, step, objects) ==
  /\ \A o \in objects : Known(o, b, ns)
  /\ Distinct(objects)
  /\ Present(b, ns, step, objects)

LinkInv ==
  call.step \in Generating \cup {"returned"} =>
    Valid(bundle) /\ Linked(bundle, call.ns, call.step, call.objects)

\* An object that nothing refers to by its name, but for an account.
Neutral(o, b, ns) == Known(o, b, ns) /\ o.kind # "Deployment" /\ "selects" \notin DOMAIN o
AllNeutral(objects, b, ns) == \A o \in objects : Neutral(o, b, ns)

LEMMA NeutralLinks ==
  ASSUME NEW b, NEW ns, NEW step, NEW next, NEW S, NEW T,
         Linked(b, ns, step, S), \A o \in T : Neutral(o, b, ns),
         step \in HaveDeployments <=> next \in HaveDeployments,
         step \in HaveServices <=> next \in HaveServices,
         next \in HaveAccounts => step \in HaveAccounts \/ ServiceAccounts(b, ns) \subseteq T
  PROVE  Linked(b, ns, next, S \cup T)
<1>1. \A o \in S \cup T : Known(o, b, ns)
  BY DEF Linked, Neutral
<1>2. Distinct(S \cup T)
  <2>1. Distinct(S) /\ \A o \in T : o.kind # "Deployment" /\ "selects" \notin DOMAIN o
    BY DEF Linked, Neutral
  <2>2. QED
    BY <2>1 DEF Distinct
<1>3. Present(b, ns, next, S \cup T)
  <2>1. Present(b, ns, step, S) /\ \A o \in T : o.kind # "Deployment" /\ "selects" \notin DOMAIN o
    BY DEF Linked, Neutral
  <2>2. next \in HaveAccounts => ServiceAccounts(b, ns) \subseteq S \cup T
    BY <2>1 DEF Present
  <2>3. IF next \in HaveDeployments
        THEN \A d \in NamesOf(b.deployments) : \E o \in S \cup T : IsDeployment(o, d, ns)
        ELSE \A o \in S \cup T : o.kind # "Deployment"
    BY <2>1 DEF Present
  <2>4. IF next \in HaveServices
        THEN \A d \in Served(b) : \E s \in S \cup T : IsService(s, d, b, ns)
        ELSE \A o \in S \cup T : "selects" \notin DOMAIN o
    BY <2>1 DEF Present
  <2>5. QED
    BY <2>2, <2>3, <2>4 DEF Present
<1>4. QED
  BY <1>1, <1>2, <1>3 DEF Linked

\* The deployments are there once each, because their names are unique.
LEMMA DeploymentsLink ==
  ASSUME NEW b, NEW ns, NEW S, NEW T, Linked(b, ns, "deployments", S),
         \A o \in T : \E i \in DOMAIN b.deployments : IsDeployment(o, b.deployments[i].name, ns),
         \A i \in DOMAIN b.deployments : \E o \in T : IsDeployment(o, b.deployments[i].name, ns),
         \A o, q \in T : o.name = q.name => o = q
  PROVE  Linked(b, ns, "validating", S \cup T)
<1>1. \A o \in T : \E d \in NamesOf(b.deployments) : IsDeployment(o, d, ns)
  BY DEF NamesOf, Elements
<1>2. \A o \in T : o.kind = "Deployment" /\ "kind" \in DOMAIN o /\ "selects" \notin DOMAIN o
  BY <1>1 DEF IsDeployment
<1>3. /\ "deployments" \notin HaveDeployments /\ "validating" \in HaveDeployments
      /\ "deployments" \notin HaveServices /\ "validating" \notin HaveServices
      /\ "deployments" \in HaveAccounts
  BY DEF HaveDeployments, HaveServices, HaveAccounts, Later
<1>4. /\ \A o \in S : o.kind # "Deployment" /\ "selects" \notin DOMAIN o
      /\ ServiceAccounts(b, ns) \subseteq S
  BY <1>3 DEF Linked, Present
<1>5. \A o \in S \cup T : Known(o, b, ns)
  <2>1. \A o \in T : Known(o, b, ns)
    BY <1>1, <1>2 DEF Known
  <2>2. QED
    BY <2>1 DEF Linked
<1>6. Distinct(S \cup T)
  BY <1>2, <1>4 DEF Distinct
<1>7. \A d \in NamesOf(b.deployments) : \E o \in T : IsDeployment(o, d, ns)
  BY DEF NamesOf, Elements
<1>8. Present(b, ns, "validating", S \cup T)
  BY <1>2, <1>3, <1>4, <1>7 DEF Present
<1>9. QED
  BY <1>5, <1>6, <1>8 DEF Linked

\* The services are there once for each deployment with webhooks.
LEMMA ServicesLink ==
  ASSUME NEW b, NEW ns, NEW S, Linked(b, ns, "services", S), UniqueNames(b.deployments)
  PROVE  Linked(b, ns, "certificates", S \cup Services(b, ns))
<1> DEFINE Of(d) == [kind |-> "Service", ns |-> ns, name |-> WebhookServiceNameForDeployment(d.name),
                     of |-> d.name, ports |-> PortsOf(b, d.name), ca |-> NoCA,
                     selects |-> Selected(d)]
<1>1. Services(b, ns) = {Of(d) : d \in Served(b)}
  BY Zenon DEF Services, Served, Selected
<1>2. \A d : IsService(Of(d), d, b, ns)
  BY DEF IsService
<1> HIDE DEF Of
<1>3. PICK T : T = Services(b, ns)
  OBVIOUS
<1>4. \A o \in T : \E d \in Served(b) : o = Of(d) /\ o.of = d.name
  BY <1>1, <1>2, <1>3 DEF IsService
<1>5. \A o \in T : o.kind = "Service" /\ "kind" \in DOMAIN o
  BY <1>2, <1>4 DEF IsService
<1>6. /\ "services" \in HaveDeployments /\ "certificates" \in HaveDeployments
      /\ "services" \notin HaveServices /\ "certificates" \in HaveServices
      /\ "services" \in HaveAccounts
  BY DEF HaveDeployments, HaveServices, HaveAccounts, Later
<1>7. /\ \A o \in S : "selects" \notin DOMAIN o
      /\ ServiceAccounts(b, ns) \subseteq S
      /\ \A d \in NamesOf(b.deployments) : \E o \in S : IsDeployment(o, d, ns)
  BY <1>6 DEF Linked, Present
<1>8. \A o \in S \cup T : Known(o, b, ns)
  <2>1. \A o \in T : Known(o, b, ns)
    BY <1>2, <1>4, <1>5 DEF Known
  <2>2. QED
    BY <2>1 DEF Linked
<1>9. Distinct(S \cup T)
  <2>1. \A d, e \in Served(b) : d.name = e.name => d = e
    BY DEF Served, Elements, UniqueNames
  <2>2. \A o, q \in T : o.of = q.of => o = q
    BY <1>4, <2>1
  <2>3. Distinct(S)
    BY DEF Linked
  <2>4. QED
    BY <1>5, <1>7, <2>2, <2>3 DEF Distinct
<1>10. \A d \in Served(b) : \E s \in S \cup T : IsService(s, d, b, ns)
  BY <1>1, <1>2, <1>3
<1>11. Present(b, ns, "certificates", S \cup T)
  BY <1>6, <1>7, <1>10 DEF Present
<1>12. QED
  BY <1>3, <1>8, <1>9, <1>11 DEF Linked

\* A certificate changes the pod and the authority of an object, and nothing else of it.
Certifies(q, o) ==
  /\ q = o \/ q = [field \in DOMAIN o |-> q[field]]
  /\ DOMAIN q = DOMAIN o /\ \A field \in DOMAIN o \ {"pod", "ca"} : q[field] = o[field]

\* So an object that has neither stays as it is.
Rigid(o) ==
  o = [field \in DOMAIN o |-> o[field]] /\ "pod" \notin DOMAIN o /\ "ca" \notin DOMAIN o

LEMMA RigidStays ==
  ASSUME NEW o, NEW q, Certifies(q, o), Rigid(o)
  PROVE  q = o
<1>1. PICK fields : fields = DOMAIN o
  OBVIOUS
<1>2. o = [field \in fields |-> o[field]] /\ \A field \in fields : q[field] = o[field]
  BY <1>1 DEF Certifies, Rigid
<1>3. q = o \/ q = [field \in fields |-> q[field]]
  BY <1>1 DEF Certifies
<1>4. QED
  BY ONLY <1>2, <1>3

LEMMA RigidObjects ==
  ASSUME NEW o, NEW b, NEW ns
  PROVE  /\ Bare(o) => Rigid(o)
         /\ FromBundle(o, b) => Rigid(o)
         /\ \A d : o = IssuerOf(d, ns) \/ o = CertificateOf(d, ns) => Rigid(o)
<1>1. ASSUME NEW k, NEW n, NEW m, o = [kind |-> k, ns |-> n, name |-> m]
      PROVE  Rigid(o)
  BY <1>1 DEF Rigid
<1>2. ASSUME NEW k, NEW n, NEW m, NEW f, o = [kind |-> k, ns |-> n, name |-> m, of |-> f]
      PROVE  Rigid(o)
  BY <1>2 DEF Rigid
<1>3. ASSUME NEW d, o = CertificateOf(d, ns)
      PROVE  Rigid(o)
  BY <1>3 DEF Rigid, CertificateOf
<1>4. QED
  BY <1>1, <1>2, <1>3 DEF Bare, FromBundle, IssuerOf

LEMMA CertifiedIsKnown ==
  ASSUME NEW b, NEW ns, NEW o, NEW q, Certifies(q, o), Known(o, b, ns)
  PROVE  /\ Known(q, b, ns) /\ q.kind = o.kind
         /\ \A d : IsDeployment(o, d, ns) => IsDeployment(q, d, ns)
         /\ \A d : IsService(o, d, b, ns) => IsService(q, d, b, ns)
<1>1. DOMAIN q = DOMAIN o /\ q.kind = o.kind
  BY DEF Certifies, Known
<1>2. ASSUME NEW d, IsDeployment(o, d, ns)
      PROVE  IsDeployment(q, d, ns)
  <2>1. q.ns = o.ns /\ q.name = o.name
    BY <1>2 DEF Certifies, IsDeployment
  <2>2. QED
    BY <1>1, <1>2, <2>1 DEF IsDeployment
<1>3. ASSUME NEW d, IsService(o, d, b, ns)
      PROVE  IsService(q, d, b, ns)
  <2>1. q.ns = o.ns /\ q.name = o.name /\ q.of = o.of
    BY <1>3 DEF Certifies, IsService
  <2>2. q.selects = o.selects /\ q.ports = o.ports
    BY <1>3 DEF Certifies, IsService
  <2>3. QED
    BY <1>1, <1>3, <2>1, <2>2 DEF IsService
<1>4. Rigid(o) => q = o
  BY RigidStays
<1>5. ASSUME {"name", "service", "ca"} \subseteq DOMAIN o
      PROVE  /\ {"name", "service", "ca"} \subseteq DOMAIN q
             /\ q.service = o.service /\ MadeOf(q, b) = MadeOf(o, b)
  <2>1. q.name = o.name /\ q.service = o.service
    BY <1>5 DEF Certifies
  <2>2. QED
    BY <1>1, <1>5, <2>1 DEF MadeOf
<1>6. Known(q, b, ns)
  <2>1. "kind" \in DOMAIN q
    BY <1>1 DEF Known
  <2>2. q.kind = "ServiceAccount" => Bare(q) \/ FromBundle(q, b)
    <3>1. o.kind = "ServiceAccount" => Rigid(o) /\ (Bare(o) \/ FromBundle(o, b))
      BY RigidObjects DEF Known
    <3>2. QED
      BY <1>1, <1>4, <3>1
  <2>3. q.kind = "Deployment" => \E d \in NamesOf(b.deployments) : IsDeployment(q, d, ns)
    BY <1>1, <1>2 DEF Known
  <2>4. q.kind = "Service" => FromBundle(q, b) \/ \E d \in Served(b) : IsService(q, d, b, ns)
    <3>1. FromBundle(o, b) => FromBundle(q, b)
      BY <1>4, RigidObjects
    <3>2. QED
      BY <1>1, <1>3, <3>1 DEF Known
  <2>5. q.kind = "Issuer" => FromBundle(q, b) \/ \E d \in WithWebhooks(b) : q = IssuerOf(d, ns)
    <3>1. o.kind = "Issuer" =>
            Rigid(o) /\ (FromBundle(o, b) \/ \E d \in WithWebhooks(b) : o = IssuerOf(d, ns))
      BY RigidObjects DEF Known
    <3>2. QED
      BY <1>1, <1>4, <3>1
  <2>6. q.kind = "Certificate" =>
          FromBundle(q, b) \/ \E d \in WithWebhooks(b) : q = CertificateOf(d, ns)
    <3>1. o.kind = "Certificate" =>
            Rigid(o) /\ (FromBundle(o, b) \/ \E d \in WithWebhooks(b) : o = CertificateOf(d, ns))
      BY RigidObjects DEF Known
    <3>2. QED
      BY <1>1, <1>4, <3>1
  <2>7. q.kind \in {"validating", "mutating", "CustomResourceDefinition"} =>
          /\ {"name", "service", "ca"} \subseteq DOMAIN q
          /\ q.service = Absent \/ \E w \in MadeOf(q, b) : q.service = ServiceReference(w, ns)
    BY <1>1, <1>5 DEF Known
  <2>8. QED
    BY <2>1, <2>2, <2>3, <2>4, <2>5, <2>6, <2>7 DEF Known
<1>7. QED
  BY <1>1, <1>2, <1>3, <1>6

AllCertified(f, objects) == \A o \in objects : Certifies(f[o], o)

LEMMA CertificatesLink ==
  ASSUME NEW b, NEW ns, NEW S, NEW T, NEW f, Linked(b, ns, "certificates", S),
         AllCertified(f, S), AllNeutral(T, b, ns)
  PROVE  Linked(b, ns, "returned", {f[o] : o \in S} \cup T)
<1> DEFINE R == {f[o] : o \in S} \cup T
<1>1. \A o \in S : Known(o, b, ns) /\ Certifies(f[o], o)
  BY DEF Linked, AllCertified
<1>2. \A o \in S : /\ Known(f[o], b, ns) /\ f[o].kind = o.kind /\ DOMAIN f[o] = DOMAIN o
                   /\ \A d : IsDeployment(o, d, ns) => IsDeployment(f[o], d, ns)
                   /\ \A d : IsService(o, d, b, ns) => IsService(f[o], d, b, ns)
  <2> SUFFICES ASSUME NEW o \in S
               PROVE  /\ Known(f[o], b, ns) /\ f[o].kind = o.kind /\ DOMAIN f[o] = DOMAIN o
                      /\ \A d : IsDeployment(o, d, ns) => IsDeployment(f[o], d, ns)
                      /\ \A d : IsService(o, d, b, ns) => IsService(f[o], d, b, ns)
    OBVIOUS
  <2>1. PICK q : q = f[o]
    OBVIOUS
  <2>2. Certifies(q, o) /\ Known(o, b, ns)
    BY <1>1, <2>1
  <2>3. DOMAIN q = DOMAIN o
    BY <2>2 DEF Certifies
  <2>4. /\ Known(q, b, ns) /\ q.kind = o.kind
        /\ \A d : IsDeployment(o, d, ns) => IsDeployment(q, d, ns)
        /\ \A d : IsService(o, d, b, ns) => IsService(q, d, b, ns)
    BY <2>2, CertifiedIsKnown
  <2>5. QED
    BY ONLY <2>1, <2>3, <2>4, Zenon
<1>3. \A o \in R : Known(o, b, ns)
  BY <1>2 DEF AllNeutral, Neutral
<1>4. \A o \in T : o.kind # "Deployment" /\ "selects" \notin DOMAIN o
  BY DEF AllNeutral, Neutral
<1>5. Distinct(R)
  <2>1. ASSUME NEW o \in S, NEW q \in S, o.kind = "Deployment", q.kind = "Deployment",
               f[o].name = f[q].name
        PROVE  f[o] = f[q]
    <3>1. /\ \E d \in NamesOf(b.deployments) : IsDeployment(o, d, ns)
          /\ \E d \in NamesOf(b.deployments) : IsDeployment(q, d, ns)
      BY <1>1, <2>1 DEF Known
    <3>2. o.name = q.name
      BY <1>2, <2>1, <3>1 DEF IsDeployment
    <3>3. QED
      BY <2>1, <3>2 DEF Linked, Distinct
  <2>2. ASSUME NEW o \in S, NEW q \in S, {"selects", "of"} \subseteq DOMAIN o,
               {"selects", "of"} \subseteq DOMAIN q, f[o].of = f[q].of
        PROVE  f[o] = f[q]
    <3>1. f[o].of = o.of /\ f[q].of = q.of
      BY <1>1, <2>2 DEF Certifies
    <3>2. QED
      BY <2>2, <3>1 DEF Linked, Distinct
  <2>3. ASSUME NEW o \in R, NEW q \in R, o.kind = "Deployment", q.kind = "Deployment",
               o.name = q.name
        PROVE  o = q
    <3>1. PICK o1 \in S : o = f[o1]
      BY <1>4, <2>3
    <3>2. PICK q1 \in S : q = f[q1]
      BY <1>4, <2>3
    <3>3. QED
      BY <1>2, <2>1, <2>3, <3>1, <3>2
  <2>4. ASSUME NEW o \in R, NEW q \in R, {"selects", "of"} \subseteq DOMAIN o,
               {"selects", "of"} \subseteq DOMAIN q, o.of = q.of
        PROVE  o = q
    <3>1. PICK o1 \in S : o = f[o1]
      BY <1>4, <2>4
    <3>2. PICK q1 \in S : q = f[q1]
      BY <1>4, <2>4
    <3>3. QED
      BY <1>2, <2>2, <2>4, <3>1, <3>2
  <2> HIDE DEF R
  <2>5. QED
    BY <2>3, <2>4 DEF Distinct
<1>6. /\ "certificates" \in HaveDeployments /\ "returned" \in HaveDeployments
      /\ "certificates" \in HaveServices /\ "returned" \in HaveServices
      /\ "certificates" \in HaveAccounts
  BY DEF HaveDeployments, HaveServices, HaveAccounts, Later
<1>7. Present(b, ns, "certificates", S)
  BY DEF Linked
<1>8. ServiceAccounts(b, ns) \subseteq R
  <2>1. \A o \in ServiceAccounts(b, ns) : o \in S /\ f[o] = o
    <3> SUFFICES ASSUME NEW o \in ServiceAccounts(b, ns) PROVE o \in S /\ f[o] = o
      OBVIOUS
    <3>1. o \in S
      BY <1>6, <1>7 DEF Present
    <3>2. PICK sa : o = [kind |-> "ServiceAccount", ns |-> ns, name |-> sa]
      BY Zenon DEF ServiceAccounts
    <3>3. Bare(o)
      BY <3>2 DEF Bare
    <3>4. Rigid(o) /\ Certifies(f[o], o)
      BY <1>1, <3>1, <3>3, RigidObjects
    <3>5. QED
      BY <3>1, <3>4, RigidStays
  <2>2. QED
    BY <2>1
<1>9. \A d \in NamesOf(b.deployments) : \E o \in R : IsDeployment(o, d, ns)
  <2>1. \A d \in NamesOf(b.deployments) : \E o \in S : IsDeployment(o, d, ns)
    BY <1>6, <1>7 DEF Present
  <2>2. QED
    BY <1>2, <2>1
<1>10. \A d \in Served(b) : \E s \in R : IsService(s, d, b, ns)
  <2>1. \A d \in Served(b) : \E s \in S : IsService(s, d, b, ns)
    BY <1>6, <1>7 DEF Present
  <2>2. QED
    BY <1>2, <2>1
<1> HIDE DEF R
<1>11. Present(b, ns, "returned", R)
  BY <1>6, <1>8, <1>9, <1>10 DEF Present
<1>12. Linked(b, ns, "returned", R)
  BY <1>3, <1>5, <1>11 DEF Linked
<1>13. QED
  BY <1>12 DEF R

\* The objects of the generators that nothing refers to by name.
LEMMA NeutralObjects ==
  ASSUME NEW b, NEW ns, NEW targets, b \in Bundles
  PROVE  /\ \A o \in ServiceAccounts(b, ns) : Neutral(o, b, ns)
         /\ \A o \in Grants(b, targets, ns) : Neutral(o, b, ns)
         /\ \A o \in CRDs(b, ns) : Neutral(o, b, ns)
         /\ ~UnsupportedObject(b) => \A o \in AdditionalResources(b, ns) : Neutral(o, b, ns)
         /\ \A type \in {"validating", "mutating"} :
              \A o \in WebhookConfigurations(b, type, targets, ns) : Neutral(o, b, ns)
         /\ \A provider : \A o \in AdditionalObjects(b, provider, ns) : Neutral(o, b, ns)
<1>1. ASSUME NEW o \in ServiceAccounts(b, ns)
      PROVE  Neutral(o, b, ns)
  <2>1. PICK sa : o = [kind |-> "ServiceAccount", ns |-> ns, name |-> sa]
    BY Zenon DEF ServiceAccounts
  <2>2. /\ DOMAIN o = {"kind", "ns", "name"} /\ o.kind = "ServiceAccount"
        /\ Bare(o)
    BY <2>1 DEF Bare
  <2>3. QED
    BY <2>2 DEF Neutral, Known
<1>2. ASSUME NEW o \in Grants(b, targets, ns)
      PROVE  Neutral(o, b, ns)
  <2>1. "kind" \in DOMAIN o /\ o.kind \in RoleKinds
    BY GrantObjects
  <2>2. "selects" \notin DOMAIN o
    <3>1. \A p, of, kind, binding, t : \A q \in RoleAndBinding(p, of, kind, binding, t, ns) :
            "selects" \notin DOMAIN q
      BY DEF RoleAndBinding
    <3>2. CASE o \in Permissions(b, targets, ns)
      <4>1. PICK p, of, t : o \in RoleAndBinding(p, of, "Role", "RoleBinding", t, ns)
        BY <3>2, RolesByPlace DEF Permissions
      <4>2. QED
        BY <3>1, <4>1
    <3>3. CASE o \in ClusterPermissions(b, targets, ns)
      <4>1. PICK p, of : o \in RoleAndBinding(p, of, "ClusterRole", "ClusterRoleBinding", "", ns)
        BY <3>3 DEF ClusterPermissions
      <4>2. QED
        BY <3>1, <4>1
    <3>4. QED
      BY <3>2, <3>3 DEF Grants
  <2>3. QED
    BY <2>1, <2>2 DEF Neutral, Known, RoleKinds
<1>3. ASSUME NEW o \in CRDs(b, ns)
      PROVE  Neutral(o, b, ns)
  <2>1. PICK c \in Elements(b.crds) :
          o = [kind |-> "CustomResourceDefinition", ns |-> "", name |-> c.name, ca |-> NoCA,
               service |-> IF ConversionsOf(b, c.name) = {} THEN Absent
                           ELSE ServiceReference(CHOOSE w \in ConversionsOf(b, c.name) : TRUE, ns)]
    BY Zenon DEF CRDs
  <2>2. PICK service :
          service = IF ConversionsOf(b, c.name) = {} THEN Absent
                    ELSE ServiceReference(CHOOSE w \in ConversionsOf(b, c.name) : TRUE, ns)
    OBVIOUS
  <2>3. service = Absent \/ \E w \in ConversionsOf(b, c.name) : service = ServiceReference(w, ns)
    <3>1. ConversionsOf(b, c.name) # {} =>
            (CHOOSE w \in ConversionsOf(b, c.name) : TRUE) \in ConversionsOf(b, c.name)
      OBVIOUS
    <3>2. QED
      BY <2>2, <3>1
  <2>4. o = [kind |-> "CustomResourceDefinition", ns |-> "", name |-> c.name, ca |-> NoCA,
             service |-> service]
    BY ONLY <2>1, <2>2, Zenon
  <2>5. /\ DOMAIN o = {"kind", "ns", "name", "ca", "service"}
        /\ o.kind = "CustomResourceDefinition" /\ o.name = c.name /\ o.service = service
    BY ONLY <2>4
  <2>6. ConversionsOf(b, c.name) \subseteq MadeOf(o, b)
    BY <2>5 DEF ConversionsOf, MadeOf
  <2>7. QED
    BY <2>3, <2>5, <2>6 DEF Neutral, Known
<1>4. ASSUME ~UnsupportedObject(b), NEW o \in AdditionalResources(b, ns)
      PROVE  Neutral(o, b, ns)
  <2>1. PICK i, at :
          /\ i \in DOMAIN b.others
          /\ o = [kind |-> b.others[i].kind, ns |-> at, name |-> b.others[i].name, of |-> <<i>>]
    BY Zenon DEF AdditionalResources
  <2>2. PICK x : x = b.others[i] /\ x \in Elements(b.others)
    BY <2>1 DEF Elements
  <2>3. x.kind \notin {"Deployment", "validating", "mutating", "CustomResourceDefinition"}
    BY <1>4, <2>2, KindsAssumption, BundlesAssumption DEF UnsupportedObject
  <2>4. /\ DOMAIN o = {"kind", "ns", "name", "of"} /\ o.kind = x.kind /\ o.name = x.name
        /\ o = [kind |-> o.kind, ns |-> o.ns, name |-> o.name, of |-> o.of]
    BY <2>1, <2>2
  <2>5. FromBundle(o, b)
    BY <2>2, <2>4 DEF FromBundle
  <2>6. QED
    BY <2>3, <2>4, <2>5 DEF Neutral, Known
<1>5. ASSUME NEW type \in {"validating", "mutating"},
             NEW o \in WebhookConfigurations(b, type, targets, ns)
      PROVE  Neutral(o, b, ns)
  <2>1. PICK w \in Elements(b.webhooks) :
          /\ w.type = type
          /\ o = [kind |-> type, ns |-> ns, name |-> w.name, ca |-> NoCA,
                  service |-> ServiceReference(w, ns),
                  selector |-> getWebhookNamespaceSelector(targets)]
    BY DEF WebhookConfigurations
  <2>2. /\ DOMAIN o = {"kind", "ns", "name", "ca", "service", "selector"}
        /\ o.kind = type /\ o.name = w.name /\ o.service = ServiceReference(w, ns)
    BY <2>1
  <2>3. w \in MadeOf(o, b)
    BY <2>1, <2>2 DEF MadeOf
  <2>4. QED
    BY <2>2, <2>3 DEF Neutral, Known
<1>6. ASSUME NEW provider, NEW o \in AdditionalObjects(b, provider, ns)
      PROVE  Neutral(o, b, ns)
  <2>1. PICK d \in WithWebhooks(b) : o = CertificateOf(d, ns) \/ o = IssuerOf(d, ns)
    BY DEF AdditionalObjects, CertificateOf, IssuerOf, CertOf
  <2>2. CASE o = CertificateOf(d, ns)
    <3>1. "kind" \in DOMAIN o /\ o.kind = "Certificate" /\ "selects" \notin DOMAIN o
      BY <2>2 DEF CertificateOf
    <3>2. QED
      BY <2>2, <3>1 DEF Neutral, Known
  <2>3. CASE o = IssuerOf(d, ns)
    <3>1. "kind" \in DOMAIN o /\ o.kind = "Issuer" /\ "selects" \notin DOMAIN o
      BY <2>3 DEF IssuerOf
    <3>2. QED
      BY <2>3, <3>1 DEF Neutral, Known
  <2>4. QED
    BY <2>1, <2>2, <2>3
<1>7. QED
  BY <1>1, <1>2, <1>3, <1>4, <1>5, <1>6

----------------------------------------------------------------------------
(* The steps. *)

LEMMA SteppedCall ==
  ASSUME ScopeInv, NEW next, NEW objects,
         call' = [call EXCEPT !.step = next, !.objects = objects]
  PROVE  call'.step = next /\ call'.objects = objects /\ call'.ns = call.ns
BY DEF ScopeInv, Inputs, CallFields

LEMMA RefusedKeepsLinks ==
  ASSUME ScopeInv, NEW error, Refuse(error)
  PROVE  LinkInv'
<1>1. call'.step = "failed"
  BY DEF Refuse, ScopeInv, Inputs, CallFields
<1>2. QED
  BY <1>1 DEF LinkInv, Generating

\* Steps between which neither a deployment nor a service is added.
Alike(step, next) ==
  /\ step \in HaveDeployments <=> next \in HaveDeployments
  /\ step \in HaveServices <=> next \in HaveServices

LEMMA AppendKeepsLinks ==
  ASSUME CallInv, ScopeInv, LinkInv, NEW step \in Generating, NEW next \in Generating,
         NEW errors, NEW objects, Generate(step, next, errors, objects),
         errors = {} => AllNeutral(objects, bundle, call.ns),
         Alike(step, next),
         next \in HaveAccounts =>
           step \in HaveAccounts \/ ServiceAccounts(bundle, call.ns) \subseteq objects
  PROVE  LinkInv'
<1>1. call.step = step /\ bundle' = bundle
  BY DEF Generate, At
<1>2. CASE errors # {}
  <2>1. PICK e \in errors : Refuse(e)
    BY <1>2 DEF Generate
  <2>2. QED
    BY <2>1, RefusedKeepsLinks
<1>3. CASE errors = {}
  <2>1. PICK all : all = call.objects \cup objects
    OBVIOUS
  <2>2. call' = [call EXCEPT !.step = next, !.objects = all]
    BY <1>3, <2>1 DEF Generate
  <2>3. call'.step = next /\ call'.objects = all /\ call'.ns = call.ns
    BY <2>2, SteppedCall
  <2>4. Valid(bundle) /\ Linked(bundle, call.ns, step, call.objects)
    BY <1>1 DEF LinkInv
  <2>5. Linked(bundle, call.ns, next, call.objects \cup objects)
    BY <1>3, <2>4, NeutralLinks DEF Alike, AllNeutral
  <2>6. QED
    BY <1>1, <2>1, <2>3, <2>4, <2>5 DEF LinkInv
<1>4. QED
  BY <1>2, <1>3

LEMMA NamespaceKeepsLinks ==
  ASSUME CallInv, ScopeInv, BundleNamespaceGenerator
  PROVE  LinkInv'
<1> DEFINE ns == InstallNamespace(bundle, call.request.self)
<1>1. call.step = "namespace" /\ bundle' = bundle
  BY DEF BundleNamespaceGenerator, At
<1>2. CASE \E error : Refuse(error)
  BY <1>2, RefusedKeepsLinks
<1>3. CASE ~\E error : Refuse(error)
  <2>1. ns \in Namespaces /\ validateTargetNamespaces(bundle.modes, ns, call.targets)
    BY <1>3 DEF BundleNamespaceGenerator
  <2>2. PICK namespace : namespace = [kind |-> "Namespace", ns |-> "", name |-> ns]
    OBVIOUS
  <2>3. PICK objects : objects = IF call.request.self # Absent THEN {} ELSE {namespace}
    OBVIOUS
  <2>4. call' = [call EXCEPT !.step = "accounts", !.ns = ns, !.objects = objects]
    BY <1>3, <2>1, <2>2, <2>3, Zenon DEF BundleNamespaceGenerator
  <2> HIDE DEF ns
  <2>5. call'.step = "accounts" /\ call'.ns = ns /\ call'.objects = objects
    BY <2>4 DEF ScopeInv, Inputs, CallFields
  <2>6. Neutral(namespace, bundle, ns)
    <3>1. DOMAIN namespace = {"kind", "ns", "name"} /\ namespace.kind = "Namespace"
      BY <2>2
    <3>2. QED
      BY <3>1 DEF Neutral, Known
  <2>7. \A o \in objects : Neutral(o, bundle, ns)
    BY <2>3, <2>6
  <2>8. /\ "namespace" \notin HaveAccounts /\ "accounts" \notin HaveAccounts
        /\ "namespace" \notin HaveDeployments /\ "accounts" \notin HaveDeployments
        /\ "namespace" \notin HaveServices /\ "accounts" \notin HaveServices
    BY DEF HaveAccounts, HaveDeployments, HaveServices, Later
  <2>9. Linked(bundle, ns, "namespace", {})
    BY <2>8 DEF Linked, Distinct, Present
  <2>10. Linked(bundle, ns, "accounts", {} \cup objects)
    BY <2>7, <2>8, <2>9, NeutralLinks
  <2>11. Valid(bundle)
    BY <1>1 DEF CallInv, Decisions
  <2>12. {} \cup objects = objects
    OBVIOUS
  <2>13. QED
    BY <1>1, <2>5, <2>10, <2>11, <2>12 DEF LinkInv
<1>4. QED
  BY <1>2, <1>3

LEMMA DeploymentsKeepLinks ==
  ASSUME ScopeInv, LinkInv, BundleCSVDeploymentGenerator
  PROVE  LinkInv'
<1> DEFINE made(i) == Deployment(bundle, bundle.deployments[i], pods[i], call.request.config,
                                 call.targets, call.ns)
<1>1. call.step = "deployments" /\ bundle' = bundle
  BY DEF BundleCSVDeploymentGenerator, At
<1>2. PICK T : T = {made(i) : i \in DOMAIN pods}
  OBVIOUS
<1>3. PICK all : all = call.objects \cup T
  OBVIOUS
<1>4. call' = [call EXCEPT !.step = "validating", !.objects = all]
  BY <1>2, <1>3 DEF BundleCSVDeploymentGenerator
<1>5. call'.step = "validating" /\ call'.objects = all /\ call'.ns = call.ns
  BY <1>4, SteppedCall
<1>6. "deployments" \in Generating
  BY DEF Generating
<1>7. Valid(bundle) /\ Linked(bundle, call.ns, "deployments", call.objects)
  BY <1>1, <1>6 DEF LinkInv
<1>8. \A i \in DOMAIN pods : IsDeployment(made(i), bundle.deployments[i].name, call.ns)
  BY DEF Deployment, IsDeployment
<1> HIDE DEF made
<1>9. DOMAIN pods = DOMAIN bundle.deployments
  BY DEF ScopeInv, Inputs
<1>10. \A o \in T : \E i \in DOMAIN bundle.deployments :
         IsDeployment(o, bundle.deployments[i].name, call.ns)
  BY <1>2, <1>8, <1>9
<1>11. \A i \in DOMAIN bundle.deployments : \E o \in T :
         IsDeployment(o, bundle.deployments[i].name, call.ns)
  BY <1>2, <1>8, <1>9
<1>12. \A o, q \in T : o.name = q.name => o = q
  <2>1. \A i, j \in DOMAIN pods : made(i).name = made(j).name => i = j
    BY <1>7, <1>8, <1>9 DEF IsDeployment, Valid, CheckDeploymentSpecUniqueness, UniqueNames
  <2>2. QED
    BY <1>2, <2>1
<1>13. Linked(bundle, call.ns, "validating", call.objects \cup T)
  BY <1>7, <1>10, <1>11, <1>12, DeploymentsLink
<1>14. QED
  BY <1>1, <1>3, <1>5, <1>7, <1>13 DEF LinkInv

LEMMA ServicesKeepLinks ==
  ASSUME ScopeInv, LinkInv, BundleDeploymentServiceResourceGenerator
  PROVE  LinkInv'
<1>1. call.step = "services" /\ bundle' = bundle
  BY DEF BundleDeploymentServiceResourceGenerator, Generate, At
<1>2. PICK all : all = call.objects \cup Services(bundle, call.ns)
  OBVIOUS
<1>3. call' = [call EXCEPT !.step = "certificates", !.objects = all]
  BY <1>2 DEF BundleDeploymentServiceResourceGenerator, Generate
<1>4. call'.step = "certificates" /\ call'.objects = all /\ call'.ns = call.ns
  BY <1>3, SteppedCall
<1>5. "services" \in Generating
  BY DEF Generating
<1>6. Valid(bundle) /\ Linked(bundle, call.ns, "services", call.objects)
  BY <1>1, <1>5 DEF LinkInv
<1>7. Linked(bundle, call.ns, "certificates", call.objects \cup Services(bundle, call.ns))
  BY <1>6, ServicesLink DEF Valid, CheckDeploymentSpecUniqueness
<1>8. QED
  BY <1>1, <1>2, <1>4, <1>6, <1>7 DEF LinkInv

LEMMA CertificatesKeepLinks ==
  ASSUME ScopeInv, LinkInv, CertProviderResourceGenerator
  PROVE  LinkInv'
<1> DEFINE provider == call.request.provider
           transformed(o) == IF IsCertified(o) THEN [o EXCEPT !.pod = CertifiedPod(o)]
                             ELSE IF Provisioned(o) THEN InjectCABundle(o, provider) ELSE o
<1>1. call.step = "certificates" /\ bundle' = bundle
  BY DEF CertProviderResourceGenerator, At
<1>2. PICK f : f = [o \in call.objects |-> transformed(o)]
  OBVIOUS
<1>3. PICK T : T = AdditionalObjects(bundle, provider, call.ns)
  OBVIOUS
<1>4. PICK all : all = {f[o] : o \in call.objects} \cup T
  OBVIOUS
<1>5. all = {transformed(o) : o \in call.objects} \cup AdditionalObjects(bundle, provider, call.ns)
  BY <1>2, <1>3, <1>4
<1>6. call' = [call EXCEPT !.step = "returned", !.objects = all]
  BY <1>5, Zenon DEF CertProviderResourceGenerator
<1>7. call'.step = "returned" /\ call'.objects = all /\ call'.ns = call.ns
  BY <1>6, SteppedCall
<1>8. "certificates" \in Generating
  BY DEF Generating
<1>9. Valid(bundle) /\ Linked(bundle, call.ns, "certificates", call.objects)
  BY <1>1, <1>8 DEF LinkInv
<1>10. \A o \in call.objects : Certifies(f[o], o)
  <2> SUFFICES ASSUME NEW o \in call.objects PROVE Certifies(f[o], o)
    OBVIOUS
  <2>1. PICK q : q = f[o]
    OBVIOUS
  <2>2. \/ q = o
        \/ \E pod : q = [o EXCEPT !.pod = pod]
        \/ \E ca : q = [o EXCEPT !.ca = ca]
    <3>1. q = transformed(o)
      BY <1>2, <2>1
    <3>2. \/ InjectCABundle(o, provider) = o
          \/ \E ca : InjectCABundle(o, provider) = [o EXCEPT !.ca = ca]
      BY DEF InjectCABundle
    <3>3. QED
      BY <3>1, <3>2, Zenon
  <2>3. Certifies(q, o)
    BY <2>2 DEF Certifies
  <2>4. QED
    BY <2>1, <2>3
<1>11. \A o \in T : Neutral(o, bundle, call.ns)
  <2>1. bundle \in Bundles
    BY DEF ScopeInv, Inputs
  <2>2. \A p : \A o \in AdditionalObjects(bundle, p, call.ns) : Neutral(o, bundle, call.ns)
    BY <2>1, NeutralObjects
  <2>3. \A o \in AdditionalObjects(bundle, provider, call.ns) : Neutral(o, bundle, call.ns)
    BY ONLY <2>2, Zenon
  <2>4. QED
    BY <1>3, <2>3
<1>12. Linked(bundle, call.ns, "returned", all)
  <2>1. Linked(bundle, call.ns, "returned", {f[o] : o \in call.objects} \cup T)
    <3>1. /\ Linked(bundle, call.ns, "certificates", call.objects)
          /\ AllCertified(f, call.objects) /\ AllNeutral(T, bundle, call.ns)
      BY <1>9, <1>10, <1>11 DEF AllCertified, AllNeutral
    <3>2. QED
      BY ONLY <3>1, CertificatesLink
  <2>2. QED
    BY <1>4, <2>1
<1>13. QED
  BY <1>1, <1>7, <1>9, <1>12 DEF LinkInv

LEMMA IdleKeepsLinks ==
  ASSUME ScopeInv, call'.step \notin Generating \cup {"returned"}
  PROVE  LinkInv'
BY DEF LinkInv

LEMMA NextKeepsLinks == CallInv /\ ScopeInv /\ LinkInv /\ [Next]_vars => LinkInv'
<1> SUFFICES ASSUME CallInv, ScopeInv, LinkInv, [Next]_vars PROVE LinkInv'
  OBVIOUS
<1>0. /\ "accounts" \in Generating /\ "permissions" \in Generating
      /\ "cluster permissions" \in Generating /\ "crds" \in Generating
      /\ "resources" \in Generating /\ "deployments" \in Generating
      /\ "validating" \in Generating /\ "mutating" \in Generating
      /\ "services" \in Generating
  BY DEF Generating
<1>1. bundle \in Bundles /\ "step" \in DOMAIN call
  BY DEF ScopeInv, Inputs, CallFields
<1>2. /\ AllNeutral(ServiceAccounts(bundle, call.ns), bundle, call.ns)
      /\ AllNeutral(Permissions(bundle, call.targets, call.ns), bundle, call.ns)
      /\ AllNeutral(ClusterPermissions(bundle, call.targets, call.ns), bundle, call.ns)
      /\ AllNeutral(CRDs(bundle, call.ns), bundle, call.ns)
      /\ ~UnsupportedObject(bundle) =>
           AllNeutral(AdditionalResources(bundle, call.ns), bundle, call.ns)
  BY <1>1, NeutralObjects DEF AllNeutral, Grants
<1>3. \A type \in {"validating", "mutating"} :
        AllNeutral(WebhookConfigurations(bundle, type, call.targets, call.ns), bundle, call.ns)
  BY <1>1, NeutralObjects DEF AllNeutral
<1>4. /\ Alike("accounts", "permissions") /\ Alike("permissions", "cluster permissions")
      /\ Alike("cluster permissions", "crds") /\ Alike("crds", "resources")
      /\ Alike("resources", "deployments") /\ Alike("validating", "mutating")
      /\ Alike("mutating", "services")
  BY DEF Alike, HaveDeployments, HaveServices
<1>5. /\ "permissions" \in HaveAccounts /\ "cluster permissions" \in HaveAccounts
      /\ "crds" \in HaveAccounts /\ "resources" \in HaveAccounts
      /\ "validating" \in HaveAccounts /\ "mutating" \in HaveAccounts
  BY DEF HaveAccounts, Later
<1>6. ASSUME NEW r \in Offered(bundle, renders + 1), Call(r) PROVE LinkInv'
  <2>1. call'.step \in {"validate", "configure"}
    BY <1>6 DEF Call, NoCall
  <2>2. QED
    BY <2>1, IdleKeepsLinks DEF Generating
<1>7. CASE UnmarshalConfig
  <2>1. CASE Refuse("configuration")
    BY <2>1, RefusedKeepsLinks
  <2>2. CASE call' = [call EXCEPT !.step = "validate"]
    <3>1. call'.step = "validate"
      BY <1>1, <2>2
    <3>2. QED
      BY <3>1, IdleKeepsLinks DEF Generating
  <2>3. QED
    BY <1>7, <2>1, <2>2 DEF UnmarshalConfig
<1>8. CASE Validate
  <2>1. CASE Refuse("invalid")
    BY <2>1, RefusedKeepsLinks
  <2>2. CASE \E targets : call' = [call EXCEPT !.step = "namespace", !.targets = targets]
    <3>1. call'.step = "namespace"
      BY <1>1, <2>2
    <3>2. QED
      BY <3>1, IdleKeepsLinks DEF Generating
  <2>3. QED
    BY <1>8, <2>1, <2>2, Zenon DEF Validate
<1>9. CASE BundleNamespaceGenerator
  BY <1>9, NamespaceKeepsLinks
<1>10. CASE BundleCSVServiceAccountGenerator
  BY <1>0, <1>2, <1>4, <1>10, AppendKeepsLinks DEF BundleCSVServiceAccountGenerator
<1>11. CASE BundleCSVPermissionsGenerator
  BY <1>0, <1>2, <1>4, <1>5, <1>11, AppendKeepsLinks DEF BundleCSVPermissionsGenerator
<1>12. CASE BundleCSVClusterPermissionsGenerator
  BY <1>0, <1>2, <1>4, <1>5, <1>12, AppendKeepsLinks DEF BundleCSVClusterPermissionsGenerator
<1>13. CASE BundleCRDGenerator
  <2>1. PICK errors : Generate("crds", "resources", errors, CRDs(bundle, call.ns))
    BY <1>13 DEF BundleCRDGenerator
  <2>2. QED
    BY <1>0, <1>2, <1>4, <1>5, <2>1, AppendKeepsLinks
<1>14. CASE BundleAdditionalResourcesGenerator
  <2>1. PICK errors : /\ Generate("resources", "deployments", errors,
                                  AdditionalResources(bundle, call.ns))
                      /\ errors = {} => ~UnsupportedObject(bundle)
    BY <1>14 DEF BundleAdditionalResourcesGenerator
  <2>2. QED
    BY <1>0, <1>2, <1>4, <1>5, <2>1, AppendKeepsLinks
<1>15. CASE BundleCSVDeploymentGenerator
  BY <1>15, DeploymentsKeepLinks
<1>16. CASE BundleValidatingWebhookResourceGenerator
  BY <1>0, <1>3, <1>4, <1>5, <1>16, AppendKeepsLinks
     DEF BundleValidatingWebhookResourceGenerator
<1>17. CASE BundleMutatingWebhookResourceGenerator
  BY <1>0, <1>3, <1>4, <1>5, <1>17, AppendKeepsLinks
     DEF BundleMutatingWebhookResourceGenerator
<1>18. CASE BundleDeploymentServiceResourceGenerator
  BY <1>18, ServicesKeepLinks
<1>19. CASE CertProviderResourceGenerator
  BY <1>19, CertificatesKeepLinks
<1>20. CASE UNCHANGED vars
  BY <1>20 DEF vars, LinkInv
<1>21. QED
  BY <1>6, <1>7, <1>8, <1>9, <1>10, <1>11, <1>12, <1>13, <1>14, <1>15, <1>16, <1>17, <1>18,
     <1>19, <1>20 DEF Next

LEMMA LinksHold == Spec => []LinkInv
<1>1. Init => LinkInv
  <2>1. Init => call = NoCall
    BY DEF Init
  <2>2. NoCall.step = "idle"
    BY DEF NoCall
  <2>3. QED
    BY <2>1, <2>2 DEF LinkInv, Generating
<1>2. QED
  BY <1>1, NextKeepsLinks, CallsDecide, ScopesHold, PTL DEF Spec

----------------------------------------------------------------------------
(* What an object refers to is there, and once. *)

LEMMA OnlyOne ==
  ASSUME NEW kind, NEW ns, NEW name, NEW o, The(kind, ns, name) = {o}
  PROVE  One(kind, ns, name)
BY FS_Singleton DEF One

LEMMA ReturnedLinks ==
  ASSUME LinkInv, Returned
  PROVE  /\ Valid(bundle) /\ Distinct(call.objects)
         /\ \A o \in call.objects : Known(o, bundle, call.ns)
         /\ ServiceAccounts(bundle, call.ns) \subseteq call.objects
         /\ \A d \in NamesOf(bundle.deployments) :
              \E o \in call.objects : IsDeployment(o, d, call.ns)
         /\ \A d \in Served(bundle) : \E s \in call.objects : IsService(s, d, bundle, call.ns)
<1>1. /\ "returned" \in HaveAccounts /\ "returned" \in HaveDeployments
      /\ "returned" \in HaveServices
  BY DEF HaveAccounts, HaveDeployments, HaveServices, Later
<1>2. Valid(bundle) /\ Linked(bundle, call.ns, "returned", call.objects)
  BY DEF LinkInv, Returned
<1>3. Present(bundle, call.ns, "returned", call.objects)
  BY <1>2 DEF Linked
<1>4. QED
  BY <1>1, <1>2, <1>3 DEF Linked, Present

\* With an object of the bundle that has its kind and its name there is no other.
LEMMA BundledIsAlone ==
  ASSUME NamesApart, NEW kind, NEW name, NEW q, FromBundle(q, bundle),
         q \in The(kind, call.ns, name)
  PROVE  \A x \in The(kind, call.ns, name) : x = q
<1>1. q.kind = kind /\ q.name = name
  BY DEF The, Rendered
<1>2. PICK x \in Elements(bundle.others) : x.kind = kind /\ x.name = name
  BY <1>1 DEF FromBundle
<1>3. QED
  BY <1>2 DEF NamesApart

LEMMA AccountsResolve ==
  ASSUME LinkInv, Returned,
         NEW p \in Elements(bundle.permissions) \cup Elements(bundle.clusterPermissions),
         saNameOrDefault(p) # "default"
  PROVE  \E x : /\ x \in The("ServiceAccount", call.ns, saNameOrDefault(p))
                /\ NamesApart => The("ServiceAccount", call.ns, saNameOrDefault(p)) = {x}
<1>1. PICK name : name = saNameOrDefault(p)
  OBVIOUS
<1>2. PICK account : account = [kind |-> "ServiceAccount", ns |-> call.ns, name |-> name]
  OBVIOUS
<1>3. account \in ServiceAccounts(bundle, call.ns)
  BY <1>1, <1>2 DEF ServiceAccounts
<1>4. account \in The("ServiceAccount", call.ns, name)
  <2>1. account \in call.objects
    BY <1>3, ReturnedLinks
  <2>2. QED
    BY <1>2, <2>1 DEF The, Rendered
<1>5. ASSUME NEW o \in The("ServiceAccount", call.ns, name), NamesApart
      PROVE  o = account
  <2>1. o \in call.objects /\ o.kind = "ServiceAccount" /\ o.ns = call.ns /\ o.name = name
    BY DEF The, Rendered
  <2>2. Bare(o) \/ FromBundle(o, bundle)
    BY <2>1, ReturnedLinks DEF Known
  <2>3. CASE Bare(o)
    BY <1>2, <2>1, <2>3 DEF Bare
  <2>4. CASE FromBundle(o, bundle)
    BY <1>4, <1>5, <2>4, BundledIsAlone
  <2>5. QED
    BY <2>2, <2>3, <2>4
<1>6. NamesApart => The("ServiceAccount", call.ns, name) = {account}
  BY <1>4, <1>5
<1>7. QED
  BY <1>1, <1>4, <1>6

LEMMA DeploymentsResolve ==
  ASSUME LinkInv, Returned, NEW d \in NamesOf(bundle.deployments)
  PROVE  One("Deployment", call.ns, d)
<1>1. PICK o \in call.objects : IsDeployment(o, d, call.ns)
  BY ReturnedLinks
<1>2. o \in The("Deployment", call.ns, d)
  BY <1>1 DEF IsDeployment, The, Rendered
<1>3. \A q \in The("Deployment", call.ns, d) : q = o
  BY <1>1, ReturnedLinks DEF IsDeployment, The, Rendered, Distinct
<1>4. The("Deployment", call.ns, d) = {o}
  BY <1>2, <1>3
<1>5. QED
  BY <1>4, OnlyOne

\* Neither a second deployment nor an object of the bundle has the name of the service.
LEMMA ServicesResolve ==
  ASSUME LinkInv, Returned, NamesApart, NEW d \in Served(bundle),
         NEW s \in call.objects, IsService(s, d, bundle, call.ns)
  PROVE  The("Service", call.ns, s.name) = {s}
<1>1. s \in The("Service", call.ns, s.name)
  BY DEF IsService, The, Rendered
<1>2. ASSUME NEW q \in The("Service", call.ns, s.name)
      PROVE  q = s
  <2>1. q \in call.objects /\ q.kind = "Service" /\ q.name = s.name
    BY DEF The, Rendered
  <2>2. CASE FromBundle(q, bundle)
    BY <1>1, <2>2, BundledIsAlone
  <2>3. ASSUME NEW e \in Served(bundle), IsService(q, e, bundle, call.ns)
        PROVE  q = s
    <3>1. WebhookServiceNameForDeployment(e.name) = WebhookServiceNameForDeployment(d.name)
      BY <2>1, <2>3 DEF IsService
    <3>2. e.name = d.name
      BY <3>1 DEF NamesApart, Served
    <3>3. /\ {"selects", "of"} \subseteq DOMAIN q /\ {"selects", "of"} \subseteq DOMAIN s
          /\ q.of = s.of
      BY <2>3, <3>2 DEF IsService
    <3>4. QED
      BY <2>1, <3>3, ReturnedLinks DEF Distinct
  <2>4. QED
    BY <2>1, <2>2, <2>3, ReturnedLinks DEF Known
<1>3. QED
  BY <1>1, <1>2

\* A service with a selector is one that is generated.
LEMMA SelectingIsGenerated ==
  ASSUME LinkInv, Returned, NEW s \in Rendered("Service"), "selects" \in DOMAIN s
  PROVE  \E d \in Served(bundle) : IsService(s, d, bundle, call.ns)
<1>1. s \in call.objects /\ s.kind = "Service"
  BY DEF Rendered
<1>2. ~FromBundle(s, bundle)
  BY DEF FromBundle
<1>3. QED
  BY <1>1, <1>2, ReturnedLinks DEF Known

\* A webhook that an object is made of, its deployment and the service of that one.
LEMMA WebhooksResolve ==
  ASSUME LinkInv, Returned, NEW o \in Referring
  PROVE  \E w \in WebhooksOf(o), d \in Served(bundle), s \in call.objects :
           /\ d.name = w.deployment /\ IsService(s, d, bundle, call.ns)
           /\ s.name = o.service.name
           /\ o.service.port > 0 => \E p \in s.ports : p.port = o.service.port
<1>1. o \in call.objects /\ o.kind \in {"validating", "mutating", "CustomResourceDefinition"}
  BY DEF Referring, Rendered
<1>2. PICK w \in WebhooksOf(o) : o.service = ServiceReference(w, call.ns)
  <2>1. WebhooksOf(o) = MadeOf(o, bundle)
    BY DEF WebhooksOf, MadeOf
  <2>2. QED
    BY <1>1, <2>1, ReturnedLinks DEF Known, Referring
<1>3. w \in Elements(bundle.webhooks)
  BY DEF WebhooksOf
<1>4. PICK d \in Served(bundle) : d.name = w.deployment
  <2>1. w.deployment \in NamesOf(bundle.deployments) /\ w.deployment \in WithWebhooks(bundle)
    BY <1>3, ReturnedLinks DEF Valid, CheckWebhookDeploymentReferentialIntegrity, WithWebhooks
  <2>2. QED
    BY <2>1 DEF NamesOf, Served
<1>5. PICK s \in call.objects : IsService(s, d, bundle, call.ns)
  BY ReturnedLinks
<1>6. /\ o.service.name = WebhookServiceNameForDeployment(w.deployment)
      /\ o.service.port = w.port
  BY <1>2 DEF ServiceReference
<1>7. s.name = o.service.name /\ s.ports = PortsOf(bundle, w.deployment)
  BY <1>4, <1>5, <1>6 DEF IsService
<1>8. ASSUME o.service.port > 0
      PROVE  \E p \in s.ports : p.port = o.service.port
  <2>1. getWebhookServicePort(w) \in s.ports
    BY <1>3, <1>7 DEF PortsOf
  <2>2. getWebhookServicePort(w).port = w.port
    BY <1>6, <1>8 DEF getWebhookServicePort
  <2>3. QED
    BY <1>6, <2>1, <2>2
<1>9. QED
  BY <1>4, <1>5, <1>7, <1>8

----------------------------------------------------------------------------
(* What slices.DeleteFunc leaves of a list, by induction over the list. *)

\* Induction up to N, for a set: the least number that is not in it has no predecessor.
LEMMA CountsUp ==
  ASSUME NEW N \in Nat, NEW G, 0 \in G, \A m \in 0..N : m < N /\ m \in G => m + 1 \in G
  PROVE  \A m \in 0..N : m \in G
<1> SUFFICES ASSUME NEW x \in 0..N, x \notin G PROVE FALSE
  OBVIOUS
<1> DEFINE out == {m \in 0..N : m \notin G}
<1>1. out \subseteq Nat /\ out # {}
  OBVIOUS
<1>2. PICK i \in out : \A j \in out : <<j, i>> \notin OpToRel(<, Nat)
  BY <1>1, NatLessThanWellFounded, WFMin
<1>3. i \in 0..N /\ i # 0 /\ i \notin G
  OBVIOUS
<1>4. i - 1 \in 0..N /\ i - 1 < N /\ (i - 1) + 1 = i /\ <<i - 1, i>> \in OpToRel(<, Nat)
  <2>1. i - 1 \in 0..N /\ i - 1 < N /\ (i - 1) + 1 = i /\ i - 1 < i
    BY <1>3
  <2> DEFINE pair == <<i - 1, i>>
  <2>2. pair \in Nat \X Nat /\ pair[1] = i - 1 /\ pair[2] = i
    BY <1>3, <2>1
  <2>3. pair \in OpToRel(<, Nat)
    BY <2>1, <2>2 DEF OpToRel
  <2>4. QED
    BY <2>1, <2>3
<1>5. i - 1 \in G
  BY <1>2, <1>4
<1>6. QED
  BY <1>3, <1>4, <1>5

LEMMA WithoutSteps ==
  ASSUME NEW s, Len(s) \in Nat, NEW names
  PROVE  \E f : /\ Without(s, names) = f[Len(s)] /\ f[0] = <<>>
                /\ \A n \in 1..Len(s) :
                     f[n] = IF s[n].name \in names THEN f[n - 1] ELSE Append(f[n - 1], s[n])
<1> DEFINE N == Len(s)
           Step(v, n) == IF s[n].name \in names THEN v ELSE Append(v, s[n])
           Body(f, m) == [n \in 0..m |-> IF n = 0 THEN <<>> ELSE Step(f[n - 1], n)]
           G == {m \in 0..N : \E f : f = Body(f, m)}
<1>1. Without(s, names) = (CHOOSE f : f = Body(f, N))[N]
  BY DEF Without
<1>2. N \in Nat
  OBVIOUS
<1> HIDE DEF N, Step
<1>3. 0 \in G
  <2> DEFINE f == [n \in 0..0 |-> <<>>]
  <2>1. f = Body(f, 0)
    OBVIOUS
  <2> HIDE DEF f, Body
  <2>2. QED
    BY <1>2, <2>1
<1>4. ASSUME NEW m \in 0..N, m < N, m \in G
      PROVE  m + 1 \in G
  <2>1. PICK f : f = Body(f, m)
    BY <1>4
  <2> DEFINE g == [n \in 0..(m + 1) |-> IF n <= m THEN f[n] ELSE Step(f[m], m + 1)]
  <2>2. \A n \in 0..m : f[n] = IF n = 0 THEN <<>> ELSE Step(f[n - 1], n)
    BY <2>1
  <2>3. ASSUME NEW n \in 0..(m + 1)
        PROVE  g[n] = IF n = 0 THEN <<>> ELSE Step(g[n - 1], n)
    <3>1. CASE n = 0
      BY <1>2, <2>2, <3>1
    <3>2. CASE n # 0 /\ n <= m
      <4>1. n - 1 \in 0..m /\ n \in 0..m /\ n - 1 \in 0..(m + 1)
        BY <1>2, <3>2
      <4>2. g[n - 1] = f[n - 1] /\ g[n] = f[n]
        BY <4>1
      <4>3. QED
        BY <2>2, <3>2, <4>1, <4>2
    <3>3. CASE n = m + 1
      <4>1. n - 1 = m /\ n - 1 \in 0..(m + 1) /\ ~(n <= m) /\ n # 0
        BY <1>2, <3>3
      <4>2. g[n - 1] = f[m] /\ g[n] = Step(f[m], m + 1)
        BY <4>1
      <4>3. QED
        BY <3>3, <4>1, <4>2
    <3>4. QED
      BY <1>2, <3>1, <3>2, <3>3
  <2>4. g = Body(g, m + 1)
    <3> DEFINE h == Body(g, m + 1)
    <3>1. \A n \in 0..(m + 1) : h[n] = g[n]
      BY <2>3
    <3>2. /\ h = [n \in 0..(m + 1) |-> h[n]]
          /\ g = [n \in 0..(m + 1) |-> g[n]]
      OBVIOUS
    <3> HIDE DEF g, h
    <3>3. g = h
      BY <3>1, <3>2
    <3>4. QED
      BY <3>3 DEF h
  <2>5. m + 1 \in 0..N
    BY <1>2, <1>4
  <2> HIDE DEF g, Body
  <2>6. QED
    BY <2>4, <2>5
<1>5. N \in G
  <2> HIDE DEF G
  <2>1. \A m \in 0..N : m \in G
    BY <1>2, <1>3, <1>4, CountsUp
  <2>2. QED
    BY <1>2, <2>1
<1>6. PICK f : f = (CHOOSE h : h = Body(h, N)) /\ f = Body(f, N)
  <2>1. \E h : h = Body(h, N)
    <3> HIDE DEF Body
    <3>1. QED
      BY <1>5
  <2> HIDE DEF Body
  <2> DEFINE c == CHOOSE h : h = Body(h, N)
  <2>2. c = Body(c, N)
    BY <2>1, Zenon
  <2>3. QED
    BY <2>2, Zenon
<1>7. f[0] = <<>> /\ \A n \in 1..N : f[n] = Step(f[n - 1], n)
  <2>1. \A n \in 0..N : f[n] = IF n = 0 THEN <<>> ELSE Step(f[n - 1], n)
    BY <1>6
  <2>2. QED
    BY <1>2, <2>1
<1>8. Without(s, names) = f[N]
  BY <1>1, <1>6
<1>9. QED
  BY <1>7, <1>8 DEF N, Step

LEMMA WithoutLeaves ==
  ASSUME NEW S, NEW s \in Seq(S), NEW names, NEW t, t = Without(s, names)
  PROVE  /\ t \in Seq(S) /\ Len(t) <= Len(s)
         /\ \A x : x \in Elements(t) <=> x \in Elements(s) /\ x.name \notin names
<1> DEFINE N == Len(s)
<1>1. PICK f : /\ t = f[N] /\ f[0] = <<>>
               /\ \A n \in 1..N :
                    f[n] = IF s[n].name \in names THEN f[n - 1] ELSE Append(f[n - 1], s[n])
  BY WithoutSteps
<1> DEFINE Holds(n) == /\ f[n] \in Seq(S) /\ Len(f[n]) <= n
                       /\ \A x : x \in Elements(f[n]) <=>
                                   \E k \in 1..n : x = s[k] /\ x.name \notin names
           G == {n \in 0..N : Holds(n)}
<1>2. N \in Nat /\ DOMAIN s = 1..N
  OBVIOUS
<1>3. 0 \in G
  <2>1. f[0] \in Seq(S) /\ Len(f[0]) = 0 /\ DOMAIN f[0] = {}
    BY <1>1
  <2>2. QED
    BY <1>2, <2>1 DEF Elements
<1>4. ASSUME NEW m \in 0..N, m < N, m \in G
      PROVE  m + 1 \in G
  <2>1. m + 1 \in 1..N /\ (m + 1) - 1 = m /\ s[m + 1] \in S
    BY <1>2, <1>4
  <2>2. Holds(m)
    BY <1>4
  <2>3. CASE s[m + 1].name \in names
    <3>1. f[m + 1] = f[m]
      BY <1>1, <2>1, <2>3
    <3>2. f[m + 1] \in Seq(S) /\ Len(f[m + 1]) <= m + 1
      BY <2>2, <3>1
    <3>3. ASSUME NEW x
          PROVE  x \in Elements(f[m + 1]) <=> \E k \in 1..(m + 1) : x = s[k] /\ x.name \notin names
      <4>1. (\E k \in 1..m : x = s[k] /\ x.name \notin names) <=>
              \E k \in 1..(m + 1) : x = s[k] /\ x.name \notin names
        BY <2>3
      <4>2. QED
        BY <2>2, <3>1, <4>1
    <3>4. QED
      BY <2>1, <3>2, <3>3
  <2>4. CASE s[m + 1].name \notin names
    <3>1. PICK l : l = f[m]
      OBVIOUS
    <3>2. f[m + 1] = Append(l, s[m + 1])
      BY <1>1, <2>1, <2>4, <3>1
    <3>3. l \in Seq(S) /\ Len(l) <= m
      BY <2>2, <3>1
    <3>4. f[m + 1] \in Seq(S) /\ Len(f[m + 1]) <= m + 1
      BY <2>1, <3>2, <3>3
    <3>5. ASSUME NEW x
          PROVE  x \in Elements(f[m + 1]) <=> x \in Elements(l) \/ x = s[m + 1]
      <4>1. /\ DOMAIN l = 1..Len(l)
            /\ DOMAIN Append(l, s[m + 1]) = 1..(Len(l) + 1)
            /\ \A i \in 1..Len(l) : Append(l, s[m + 1])[i] = l[i]
            /\ Append(l, s[m + 1])[Len(l) + 1] = s[m + 1]
        BY <2>1, <3>3
      <4>2. QED
        BY <3>2, <3>3, <4>1 DEF Elements
    <3>6. ASSUME NEW x
          PROVE  x \in Elements(f[m + 1]) <=> \E k \in 1..(m + 1) : x = s[k] /\ x.name \notin names
      <4>1. x \in Elements(l) <=> \E k \in 1..m : x = s[k] /\ x.name \notin names
        BY <2>2, <3>1
      <4>2. (\E k \in 1..(m + 1) : x = s[k] /\ x.name \notin names) <=>
              \/ \E k \in 1..m : x = s[k] /\ x.name \notin names
              \/ x = s[m + 1]
        BY <2>4
      <4>3. QED
        BY <3>5, <4>1, <4>2
    <3>7. QED
      BY <2>1, <3>4, <3>6
  <2>5. QED
    BY <2>3, <2>4
<1>5. Holds(N)
  <2>1. \A m \in 0..N : m \in G
    <3> HIDE DEF G, N
    <3>1. \A m \in 0..N : m < N /\ m \in G => m + 1 \in G
      BY <1>4
    <3>2. QED
      BY <1>2, <1>3, <3>1, CountsUp
  <2>2. N \in G
    <3> HIDE DEF G, N
    <3>1. QED
      BY <1>2, <2>1
  <2>3. QED
    BY <2>2
<1>6. \A x : x \in Elements(s) <=> \E k \in 1..N : x = s[k]
  BY <1>2 DEF Elements
<1>7. QED
  BY <1>1, <1>5, <1>6

\* The last item of a name.
IsLast(v, i, name) ==
  i \in DOMAIN v /\ v[i].name = name /\ \A j \in DOMAIN v : v[j].name = name => j <= i

LEMMA LastIs ==
  ASSUME NEW S, NEW v \in Seq(S), NEW i, NEW name, IsLast(v, i, name)
  PROVE  LastOf(v, name) = i /\ name \in NamesOf(v)
<1> DEFINE places == {j \in DOMAIN v : v[j].name = name}
<1>1. i \in places /\ i \in Int /\ places \subseteq Int /\ \A j \in places : i >= j
  BY DEF IsLast
<1>2. LastOf(v, name) = Max(places)
  BY DEF LastOf
<1> HIDE DEF places
<1>3. Max(places) = CHOOSE x \in places : \A y \in places : x >= y
  BY DEF Max
<1>4. \A x \in places : (\A y \in places : x >= y) => x = i
  BY <1>1
<1>5. Max(places) = i
  BY <1>1, <1>3, <1>4
<1>6. name \in NamesOf(v)
  BY DEF IsLast, NamesOf, Elements
<1>7. QED
  BY <1>2, <1>5, <1>6

LEMMA HasLast ==
  ASSUME NEW S, NEW v \in Seq(S), NEW name \in NamesOf(v)
  PROVE  \E i : IsLast(v, i, name)
<1> DEFINE N == Len(v)
           after == {n \in 0..N : \E j \in DOMAIN v : v[j].name = name /\ n = N - j}
<1>1. N \in Nat /\ DOMAIN v = 1..N
  OBVIOUS
<1>2. PICK k \in DOMAIN v : v[k].name = name
  BY DEF NamesOf, Elements
<1>3. after \subseteq Nat /\ N - k \in after
  BY <1>1, <1>2
<1>4. PICK n \in after : \A m \in after : <<m, n>> \notin OpToRel(<, Nat)
  <2> HIDE DEF after
  <2>1. QED
    BY <1>3, NatLessThanWellFounded, WFMin
<1>5. PICK i \in DOMAIN v : v[i].name = name /\ n = N - i
  OBVIOUS
<1>6. ASSUME NEW j \in DOMAIN v, v[j].name = name
      PROVE  j <= i
  <2> SUFFICES ASSUME j > i PROVE FALSE
    BY <1>1
  <2>1. N - j \in after /\ N - j < n /\ N - j \in Nat /\ n \in Nat
    BY <1>1, <1>5, <1>6
  <2> DEFINE pair == <<N - j, n>>
  <2>2. pair \in Nat \X Nat /\ pair[1] = N - j /\ pair[2] = n
    BY <2>1
  <2>3. pair \in OpToRel(<, Nat)
    BY <2>1, <2>2 DEF OpToRel
  <2>4. QED
    BY <1>4, <2>1, <2>3
<1>7. QED
  BY <1>5, <1>6 DEF IsLast

LastIn(v, name, x) == \E i : IsLast(v, i, name) /\ v[i] = x

\* The last item of a name stays the last one of it.
LEMMA WithoutKeepsLast ==
  ASSUME NEW S, NEW s \in Seq(S), NEW names, NEW t, t = Without(s, names),
         NEW k, NEW name, name \notin names, IsLast(s, k, name)
  PROVE  LastIn(t, name, s[k])
<1> DEFINE N == Len(s)
<1>1. PICK f : /\ t = f[N] /\ f[0] = <<>>
               /\ \A n \in 1..N :
                    f[n] = IF s[n].name \in names THEN f[n - 1] ELSE Append(f[n - 1], s[n])
  BY WithoutSteps
<1>2. N \in Nat /\ DOMAIN s = 1..N /\ k \in 1..N
  BY DEF IsLast
<1> DEFINE Holds(n) == /\ f[n] \in Seq(S)
                       /\ n >= k => \E i : IsLast(f[n], i, name) /\ f[n][i] = s[k]
           G == {n \in 0..N : Holds(n)}
<1>3. 0 \in G
  <2>1. f[0] \in Seq(S) /\ ~(0 >= k) /\ 0 \in 0..N
    BY <1>1, <1>2
  <2>2. QED
    BY <2>1
<1>4. ASSUME NEW m \in 0..N, m < N, m \in G
      PROVE  m + 1 \in G
  <2>1. m + 1 \in 1..N /\ (m + 1) - 1 = m /\ s[m + 1] \in S
    BY <1>2, <1>4
  <2>2. f[m] \in Seq(S) /\ (m >= k => \E i : IsLast(f[m], i, name) /\ f[m][i] = s[k])
    BY <1>4
  <2>3. CASE s[m + 1].name \in names
    <3>1. f[m + 1] = f[m] /\ m + 1 # k
      BY <1>1, <2>1, <2>3 DEF IsLast
    <3>2. m + 1 >= k => m >= k
      BY <1>2, <3>1
    <3>3. QED
      BY <2>1, <2>2, <3>1, <3>2
  <2>4. CASE s[m + 1].name \notin names
    <3>1. PICK l : l = f[m]
      OBVIOUS
    <3>2. PICK q : q = Append(l, s[m + 1])
      OBVIOUS
    <3>3. f[m + 1] = q
      BY <1>1, <2>1, <2>4, <3>1, <3>2
    <3>4. /\ l \in Seq(S) /\ q \in Seq(S) /\ Len(l) \in Nat
          /\ DOMAIN l = 1..Len(l) /\ DOMAIN q = 1..(Len(l) + 1)
          /\ \A i \in 1..Len(l) : q[i] = l[i]
          /\ q[Len(l) + 1] = s[m + 1]
      BY <2>1, <2>2, <3>1, <3>2
    <3>5. CASE m + 1 = k
      <4>1. IsLast(q, Len(l) + 1, name)
        BY <3>4, <3>5 DEF IsLast
      <4>2. QED
        BY <2>1, <3>3, <3>4, <3>5, <4>1
    <3>6. CASE m + 1 > k
      <4>1. PICK i : IsLast(l, i, name) /\ l[i] = s[k]
        BY <1>2, <2>2, <3>1, <3>6
      <4>2. s[m + 1].name # name
        BY <1>2, <2>1, <3>6 DEF IsLast
      <4>3. IsLast(q, i, name) /\ q[i] = s[k]
        BY <3>4, <4>1, <4>2 DEF IsLast
      <4>4. QED
        BY <2>1, <3>3, <3>4, <4>3
    <3>7. CASE m + 1 < k
      BY <1>2, <2>1, <3>3, <3>4, <3>7
    <3>8. QED
      BY <1>2, <3>5, <3>6, <3>7
  <2>5. QED
    BY <2>3, <2>4
<1>5. N \in G
  <2> HIDE DEF G, N
  <2>1. \A m \in 0..N : m < N /\ m \in G => m + 1 \in G
    BY <1>4
  <2>2. \A m \in 0..N : m \in G
    BY <1>2, <1>3, <2>1, CountsUp
  <2>3. QED
    BY <1>2, <2>2
<1>6. N >= k
  BY <1>2
<1>7. QED
  BY <1>1, <1>5, <1>6 DEF LastIn

----------------------------------------------------------------------------
(* The pods: what the bundle's own have become, and those of the rendered deployments.  *)

\* The mounts where certificates go are the bundle's, a configuration's or theirs.
Originates(pod, origins) ==
  \A c \in Elements(pod.containers) : \A m \in Elements(c.mounts) :
    m.path \in ProtectedPaths => m.name \in origins

\* Displaced, before the first call too.
Gone(b, d, n, provider) ==
  IF n = 0 \/ d.name \notin WithWebhooks(b) \/ (n = 1 /\ provider = Absent) THEN {}
  ELSE Origins(d.pod, b, n)

GoodPod(pod, loaded, origins, gone) ==
  IsPod(pod) /\ Declares(pod, loaded, gone) /\ Originates(pod, origins)

\* The pod of the deployment d of the bundle b, as it is between the steps.
OwnPod(pod, d, b, n, provider) ==
  /\ GoodPod(pod, d.pod, Origins(d.pod, b, n), Gone(b, d, n, provider))
  /\ pod.tolerations = d.pod.tolerations /\ pod.annotations = d.pod.annotations

\* The names of the volumes at the paths where certificates go, and what is in them.
Trusted(pod, secret) ==
  \A c \in Elements(pod.containers), path \in ProtectedPaths :
    \E j \in DOMAIN c.mounts, k \in DOMAIN pod.volumes :
      /\ c.mounts[j].path = path /\ \A i \in DOMAIN c.mounts : c.mounts[i].path = path => i = j
      /\ pod.volumes[k].name = c.mounts[j].name /\ pod.volumes[k].source = secret
      /\ \A i \in DOMAIN pod.volumes : pod.volumes[i].name = c.mounts[j].name => i = k

\* The pod of what is rendered for the deployment d, before and after it is certified.
SoundPod(pod, d, b, n, request) ==
  LET gone == Gone(b, d, n, request.provider)
  IN /\ GoodPod(pod, d.pod, Origins(d.pod, b, n), gone)
     /\ \A key \in DOMAIN d.pod.annotations \ {"olm.targetNamespaces", "olm.operatorNamespace"} :
          key \in DOMAIN pod.annotations /\ pod.annotations[key] = d.pod.annotations[key]
     /\ request.config # Absent => Applied(pod, request.config, gone)
     /\ /\ n = 1 /\ Covered(d.pod, request.config)
        /\ d.pod.initMounts \cap TakenAway(d.pod, request.config) = {}
        => Covered(pod, Absent)

DeliveredPod(pod, d, b, n, request, certified) ==
  /\ SoundPod(pod, d, b, n, request)
  /\ n = 1 /\ ~certified =>
       VolumesToRemove(pod) = VolumesToRemove(applyCustomConfig(d.pod, request.config))
  /\ certified /\ d.name \in WithWebhooks(b) /\ request.provider # Absent =>
       Trusted(pod, CertName(WebhookServiceNameForDeployment(d.name)))

BeforeDeployments == {"configure", "validate", "namespace"} \cup (Generating \ HaveDeployments)

AskedFor ==
  /\ renders \in 0..MaxRenders
  /\ call.step # "idle" => renders > 0 /\ call.request \in Offered(bundle, renders)

PodsInv ==
  /\ AskedFor
  /\ renders = 0 \/ (renders = 1 /\ call.step \in BeforeDeployments) => pods = LoadedPods(bundle)
  /\ \A i \in DOMAIN pods :
       OwnPod(pods[i], bundle.deployments[i], bundle, renders, call.request.provider)
  /\ \A o \in call.objects : o.kind = "Deployment" =>
       \E d \in Elements(bundle.deployments) :
         /\ o.name = d.name
         /\ DeliveredPod(o.pod, d, bundle, renders, call.request, call.step = "returned")

LEMMA SliceOf ==
  ASSUME NEW n \in Nat, NEW t, t = [i \in 1..n |-> t[i]]
  PROVE  IsSlice(t) /\ Len(t) = n /\ DOMAIN t = 1..n
<1>1. DOMAIN t = 1..n
  OBVIOUS
<1>2. PICK S : S = Elements(t)
  OBVIOUS
<1>3. \A i \in 1..n : t[i] \in S
  BY <1>1, <1>2 DEF Elements
<1>4. t \in [1..n -> S]
  BY <1>3
<1>5. t \in Seq(S)
  BY <1>4
<1>6. QED
  BY <1>1, <1>2, <1>5 DEF IsSlice

LEMMA SliceHas ==
  ASSUME NEW s, IsSlice(s)
  PROVE  /\ Len(s) \in Nat /\ DOMAIN s = 1..Len(s) /\ s = [i \in 1..Len(s) |-> s[i]]
         /\ \A i \in 1..Len(s) : s[i] \in Elements(s)
         /\ \A x : x \in Elements(s) <=> \E i \in 1..Len(s) : x = s[i]
<1>1. PICK S : S = Elements(s)
  OBVIOUS
<1>2. s \in Seq(S)
  BY <1>1 DEF IsSlice
<1>3. Len(s) \in Nat /\ DOMAIN s = 1..Len(s) /\ s = [i \in 1..Len(s) |-> s[i]]
  BY <1>2
<1>4. QED
  BY <1>3 DEF Elements

Joined(r, s, t) ==
  /\ IsSlice(r) /\ DOMAIN r = 1..(Len(s) + Len(t))
  /\ \A i \in 1..Len(s) : r[i] = s[i]
  /\ \A i \in 1..Len(t) : r[Len(s) + i] = t[i]
  /\ \A i \in DOMAIN r : i \notin 1..Len(s) =>
       i - Len(s) \in 1..Len(t) /\ r[i] = t[i - Len(s)]
  /\ Elements(r) = Elements(s) \cup Elements(t)

LEMMA SlicesJoined ==
  ASSUME NEW s, NEW t, NEW r, IsSlice(s), IsSlice(t), r = s \o t
  PROVE  Joined(r, s, t)
<1>1. PICK S : S = Elements(s) \cup Elements(t)
  OBVIOUS
<1>2. s \in Seq(S) /\ t \in Seq(S)
  <2>1. /\ Len(s) \in Nat /\ s = [i \in 1..Len(s) |-> s[i]] /\ \A i \in 1..Len(s) : s[i] \in S
        /\ Len(t) \in Nat /\ t = [i \in 1..Len(t) |-> t[i]] /\ \A i \in 1..Len(t) : t[i] \in S
    BY <1>1, SliceHas
  <2>2. s \in [1..Len(s) -> S] /\ t \in [1..Len(t) -> S]
    BY ONLY <2>1
  <2>3. QED
    BY ONLY <2>1, <2>2
<1>3. PICK m : m = Len(s)
  OBVIOUS
<1>4. PICK n : n = Len(t)
  OBVIOUS
<1>5. m \in Nat /\ n \in Nat /\ DOMAIN s = 1..m /\ DOMAIN t = 1..n
  BY <1>2, <1>3, <1>4
<1>6. /\ r \in Seq(S) /\ Len(r) = m + n /\ DOMAIN r = 1..(m + n)
      /\ \A i \in 1..(m + n) : r[i] = IF i <= m THEN s[i] ELSE t[i - m]
  BY <1>2, <1>3, <1>4, <1>5
<1>7. \A i \in 1..m : r[i] = s[i]
  BY <1>5, <1>6
<1>8. \A i \in 1..n : r[m + i] = t[i]
  BY <1>5, <1>6
<1>9. \A i \in 1..(m + n) : i \notin 1..m => i - m \in 1..n /\ r[i] = t[i - m]
  BY <1>5, <1>6
<1>10. Elements(r) = Elements(s) \cup Elements(t)
  <2>1. Elements(r) \subseteq Elements(s) \cup Elements(t)
    BY <1>5, <1>6, <1>7, <1>9 DEF Elements
  <2>2. Elements(s) \subseteq Elements(r)
    BY <1>5, <1>6, <1>7 DEF Elements
  <2>3. Elements(t) \subseteq Elements(r)
    <3>1. \A i \in 1..n : m + i \in 1..(m + n)
      BY <1>5
    <3>2. QED
      BY <1>5, <1>6, <1>8, <3>1 DEF Elements
  <2>4. QED
    BY <2>1, <2>2, <2>3
<1>11. IsSlice(r)
  BY <1>1, <1>6, <1>10 DEF IsSlice
<1>12. QED
  BY <1>3, <1>4, <1>6, <1>7, <1>8, <1>9, <1>10, <1>11 DEF Joined

----------------------------------------------------------------------------
(* What a configuration does to a container. *)

\* A variable of the configuration has its last word, and none is lost.
LEMMA EnvironmentApplied ==
  ASSUME NEW env, NEW config, IsSlice(env), IsSlice(config),
         NEW t, t = applyEnvironmentConfig(env, config)
  PROVE  /\ IsSlice(t)
         /\ NamesOf(env) \subseteq NamesOf(t)
         /\ \A name \in NamesOf(config) :
              name \in NamesOf(t) /\ ValueOf(t, name) = ValueOf(config, name)
<1> DEFINE over(i) == env[i].name \in NamesOf(config) /\ i = LastOf(env, env[i].name)
<1>1. PICK F : F = [i \in DOMAIN env |-> IF over(i) THEN config[LastOf(config, env[i].name)]
                                         ELSE env[i]]
  OBVIOUS
<1>2. PICK W : W = Without(config, NamesOf(env))
  OBVIOUS
<1>3. t = F \o W
  BY <1>1, <1>2 DEF applyEnvironmentConfig
<1>4. PICK m : m = Len(env) /\ m \in Nat
  BY SliceHas
<1>5. PICK S : S = Elements(env)
  OBVIOUS
<1>6. PICK C : C = Elements(config)
  OBVIOUS
<1>7. env \in Seq(S) /\ config \in Seq(C) /\ DOMAIN env = 1..m
  BY <1>4, <1>5, <1>6, SliceHas DEF IsSlice
<1>8. \A name \in NamesOf(config) :
        \E k : IsLast(config, k, name) /\ LastOf(config, name) = k /\ config[k].name = name
  BY <1>7, HasLast, LastIs DEF IsLast
<1>9. \A name \in NamesOf(env) : \E k : IsLast(env, k, name) /\ LastOf(env, name) = k
  BY <1>7, HasLast, LastIs
<1>10. \A i \in 1..m : F[i].name = env[i].name
  BY <1>1, <1>7, <1>8
<1>11. IsSlice(F) /\ Len(F) = m /\ DOMAIN F = 1..m
  <2>1. F = [i \in 1..m |-> F[i]]
    BY <1>1, <1>7
  <2>2. QED
    BY <1>4, <2>1, SliceOf
<1>12. /\ IsSlice(W) /\ \A x \in Elements(W) : x.name \notin NamesOf(env)
  <2>1. W \in Seq(C) /\ \A x \in Elements(W) : x.name \notin NamesOf(env)
    BY <1>2, <1>7, WithoutLeaves
  <2>2. Len(W) \in Nat /\ W = [i \in 1..Len(W) |-> W[i]]
    BY <2>1
  <2>3. QED
    BY <2>1, <2>2, SliceOf
<1>13. PICK n : n = Len(W)
  OBVIOUS
<1>14. /\ IsSlice(t) /\ DOMAIN t = 1..(m + n) /\ n \in Nat /\ DOMAIN W = 1..n
       /\ \A i \in 1..m : t[i] = F[i]
       /\ \A i \in 1..n : t[m + i] = W[i]
       /\ \A i \in 1..(m + n) : i \notin 1..m => i - m \in 1..n /\ t[i] = W[i - m]
  <2>1. n \in Nat /\ DOMAIN W = 1..n
    BY <1>12, <1>13, SliceHas
  <2>2. Joined(t, F, W)
    BY <1>3, <1>11, <1>12, SlicesJoined
  <2>3. QED
    BY <1>11, <1>13, <2>1, <2>2 DEF Joined
<1>15. PICK T : T = Elements(t)
  OBVIOUS
<1>16. t \in Seq(T)
  BY <1>14, <1>15 DEF IsSlice
<1>17. NamesOf(env) \subseteq NamesOf(t)
  <2>1. ASSUME NEW name \in NamesOf(env) PROVE name \in NamesOf(t)
    <3>1. PICK i \in 1..m : env[i].name = name
      BY <1>7 DEF NamesOf, Elements
    <3>2. t[i].name = name /\ i \in DOMAIN t
      BY <1>4, <1>10, <1>14, <3>1
    <3>3. QED
      BY <3>2 DEF NamesOf, Elements
  <2>2. QED
    BY <2>1
<1>18. ASSUME NEW name \in NamesOf(config)
       PROVE  name \in NamesOf(t) /\ ValueOf(t, name) = ValueOf(config, name)
  <2>1. PICK k : IsLast(config, k, name) /\ LastOf(config, name) = k /\ config[k].name = name
    BY <1>8
  <2>2. \E i : IsLast(t, i, name) /\ t[i] = config[k]
    <3>1. CASE name \in NamesOf(env)
      <4>1. PICK i : IsLast(env, i, name) /\ LastOf(env, name) = i
        BY <1>9, <3>1
      <4>2. i \in 1..m /\ env[i].name = name
        BY <1>7, <4>1 DEF IsLast
      <4>3. F[i] = config[k]
        BY <1>1, <1>7, <2>1, <4>1, <4>2
      <4>4. ASSUME NEW j \in 1..(m + n), t[j].name = name
            PROVE  j <= i
        <5>1. CASE j \in 1..m
          <6>1. env[j].name = name
            BY <1>10, <1>14, <4>4, <5>1
          <6>2. QED
            BY <1>7, <4>1, <5>1, <6>1 DEF IsLast
        <5>2. CASE j \notin 1..m
          <6>1. j - m \in 1..n /\ t[j] = W[j - m]
            BY <1>14, <5>2
          <6>2. W[j - m] \in Elements(W)
            BY <1>14, <6>1 DEF Elements
          <6>3. QED
            BY <1>12, <3>1, <4>4, <6>1, <6>2
        <5>3. QED
          BY <5>1, <5>2
      <4>5. i \in DOMAIN t /\ t[i] = config[k] /\ t[i].name = name
        BY <1>4, <1>14, <2>1, <4>2, <4>3
      <4>6. IsLast(t, i, name)
        BY <1>14, <4>4, <4>5 DEF IsLast
      <4>7. QED
        BY <4>5, <4>6
    <3>2. CASE name \notin NamesOf(env)
      <4>1. PICK i : IsLast(W, i, name) /\ W[i] = config[k]
        <5>1. PICK names : names = NamesOf(env)
          OBVIOUS
        <5>2. W = Without(config, names) /\ name \notin names
          BY <1>2, <3>2, <5>1
        <5>3. IsLast(config, k, name) /\ config \in Seq(C)
          BY <1>7, <2>1
        <5>4. LastIn(W, name, config[k])
          BY <5>2, <5>3, WithoutKeepsLast
        <5>5. QED
          BY <5>4 DEF LastIn
      <4>2. i \in 1..n /\ m + i \in 1..(m + n) /\ t[m + i] = W[i] /\ W[i].name = name
        <5>1. i \in DOMAIN W /\ W[i].name = name
          BY <4>1 DEF IsLast
        <5>2. i \in 1..n
          BY <1>14, <5>1
        <5>3. t[m + i] = W[i]
          BY <1>14, <5>2
        <5>4. m \in Nat /\ n \in Nat
          BY <1>4, <1>14
        <5>5. m + i \in 1..(m + n)
          BY <5>2, <5>4
        <5>6. QED
          BY <5>1, <5>2, <5>3, <5>5
      <4>3. ASSUME NEW j \in 1..(m + n), t[j].name = name
            PROVE  j <= m + i
        <5>1. CASE j \in 1..m
          BY <1>4, <1>14, <4>2, <5>1
        <5>2. CASE j \notin 1..m
          <6>1. j - m \in 1..n /\ t[j] = W[j - m]
            BY <1>14, <5>2
          <6>2. j - m <= i
            BY <1>14, <4>1, <4>3, <6>1 DEF IsLast
          <6>3. QED
            BY <1>4, <1>14, <4>2, <6>1, <6>2
        <5>3. QED
          BY <5>1, <5>2
      <4>4. IsLast(t, m + i, name)
        BY <1>14, <4>2, <4>3 DEF IsLast
      <4>5. QED
        BY <4>1, <4>2, <4>4
    <3>3. QED
      BY <3>1, <3>2
  <2>3. PICK i : IsLast(t, i, name) /\ t[i] = config[k]
    BY <2>2
  <2>4. LastOf(t, name) = i /\ name \in NamesOf(t)
    BY <1>16, <2>3, LastIs
  <2>5. QED
    BY <2>1, <2>3, <2>4 DEF ValueOf
<1>19. QED
  BY <1>14, <1>17, <1>18

\* What a container is told, and what it keeps.
Told(q, c, config) ==
  /\ IsContainer(q) /\ AppliedTo(q, config, {})
  /\ NamesOf(c.env) \subseteq NamesOf(q.env) /\ c.envFrom \subseteq q.envFrom
  /\ Elements(q.mounts) = Elements(c.mounts) \cup Elements(config.mounts)

LEMMA ContainerTold ==
  ASSUME NEW c, NEW config, IsContainer(c), IsConfig(config),
         NEW q, q = applyToContainer(c, config)
  PROVE  Told(q, c, config)
<1>0. PICK env0, env1, mounts0, mounts1 :
        /\ env0 = c.env /\ env1 = config.env
        /\ mounts0 = c.mounts /\ mounts1 = config.mounts
  OBVIOUS
<1>1. PICK env : env = applyEnvironmentConfig(env0, env1)
  OBVIOUS
<1>2. PICK mounts : mounts = mounts0 \o mounts1
  OBVIOUS
<1>3. /\ DOMAIN q = {"env", "envFrom", "mounts", "resources"}
      /\ q.env = env /\ q.envFrom = c.envFrom \cup config.envFrom /\ q.mounts = mounts
      /\ config.resources # Absent => q.resources = config.resources
  BY <1>0, <1>1, <1>2 DEF applyToContainer, IsContainer
<1>4. IsSlice(env0) /\ IsSlice(env1) /\ IsSlice(mounts0) /\ IsSlice(mounts1)
  BY <1>0 DEF IsContainer, IsConfig
<1>5. /\ IsSlice(env) /\ NamesOf(env0) \subseteq NamesOf(env)
      /\ \A name \in NamesOf(env1) :
           name \in NamesOf(env) /\ ValueOf(env, name) = ValueOf(env1, name)
  BY <1>1, <1>4, EnvironmentApplied
<1>6. IsSlice(mounts) /\ Elements(mounts) = Elements(mounts0) \cup Elements(mounts1)
  BY <1>2, <1>4, SlicesJoined DEF Joined
<1>7. IsContainer(q)
  BY <1>3, <1>5, <1>6 DEF IsContainer
<1>8. AppliedTo(q, config, {})
  BY <1>0, <1>3, <1>5, <1>6 DEF AppliedTo, Kept
<1>9. QED
  BY <1>0, <1>3, <1>5, <1>6, <1>7, <1>8 DEF Told

----------------------------------------------------------------------------
(* What a configuration does to a pod. *)

AllTold(now, containers, config) ==
  /\ IsSlice(now) /\ DOMAIN now = DOMAIN containers
  /\ \A k \in DOMAIN containers : Told(now[k], containers[k], config)

LEMMA ContainersTold ==
  ASSUME NEW containers, NEW config, IsSlice(containers), IsConfig(config),
         \A c \in Elements(containers) : IsContainer(c),
         NEW now, now = Mapped(containers, LAMBDA c : applyToContainer(c, config))
  PROVE  AllTold(now, containers, config)
<1>1. now = [k \in DOMAIN containers |-> applyToContainer(containers[k], config)]
  BY DEF Mapped
<1>2. PICK n : n = Len(containers)
  OBVIOUS
<1>3. n \in Nat /\ DOMAIN containers = 1..n /\ \A k \in 1..n : containers[k] \in Elements(containers)
  BY <1>2, SliceHas
<1>4. now = [k \in 1..n |-> now[k]]
  BY <1>1, <1>3
<1>5. IsSlice(now) /\ DOMAIN now = DOMAIN containers
  BY <1>3, <1>4, SliceOf
<1>6. ASSUME NEW k \in DOMAIN containers
      PROVE  Told(now[k], containers[k], config)
  <2>1. PICK q : q = now[k]
    OBVIOUS
  <2>2. PICK c : c = containers[k]
    OBVIOUS
  <2>3. q = applyToContainer(c, config) /\ IsContainer(c)
    BY <1>1, <1>3, <2>1, <2>2
  <2>4. QED
    BY <2>1, <2>2, <2>3, ContainerTold
<1>7. QED
  BY <1>5, <1>6 DEF AllTold

LEMMA AffinityMerges ==
  ASSUME NEW old, NEW config, IsAffinity(old), IsAffinity(config),
         NEW now, now = applyAffinityConfig(old, config)
  PROVE  /\ IsAffinity(now) /\ AffinityApplied(now, config)
         /\ config # Absent => IsAffinity(MergedAffinity(old, config))
<1>1. CASE config = Absent
  <2>1. now = old
    BY <1>1 DEF applyAffinityConfig
  <2>2. config # NoAffinity
    <3>1. NoAffinity \in [DOMAIN NoAffinity -> Parts]
      BY PartsAssumption DEF NoAffinity
    <3>2. QED
      BY <1>1, <3>1, PartsAssumption
  <2>3. QED
    BY <1>1, <2>1, <2>2 DEF AffinityApplied
<1>2. CASE config # Absent
  <2> DEFINE parts == DOMAIN NoAffinity
             before == IF old = Absent THEN NoAffinity ELSE old
  <2>1. NoAffinity \in [parts -> Parts] /\ config \in [parts -> Parts]
    BY <1>2, PartsAssumption DEF IsAffinity, NoAffinity
  <2>2. before \in [parts -> Parts]
    BY <2>1 DEF IsAffinity
  <2>3. PICK merged : merged = MergedAffinity(old, config)
    OBVIOUS
  <2>4. merged = [part \in parts |-> Override(before[part], config[part])]
    BY <2>3 DEF MergedAffinity
  <2>5. \A part \in parts : Override(before[part], config[part]) \in Parts
    BY <2>1, <2>2, PartsAssumption DEF Override
  <2>6. merged \in [parts -> Parts]
    BY <2>4, <2>5
  <2>7. merged # Absent
    BY <2>6, PartsAssumption
  <2>8. now = IF config = NoAffinity \/ isAffinityEmpty(merged) THEN Absent ELSE merged
    BY <1>2, <2>3 DEF applyAffinityConfig
  <2>9. IsAffinity(now) /\ IsAffinity(merged)
    BY <2>6, <2>8 DEF IsAffinity
  <2>10. config = NoAffinity => now = Absent
    BY <2>8
  <2>11. ASSUME NEW part \in parts, config[part] # Absent
         PROVE  (IF now = Absent THEN Absent ELSE now[part])
                  = IF config[part] = Erased THEN Absent ELSE config[part]
    <3>1. merged[part] = IF config[part] = Erased THEN Absent ELSE config[part]
      BY <2>4, <2>11 DEF Override
    <3>2. CASE now = merged
      BY <2>7, <3>1, <3>2
    <3>3. CASE now = Absent
      <4>1. CASE config = NoAffinity
        BY <2>11, <4>1 DEF NoAffinity
      <4>2. CASE isAffinityEmpty(merged)
        <5>1. merged[part] \in {Absent, Erased}
          BY <2>6, <4>2 DEF isAffinityEmpty
        <5>2. QED
          BY <3>1, <3>3, <5>1
      <4>3. QED
        BY <2>7, <2>8, <3>3, <4>1, <4>2
    <3>4. QED
      BY <2>8, <3>2, <3>3
  <2>12. QED
    BY <2>3, <2>9, <2>10, <2>11 DEF AffinityApplied
<1>3. QED
  BY <1>1, <1>2

PodFields == {"containers", "initMounts", "volumes", "labels", "affinity", "tolerations",
              "nodeSelector", "annotations"}

\* What the configuration mounts where certificates go is known.
Mine(config, origins) ==
  \A m \in Elements(config.mounts) : m.path \in ProtectedPaths => m.name \in origins

\* A good pod stays one when its containers are told a configuration and nothing is lost.
LEMMA ToldPodIsGood ==
  ASSUME NEW pod, NEW q, NEW config, NEW loaded, NEW origins, NEW gone,
         GoodPod(pod, loaded, origins, gone), Mine(config, origins),
         AllTold(q.containers, pod.containers, config), DOMAIN q = PodFields,
         IsSlice(q.volumes), Elements(pod.volumes) \subseteq Elements(q.volumes),
         IsAffinity(q.affinity), pod.tolerations \subseteq q.tolerations,
         q.labels = pod.labels, q.initMounts = pod.initMounts
  PROVE  GoodPod(q, loaded, origins, gone)
<1>1. PICK cs, ds : cs = pod.containers /\ ds = q.containers
  OBVIOUS
<1>2. /\ IsSlice(cs) /\ IsSlice(ds) /\ DOMAIN ds = DOMAIN cs
      /\ \A k \in DOMAIN cs : Told(ds[k], cs[k], config)
  BY <1>1 DEF AllTold, GoodPod, IsPod
<1>3. IsPod(q)
  <2>1. \A c \in Elements(ds) : IsContainer(c)
    BY <1>2 DEF Told, Elements
  <2>2. QED
    BY <1>1, <1>2, <2>1 DEF IsPod, PodFields
<1>4. Declares(q, loaded, gone)
  <2>1. Declares(pod, loaded, gone)
    BY DEF GoodPod
  <2>2. ASSUME NEW k \in DOMAIN loaded.containers
        PROVE  /\ NamesOf(loaded.containers[k].env) \subseteq NamesOf(ds[k].env)
               /\ loaded.containers[k].envFrom \subseteq ds[k].envFrom
               /\ Kept(loaded.containers[k].mounts, ds[k].mounts, gone)
    <3>1. k \in DOMAIN cs
      BY <1>1, <2>1 DEF Declares
    <3>2. /\ NamesOf(loaded.containers[k].env) \subseteq NamesOf(cs[k].env)
          /\ loaded.containers[k].envFrom \subseteq cs[k].envFrom
          /\ Kept(loaded.containers[k].mounts, cs[k].mounts, gone)
      BY <1>1, <2>1 DEF Declares
    <3>3. Told(ds[k], cs[k], config)
      BY <1>2, <3>1
    <3>4. QED
      BY <3>2, <3>3 DEF Told, Kept
  <2>3. Kept(loaded.volumes, q.volumes, gone)
    BY <2>1 DEF Declares, Kept
  <2>4. QED
    BY <1>1, <1>2, <2>1, <2>2, <2>3 DEF Declares
<1>5. Originates(q, origins)
  <2> SUFFICES ASSUME NEW k \in DOMAIN ds, NEW m \in Elements(ds[k].mounts),
                      m.path \in ProtectedPaths
               PROVE  m.name \in origins
    BY <1>1 DEF Originates, Elements
  <2>1. m \in Elements(cs[k].mounts) \cup Elements(config.mounts)
    BY <1>2 DEF Told
  <2>2. cs[k] \in Elements(pod.containers)
    BY <1>1, <1>2 DEF Elements
  <2>3. QED
    BY <2>1, <2>2 DEF GoodPod, Originates, Mine
<1>6. QED
  BY <1>3, <1>4, <1>5 DEF GoodPod

\* The pod of a rendered deployment: that of the bundle with OLM's annotations, configured.
LEMMA ConfiguredPod ==
  ASSUME NEW pod, NEW config, NEW loaded, NEW origins, NEW gone,
         GoodPod(pod, loaded, origins, gone), config # Absent, IsConfig(config),
         Mine(config, origins), NEW q, q = applyCustomConfig(pod, config)
  PROVE  /\ GoodPod(q, loaded, origins, gone) /\ Applied(q, config, gone)
         /\ q.annotations = MergeMaps(config.annotations, pod.annotations)
         /\ AllTold(q.containers, pod.containers, config)
         /\ Elements(q.volumes) = Elements(pod.volumes) \cup Elements(config.volumes)
<1>0. PICK cs, vs, ws : cs = pod.containers /\ vs = pod.volumes /\ ws = config.volumes
  OBVIOUS
<1>1. PICK ds : ds = Mapped(cs, LAMBDA c : applyToContainer(c, config))
  OBVIOUS
<1>2. PICK us : us = vs \o ws
  OBVIOUS
<1>3. PICK now : now = applyAffinityConfig(pod.affinity, config.affinity)
  OBVIOUS
<1>4. IsPod(pod) /\ DOMAIN pod = PodFields
  BY DEF GoodPod, IsPod, PodFields
<1>5. q = [pod EXCEPT
             !.containers = ds,
             !.volumes = us,
             !.tolerations = @ \cup config.tolerations,
             !.nodeSelector = IF config.nodeSelector = Absent THEN @ ELSE config.nodeSelector,
             !.affinity = now,
             !.annotations = MergeMaps(config.annotations, @)]
  BY <1>0, <1>1, <1>2, <1>3, Zenon DEF applyCustomConfig
<1>6. /\ DOMAIN q = PodFields /\ q.containers = ds /\ q.volumes = us /\ q.affinity = now
      /\ q.tolerations = pod.tolerations \cup config.tolerations
      /\ q.annotations = MergeMaps(config.annotations, pod.annotations)
      /\ config.nodeSelector # Absent => q.nodeSelector = config.nodeSelector
      /\ q.labels = pod.labels /\ q.initMounts = pod.initMounts
  BY <1>4, <1>5 DEF PodFields
<1>7. AllTold(ds, cs, config)
  <2>1. IsSlice(cs) /\ \A c \in Elements(cs) : IsContainer(c)
    BY <1>0, <1>4 DEF IsPod
  <2>2. QED
    BY <1>1, <2>1, ContainersTold
<1>8. IsSlice(us) /\ Elements(us) = Elements(vs) \cup Elements(ws)
  <2>1. IsSlice(vs) /\ IsSlice(ws)
    BY <1>0, <1>4 DEF IsPod, IsConfig
  <2>2. QED
    BY <1>2, <2>1, SlicesJoined DEF Joined
<1>9. IsAffinity(now) /\ AffinityApplied(now, config.affinity)
  <2>1. PICK old, new : old = pod.affinity /\ new = config.affinity
    OBVIOUS
  <2>2. IsAffinity(old) /\ IsAffinity(new)
    BY <1>4, <2>1 DEF IsPod, IsConfig
  <2>3. QED
    BY <1>3, <2>1, <2>2, AffinityMerges
<1>10. GoodPod(q, loaded, origins, gone)
  <2>1. /\ AllTold(q.containers, pod.containers, config) /\ IsSlice(q.volumes)
        /\ Elements(pod.volumes) \subseteq Elements(q.volumes) /\ IsAffinity(q.affinity)
        /\ pod.tolerations \subseteq q.tolerations
        /\ q.labels = pod.labels /\ q.initMounts = pod.initMounts
    BY <1>0, <1>6, <1>7, <1>8, <1>9
  <2>2. QED
    BY <1>6, <2>1, ToldPodIsGood
<1>11. Applied(q, config, gone)
  <2>1. ASSUME NEW c \in Elements(q.containers)
        PROVE  AppliedTo(c, config, gone)
    <3>1. PICK k \in DOMAIN ds : c = ds[k]
      BY <1>6 DEF Elements
    <3>2. Told(c, cs[k], config)
      BY <1>7, <3>1 DEF AllTold
    <3>3. QED
      BY <3>2 DEF Told, AppliedTo, Kept
  <2>2. Kept(config.volumes, q.volumes, gone)
    BY <1>0, <1>6, <1>8 DEF Kept
  <2>3. DOMAIN config.annotations \subseteq DOMAIN q.annotations
    BY <1>6 DEF MergeMaps
  <2>4. QED
    BY <1>6, <1>9, <2>1, <2>2, <2>3 DEF Applied
<1>12. QED
  BY <1>0, <1>6, <1>7, <1>8, <1>10, <1>11

\* And what the bundle's own pod has become of it.
LEMMA ConfiguredInPlacePod ==
  ASSUME NEW pod, NEW config, NEW loaded, NEW origins, NEW gone,
         GoodPod(pod, loaded, origins, gone), config # Absent => IsConfig(config),
         config # Absent => Mine(config, origins), NEW q, q = ConfiguredInPlace(pod, config)
  PROVE  /\ GoodPod(q, loaded, origins, gone)
         /\ q.annotations = pod.annotations /\ q.tolerations = pod.tolerations
<1>1. CASE config = Absent
  BY <1>1 DEF ConfiguredInPlace
<1>2. CASE config # Absent
  <2>0. PICK cs, old, new : cs = pod.containers /\ old = pod.affinity /\ new = config.affinity
    OBVIOUS
  <2>1. PICK ds : ds = Mapped(cs, LAMBDA c : applyToContainer(c, config))
    OBVIOUS
  <2>2. PICK now : now = IF new \in {Absent, NoAffinity} \/ old = Absent THEN old
                         ELSE MergedAffinity(old, new)
    OBVIOUS
  <2>3. IsPod(pod) /\ DOMAIN pod = PodFields
    BY DEF GoodPod, IsPod, PodFields
  <2>4. q = [pod EXCEPT !.containers = ds, !.affinity = now]
    BY <1>2, <2>0, <2>1, <2>2, Zenon DEF ConfiguredInPlace
  <2>5. /\ DOMAIN q = PodFields /\ q.containers = ds /\ q.affinity = now
        /\ q.volumes = pod.volumes /\ q.tolerations = pod.tolerations
        /\ q.annotations = pod.annotations
        /\ q.labels = pod.labels /\ q.initMounts = pod.initMounts
    BY <2>3, <2>4 DEF PodFields
  <2>6. AllTold(ds, cs, config)
    <3>1. IsSlice(cs) /\ \A c \in Elements(cs) : IsContainer(c)
      BY <2>0, <2>3 DEF IsPod
    <3>2. QED
      BY <1>2, <2>1, <3>1, ContainersTold
  <2>7. IsAffinity(now)
    <3>1. IsAffinity(old) /\ IsAffinity(new)
      BY <1>2, <2>0, <2>3 DEF IsPod, IsConfig
    <3>2. new # Absent => IsAffinity(MergedAffinity(old, new))
      BY <3>1, AffinityMerges
    <3>3. QED
      BY <2>2, <3>1, <3>2
  <2>8. /\ AllTold(q.containers, pod.containers, config) /\ IsSlice(q.volumes)
        /\ Elements(pod.volumes) \subseteq Elements(q.volumes) /\ IsAffinity(q.affinity)
        /\ pod.tolerations \subseteq q.tolerations
    BY <2>0, <2>3, <2>5, <2>6, <2>7 DEF IsPod
  <2>9. QED
    BY <1>2, <2>5, <2>8, ToldPodIsGood
<1>3. QED
  BY <1>1, <1>2

----------------------------------------------------------------------------
(* What the certificates do to a pod. *)

LEMMA CertConfigs ==
  /\ IsSlice(certVolumeConfigs) /\ Len(certVolumeConfigs) = 2
  /\ certVolumeConfigs[1].path # certVolumeConfigs[2].path
  /\ certVolumeConfigs[1].name # certVolumeConfigs[2].name
  /\ Elements(certVolumeConfigs) = {certVolumeConfigs[1], certVolumeConfigs[2]}
  /\ ProtectedPaths = {certVolumeConfigs[1].path, certVolumeConfigs[2].path}
  /\ NamesOf(certVolumeConfigs) = {certVolumeConfigs[1].name, certVolumeConfigs[2].name}
<1>1. PICK a, b : /\ a = [name |-> "webhook-cert", path |-> "/tmp/k8s-webhook-server/serving-certs"]
                  /\ b = [name |-> "apiservice-cert",
                          path |-> "/apiserver.local.config/certificates"]
  OBVIOUS
<1>2. PICK s : s = <<a, b>>
  OBVIOUS
<1>3. certVolumeConfigs = s
  BY <1>1, <1>2 DEF certVolumeConfigs
<1>4. s \in Seq({a, b}) /\ Len(s) = 2 /\ s[1] = a /\ s[2] = b /\ DOMAIN s = {1, 2}
  BY <1>2
<1>5. Elements(s) = {a, b}
  BY <1>4 DEF Elements
<1>6. IsSlice(s)
  BY <1>4, <1>5 DEF IsSlice
<1>7. a.name # b.name /\ a.path # b.path
  BY <1>1
<1>8. {c.path : c \in {a, b}} = {a.path, b.path} /\ {c.name : c \in {a, b}} = {a.name, b.name}
  OBVIOUS
<1>9. QED
  BY <1>3, <1>4, <1>5, <1>6, <1>7, <1>8 DEF ProtectedPaths, NamesOf

\* What is left of a list without some names, followed by another.
Replaced(r, s, names, added) ==
  /\ IsSlice(r)
  /\ \A x : x \in Elements(r) <=> (x \in Elements(s) /\ x.name \notin names) \/ x \in Elements(added)
  /\ \E W : /\ Joined(r, W, added) /\ Len(W) \in Nat /\ DOMAIN W = 1..Len(W)
            /\ \A i \in 1..Len(W) : r[i] = W[i] /\ W[i] \in Elements(s) /\ W[i].name \notin names

LEMMA SliceReplaced ==
  ASSUME NEW s, NEW names, NEW added, IsSlice(s), IsSlice(added),
         NEW r, r = Without(s, names) \o added
  PROVE  Replaced(r, s, names, added)
<1>1. PICK W : W = Without(s, names)
  OBVIOUS
<1>2. PICK S : S = Elements(s)
  OBVIOUS
<1>3. W \in Seq(S) /\ \A x : x \in Elements(W) <=> x \in Elements(s) /\ x.name \notin names
  <2>1. s \in Seq(S)
    BY <1>2 DEF IsSlice
  <2>2. QED
    BY <1>1, <2>1, WithoutLeaves
<1>4. IsSlice(W)
  <2>1. Len(W) \in Nat /\ W = [i \in 1..Len(W) |-> W[i]]
    BY <1>3
  <2>2. QED
    BY <2>1, SliceOf
<1>5. Joined(r, W, added)
  BY <1>1, <1>4, SlicesJoined
<1>6. Len(W) \in Nat /\ DOMAIN W = 1..Len(W) /\ \A i \in 1..Len(W) : W[i] \in Elements(W)
  BY <1>4, SliceHas
<1>7. \A i \in 1..Len(W) : r[i] = W[i] /\ W[i] \in Elements(s) /\ W[i].name \notin names
  BY <1>3, <1>5, <1>6 DEF Joined
<1>8. \A x : x \in Elements(r) <=>
               (x \in Elements(s) /\ x.name \notin names) \/ x \in Elements(added)
  BY <1>3, <1>5 DEF Joined
<1>9. IsSlice(r)
  BY <1>5 DEF Joined
<1>10. QED
  BY <1>5, <1>6, <1>7, <1>8, <1>9 DEF Replaced

\* The last two of a list, when nothing else has their names or goes where they do.
LEMMA ReplacedLast ==
  ASSUME NEW r, NEW s, NEW names, NEW added, Replaced(r, s, names, added),
         Len(added) = 2, NEW j \in 1..2
  PROVE  \E place \in DOMAIN r :
           /\ r[place] = added[j]
           /\ \A i \in DOMAIN r : i = place \/ r[i] = added[3 - j]
                                  \/ (r[i] \in Elements(s) /\ r[i].name \notin names)
<1>1. PICK W : /\ Joined(r, W, added) /\ Len(W) \in Nat /\ DOMAIN W = 1..Len(W)
               /\ \A i \in 1..Len(W) : r[i] = W[i] /\ W[i] \in Elements(s) /\ W[i].name \notin names
  BY DEF Replaced
<1>2. PICK n : n = Len(W) /\ n \in Nat
  BY <1>1
<1>3. /\ DOMAIN r = 1..(n + 2) /\ \A i \in 1..2 : r[n + i] = added[i]
      /\ \A i \in 1..(n + 2) : i \notin 1..n => i - n \in 1..2 /\ r[i] = added[i - n]
  BY <1>1, <1>2 DEF Joined
<1>4. n + j \in 1..(n + 2) /\ r[n + j] = added[j]
  BY <1>2, <1>3
<1>5. ASSUME NEW i \in 1..(n + 2), i \notin 1..n, i # n + j
      PROVE  r[i] = added[3 - j]
  <2>1. i - n \in 1..2 /\ r[i] = added[i - n]
    BY <1>3, <1>5
  <2>2. i - n = 3 - j
    BY <1>2, <1>5, <2>1
  <2>3. QED
    BY <2>1, <2>2
<1>6. \A i \in 1..n : r[i] \in Elements(s) /\ r[i].name \notin names
  BY <1>1, <1>2
<1>7. \A i \in 1..(n + 2) : i = n + j \/ r[i] = added[3 - j]
                            \/ (r[i] \in Elements(s) /\ r[i].name \notin names)
  BY <1>5, <1>6
<1>8. QED
  BY <1>3, <1>4, <1>7

CertVolumes(secret) == Mapped(certVolumeConfigs, LAMBDA c : [name |-> c.name, source |-> secret])

LEMMA CertVolumesAre ==
  ASSUME NEW secret, NEW vs, vs = CertVolumes(secret)
  PROVE  /\ IsSlice(vs) /\ Len(vs) = 2
         /\ \A j \in 1..2 : vs[j].name = certVolumeConfigs[j].name /\ vs[j].source = secret
         /\ \A v \in Elements(vs) : v.name \in NamesOf(certVolumeConfigs)
         /\ NamesOf(certVolumeConfigs) \subseteq NamesOf(vs)
<1>1. PICK C : C = certVolumeConfigs
  OBVIOUS
<1>2. IsSlice(C) /\ Len(C) = 2 /\ NamesOf(C) = {C[1].name, C[2].name}
  BY <1>1, CertConfigs
<1>3. DOMAIN C = 1..2
  BY <1>2, SliceHas
<1>4. vs = [j \in 1..2 |-> [name |-> C[j].name, source |-> secret]]
  BY <1>1, <1>3 DEF CertVolumes, Mapped
<1>5. vs = [j \in 1..2 |-> vs[j]] /\ 2 \in Nat
  BY <1>4
<1>6. IsSlice(vs) /\ Len(vs) = 2 /\ DOMAIN vs = 1..2
  BY <1>5, SliceOf
<1>7. \A j \in 1..2 : vs[j].name = C[j].name /\ vs[j].source = secret
  BY <1>4
<1>8. NamesOf(vs) = {C[1].name, C[2].name}
  BY <1>6, <1>7 DEF NamesOf, Elements
<1>9. QED
  BY <1>1, <1>2, <1>6, <1>7, <1>8 DEF NamesOf

\* The pod q is the pod, with the volumes of certificates in place of others.
Recertified(q, pod, secret) ==
  LET removed == VolumesToRemove(pod)
  IN /\ IsPod(q) /\ DOMAIN q.containers = DOMAIN pod.containers
     /\ q.affinity = pod.affinity /\ q.tolerations = pod.tolerations
     /\ q.nodeSelector = pod.nodeSelector /\ q.annotations = pod.annotations
     /\ q.labels = pod.labels /\ q.initMounts = pod.initMounts
     /\ Replaced(q.volumes, pod.volumes, removed, CertVolumes(secret))
     /\ \A k \in DOMAIN pod.containers :
          LET c == pod.containers[k]
              d == q.containers[k]
          IN /\ d.env = c.env /\ d.envFrom = c.envFrom /\ d.resources = c.resources
             /\ Replaced(d.mounts, c.mounts, removed, certVolumeConfigs)

LEMMA PodRecertified ==
  ASSUME NEW pod, NEW secret, IsPod(pod),
         NEW q, q = ensureCorrectDeploymentCertVolumes(pod, secret)
  PROVE  Recertified(q, pod, secret)
<1>0. PICK cs, vs, removed, added :
        /\ cs = pod.containers /\ vs = pod.volumes /\ removed = VolumesToRemove(pod)
        /\ added = CertVolumes(secret)
  OBVIOUS
<1>1. PICK us : us = Without(vs, removed) \o added
  OBVIOUS
<1>2. PICK ds : ds = [k \in DOMAIN cs |->
                        [cs[k] EXCEPT !.mounts = Without(@, removed) \o certVolumeConfigs]]
  OBVIOUS
<1>3. q = [pod EXCEPT !.volumes = us, !.containers = ds]
  BY <1>0, <1>1, <1>2, Zenon DEF ensureCorrectDeploymentCertVolumes, Mapped, CertVolumes
<1>4. /\ DOMAIN q = DOMAIN pod /\ q.volumes = us /\ q.containers = ds
      /\ q.affinity = pod.affinity /\ q.tolerations = pod.tolerations
      /\ q.nodeSelector = pod.nodeSelector /\ q.annotations = pod.annotations
      /\ q.labels = pod.labels /\ q.initMounts = pod.initMounts
  BY <1>3 DEF IsPod
<1>5. Replaced(us, vs, removed, added)
  <2>1. IsSlice(vs) /\ IsSlice(added)
    BY <1>0, CertVolumesAre DEF IsPod
  <2>2. QED
    BY <1>1, <2>1, SliceReplaced
<1>6. IsSlice(cs) /\ \A k \in DOMAIN cs : IsContainer(cs[k])
  BY <1>0 DEF IsPod, Elements
<1>7. ASSUME NEW k \in DOMAIN cs
      PROVE  /\ ds[k].env = cs[k].env /\ ds[k].envFrom = cs[k].envFrom
             /\ ds[k].resources = cs[k].resources
             /\ Replaced(ds[k].mounts, cs[k].mounts, removed, certVolumeConfigs)
             /\ IsContainer(ds[k])
  <2>1. PICK c, d, ms : c = cs[k] /\ d = ds[k] /\ ms = c.mounts
    OBVIOUS
  <2>2. PICK ns : ns = Without(ms, removed) \o certVolumeConfigs
    OBVIOUS
  <2>3. d = [c EXCEPT !.mounts = ns]
    BY <1>2, <2>1, <2>2
  <2>4. IsContainer(c)
    BY <1>6, <2>1
  <2>5. /\ DOMAIN d = DOMAIN c /\ d.env = c.env /\ d.envFrom = c.envFrom
        /\ d.resources = c.resources /\ d.mounts = ns
    BY <2>3, <2>4 DEF IsContainer
  <2>6. Replaced(ns, ms, removed, certVolumeConfigs)
    <3>1. IsSlice(ms) /\ IsSlice(certVolumeConfigs)
      BY <2>1, <2>4, CertConfigs DEF IsContainer
    <3>2. QED
      BY <2>2, <3>1, SliceReplaced
  <2>7. IsContainer(d)
    BY <2>4, <2>5, <2>6 DEF IsContainer, Replaced
  <2>8. QED
    BY <2>1, <2>5, <2>6, <2>7
<1>8. IsSlice(ds) /\ DOMAIN ds = DOMAIN cs
  <2>1. PICK n : n = Len(cs)
    OBVIOUS
  <2>2. n \in Nat /\ DOMAIN cs = 1..n
    BY <1>6, <2>1, SliceHas
  <2>3. ds = [k \in 1..n |-> ds[k]]
    BY <1>2, <2>2
  <2>4. QED
    BY <2>2, <2>3, SliceOf
<1>9. \A c \in Elements(ds) : IsContainer(c)
  BY <1>7, <1>8 DEF Elements
<1>10. IsPod(q)
  BY <1>4, <1>5, <1>8, <1>9 DEF IsPod, Replaced
<1>11. QED
  BY <1>0, <1>4, <1>5, <1>7, <1>8, <1>10 DEF Recertified

LEMMA RecertifiedIsTrusted ==
  ASSUME NEW q, NEW pod, NEW secret, Recertified(q, pod, secret)
  PROVE  Trusted(q, secret)
<1>1. PICK C : C = certVolumeConfigs
  OBVIOUS
<1>2. PICK removed : removed = VolumesToRemove(pod)
  OBVIOUS
<1>3. PICK added : added = CertVolumes(secret)
  OBVIOUS
<1>4. /\ Len(C) = 2 /\ C[1].path # C[2].path /\ C[1].name # C[2].name
      /\ ProtectedPaths = {C[1].path, C[2].path} /\ NamesOf(C) = {C[1].name, C[2].name}
  BY <1>1, CertConfigs
<1>5. Len(added) = 2 /\ \A j \in 1..2 : added[j].name = C[j].name /\ added[j].source = secret
  BY <1>1, <1>3, CertVolumesAre
<1>6. \A j \in 1..2 : C[j].name \in removed
  BY <1>1, <1>2, <1>4 DEF VolumesToRemove
<1> SUFFICES ASSUME NEW c \in Elements(q.containers), NEW path \in ProtectedPaths
             PROVE  \E m \in DOMAIN c.mounts, v \in DOMAIN q.volumes :
                      /\ c.mounts[m].path = path
                      /\ \A i \in DOMAIN c.mounts : c.mounts[i].path = path => i = m
                      /\ q.volumes[v].name = c.mounts[m].name /\ q.volumes[v].source = secret
                      /\ \A i \in DOMAIN q.volumes : q.volumes[i].name = c.mounts[m].name => i = v
  BY DEF Trusted
<1>7. PICK j \in 1..2 : path = C[j].path
  BY <1>4
<1>8. 3 - j \in 1..2 /\ C[3 - j].path # C[j].path /\ C[3 - j].name # C[j].name
  BY <1>4
<1>9. PICK k \in DOMAIN q.containers : c = q.containers[k]
  BY DEF Elements
<1>10. PICK old, ms, vs : old = pod.containers[k].mounts /\ ms = c.mounts /\ vs = q.volumes
  OBVIOUS
<1>11. /\ k \in DOMAIN pod.containers /\ Replaced(ms, old, removed, C)
       /\ Replaced(vs, pod.volumes, removed, added)
  BY <1>1, <1>2, <1>3, <1>9, <1>10 DEF Recertified
<1>12. \A m \in Elements(old) : m.path \in ProtectedPaths => m.name \in removed
  BY <1>2, <1>10, <1>11 DEF VolumesToRemove, Elements
<1>13. PICK place \in DOMAIN ms :
         /\ ms[place] = C[j]
         /\ \A i \in DOMAIN ms : i = place \/ ms[i] = C[3 - j]
                                  \/ (ms[i] \in Elements(old) /\ ms[i].name \notin removed)
  BY <1>4, <1>11, ReplacedLast
<1>14. PICK volume \in DOMAIN vs :
         /\ vs[volume] = added[j]
         /\ \A i \in DOMAIN vs : i = volume \/ vs[i] = added[3 - j]
                                  \/ (vs[i] \in Elements(pod.volumes) /\ vs[i].name \notin removed)
  BY <1>5, <1>11, ReplacedLast
<1>15. /\ ms[place].path = path /\ ms[place].name = C[j].name
       /\ \A i \in DOMAIN ms : ms[i].path = path => i = place
  BY <1>7, <1>8, <1>12, <1>13
<1>16. /\ vs[volume].name = C[j].name /\ vs[volume].source = secret
       /\ \A i \in DOMAIN vs : vs[i].name = C[j].name => i = volume
  BY <1>5, <1>6, <1>8, <1>14
<1>17. QED
  BY <1>10, <1>15, <1>16

\* Certificates take nothing away but what is known to go where they do.
LEMMA RemovedOriginate ==
  ASSUME NEW pod, NEW origins, Originates(pod, origins), NamesOf(certVolumeConfigs) \subseteq origins
  PROVE  VolumesToRemove(pod) \subseteq origins
BY DEF Originates, VolumesToRemove

LEMMA RecertifiedIsGood ==
  ASSUME NEW q, NEW pod, NEW secret, NEW loaded, NEW origins, NEW gone,
         Recertified(q, pod, secret), GoodPod(pod, loaded, origins, gone),
         VolumesToRemove(pod) \subseteq gone, NamesOf(certVolumeConfigs) \subseteq origins
  PROVE  GoodPod(q, loaded, origins, gone)
<1>1. PICK removed : removed = VolumesToRemove(pod)
  OBVIOUS
<1>2. IsPod(q) /\ DOMAIN q.containers = DOMAIN pod.containers
  BY DEF Recertified
<1>3. \A k \in DOMAIN pod.containers :
        /\ q.containers[k].env = pod.containers[k].env
        /\ q.containers[k].envFrom = pod.containers[k].envFrom
        /\ \A m : m \in Elements(q.containers[k].mounts) <=>
                    \/ m \in Elements(pod.containers[k].mounts) /\ m.name \notin removed
                    \/ m \in Elements(certVolumeConfigs)
  BY <1>1 DEF Recertified, Replaced
<1>4. Declares(q, loaded, gone)
  <2>1. Declares(pod, loaded, gone)
    BY DEF GoodPod
  <2>2. ASSUME NEW k \in DOMAIN loaded.containers
        PROVE  /\ NamesOf(loaded.containers[k].env) \subseteq NamesOf(q.containers[k].env)
               /\ loaded.containers[k].envFrom \subseteq q.containers[k].envFrom
               /\ Kept(loaded.containers[k].mounts, q.containers[k].mounts, gone)
    <3>1. /\ k \in DOMAIN pod.containers
          /\ NamesOf(loaded.containers[k].env) \subseteq NamesOf(pod.containers[k].env)
          /\ loaded.containers[k].envFrom \subseteq pod.containers[k].envFrom
          /\ Kept(loaded.containers[k].mounts, pod.containers[k].mounts, gone)
      BY <2>1 DEF Declares
    <3>2. Kept(loaded.containers[k].mounts, q.containers[k].mounts, gone)
      BY <1>1, <1>3, <3>1 DEF Kept
    <3>3. QED
      BY <1>3, <3>1, <3>2
  <2>3. Kept(loaded.volumes, q.volumes, gone)
    <3>1. \A v \in Elements(pod.volumes) : v.name \notin removed => v \in Elements(q.volumes)
      BY <1>1 DEF Recertified, Replaced
    <3>2. QED
      BY <1>1, <2>1, <3>1 DEF Declares, Kept
  <2>4. /\ loaded.tolerations \subseteq q.tolerations
        /\ q.labels = loaded.labels /\ q.initMounts = loaded.initMounts
    BY <2>1 DEF Declares, Recertified
  <2>5. QED
    BY <1>2, <2>1, <2>2, <2>3, <2>4 DEF Declares
<1>5. Originates(q, origins)
  <2> SUFFICES ASSUME NEW k \in DOMAIN q.containers, NEW m \in Elements(q.containers[k].mounts),
                      m.path \in ProtectedPaths
               PROVE  m.name \in origins
    BY DEF Originates, Elements
  <2>1. CASE m \in Elements(certVolumeConfigs)
    BY <2>1 DEF NamesOf
  <2>2. CASE m \in Elements(pod.containers[k].mounts)
    <3>1. pod.containers[k] \in Elements(pod.containers)
      BY <1>2 DEF Elements
    <3>2. QED
      BY <2>2, <3>1 DEF GoodPod, Originates
  <2>3. QED
    BY <1>2, <1>3, <2>1, <2>2
<1>6. QED
  BY <1>2, <1>4, <1>5 DEF GoodPod

LEMMA RecertifiedIsApplied ==
  ASSUME NEW q, NEW pod, NEW secret, NEW config, NEW gone,
         Recertified(q, pod, secret), Applied(pod, config, gone),
         VolumesToRemove(pod) \subseteq gone
  PROVE  Applied(q, config, gone)
<1>1. ASSUME NEW k \in DOMAIN q.containers
      PROVE  AppliedTo(q.containers[k], config, gone)
  <2>1. PICK c, d : c = pod.containers[k] /\ d = q.containers[k]
    OBVIOUS
  <2>2. /\ k \in DOMAIN pod.containers /\ d.env = c.env /\ d.envFrom = c.envFrom
        /\ d.resources = c.resources
        /\ \A m \in Elements(c.mounts) :
             m.name \notin VolumesToRemove(pod) => m \in Elements(d.mounts)
    BY <2>1 DEF Recertified, Replaced
  <2>3. AppliedTo(c, config, gone)
    BY <2>1, <2>2 DEF Applied, Elements
  <2>4. Kept(config.mounts, d.mounts, gone)
    BY <2>2, <2>3 DEF AppliedTo, Kept
  <2>5. AppliedTo(d, config, gone)
    BY <2>2, <2>3, <2>4 DEF AppliedTo
  <2>6. QED
    BY <2>1, <2>5
<1>2. \A c \in Elements(q.containers) : AppliedTo(c, config, gone)
  BY <1>1 DEF Elements
<1>3. Kept(config.volumes, q.volumes, gone)
  <2>1. \A v \in Elements(pod.volumes) :
          v.name \notin VolumesToRemove(pod) => v \in Elements(q.volumes)
    BY DEF Recertified, Replaced
  <2>2. QED
    BY <2>1 DEF Applied, Kept
<1>4. QED
  BY <1>2, <1>3 DEF Applied, Recertified

\* The mounts of the volumes that certificates take away go too, but those of init containers.
LEMMA RecertifiedIsCovered ==
  ASSUME NEW q, NEW pod, NEW secret, Recertified(q, pod, secret), Covered(pod, Absent),
         pod.initMounts \cap (VolumesToRemove(pod) \ NamesOf(certVolumeConfigs)) = {}
  PROVE  Covered(q, Absent)
<1>1. PICK removed, added : removed = VolumesToRemove(pod) /\ added = CertVolumes(secret)
  OBVIOUS
<1>2. \A v : v \in Elements(q.volumes) <=>
               (v \in Elements(pod.volumes) /\ v.name \notin removed) \/ v \in Elements(added)
  BY <1>1 DEF Recertified, Replaced
<1>3. \A name : name \in NamesOf(q.volumes) <=>
        (name \in NamesOf(pod.volumes) /\ name \notin removed) \/ name \in NamesOf(added)
  BY <1>2 DEF NamesOf
<1>4. NamesOf(certVolumeConfigs) \subseteq NamesOf(added)
  BY <1>1, CertVolumesAre
<1>5. /\ pod.initMounts \subseteq NamesOf(pod.volumes)
      /\ \A c \in Elements(pod.containers) : NamesOf(c.mounts) \subseteq NamesOf(pod.volumes)
  BY DEF Covered
<1>6. q.initMounts \subseteq NamesOf(q.volumes)
  <2>1. q.initMounts = pod.initMounts
    BY DEF Recertified
  <2>2. QED
    BY <1>1, <1>3, <1>4, <1>5, <2>1
<1>7. ASSUME NEW k \in DOMAIN q.containers, NEW m \in Elements(q.containers[k].mounts)
      PROVE  m.name \in NamesOf(q.volumes)
  <2>1. /\ k \in DOMAIN pod.containers
        /\ \/ m \in Elements(pod.containers[k].mounts) /\ m.name \notin removed
           \/ m \in Elements(certVolumeConfigs)
    BY <1>1, <1>7 DEF Recertified, Replaced
  <2>2. CASE m \in Elements(certVolumeConfigs)
    BY <1>3, <1>4, <2>2 DEF NamesOf
  <2>3. CASE m \in Elements(pod.containers[k].mounts) /\ m.name \notin removed
    <3>1. pod.containers[k] \in Elements(pod.containers)
      BY <2>1 DEF Elements
    <3>2. m.name \in NamesOf(pod.volumes)
      BY <1>5, <2>3, <3>1 DEF NamesOf
    <3>3. QED
      BY <1>3, <2>3, <3>2
  <2>4. QED
    BY <2>1, <2>2, <2>3
<1>8. \A c \in Elements(q.containers) : NamesOf(c.mounts) \subseteq NamesOf(q.volumes)
  BY <1>7 DEF NamesOf, Elements
<1>9. QED
  BY <1>6, <1>8 DEF Covered

LEMMA GoodPodGrows ==
  ASSUME NEW pod, NEW loaded, NEW origins, NEW gone, NEW origins2, NEW gone2,
         GoodPod(pod, loaded, origins, gone), origins \subseteq origins2, gone \subseteq gone2
  PROVE  GoodPod(pod, loaded, origins2, gone2)
<1>1. Originates(pod, origins2)
  BY DEF GoodPod, Originates
<1>2. Declares(pod, loaded, gone2)
  <2>1. Declares(pod, loaded, gone)
    BY DEF GoodPod
  <2>2. \A k \in DOMAIN loaded.containers :
          /\ NamesOf(loaded.containers[k].env) \subseteq NamesOf(pod.containers[k].env)
          /\ loaded.containers[k].envFrom \subseteq pod.containers[k].envFrom
          /\ Kept(loaded.containers[k].mounts, pod.containers[k].mounts, gone2)
    BY <2>1 DEF Declares, Kept
  <2>3. QED
    BY <2>1, <2>2 DEF Declares, Kept
<1>3. QED
  BY <1>1, <1>2 DEF GoodPod

\* Nothing that matters here changes with the annotations.
LEMMA AnnotatedIsGood ==
  ASSUME NEW pod, NEW q, NEW annotations, NEW loaded, NEW origins, NEW gone,
         GoodPod(pod, loaded, origins, gone), q = [pod EXCEPT !.annotations = annotations]
  PROVE  /\ GoodPod(q, loaded, origins, gone) /\ q.annotations = annotations
         /\ q.containers = pod.containers /\ q.volumes = pod.volumes
         /\ q.initMounts = pod.initMounts
<1>1. IsPod(pod)
  BY DEF GoodPod
<1>2. /\ DOMAIN q = DOMAIN pod /\ q.annotations = annotations
      /\ q.containers = pod.containers /\ q.volumes = pod.volumes
      /\ q.labels = pod.labels /\ q.initMounts = pod.initMounts
      /\ q.affinity = pod.affinity /\ q.tolerations = pod.tolerations
  BY <1>1 DEF IsPod
<1>3. IsPod(q)
  BY <1>1, <1>2 DEF IsPod
<1>4. Declares(q, loaded, gone)
  BY <1>2 DEF GoodPod, Declares
<1>5. Originates(q, origins)
  BY <1>2 DEF GoodPod, Originates
<1>6. QED
  BY <1>2, <1>3, <1>4, <1>5 DEF GoodPod

\* The bundle's own pod when the certificates were mounted in a copy of it.
LEMMA CertifiedInPlacePod ==
  ASSUME NEW pod, NEW before, NEW after, NEW secret, NEW config, NEW loaded,
         NEW origins, NEW gone, GoodPod(pod, loaded, origins, gone),
         GoodPod(before, loaded, origins, gone), Recertified(after, before, secret),
         VolumesToRemove(before) \subseteq gone, NamesOf(certVolumeConfigs) \subseteq origins,
         NEW q, q = CertifiedInPlace(pod, before, after, config)
  PROVE  /\ GoodPod(q, loaded, origins, gone)
         /\ q.annotations = pod.annotations /\ q.tolerations = pod.tolerations
<1>0. PICK ds, vs, removed :
        ds = after.containers /\ vs = before.volumes /\ removed = VolumesToRemove(before)
  OBVIOUS
<1>1. PICK us : us = IF config = Absent \/ config.volumes = <<>> THEN DeletedInPlace(before)
                     ELSE pod.volumes
  OBVIOUS
<1>2. q = [pod EXCEPT !.containers = ds, !.volumes = us]
  BY <1>0, <1>1, Zenon DEF CertifiedInPlace
<1>3. IsPod(pod) /\ IsPod(before)
  BY DEF GoodPod
<1>4. /\ DOMAIN q = DOMAIN pod /\ q.containers = ds /\ q.volumes = us
      /\ q.affinity = pod.affinity /\ q.tolerations = pod.tolerations
      /\ q.annotations = pod.annotations
      /\ q.labels = pod.labels /\ q.initMounts = pod.initMounts
  BY <1>2, <1>3 DEF IsPod
<1>5. GoodPod(after, loaded, origins, gone)
  BY RecertifiedIsGood
<1>6. IsSlice(us) /\ Kept(loaded.volumes, us, gone)
  <2>1. CASE us = pod.volumes
    BY <1>3, <2>1 DEF IsPod, GoodPod, Declares
  <2>2. CASE us = DeletedInPlace(before)
    <3>1. PICK left : left = Without(vs, removed)
      OBVIOUS
    <3>2. us = [i \in DOMAIN vs |-> IF i <= Len(left) THEN left[i] ELSE NoVolume]
      BY <1>0, <2>2, <3>1 DEF DeletedInPlace
    <3>3. PICK S : S = Elements(vs)
      OBVIOUS
    <3>4. vs \in Seq(S)
      BY <1>0, <1>3, <3>3 DEF IsPod, IsSlice
    <3>5. /\ left \in Seq(S) /\ Len(left) <= Len(vs)
          /\ \A x : x \in Elements(left) <=> x \in Elements(vs) /\ x.name \notin removed
      BY <3>1, <3>4, WithoutLeaves
    <3>6. PICK n, m : n = Len(vs) /\ m = Len(left)
      OBVIOUS
    <3>7. n \in Nat /\ m \in Nat /\ m <= n /\ DOMAIN vs = 1..n /\ DOMAIN left = 1..m
      BY <3>4, <3>5, <3>6
    <3>8. us = [i \in 1..n |-> us[i]] /\ \A i \in 1..n : i <= m => us[i] = left[i]
      BY <3>2, <3>6, <3>7
    <3>9. IsSlice(us) /\ DOMAIN us = 1..n
      BY <3>7, <3>8, SliceOf
    <3>10. Elements(left) \subseteq Elements(us)
      <4> SUFFICES ASSUME NEW i \in 1..m PROVE left[i] \in Elements(us)
        BY <3>7 DEF Elements
      <4>1. i \in 1..n /\ us[i] = left[i]
        BY <3>7, <3>8
      <4>2. QED
        BY <3>9, <4>1 DEF Elements
    <3>11. Kept(loaded.volumes, us, gone)
      BY <1>0, <3>5, <3>10 DEF GoodPod, Declares, Kept
    <3>12. QED
      BY <3>9, <3>11
  <2>3. QED
    BY <1>1, <2>1, <2>2
<1>7. IsPod(q)
  BY <1>0, <1>3, <1>4, <1>5, <1>6 DEF IsPod, GoodPod
<1>8. Declares(q, loaded, gone)
  BY <1>0, <1>4, <1>5, <1>6 DEF Declares, GoodPod
<1>9. Originates(q, origins)
  BY <1>0, <1>4, <1>5 DEF Originates, GoodPod
<1>10. QED
  BY <1>4, <1>7, <1>8, <1>9 DEF GoodPod

----------------------------------------------------------------------------
(* The names that certificates may displace. *)

LEMMA OriginsGrow ==
  ASSUME NEW loaded, NEW b, NEW n \in Nat
  PROVE  /\ Origins(loaded, b, n) \subseteq Origins(loaded, b, n + 1)
         /\ VolumesToRemove(loaded) \subseteq Origins(loaded, b, n)
         /\ NamesOf(certVolumeConfigs) \subseteq Origins(loaded, b, n)
<1> DEFINE configs(k) == {r.config : r \in UNION {Offered(b, i) : i \in 1..k}} \ {Absent}
<1>1. configs(n) \subseteq configs(n + 1)
  OBVIOUS
<1> HIDE DEF configs
<1>2. \A k : Origins(loaded, b, k) =
        VolumesToRemove(loaded) \cup
          {m.name : m \in {x \in UNION {Elements(c.mounts) : c \in configs(k)} :
                             x.path \in ProtectedPaths}}
  BY Zenon DEF Origins, configs
<1>3. Origins(loaded, b, n) \subseteq Origins(loaded, b, n + 1)
  BY <1>1, <1>2
<1>4. NamesOf(certVolumeConfigs) \subseteq VolumesToRemove(loaded)
  BY DEF VolumesToRemove
<1>5. QED
  BY <1>2, <1>3, <1>4

LEMMA ConfigIsMine ==
  ASSUME NEW loaded, NEW b, NEW n \in Nat, n > 0, NEW r \in Offered(b, n), r.config # Absent
  PROVE  Mine(r.config, Origins(loaded, b, n))
<1> DEFINE configs == {q.config : q \in UNION {Offered(b, i) : i \in 1..n}} \ {Absent}
<1>1. r.config \in configs
  OBVIOUS
<1> HIDE DEF configs
<1>2. \A m \in Elements(r.config.mounts) : m.path \in ProtectedPaths =>
        m.name \in {y.name : y \in {x \in UNION {Elements(c.mounts) : c \in configs} :
                                      x.path \in ProtectedPaths}}
  BY <1>1
<1>3. Origins(loaded, b, n) =
        VolumesToRemove(loaded) \cup
          {m.name : m \in {x \in UNION {Elements(c.mounts) : c \in configs} :
                             x.path \in ProtectedPaths}}
  BY Zenon DEF Origins, configs
<1>4. QED
  BY <1>2, <1>3 DEF Mine

LEMMA GoneGrows ==
  ASSUME NEW d, NEW b, NEW n \in Nat, NEW provider, NEW next
  PROVE  /\ Gone(b, d, n, provider) \subseteq Gone(b, d, n + 1, next)
         /\ Gone(b, d, 0, provider) = {}
<1>1. Gone(b, d, 0, provider) = {}
  BY DEF Gone
<1>2. CASE n = 0
  BY <1>1, <1>2
<1>3. CASE n # 0 /\ d.name \notin WithWebhooks(b)
  BY <1>3 DEF Gone
<1>4. CASE n # 0 /\ d.name \in WithWebhooks(b)
  <2>1. Gone(b, d, n + 1, next) = Origins(d.pod, b, n + 1)
    BY <1>4 DEF Gone
  <2>2. Gone(b, d, n, provider) \subseteq Origins(d.pod, b, n)
    BY DEF Gone
  <2>3. QED
    BY <1>1, <2>1, <2>2, OriginsGrow
<1>5. QED
  BY <1>1, <1>2, <1>3, <1>4

----------------------------------------------------------------------------
(* The steps, for the pods. *)

LEMMA LoadedIsOwn ==
  ASSUME NEW b \in Bundles, NEW d \in Elements(b.deployments), NEW n \in Nat
  PROVE  GoodPod(d.pod, d.pod, Origins(d.pod, b, n), {})
<1>1. PICK pod : pod = d.pod
  OBVIOUS
<1>2. IsPod(pod)
  BY <1>1, BundlesAssumption
<1>3. Declares(pod, pod, {})
  BY DEF Declares, Kept
<1>4. Originates(pod, VolumesToRemove(pod))
  BY DEF Originates, VolumesToRemove
<1>5. GoodPod(pod, pod, VolumesToRemove(pod), {})
  BY <1>2, <1>3, <1>4 DEF GoodPod
<1>6. VolumesToRemove(pod) \subseteq Origins(pod, b, n)
  BY OriginsGrow
<1>7. QED
  BY <1>1, <1>5, <1>6, GoodPodGrows

LEMMA LoadedAreOwn ==
  ASSUME ScopeInv, pods = LoadedPods(bundle), NEW n \in Nat, NEW provider
  PROVE  \A i \in DOMAIN pods : OwnPod(pods[i], bundle.deployments[i], bundle, n, provider)
<1> SUFFICES ASSUME NEW i \in DOMAIN pods
             PROVE  OwnPod(pods[i], bundle.deployments[i], bundle, n, provider)
  OBVIOUS
<1>1. PICK d : d = bundle.deployments[i]
  OBVIOUS
<1>2. d \in Elements(bundle.deployments) /\ pods[i] = d.pod /\ bundle \in Bundles
  BY <1>1 DEF ScopeInv, Inputs, LoadedPods, Mapped, Elements
<1>3. PICK origins, gone : origins = Origins(d.pod, bundle, n) /\ gone = Gone(bundle, d, n, provider)
  OBVIOUS
<1>4. GoodPod(d.pod, d.pod, origins, {})
  BY <1>2, <1>3, LoadedIsOwn
<1>5. GoodPod(d.pod, d.pod, origins, gone)
  BY <1>4, GoodPodGrows
<1>6. QED
  BY <1>1, <1>2, <1>3, <1>5 DEF OwnPod

LEMMA InitPods == Init => PodsInv
<1> SUFFICES ASSUME Init PROVE PodsInv
  OBVIOUS
<1>1. ScopeInv
  BY InitScope
<1>2. /\ pods = LoadedPods(bundle) /\ renders = 0
      /\ call.step = "idle" /\ call.objects = {}
  BY DEF Init, NoCall
<1>3. AskedFor
  BY <1>2, RequestsAssumption DEF AskedFor
<1>4. \A i \in DOMAIN pods :
        OwnPod(pods[i], bundle.deployments[i], bundle, renders, call.request.provider)
  BY <1>1, <1>2, LoadedAreOwn
<1>5. QED
  BY <1>2, <1>3, <1>4 DEF PodsInv

LEMMA CallKeepsPods ==
  ASSUME ScopeInv, PodsInv, NEW r \in Offered(bundle, renders + 1), Call(r)
  PROVE  PodsInv'
<1>1. /\ renders < MaxRenders /\ renders' = renders + 1 /\ bundle' = bundle /\ pods' = pods
      /\ call'.request = r /\ call'.objects = {}
      /\ call'.step # "idle"
  BY DEF Call, NoCall
<1>2. renders \in Nat /\ renders \in 0..MaxRenders /\ MaxRenders \in Nat
  BY RequestsAssumption DEF PodsInv, AskedFor
<1>3. AskedFor'
  BY <1>1, <1>2 DEF AskedFor
<1>4. renders' = 1 => pods' = LoadedPods(bundle')
  BY <1>1, <1>2 DEF PodsInv
<1>5. ASSUME NEW i \in DOMAIN pods
      PROVE  OwnPod(pods[i], bundle.deployments[i], bundle, renders + 1, r.provider)
  <2>1. PICK d, pod, provider, next :
          /\ d = bundle.deployments[i] /\ pod = pods[i]
          /\ provider = call.request.provider /\ next = r.provider
    OBVIOUS
  <2>2. OwnPod(pod, d, bundle, renders, provider)
    BY <2>1 DEF PodsInv
  <2>3. /\ Gone(bundle, d, renders, provider) \subseteq Gone(bundle, d, renders + 1, next)
        /\ Origins(d.pod, bundle, renders) \subseteq Origins(d.pod, bundle, renders + 1)
    BY <1>2, GoneGrows, OriginsGrow
  <2>4. GoodPod(pod, d.pod, Origins(d.pod, bundle, renders + 1),
                Gone(bundle, d, renders + 1, next))
    BY <2>2, <2>3, GoodPodGrows DEF OwnPod
  <2>5. QED
    BY <2>1, <2>2, <2>4 DEF OwnPod
<1>6. renders' # 0
  BY <1>1, <1>2
<1>7. QED
  BY <1>1, <1>3, <1>4, <1>5, <1>6 DEF PodsInv

\* A step that leaves the pods and the deployments alone.
LEMMA QuietKeepsPods ==
  ASSUME PodsInv, UNCHANGED <<bundle, pods, renders>>, call'.request = call.request,
         call.step \notin {"idle", "returned"}, call'.step # "returned",
         call'.step \in BeforeDeployments => call.step \in BeforeDeployments,
         \A o \in call'.objects : o.kind = "Deployment" => o \in call.objects
  PROVE  PodsInv'
<1>1. bundle' = bundle /\ pods' = pods /\ renders' = renders
  OBVIOUS
<1>2. AskedFor'
  BY <1>1 DEF PodsInv, AskedFor
<1>3. renders' = 0 \/ (renders' = 1 /\ call'.step \in BeforeDeployments) =>
        pods' = LoadedPods(bundle')
  BY <1>1 DEF PodsInv
<1>4. \A i \in DOMAIN pods' :
        OwnPod(pods'[i], bundle'.deployments[i], bundle', renders', call'.request.provider)
  BY <1>1 DEF PodsInv
<1>5. ASSUME NEW o \in call'.objects, o.kind = "Deployment"
      PROVE  \E d \in Elements(bundle.deployments) :
               /\ o.name = d.name
               /\ DeliveredPod(o.pod, d, bundle, renders, call.request, FALSE)
  <2>1. PICK d \in Elements(bundle.deployments) :
          /\ o.name = d.name
          /\ DeliveredPod(o.pod, d, bundle, renders, call.request, call.step = "returned")
    BY <1>5 DEF PodsInv
  <2>2. DeliveredPod(o.pod, d, bundle, renders, call.request, FALSE)
    BY <2>1 DEF DeliveredPod
  <2>3. QED
    BY <2>1, <2>2
<1>6. (call'.step = "returned") = FALSE
  OBVIOUS
<1>7. QED
  BY <1>1, <1>2, <1>3, <1>4, <1>5, <1>6 DEF PodsInv

\* What a step past the first one may take from the call.
LEMMA Asked ==
  ASSUME ScopeInv, PodsInv, call.step # "idle"
  PROVE  /\ renders \in Nat /\ renders > 0 /\ bundle \in Bundles
         /\ call.request \in Offered(bundle, renders)
         /\ call.request.provider \in {Absent, "cert-manager", "service-ca"}
         /\ call.request.config # Absent => IsConfig(call.request.config)
         /\ \A d : call.request.config # Absent =>
              Mine(call.request.config, Origins(d.pod, bundle, renders))
<1>1. /\ renders \in 1..MaxRenders /\ renders \in Nat /\ renders > 0 /\ bundle \in Bundles
      /\ call.request \in Offered(bundle, renders)
  <2>1. renders \in 0..MaxRenders /\ renders > 0 /\ call.request \in Offered(bundle, renders)
    BY DEF PodsInv, AskedFor
  <2>2. QED
    BY <2>1, RequestsAssumption DEF ScopeInv, Inputs
<1>2. PICK n, r, b : n = renders /\ r = call.request /\ b = bundle
  OBVIOUS
<1>3. /\ r.provider \in {Absent, "cert-manager", "service-ca"}
      /\ r.config # Absent => IsConfig(r.config)
  BY <1>1, <1>2, RequestsAssumption
<1>4. \A pod : r.config # Absent => Mine(r.config, Origins(pod, b, n))
  BY <1>1, <1>2, ConfigIsMine
<1>5. QED
  BY <1>1, <1>2, <1>3, <1>4

\* The volumes to remove are found in the containers, as the configuration makes them.
LEMMA RemovedByContainers ==
  ASSUME NEW p, NEW q, NEW config, IsPod(p), IsPod(q), p.containers = q.containers
  PROVE  VolumesToRemove(applyCustomConfig(p, config)) =
           VolumesToRemove(applyCustomConfig(q, config))
<1>1. \A x, y : x.containers = y.containers => VolumesToRemove(x) = VolumesToRemove(y)
  BY DEF VolumesToRemove
<1>2. ASSUME NEW x, IsPod(x), config # Absent
      PROVE  applyCustomConfig(x, config).containers =
               Mapped(x.containers, LAMBDA c : applyToContainer(c, config))
  BY <1>2 DEF applyCustomConfig, IsPod
<1>3. CASE config = Absent
  BY <1>1, <1>3 DEF applyCustomConfig
<1>4. CASE config # Absent
  <2>1. applyCustomConfig(p, config).containers = applyCustomConfig(q, config).containers
    BY <1>2, <1>4
  <2>2. QED
    BY <1>1, <2>1
<1>5. QED
  BY <1>3, <1>4

\* A deployment is rendered with what the bundle declares and the configuration asks for.
LEMMA DeploymentDelivered ==
  ASSUME ScopeInv, PodsInv, call.step = "deployments", NEW i \in DOMAIN pods,
         NEW o, o = Deployment(bundle, bundle.deployments[i], pods[i], call.request.config,
                               call.targets, call.ns)
  PROVE  /\ o.name = bundle.deployments[i].name
         /\ DeliveredPod(o.pod, bundle.deployments[i], bundle, renders, call.request, FALSE)
<1>0. PICK d, pod, request, config, n :
        /\ d = bundle.deployments[i] /\ pod = pods[i] /\ request = call.request
        /\ config = request.config /\ n = renders
  OBVIOUS
<1>1. PICK annotations : annotations = TemplateAnnotations(bundle, pod, call.targets, call.ns)
  OBVIOUS
<1>2. PICK before : before = [pod EXCEPT !.annotations = annotations]
  OBVIOUS
<1>3. PICK q : q = applyCustomConfig(before, config)
  OBVIOUS
<1>4. o.name = d.name /\ o.pod = q
  BY <1>0, <1>1, <1>2, <1>3 DEF Deployment
<1>5. PICK origins, gone :
        origins = Origins(d.pod, bundle, n) /\ gone = Gone(bundle, d, n, request.provider)
  OBVIOUS
<1>6. OwnPod(pod, d, bundle, n, request.provider)
  BY <1>0 DEF PodsInv
<1>7. GoodPod(pod, d.pod, origins, gone) /\ pod.annotations = d.pod.annotations
  BY <1>5, <1>6 DEF OwnPod
<1>8. /\ GoodPod(before, d.pod, origins, gone) /\ before.annotations = annotations
      /\ before.containers = pod.containers /\ before.volumes = pod.volumes
  BY <1>2, <1>7, AnnotatedIsGood
<1>9. config # Absent => IsConfig(config) /\ Mine(config, origins)
  BY <1>0, <1>5, Asked
<1>10. config = Absent => q = before
  BY <1>3 DEF applyCustomConfig
<1>11. config # Absent =>
         /\ GoodPod(q, d.pod, origins, gone) /\ Applied(q, config, gone)
         /\ q.annotations = MergeMaps(config.annotations, before.annotations)
         /\ AllTold(q.containers, before.containers, config)
         /\ Elements(q.volumes) = Elements(before.volumes) \cup Elements(config.volumes)
  BY <1>3, <1>8, <1>9, ConfiguredPod
<1>12. GoodPod(q, d.pod, origins, gone)
  BY <1>8, <1>10, <1>11
<1>13. ASSUME NEW key \in DOMAIN d.pod.annotations \ {"olm.targetNamespaces", "olm.operatorNamespace"}
       PROVE  key \in DOMAIN q.annotations /\ q.annotations[key] = d.pod.annotations[key]
  <2>1. key \in DOMAIN annotations /\ annotations[key] = d.pod.annotations[key]
    BY <1>1, <1>7 DEF TemplateAnnotations, MergeMaps
  <2>2. CASE config = Absent
    BY <1>8, <1>10, <2>1, <2>2
  <2>3. CASE config # Absent
    BY <1>8, <1>11, <2>1, <2>3 DEF MergeMaps
  <2>4. QED
    BY <2>2, <2>3
<1>14. ASSUME n = 1
       PROVE  before.containers = d.pod.containers /\ before.volumes = d.pod.volumes
              /\ before.initMounts = d.pod.initMounts /\ IsPod(d.pod)
  <2>1. call.step \in BeforeDeployments
    BY DEF BeforeDeployments, Generating, HaveDeployments
  <2>2. pods = LoadedPods(bundle)
    BY <1>0, <1>14, <2>1 DEF PodsInv
  <2>3. pod = d.pod
    BY <1>0, <2>2 DEF LoadedPods, Mapped, ScopeInv, Inputs
  <2>4. QED
    BY <1>2, <1>7, <1>8, <2>3, AnnotatedIsGood DEF GoodPod
<1>15. ASSUME n = 1, Covered(d.pod, config)
       PROVE  Covered(q, Absent)
  <2>1. /\ before.containers = d.pod.containers /\ before.volumes = d.pod.volumes
        /\ before.initMounts = d.pod.initMounts
    BY <1>14, <1>15
  <2>2. CASE config = Absent
    BY <1>10, <1>15, <2>1, <2>2 DEF Covered
  <2>3. CASE config # Absent
    <3>1. /\ DOMAIN q.containers = DOMAIN d.pod.containers
          /\ \A k \in DOMAIN q.containers : Told(q.containers[k], d.pod.containers[k], config)
          /\ Elements(q.volumes) = Elements(d.pod.volumes) \cup Elements(config.volumes)
      BY <1>11, <2>1, <2>3 DEF AllTold
    <3>2. NamesOf(q.volumes) = NamesOf(d.pod.volumes) \cup NamesOf(config.volumes)
      BY <3>1 DEF NamesOf
    <3>3. /\ d.pod.initMounts \subseteq NamesOf(q.volumes)
          /\ NamesOf(config.mounts) \subseteq NamesOf(q.volumes)
          /\ \A c \in Elements(d.pod.containers) : NamesOf(c.mounts) \subseteq NamesOf(q.volumes)
      BY <1>15, <2>3, <3>2 DEF Covered
    <3>4. ASSUME NEW k \in DOMAIN q.containers, NEW m \in Elements(q.containers[k].mounts)
          PROVE  m.name \in NamesOf(q.volumes)
      <4>1. m \in Elements(d.pod.containers[k].mounts) \cup Elements(config.mounts)
        BY <3>1, <3>4 DEF Told
      <4>2. d.pod.containers[k] \in Elements(d.pod.containers)
        BY <3>1, <3>4 DEF Elements
      <4>3. m.name \in NamesOf(d.pod.containers[k].mounts) \cup NamesOf(config.mounts)
        BY <4>1 DEF NamesOf
      <4>4. QED
        BY <3>3, <4>2, <4>3
    <3>5. q.initMounts = d.pod.initMounts
      BY <1>12, <1>14, <1>15, <2>1, <1>8 DEF GoodPod, Declares
    <3>6. \A c \in Elements(q.containers) : NamesOf(c.mounts) \subseteq NamesOf(q.volumes)
      BY <3>4 DEF NamesOf, Elements
    <3>7. QED
      BY <3>3, <3>5, <3>6 DEF Covered
  <2>4. QED
    BY <2>2, <2>3
<1>16. n = 1 => VolumesToRemove(q) = VolumesToRemove(applyCustomConfig(d.pod, config))
  <2> SUFFICES ASSUME n = 1
               PROVE  VolumesToRemove(q) = VolumesToRemove(applyCustomConfig(d.pod, config))
    OBVIOUS
  <2>1. before.containers = d.pod.containers /\ IsPod(before) /\ IsPod(d.pod)
    BY <1>8, <1>14 DEF GoodPod
  <2>2. QED
    BY <1>3, <2>1, RemovedByContainers
<1>17. DeliveredPod(q, d, bundle, n, request, FALSE)
  BY <1>0, <1>5, <1>11, <1>12, <1>13, <1>15, <1>16 DEF DeliveredPod, SoundPod
<1>18. QED
  BY <1>0, <1>4, <1>17

LEMMA DeploymentsKeepPods ==
  ASSUME ScopeInv, LinkInv, PodsInv, BundleCSVDeploymentGenerator
  PROVE  PodsInv'
<1> DEFINE made(i) == Deployment(bundle, bundle.deployments[i], pods[i], call.request.config,
                                 call.targets, call.ns)
<1>1. call.step = "deployments" /\ bundle' = bundle /\ renders' = renders
  BY DEF BundleCSVDeploymentGenerator, At
<1>2. PICK T : T = {made(i) : i \in DOMAIN pods}
  OBVIOUS
<1>3. PICK all : all = call.objects \cup T
  OBVIOUS
<1>4. call' = [call EXCEPT !.step = "validating", !.objects = all]
  BY <1>2, <1>3 DEF BundleCSVDeploymentGenerator
<1>5. call'.step = "validating" /\ call'.objects = all /\ call'.request = call.request
  BY <1>4 DEF ScopeInv, Inputs, CallFields
<1>6. AskedFor'
  BY <1>1, <1>5 DEF PodsInv, AskedFor
<1>7. renders > 0 /\ renders \in Nat
  BY <1>1, Asked
<1>8. call'.step \notin BeforeDeployments
  BY <1>5 DEF BeforeDeployments, HaveDeployments
<1>9. pods' = [i \in DOMAIN pods |-> ConfiguredInPlace(pods[i], call.request.config)]
  BY DEF BundleCSVDeploymentGenerator, Mapped
<1>10. ASSUME NEW i \in DOMAIN pods
       PROVE  OwnPod(pods'[i], bundle.deployments[i], bundle, renders, call.request.provider)
  <2>1. PICK d, pod, q, config :
          /\ d = bundle.deployments[i] /\ pod = pods[i] /\ q = pods'[i]
          /\ config = call.request.config
    OBVIOUS
  <2>2. PICK origins, gone : /\ origins = Origins(d.pod, bundle, renders)
                             /\ gone = Gone(bundle, d, renders, call.request.provider)
    OBVIOUS
  <2>3. /\ GoodPod(pod, d.pod, origins, gone)
        /\ pod.tolerations = d.pod.tolerations /\ pod.annotations = d.pod.annotations
    BY <2>1, <2>2 DEF PodsInv, OwnPod
  <2>4. config # Absent => IsConfig(config) /\ Mine(config, origins)
    BY <1>1, <2>1, <2>2, Asked
  <2>5. q = ConfiguredInPlace(pod, config)
    BY <1>9, <2>1
  <2>6. /\ GoodPod(q, d.pod, origins, gone)
        /\ q.annotations = pod.annotations /\ q.tolerations = pod.tolerations
    BY <2>3, <2>4, <2>5, ConfiguredInPlacePod
  <2>7. QED
    BY <2>1, <2>2, <2>3, <2>6 DEF OwnPod
<1>11. ASSUME NEW o \in all, o.kind = "Deployment"
       PROVE  \E d \in Elements(bundle.deployments) :
                /\ o.name = d.name
                /\ DeliveredPod(o.pod, d, bundle, renders, call.request, FALSE)
  <2>1. o \notin call.objects
    <3>1. Linked(bundle, call.ns, "deployments", call.objects)
      BY <1>1 DEF LinkInv, Generating
    <3>2. QED
      BY <1>11, <3>1 DEF Linked, Present, HaveDeployments
  <2>2. PICK i \in DOMAIN pods : o = made(i)
    BY <1>2, <1>3, <2>1
  <2>3. PICK d : d = bundle.deployments[i]
    OBVIOUS
  <2>4. d \in Elements(bundle.deployments)
    BY <2>3 DEF ScopeInv, Inputs, Elements
  <2>5. o.name = d.name /\ DeliveredPod(o.pod, d, bundle, renders, call.request, FALSE)
    BY <1>1, <2>2, <2>3, DeploymentDelivered
  <2>6. QED
    BY <2>4, <2>5
<1>12. DOMAIN pods' = DOMAIN pods
  BY <1>9
<1>13. \A pod, d : DeliveredPod(pod, d, bundle, renders, call.request, FALSE) =>
         DeliveredPod(pod, d, bundle, renders, call.request, call'.step = "returned")
  BY <1>5 DEF DeliveredPod, SoundPod
<1>14. \A i \in DOMAIN pods' :
         OwnPod(pods'[i], bundle'.deployments[i], bundle', renders', call'.request.provider)
  BY <1>1, <1>5, <1>10, <1>12
<1>15. \A o \in call'.objects : o.kind = "Deployment" =>
         \E d \in Elements(bundle'.deployments) :
           /\ o.name = d.name
           /\ DeliveredPod(o.pod, d, bundle', renders', call'.request, call'.step = "returned")
  BY <1>1, <1>5, <1>11, <1>13
<1>16. renders' = 0 \/ (renders' = 1 /\ call'.step \in BeforeDeployments) =>
         pods' = LoadedPods(bundle')
  BY <1>1, <1>7, <1>8
<1>17. QED
  BY <1>6, <1>14, <1>15, <1>16 DEF PodsInv

\* Certificates displace nothing but what may be displaced.
LEMMA CertifiedDelivered ==
  ASSUME ScopeInv, PodsInv, call.step = "certificates",
         NEW o, o.kind = "Deployment", NEW d, o.name = d.name,
         DeliveredPod(o.pod, d, bundle, renders, call.request, FALSE),
         NEW q, q = IF IsCertified(o) THEN CertifiedPod(o) ELSE o.pod
  PROVE  /\ DeliveredPod(q, d, bundle, renders, call.request, TRUE)
         /\ IsCertified(o) =>
              /\ q = CertifiedPod(o)
              /\ Recertified(q, o.pod, CertName(WebhookServiceNameForDeployment(d.name)))
              /\ VolumesToRemove(o.pod) \subseteq Gone(bundle, d, renders, call.request.provider)
              /\ NamesOf(certVolumeConfigs) \subseteq Origins(d.pod, bundle, renders)
<1>0. PICK pod, request, n, secret, origins, gone :
        /\ pod = o.pod /\ request = call.request /\ n = renders
        /\ secret = CertName(WebhookServiceNameForDeployment(d.name))
        /\ origins = Origins(d.pod, bundle, n) /\ gone = Gone(bundle, d, n, request.provider)
  OBVIOUS
<1>1. n \in Nat /\ n > 0
  BY <1>0, Asked
<1>2. DeliveredPod(pod, d, bundle, n, request, FALSE)
  BY <1>0
<1>3. GoodPod(pod, d.pod, origins, gone)
  BY <1>0, <1>2 DEF DeliveredPod, SoundPod
<1>4. IsCertified(o) <=> d.name \in WithWebhooks(bundle) /\ request.provider # Absent
  BY <1>0 DEF IsCertified
<1>5. CASE ~IsCertified(o)
  <2>1. q = pod
    BY <1>0, <1>5
  <2>2. DeliveredPod(q, d, bundle, n, request, TRUE)
    BY <1>2, <1>4, <1>5, <2>1 DEF DeliveredPod, SoundPod
  <2>3. QED
    BY <1>0, <1>5, <2>2
<1>6. CASE IsCertified(o)
  <2>1. q = ensureCorrectDeploymentCertVolumes(pod, secret)
    BY <1>0, <1>6 DEF CertifiedPod
  <2>2. Recertified(q, pod, secret)
    BY <1>3, <2>1, PodRecertified DEF GoodPod
  <2>3. NamesOf(certVolumeConfigs) \subseteq origins
    BY <1>0, <1>1, OriginsGrow
  <2>4. gone = origins
    BY <1>0, <1>1, <1>4, <1>6 DEF Gone
  <2>5. VolumesToRemove(pod) \subseteq gone
    BY <1>3, <2>3, <2>4, RemovedOriginate DEF GoodPod
  <2>6. GoodPod(q, d.pod, origins, gone)
    BY <1>3, <2>2, <2>3, <2>5, RecertifiedIsGood
  <2>7. \A key \in DOMAIN d.pod.annotations \ {"olm.targetNamespaces", "olm.operatorNamespace"} :
          key \in DOMAIN q.annotations /\ q.annotations[key] = d.pod.annotations[key]
    <3>1. q.annotations = pod.annotations
      BY <2>2 DEF Recertified
    <3>2. QED
      BY <1>2, <3>1 DEF DeliveredPod, SoundPod
  <2>8. request.config # Absent => Applied(q, request.config, gone)
    <3>1. request.config # Absent => Applied(pod, request.config, gone)
      BY <1>0, <1>2 DEF DeliveredPod, SoundPod
    <3>2. PICK config : config = request.config
      OBVIOUS
    <3>3. QED
      BY <2>2, <2>5, <3>1, <3>2, RecertifiedIsApplied
  <2>9. /\ n = 1 /\ Covered(d.pod, request.config)
        /\ d.pod.initMounts \cap TakenAway(d.pod, request.config) = {}
        => Covered(q, Absent)
    <3> SUFFICES ASSUME n = 1, Covered(d.pod, request.config),
                        d.pod.initMounts \cap TakenAway(d.pod, request.config) = {}
                 PROVE  Covered(q, Absent)
      OBVIOUS
    <3>1. /\ Covered(pod, Absent)
          /\ VolumesToRemove(pod) = VolumesToRemove(applyCustomConfig(d.pod, request.config))
      BY <1>2 DEF DeliveredPod, SoundPod
    <3>2. pod.initMounts = d.pod.initMounts
      BY <1>3 DEF GoodPod, Declares
    <3>3. pod.initMounts \cap (VolumesToRemove(pod) \ NamesOf(certVolumeConfigs)) = {}
      BY <3>1, <3>2 DEF TakenAway
    <3>4. QED
      BY <2>2, <3>1, <3>3, RecertifiedIsCovered
  <2>10. Trusted(q, secret)
    BY <2>2, RecertifiedIsTrusted
  <2>11. DeliveredPod(q, d, bundle, n, request, TRUE)
    BY <1>0, <2>6, <2>7, <2>8, <2>9, <2>10 DEF DeliveredPod, SoundPod
  <2>12. QED
    BY <1>0, <1>6, <2>2, <2>3, <2>5, <2>11
<1>7. QED
  BY <1>5, <1>6

LEMMA CertificatesKeepPods ==
  ASSUME ScopeInv, LinkInv, PodsInv, CertProviderResourceGenerator
  PROVE  PodsInv'
<1> DEFINE provider == call.request.provider
           transformed(o) == IF IsCertified(o) THEN [o EXCEPT !.pod = CertifiedPod(o)]
                             ELSE IF Provisioned(o) THEN InjectCABundle(o, provider) ELSE o
           found(d) == CHOOSE o \in call.objects : o.kind = "Deployment" /\ o.name = d.name
           own(i) == found(bundle.deployments[i])
<1>1. call.step = "certificates" /\ bundle' = bundle /\ renders' = renders
  BY DEF CertProviderResourceGenerator, At
<1>2. PICK T : T = AdditionalObjects(bundle, provider, call.ns)
  OBVIOUS
<1>3. PICK all : all = {transformed(o) : o \in call.objects} \cup T
  OBVIOUS
<1>4. call' = [call EXCEPT !.step = "returned", !.objects = all]
  BY <1>2, <1>3, Zenon DEF CertProviderResourceGenerator
<1>5. call'.step = "returned" /\ call'.objects = all /\ call'.request = call.request
  BY <1>4 DEF ScopeInv, Inputs, CallFields
<1>6. pods' = [i \in DOMAIN pods |->
                 IF IsCertified(own(i))
                 THEN CertifiedInPlace(pods[i], own(i).pod, CertifiedPod(own(i)),
                                       call.request.config)
                 ELSE pods[i]]
  BY Zenon DEF CertProviderResourceGenerator
<1>7. Valid(bundle) /\ Linked(bundle, call.ns, "certificates", call.objects)
  BY <1>1 DEF LinkInv, Generating
<1>8. ASSUME NEW o \in call.objects, o.kind = "Deployment"
      PROVE  \E d \in Elements(bundle.deployments) :
               /\ o.name = d.name
               /\ DeliveredPod(o.pod, d, bundle, renders, call.request, FALSE)
  <2>1. (call.step = "returned") = FALSE
    BY <1>1
  <2>2. PICK d \in Elements(bundle.deployments) :
          /\ o.name = d.name
          /\ DeliveredPod(o.pod, d, bundle, renders, call.request, call.step = "returned")
    BY <1>8 DEF PodsInv
  <2>3. DeliveredPod(o.pod, d, bundle, renders, call.request, FALSE)
    BY <2>1, <2>2 DEF DeliveredPod
  <2>4. QED
    BY <2>2, <2>3
<1>9. AskedFor'
  BY <1>1, <1>5 DEF PodsInv, AskedFor
<1>10. renders' = 0 \/ (renders' = 1 /\ call'.step \in BeforeDeployments) =>
         pods' = LoadedPods(bundle')
  BY <1>1, <1>5, Asked DEF BeforeDeployments, Generating, HaveDeployments
<1>11. ASSUME NEW i \in DOMAIN pods
       PROVE  OwnPod(pods'[i], bundle.deployments[i], bundle, renders, provider)
  <2>1. PICK d, pod, q, o : /\ d = bundle.deployments[i] /\ pod = pods[i]
                            /\ q = pods'[i] /\ o = found(d)
    OBVIOUS
  <2>2. d \in Elements(bundle.deployments)
    BY <2>1 DEF ScopeInv, Inputs, Elements
  <2>3. o \in call.objects /\ o.kind = "Deployment" /\ o.name = d.name
    <3>1. d.name \in NamesOf(bundle.deployments)
      BY <2>2 DEF NamesOf
    <3>2. \E x \in call.objects : IsDeployment(x, d.name, call.ns)
      BY <1>7, <3>1 DEF Linked, Present, HaveDeployments
    <3>3. \E x \in call.objects : x.kind = "Deployment" /\ x.name = d.name
      BY <3>2 DEF IsDeployment
    <3>4. QED
      BY <2>1, <3>3
  <2> HIDE DEF found
  <2>4. OwnPod(pod, d, bundle, renders, provider)
    BY <2>1 DEF PodsInv
  <2>5. CASE ~IsCertified(o)
    <3>1. q = pod
      BY <1>6, <2>1, <2>5
    <3>2. QED
      BY <2>1, <2>4, <3>1
  <2>6. CASE IsCertified(o)
    <3>1. PICK e \in Elements(bundle.deployments) :
            /\ o.name = e.name
            /\ DeliveredPod(o.pod, e, bundle, renders, call.request, FALSE)
      BY <1>8, <2>3
    <3>2. e = d
      <4>1. UniqueNames(bundle.deployments)
        BY <1>7 DEF Valid, CheckDeploymentSpecUniqueness
      <4>2. QED
        BY <2>2, <2>3, <3>1, <4>1 DEF UniqueNames, Elements
    <3>3. PICK origins, gone, config, before, after, secret :
            /\ origins = Origins(d.pod, bundle, renders)
            /\ gone = Gone(bundle, d, renders, provider)
            /\ config = call.request.config /\ before = o.pod /\ after = CertifiedPod(o)
            /\ secret = CertName(WebhookServiceNameForDeployment(d.name))
      OBVIOUS
    <3>4. /\ Recertified(after, before, secret) /\ VolumesToRemove(before) \subseteq gone
          /\ NamesOf(certVolumeConfigs) \subseteq origins
      BY <1>1, <2>3, <2>6, <3>1, <3>2, <3>3, CertifiedDelivered
    <3>5. GoodPod(before, d.pod, origins, gone)
      BY <3>1, <3>2, <3>3 DEF DeliveredPod, SoundPod
    <3>6. /\ GoodPod(pod, d.pod, origins, gone)
          /\ pod.tolerations = d.pod.tolerations /\ pod.annotations = d.pod.annotations
      BY <2>4, <3>3 DEF OwnPod
    <3>7. q = CertifiedInPlace(pod, before, after, config)
      BY <1>6, <2>1, <2>6, <3>3
    <3>8. /\ GoodPod(q, d.pod, origins, gone)
          /\ q.annotations = pod.annotations /\ q.tolerations = pod.tolerations
      BY <3>4, <3>5, <3>6, <3>7, CertifiedInPlacePod
    <3>9. OwnPod(q, d, bundle, renders, provider)
      BY <3>3, <3>6, <3>8 DEF OwnPod
    <3>10. QED
      BY <2>1, <3>9
  <2>7. QED
    BY <2>5, <2>6
<1>12. ASSUME NEW q \in all, q.kind = "Deployment"
       PROVE  \E d \in Elements(bundle.deployments) :
                /\ q.name = d.name
                /\ DeliveredPod(q.pod, d, bundle, renders, call.request, TRUE)
  <2>1. q \notin T
    <3>1. \A x \in T : x.kind # "Deployment"
      BY <1>2 DEF AdditionalObjects
    <3>2. QED
      BY <1>12, <3>1
  <2>2. PICK o \in call.objects : q = transformed(o)
    BY <1>3, <2>1
  <2>3. \/ q = o
        \/ q = [o EXCEPT !.pod = CertifiedPod(o)] /\ IsCertified(o)
        \/ \E ca : q = [o EXCEPT !.ca = ca] /\ "ca" \in DOMAIN o
    <3>1. \/ InjectCABundle(o, provider) = o
          \/ \E ca : InjectCABundle(o, provider) = [o EXCEPT !.ca = ca]
      BY DEF InjectCABundle
    <3>2. QED
      BY <2>2, <3>1, Zenon DEF Provisioned
  <2>4. "kind" \in DOMAIN o
    BY <1>7 DEF Linked, Known
  <2>5. o.kind = "Deployment"
    BY <1>12, <2>3, <2>4
  <2>6. DOMAIN o = {"kind", "ns", "name", "pod", "annotations"}
    BY <1>7, <2>5 DEF Linked, Known, IsDeployment
  <2>7. q.pod = (IF IsCertified(o) THEN CertifiedPod(o) ELSE o.pod) /\ q.name = o.name
    <3>1. q = transformed(o) /\ ~Provisioned(o)
      BY <2>2, <2>6 DEF Provisioned
    <3>2. q = IF IsCertified(o) THEN [o EXCEPT !.pod = CertifiedPod(o)] ELSE o
      BY <3>1
    <3>3. QED
      BY <2>6, <3>2
  <2>8. PICK d \in Elements(bundle.deployments) :
          /\ o.name = d.name
          /\ DeliveredPod(o.pod, d, bundle, renders, call.request, FALSE)
    BY <1>8, <2>5
  <2>9. PICK pod : pod = q.pod
    OBVIOUS
  <2>10. DeliveredPod(pod, d, bundle, renders, call.request, TRUE)
    BY <1>1, <2>5, <2>7, <2>8, <2>9, CertifiedDelivered
  <2>11. QED
    BY <2>7, <2>8, <2>9, <2>10
<1> HIDE DEF provider
<1>13. \A i \in DOMAIN pods' :
         OwnPod(pods'[i], bundle'.deployments[i], bundle', renders', call'.request.provider)
  BY <1>1, <1>5, <1>6, <1>11 DEF provider
<1>14. \A pod, d : DeliveredPod(pod, d, bundle, renders, call.request, TRUE) =>
         DeliveredPod(pod, d, bundle, renders, call.request, call'.step = "returned")
  BY <1>5 DEF DeliveredPod
<1>15. \A o \in call'.objects : o.kind = "Deployment" =>
         \E d \in Elements(bundle'.deployments) :
           /\ o.name = d.name
           /\ DeliveredPod(o.pod, d, bundle', renders', call'.request, call'.step = "returned")
  BY <1>1, <1>5, <1>12, <1>14
<1>16. QED
  BY <1>9, <1>10, <1>13, <1>15 DEF PodsInv

LEMMA RefusedKeepsPods ==
  ASSUME ScopeInv, PodsInv, NEW error, Refuse(error), UNCHANGED <<bundle, renders>>,
         call.step \notin {"idle", "returned"}
  PROVE  PodsInv'
<1>1. call' = [call EXCEPT !.step = "failed", !.error = error, !.objects = {}] /\ pods' = pods
  BY DEF Refuse
<1>2. call'.step = "failed" /\ call'.objects = {} /\ call'.request = call.request
  BY <1>1 DEF ScopeInv, Inputs, CallFields
<1>3. call'.step \notin BeforeDeployments
  BY <1>2 DEF BeforeDeployments, Generating, HaveDeployments
<1>4. QED
  BY <1>1, <1>2, <1>3, QuietKeepsPods

LEMMA AppendKeepsPods ==
  ASSUME ScopeInv, PodsInv, NEW step \in Generating, NEW next \in Generating,
         NEW errors, NEW objects, Generate(step, next, errors, objects),
         errors = {} => AllNeutral(objects, bundle, call.ns), Alike(step, next)
  PROVE  PodsInv'
<1>1. /\ call.step = step /\ bundle' = bundle /\ renders' = renders
      /\ step \notin {"idle", "returned"}
  BY DEF Generate, At, Generating
<1>2. CASE errors # {}
  <2>1. PICK e \in errors : Refuse(e)
    BY <1>2 DEF Generate
  <2>2. QED
    BY <1>1, <2>1, RefusedKeepsPods
<1>3. CASE errors = {}
  <2>1. PICK all : all = call.objects \cup objects
    OBVIOUS
  <2>2. call' = [call EXCEPT !.step = next, !.objects = all] /\ pods' = pods
    BY <1>3, <2>1 DEF Generate
  <2>3. call'.step = next /\ call'.objects = all /\ call'.request = call.request
    BY <2>2 DEF ScopeInv, Inputs, CallFields
  <2>4. \A o \in call'.objects : o.kind = "Deployment" => o \in call.objects
    BY <1>3, <2>1, <2>3 DEF AllNeutral, Neutral
  <2>5. call'.step \in BeforeDeployments => call.step \in BeforeDeployments
    BY <1>1, <2>3 DEF BeforeDeployments, Alike, HaveDeployments, Generating
  <2>6. call'.step # "returned"
    BY <2>3 DEF Generating
  <2>7. QED
    BY <1>1, <2>2, <2>3, <2>4, <2>5, <2>6, QuietKeepsPods
<1>4. QED
  BY <1>2, <1>3

\* A step before the generators, or that of the first one.
LEMMA EarlyKeepsPods ==
  ASSUME ScopeInv, PodsInv, UNCHANGED <<bundle, pods, renders>>, call'.request = call.request,
         call.step \in {"configure", "validate", "namespace"},
         call'.step \in {"validate", "namespace", "accounts"},
         \A o \in call'.objects : o.kind # "Deployment"
  PROVE  PodsInv'
<1>1. call.step \in BeforeDeployments
  BY DEF BeforeDeployments
<1>2. QED
  BY <1>1, QuietKeepsPods

LEMMA NextKeepsPods ==
  ASSUME CallInv, ScopeInv, LinkInv, PodsInv, [Next]_vars
  PROVE  PodsInv'
<1>0. /\ "accounts" \in Generating /\ "permissions" \in Generating
      /\ "cluster permissions" \in Generating /\ "crds" \in Generating
      /\ "resources" \in Generating /\ "deployments" \in Generating
      /\ "validating" \in Generating /\ "mutating" \in Generating
      /\ "services" \in Generating /\ "certificates" \in Generating
  BY DEF Generating
<1>1. bundle \in Bundles /\ DOMAIN call = CallFields
  BY DEF ScopeInv, Inputs
<1>2. /\ AllNeutral(ServiceAccounts(bundle, call.ns), bundle, call.ns)
      /\ AllNeutral(Permissions(bundle, call.targets, call.ns), bundle, call.ns)
      /\ AllNeutral(ClusterPermissions(bundle, call.targets, call.ns), bundle, call.ns)
      /\ AllNeutral(CRDs(bundle, call.ns), bundle, call.ns)
      /\ ~UnsupportedObject(bundle) =>
           AllNeutral(AdditionalResources(bundle, call.ns), bundle, call.ns)
  BY <1>1, NeutralObjects DEF AllNeutral, Grants
<1>3. \A type \in {"validating", "mutating"} :
        AllNeutral(WebhookConfigurations(bundle, type, call.targets, call.ns), bundle, call.ns)
  BY <1>1, NeutralObjects DEF AllNeutral
<1>4. /\ Alike("accounts", "permissions") /\ Alike("permissions", "cluster permissions")
      /\ Alike("cluster permissions", "crds") /\ Alike("crds", "resources")
      /\ Alike("resources", "deployments") /\ Alike("validating", "mutating")
      /\ Alike("mutating", "services")
  BY DEF Alike, HaveDeployments, HaveServices
<1>5. ASSUME NEW r \in Offered(bundle, renders + 1), Call(r) PROVE PodsInv'
  BY <1>5, CallKeepsPods
<1>6. CASE UnmarshalConfig
  <2>1. call.step = "configure" /\ UNCHANGED <<bundle, renders>>
    BY <1>6 DEF UnmarshalConfig, At
  <2>2. CASE Refuse("configuration")
    BY <2>1, <2>2, RefusedKeepsPods
  <2>3. CASE call' = [call EXCEPT !.step = "validate"] /\ pods' = pods
    <3>1. /\ call'.step = "validate" /\ call'.request = call.request
          /\ call'.objects = call.objects
      BY <1>1, <2>3 DEF CallFields
    <3>2. call'.step \in BeforeDeployments => call.step \in BeforeDeployments
      BY <2>1 DEF BeforeDeployments
    <3>3. QED
      BY <2>1, <2>3, <3>1, <3>2, QuietKeepsPods
  <2>4. QED
    BY <1>6, <2>2, <2>3 DEF UnmarshalConfig
<1>7. CASE Validate
  <2>1. call.step = "validate" /\ UNCHANGED <<bundle, renders>>
    BY <1>7 DEF Validate, At
  <2>2. CASE Refuse("invalid")
    BY <2>1, <2>2, RefusedKeepsPods
  <2>3. CASE (\E targets : call' = [call EXCEPT !.step = "namespace", !.targets = targets])
             /\ pods' = pods
    <3>1. /\ call'.step = "namespace" /\ call'.request = call.request
          /\ call'.objects = call.objects
      BY <1>1, <2>3 DEF CallFields
    <3>2. call'.step \in BeforeDeployments => call.step \in BeforeDeployments
      BY <2>1 DEF BeforeDeployments
    <3>3. QED
      BY <2>1, <2>3, <3>1, <3>2, QuietKeepsPods
  <2>4. QED
    BY <1>7, <2>2, <2>3, Zenon DEF Validate
<1>8. CASE BundleNamespaceGenerator
  <2>1. call.step = "namespace" /\ UNCHANGED <<bundle, renders>>
    BY <1>8 DEF BundleNamespaceGenerator, At
  <2>2. CASE \E error : Refuse(error)
    BY <2>1, <2>2, RefusedKeepsPods
  <2>3. CASE ~\E error : Refuse(error)
    <3>1. PICK ns : ns = InstallNamespace(bundle, call.request.self)
      OBVIOUS
    <3>2. PICK namespace : namespace = [kind |-> "Namespace", ns |-> "", name |-> ns]
      OBVIOUS
    <3>3. PICK objects : objects = IF call.request.self # Absent THEN {} ELSE {namespace}
      OBVIOUS
    <3>4. /\ call' = [call EXCEPT !.step = "accounts", !.ns = ns, !.objects = objects]
          /\ pods' = pods
      BY <1>8, <2>3, <3>1, <3>2, <3>3, Zenon DEF BundleNamespaceGenerator
    <3>5. /\ call'.step = "accounts" /\ call'.request = call.request /\ call'.objects = objects
      BY <1>1, <3>4 DEF CallFields
    <3>6. \A o \in call'.objects : o.kind # "Deployment"
      <4>1. namespace.kind = "Namespace" /\ \A o \in objects : o = namespace
        BY <3>2, <3>3
      <4>2. QED
        BY <3>5, <4>1
    <3>7. QED
      BY <2>1, <3>4, <3>5, <3>6, EarlyKeepsPods
  <2>4. QED
    BY <2>2, <2>3
<1>9. CASE BundleCSVServiceAccountGenerator
  BY <1>0, <1>2, <1>4, <1>9, AppendKeepsPods DEF BundleCSVServiceAccountGenerator
<1>10. CASE BundleCSVPermissionsGenerator
  BY <1>0, <1>2, <1>4, <1>10, AppendKeepsPods DEF BundleCSVPermissionsGenerator
<1>11. CASE BundleCSVClusterPermissionsGenerator
  BY <1>0, <1>2, <1>4, <1>11, AppendKeepsPods DEF BundleCSVClusterPermissionsGenerator
<1>12. CASE BundleCRDGenerator
  <2>1. PICK errors : Generate("crds", "resources", errors, CRDs(bundle, call.ns))
    BY <1>12 DEF BundleCRDGenerator
  <2>2. QED
    BY <1>0, <1>2, <1>4, <2>1, AppendKeepsPods
<1>13. CASE BundleAdditionalResourcesGenerator
  <2>1. PICK errors : /\ Generate("resources", "deployments", errors,
                                  AdditionalResources(bundle, call.ns))
                      /\ errors = {} => ~UnsupportedObject(bundle)
    BY <1>13 DEF BundleAdditionalResourcesGenerator
  <2>2. QED
    BY <1>0, <1>2, <1>4, <2>1, AppendKeepsPods
<1>14. CASE BundleCSVDeploymentGenerator
  BY <1>14, DeploymentsKeepPods
<1>15. CASE BundleValidatingWebhookResourceGenerator
  BY <1>0, <1>3, <1>4, <1>15, AppendKeepsPods DEF BundleValidatingWebhookResourceGenerator
<1>16. CASE BundleMutatingWebhookResourceGenerator
  BY <1>0, <1>3, <1>4, <1>16, AppendKeepsPods DEF BundleMutatingWebhookResourceGenerator
<1>17. CASE BundleDeploymentServiceResourceGenerator
  <2>1. PICK services : services = Services(bundle, call.ns)
    OBVIOUS
  <2>2. Generate("services", "certificates", {}, services)
    BY <1>17, <2>1 DEF BundleDeploymentServiceResourceGenerator
  <2>3. call.step = "services" /\ UNCHANGED <<bundle, renders, pods>>
    BY <2>2 DEF Generate, At
  <2>4. PICK all : all = call.objects \cup services
    OBVIOUS
  <2>5. call' = [call EXCEPT !.step = "certificates", !.objects = all]
    BY <2>2, <2>4 DEF Generate
  <2>6. /\ call'.step = "certificates" /\ call'.objects = all /\ call'.request = call.request
    BY <1>1, <2>5 DEF CallFields
  <2>7. \A o \in call'.objects : o.kind = "Deployment" => o \in call.objects
    BY <2>1, <2>4, <2>6 DEF Services
  <2>8. call'.step \notin BeforeDeployments
    BY <2>6 DEF BeforeDeployments, HaveDeployments
  <2>9. QED
    BY <2>3, <2>6, <2>7, <2>8, QuietKeepsPods
<1>18. CASE CertProviderResourceGenerator
  BY <1>18, CertificatesKeepPods
<1>19. CASE UNCHANGED vars
  BY <1>19 DEF vars, PodsInv, AskedFor
<1>20. QED
  BY <1>5, <1>6, <1>7, <1>8, <1>9, <1>10, <1>11, <1>12, <1>13, <1>14, <1>15, <1>16, <1>17,
     <1>18, <1>19 DEF Next

LEMMA PodsHold == Spec => []PodsInv
<1>1. CallInv /\ ScopeInv /\ LinkInv /\ PodsInv /\ [Next]_vars => PodsInv'
  BY NextKeepsPods
<1>2. QED
  BY <1>1, InitPods, CallsDecide, ScopesHold, LinksHold, PTL DEF Spec

----------------------------------------------------------------------------
(* What is delivered. *)

\* The pod of a rendered deployment that has the name of one of the bundle's.
LEMMA ReturnedPods ==
  ASSUME ScopeInv, LinkInv, PodsInv, Returned, NEW e \in Elements(bundle.deployments),
         NEW o \in The("Deployment", call.ns, e.name)
  PROVE  /\ DeliveredPod(o.pod, e, bundle, renders, call.request, TRUE)
         /\ Gone(bundle, e, renders, call.request.provider) = Displaced(e)
<1>1. o \in call.objects /\ o.kind = "Deployment" /\ o.name = e.name
  BY DEF The, Rendered
<1>2. PICK d \in Elements(bundle.deployments) :
        /\ o.name = d.name
        /\ DeliveredPod(o.pod, d, bundle, renders, call.request, call.step = "returned")
  BY <1>1 DEF PodsInv
<1>3. d = e
  <2>1. UniqueNames(bundle.deployments)
    BY ReturnedLinks DEF Valid, CheckDeploymentSpecUniqueness
  <2>2. QED
    BY <1>1, <1>2, <2>1 DEF UniqueNames, Elements
<1>4. DeliveredPod(o.pod, d, bundle, renders, call.request, TRUE)
  <2>1. call.step = "returned"
    BY DEF Returned
  <2>2. QED
    BY <1>2, <2>1 DEF DeliveredPod
<1>5. renders # 0
  BY DEF Returned, PodsInv, AskedFor
<1>6. Gone(bundle, e, renders, call.request.provider) = Displaced(e)
  BY <1>5 DEF Gone, Displaced
<1>7. QED
  BY <1>3, <1>4, <1>6

\* What a bundle declares for its pods, its containers with their variables and mounts, the
\* mounts of its init containers, its volumes, tolerations, labels and annotations, is never
\* lost, however often it is rendered and with whatever configurations and certificates
\* (generators.go:65-102, :428-593, :615-889): but for the mounts and volumes that
\* certificates displace.
THEOREM DeclarationsAreKept == Spec => []DeclaredKept
<1>1. ASSUME ScopeInv, LinkInv, PodsInv
      PROVE  DeclaredKept
  <2> SUFFICES ASSUME Returned, NEW e \in Elements(bundle.deployments),
                      NEW o \in The("Deployment", call.ns, e.name)
               PROVE  /\ Declares(o.pod, e.pod, Displaced(e))
                      /\ \A key \in DOMAIN e.pod.annotations :
                           \/ key \in {"olm.targetNamespaces", "olm.operatorNamespace"}
                           \/ o.pod.annotations[key] = e.pod.annotations[key]
    BY DEF DeclaredKept
  <2>1. /\ DeliveredPod(o.pod, e, bundle, renders, call.request, TRUE)
        /\ Gone(bundle, e, renders, call.request.provider) = Displaced(e)
    BY <1>1, ReturnedPods
  <2>2. QED
    BY <2>1 DEF DeliveredPod, SoundPod, GoodPod
<1>2. QED
  BY <1>1, ScopesHold, LinksHold, PodsHold, PTL

\* The configuration of a call holds in every deployment that it renders, whatever was
\* rendered from the bundle before (generators.go:615-889).
THEOREM ConfigurationsApply == Spec => []ConfigApplied
<1>1. ASSUME ScopeInv, LinkInv, PodsInv
      PROVE  ConfigApplied
  <2> SUFFICES ASSUME Returned, call.request.config # Absent,
                      NEW e \in Elements(bundle.deployments),
                      NEW o \in The("Deployment", call.ns, e.name)
               PROVE  Applied(o.pod, call.request.config, Displaced(e))
    BY DEF ConfigApplied
  <2>1. /\ DeliveredPod(o.pod, e, bundle, renders, call.request, TRUE)
        /\ Gone(bundle, e, renders, call.request.provider) = Displaced(e)
    BY <1>1, ReturnedPods
  <2>2. QED
    BY <2>1 DEF DeliveredPod, SoundPod
<1>2. QED
  BY <1>1, ScopesHold, LinksHold, PodsHold, PTL

\* A first rendering leaves no mount without its volume, unless the bundle and the
\* configuration have one: what certificates displace goes from both, but for the mounts of
\* init containers, which are left (generators.go:535-593).
THEOREM MountsAreBacked == Spec => []MountsHaveVolumes
<1>1. ASSUME ScopeInv, LinkInv, PodsInv
      PROVE  MountsHaveVolumes
  <2> SUFFICES ASSUME Returned, renders = 1, NEW e \in Elements(bundle.deployments),
                      Covered(e.pod, call.request.config),
                      e.pod.initMounts \cap TakenAway(e.pod, call.request.config) = {},
                      NEW o \in The("Deployment", call.ns, e.name)
               PROVE  Covered(o.pod, Absent)
    BY DEF MountsHaveVolumes
  <2>1. DeliveredPod(o.pod, e, bundle, renders, call.request, TRUE)
    BY <1>1, ReturnedPods
  <2>2. QED
    BY <2>1 DEF DeliveredPod, SoundPod
<1>2. QED
  BY <1>1, ScopesHold, LinksHold, PodsHold, PTL

\* The pods behind the service that is generated for a deployment are that one's.
LEMMA BehindIs ==
  ASSUME ScopeInv, LinkInv, PodsInv, Returned, SelectorsApart,
         NEW d \in Served(bundle), NEW s, IsService(s, d, bundle, call.ns)
  PROVE  Behind(s) = The("Deployment", call.ns, d.name)
<1>1. d \in Elements(bundle.deployments) /\ d.name \in WithWebhooks(bundle)
  BY DEF Served
<1>2. d.selector \notin {Absent, {}}
  BY <1>1 DEF SelectorsApart
<1>3. s.ns = call.ns /\ s.selects = d.selector /\ s.selects # {}
  BY <1>2 DEF IsService, Selected
<1>4. ASSUME NEW o \in Rendered("Deployment")
      PROVE  o.ns = call.ns /\ (d.selector \subseteq o.pod.labels <=> o.name = d.name)
  <2>1. PICK name \in NamesOf(bundle.deployments) : IsDeployment(o, name, call.ns)
    BY ReturnedLinks DEF Rendered, Known
  <2>2. PICK e \in Elements(bundle.deployments) : e.name = name
    BY DEF NamesOf
  <2>3. o \in The("Deployment", call.ns, e.name)
    BY <2>1, <2>2 DEF IsDeployment, The
  <2>4. DeliveredPod(o.pod, e, bundle, renders, call.request, TRUE)
    BY <2>3, ReturnedPods
  <2>5. o.pod.labels = e.pod.labels
    BY <2>4 DEF DeliveredPod, SoundPod, GoodPod, Declares
  <2>6. d.selector \subseteq e.pod.labels <=> d.name = e.name
    BY <1>1 DEF SelectorsApart
  <2>7. o.ns = call.ns /\ o.name = e.name
    BY <2>3 DEF The
  <2>8. QED
    BY <2>5, <2>6, <2>7
<1>5. QED
  BY <1>3, <1>4 DEF Behind, The

\* A binding finds a role, and no second one when nothing is repeated.
LEMMA RolesResolve ==
  ASSUME ScopeInv, Returned
  PROVE  /\ \A b \in Bindings("RoleBinding") : \E r :
              /\ r \in RolesOf("Role", b)
              /\ NothingRepeated => RolesOf("Role", b) = {r}
         /\ \A b \in Bindings("ClusterRoleBinding") : \E r :
              /\ r \in RolesOf("ClusterRole", b)
              /\ NothingRepeated => RolesOf("ClusterRole", b) = {r}
<1>1. ASSUME NEW b \in Bindings("RoleBinding")
      PROVE  \E r : r \in RolesOf("Role", b) /\ (NothingRepeated => RolesOf("Role", b) = {r})
  <2>1. PICK i \in DOMAIN call.targets, k \in LocalPlaces : b = LocalBinding(i, k)
    BY <1>1, LocalRights
  <2>2. \A r : r \in RolesOf("Role", b) <=>
          \E j \in DOMAIN call.targets, l \in LocalPlaces :
            /\ r = LocalRole(j, l) /\ call.targets[j] = call.targets[i]
            /\ bundle.permissions[l] = bundle.permissions[k]
    BY <2>1, LocalRights
  <2>3. LocalRole(i, k) \in RolesOf("Role", b)
    BY <2>2
  <2>4. ASSUME NothingRepeated, NEW r \in RolesOf("Role", b)
        PROVE  r = LocalRole(i, k)
    <3>1. PICK j \in DOMAIN call.targets, l \in LocalPlaces :
            /\ r = LocalRole(j, l) /\ call.targets[j] = call.targets[i]
            /\ bundle.permissions[l] = bundle.permissions[k]
      BY <2>2, <2>4
    <3>2. j = i /\ l = k
      BY <2>4, <3>1 DEF NothingRepeated, IsInjective, LocalPlaces
    <3>3. QED
      BY <3>1, <3>2
  <2>5. QED
    BY <2>3, <2>4
<1>2. ASSUME NEW b \in Bindings("ClusterRoleBinding")
      PROVE  \E r : /\ r \in RolesOf("ClusterRole", b)
                    /\ NothingRepeated => RolesOf("ClusterRole", b) = {r}
  <2>1. PICK k \in DOMAIN AllGlobal : b = GlobalBinding(k)
    BY <1>2, GlobalRights
  <2>2. \A r : r \in RolesOf("ClusterRole", b) <=>
          \E l \in DOMAIN AllGlobal : r = GlobalRole(l) /\ AllGlobal[l] = AllGlobal[k]
    BY <2>1, GlobalRights
  <2>3. GlobalRole(k) \in RolesOf("ClusterRole", b)
    BY <2>2
  <2>4. ASSUME NothingRepeated, NEW r \in RolesOf("ClusterRole", b)
        PROVE  r = GlobalRole(k)
    <3>1. PICK l \in DOMAIN AllGlobal : r = GlobalRole(l) /\ AllGlobal[l] = AllGlobal[k]
      BY <2>2, <2>4
    <3>2. l = k
      BY <2>4, <3>1 DEF NothingRepeated, IsInjective, AllGlobal
    <3>3. QED
      BY <3>1, <3>2
  <2>5. QED
    BY <2>3, <2>4
<1>3. QED
  BY <1>1, <1>2

\* The account of a binding is that of a permission the bundle declares.
LEMMA SubjectsAreDeclared ==
  ASSUME ScopeInv, Returned, NEW b \in Bindings("RoleBinding") \cup Bindings("ClusterRoleBinding")
  PROVE  \E p \in Elements(bundle.permissions) \cup Elements(bundle.clusterPermissions) :
           b.subject.name = saNameOrDefault(p)
<1>1. CASE b \in Bindings("RoleBinding")
  <2>1. PICK i \in DOMAIN call.targets, k \in LocalPlaces : b = LocalBinding(i, k)
    BY <1>1, LocalRights
  <2>2. b.subject.name = saNameOrDefault(bundle.permissions[k])
    BY <2>1 DEF LocalBinding, BindingFor
  <2>3. bundle.permissions[k] \in Elements(bundle.permissions)
    BY DEF LocalPlaces, Elements
  <2>4. QED
    BY <2>2, <2>3
<1>2. CASE b \in Bindings("ClusterRoleBinding")
  <2>1. PICK k \in DOMAIN AllGlobal : b = GlobalBinding(k)
    BY <1>2, GlobalRights
  <2>2. PICK p : p = AllGlobal[k]
    OBVIOUS
  <2>3. b.subject.name = saNameOrDefault(p)
    BY <2>1, <2>2 DEF GlobalBinding, BindingFor
  <2>4. p \in Elements(AllGlobal)
    BY <2>2 DEF Elements
  <2>5. p \in Global
    BY <2>4, AllGlobalIsGlobal
  <2>6. CASE p \in Elements(bundle.clusterPermissions)
    BY <2>3, <2>6
  <2>7. CASE p \in Promoted
    <3>1. PICK q \in Elements(bundle.permissions) :
            p = [q EXCEPT !.rules = @ \cup {NamespacesRule}]
      BY <2>7 DEF Promoted
    <3>2. saNameOrDefault(p) = saNameOrDefault(q)
      BY <3>1, PromotedRights
    <3>3. QED
      BY <2>3, <3>2
  <2>8. QED
    BY <2>5, <2>6, <2>7 DEF Global
<1>3. QED
  BY <1>1, <1>2

\* What a rendered object refers to is rendered too: the role and the account of a binding
\* (generators.go:104-207), the service of a webhook with its port (:209-330, :380-420) and
\* the deployment behind it (:65-102), for every bundle, request and number of renderings.
\* It is there once unless names clash or something is repeated, and the labels put the pods
\* of that deployment behind the service and no others when the selectors are apart.
THEOREM ReferencesAreRendered == Spec => []ReferencesResolve
<1> DEFINE resolved(found, once) == found # {} /\ (once => Cardinality(found) = 1)
<1>1. \A found, once : (\E x : x \in found /\ (once => found = {x})) => resolved(found, once)
  BY FS_Singleton
<1>2. ASSUME ScopeInv, LinkInv, PodsInv, Returned, NEW o \in Referring
      PROVE  /\ resolved(The("Service", call.ns, o.service.name), NamesApart)
             /\ \E w \in WebhooksOf(o), s \in ServicesOf(o) :
                  /\ One("Deployment", call.ns, w.deployment)
                  /\ SelectorsApart => Behind(s) = The("Deployment", call.ns, w.deployment)
                  /\ o.service.port > 0 => \E p \in s.ports : p.port = o.service.port
  <2>1. PICK w \in WebhooksOf(o), d \in Served(bundle), s \in call.objects :
          /\ d.name = w.deployment /\ IsService(s, d, bundle, call.ns)
          /\ s.name = o.service.name
          /\ o.service.port > 0 => \E p \in s.ports : p.port = o.service.port
    BY <1>2, WebhooksResolve
  <2>2. s \in ServicesOf(o) /\ s \in The("Service", call.ns, o.service.name)
    BY <2>1 DEF IsService, ServicesOf, The, Rendered
  <2>3. NamesApart => The("Service", call.ns, o.service.name) = {s}
    BY <1>2, <2>1, ServicesResolve
  <2>4. One("Deployment", call.ns, w.deployment)
    BY <1>2, <2>1, DeploymentsResolve DEF Served, NamesOf
  <2>5. SelectorsApart => Behind(s) = The("Deployment", call.ns, w.deployment)
    BY <1>2, <2>1, BehindIs
  <2>6. resolved(The("Service", call.ns, o.service.name), NamesApart)
    BY <1>1, <2>2, <2>3
  <2>7. QED
    BY <2>1, <2>2, <2>4, <2>5, <2>6
<1>3. ASSUME ScopeInv, LinkInv, Returned,
             NEW b \in Bindings("RoleBinding") \cup Bindings("ClusterRoleBinding"),
             b.subject.name # "default"
      PROVE  resolved(The("ServiceAccount", call.ns, b.subject.name), NamesApart)
  <2>1. PICK p \in Elements(bundle.permissions) \cup Elements(bundle.clusterPermissions) :
          b.subject.name = saNameOrDefault(p)
    BY <1>3, SubjectsAreDeclared
  <2>2. PICK x : /\ x \in The("ServiceAccount", call.ns, b.subject.name)
                 /\ NamesApart => The("ServiceAccount", call.ns, b.subject.name) = {x}
    BY <1>3, <2>1, AccountsResolve
  <2>3. QED
    BY <1>1, <2>2
<1>4. ASSUME ScopeInv, Returned
      PROVE  /\ \A b \in Bindings("RoleBinding") : resolved(RolesOf("Role", b), NothingRepeated)
             /\ \A b \in Bindings("ClusterRoleBinding") :
                  resolved(RolesOf("ClusterRole", b), NothingRepeated)
  BY <1>1, <1>4, RolesResolve
<1>5. ScopeInv /\ LinkInv /\ PodsInv => ReferencesResolve
  BY <1>2, <1>3, <1>4 DEF ReferencesResolve
<1>6. QED
  BY <1>5, ScopesHold, LinksHold, PodsHold, PTL

----------------------------------------------------------------------------
(* Who trusts the certificates. *)

Webhooked == {"validating", "mutating", "CustomResourceDefinition"}

Signed(provider, b, ns, objects) ==
  /\ \A o \in objects : o.kind \in Webhooked /\ o.service # Absent =>
       /\ provider = "cert-manager" => o.ca = <<o.service.ns, CertName(o.service.name)>>
       /\ provider = "service-ca" => o.ca = <<"inject-cabundle">>
  /\ \A s \in objects, d \in Served(b) : IsService(s, d, b, ns) /\ provider = "service-ca" =>
       s.ca = <<CertName(s.name)>>
  /\ AdditionalObjects(b, provider, ns) \subseteq objects

SignedInv == Returned => Signed(call.request.provider, bundle, call.ns, call.objects)

LEMMA CertificatesSign ==
  ASSUME ScopeInv, LinkInv, CertProviderResourceGenerator
  PROVE  SignedInv'
<1> DEFINE transformed(o) == IF IsCertified(o) THEN [o EXCEPT !.pod = CertifiedPod(o)]
                             ELSE IF Provisioned(o) THEN InjectCABundle(o, call.request.provider)
                             ELSE o
<1>1. call.step = "certificates" /\ bundle' = bundle
  BY DEF CertProviderResourceGenerator, At
<1>2. PICK T : T = AdditionalObjects(bundle, call.request.provider, call.ns)
  OBVIOUS
<1>3. PICK all : all = {transformed(o) : o \in call.objects} \cup T
  OBVIOUS
<1>4. call' = [call EXCEPT !.step = "returned", !.objects = all]
  BY <1>2, <1>3, Zenon DEF CertProviderResourceGenerator
<1>5. call'.objects = all /\ call'.request = call.request /\ call'.ns = call.ns
  BY <1>4 DEF ScopeInv, Inputs, CallFields
<1>6. PICK provider, ns : provider = call.request.provider /\ ns = call.ns
  OBVIOUS
<1>7. \A o \in call.objects : Known(o, bundle, ns)
  BY <1>1, <1>6 DEF LinkInv, Generating, Linked
<1>8. \A o \in T : o.kind \in {"Issuer", "Certificate"} /\ "selects" \notin DOMAIN o
  BY <1>2 DEF AdditionalObjects
<1>9. ASSUME NEW q \in all, q.kind \in Webhooked \cup {"Service"}
      PROVE  \E o \in call.objects :
               /\ o.kind = q.kind /\ DOMAIN o = DOMAIN q
               /\ \A field \in DOMAIN o \ {"ca"} : o[field] = q[field]
               /\ Provisioned(o) => q = InjectCABundle(o, provider)
  <2>1. PICK o \in call.objects : q = transformed(o)
    BY <1>3, <1>8, <1>9 DEF Webhooked
  <2>2. "kind" \in DOMAIN o
    BY <1>7 DEF Known
  <2>3. ~IsCertified(o)
    <3> SUFFICES ASSUME IsCertified(o) PROVE FALSE
      OBVIOUS
    <3>1. o.kind = "Deployment" /\ q = [o EXCEPT !.pod = CertifiedPod(o)]
      BY <2>1 DEF IsCertified
    <3>2. q.kind = "Deployment"
      BY <2>2, <3>1
    <3>3. QED
      BY <1>9, <3>2 DEF Webhooked
  <2>4. q = IF Provisioned(o) THEN InjectCABundle(o, provider) ELSE o
    BY <1>6, <2>1, <2>3
  <2>5. \/ InjectCABundle(o, provider) = o
        \/ \E ca : InjectCABundle(o, provider) = [o EXCEPT !.ca = ca]
    BY DEF InjectCABundle
  <2>6. q = o \/ \E ca : q = [o EXCEPT !.ca = ca]
    BY <2>4, <2>5
  <2>7. DOMAIN o = DOMAIN q /\ \A field \in DOMAIN o \ {"ca"} : o[field] = q[field]
    BY <2>6
  <2>8. o.kind = q.kind
    BY <2>2, <2>7
  <2>9. QED
    BY <2>4, <2>7, <2>8
<1>10. ASSUME NEW q \in all, q.kind \in Webhooked, q.service # Absent
       PROVE  /\ provider = "cert-manager" => q.ca = <<q.service.ns, CertName(q.service.name)>>
              /\ provider = "service-ca" => q.ca = <<"inject-cabundle">>
  <2>1. PICK o \in call.objects :
          /\ o.kind = q.kind /\ DOMAIN o = DOMAIN q
          /\ \A field \in DOMAIN o \ {"ca"} : o[field] = q[field]
          /\ Provisioned(o) => q = InjectCABundle(o, provider)
    BY <1>9, <1>10
  <2>2. "ca" \in DOMAIN o /\ "service" \in DOMAIN o
    BY <1>7, <1>10, <2>1 DEF Known, Webhooked
  <2>3. o.service = q.service /\ o.kind # "Service"
    BY <1>10, <2>1, <2>2 DEF Webhooked
  <2>4. q = InjectCABundle(o, provider)
    BY <1>10, <2>1, <2>2, <2>3 DEF Provisioned
  <2>5. ASSUME provider = "cert-manager"
        PROVE  q.ca = <<q.service.ns, CertName(q.service.name)>>
    <3>1. q = [o EXCEPT !.ca = <<o.service.ns, CertName(o.service.name)>>]
      BY <2>3, <2>4, <2>5 DEF InjectCABundle
    <3>2. q.ca = <<o.service.ns, CertName(o.service.name)>>
      BY <2>2, <3>1
    <3>3. QED
      BY <2>3, <3>2
  <2>6. ASSUME provider = "service-ca"
        PROVE  q.ca = <<"inject-cabundle">>
    <3>1. q = [o EXCEPT !.ca = <<"inject-cabundle">>]
      BY <2>3, <2>4, <2>6 DEF InjectCABundle
    <3>2. QED
      BY <2>2, <3>1
  <2>7. QED
    BY <2>5, <2>6
<1>11. ASSUME NEW q \in all, NEW d \in Served(bundle), IsService(q, d, bundle, ns),
              provider = "service-ca"
       PROVE  q.ca = <<CertName(q.name)>>
  <2>1. q.kind = "Service" /\ "ca" \in DOMAIN q /\ "name" \in DOMAIN q
    BY <1>11 DEF IsService
  <2>2. PICK o \in call.objects :
          /\ o.kind = q.kind /\ DOMAIN o = DOMAIN q
          /\ \A field \in DOMAIN o \ {"ca"} : o[field] = q[field]
          /\ Provisioned(o) => q = InjectCABundle(o, provider)
    BY <1>9, <2>1
  <2>3. o.name = q.name /\ o.kind = "Service" /\ Provisioned(o)
    BY <2>1, <2>2 DEF Provisioned
  <2>4. q = [o EXCEPT !.ca = <<CertName(o.name)>>]
    BY <1>11, <2>2, <2>3 DEF InjectCABundle
  <2>5. q.ca = <<CertName(o.name)>>
    BY <2>1, <2>2, <2>4
  <2>6. QED
    BY <2>3, <2>5
<1>12. AdditionalObjects(bundle, provider, ns) \subseteq all
  BY <1>2, <1>3, <1>6
<1>13. Signed(provider, bundle, ns, all)
  BY <1>10, <1>11, <1>12 DEF Signed
<1>14. QED
  BY <1>1, <1>5, <1>6, <1>13 DEF SignedInv

LEMMA OnlyCertificatesReturn ==
  ASSUME ScopeInv, Next, call'.step = "returned"
  PROVE  CertProviderResourceGenerator
<1>0. DOMAIN call = CallFields
  BY DEF ScopeInv, Inputs
<1>1. \A error : ~Refuse(error)
  <2> SUFFICES ASSUME NEW error, Refuse(error) PROVE FALSE
    OBVIOUS
  <2>1. call' = [call EXCEPT !.step = "failed", !.error = error, !.objects = {}]
    BY DEF Refuse
  <2>2. QED
    BY <1>0, <2>1 DEF CallFields
<1>2. \A r : ~Call(r)
  BY DEF Call, NoCall
<1>3. ~UnmarshalConfig
  BY <1>0, <1>1 DEF UnmarshalConfig, CallFields
<1>4. ~Validate
  <2> SUFFICES ASSUME Validate PROVE FALSE
    OBVIOUS
  <2>1. \E targets : call' = [call EXCEPT !.step = "namespace", !.targets = targets]
    BY <1>1, Zenon DEF Validate
  <2>2. QED
    BY <1>0, <2>1 DEF CallFields
<1>5. ~BundleNamespaceGenerator
  <2> SUFFICES ASSUME BundleNamespaceGenerator PROVE FALSE
    OBVIOUS
  <2>1. \E ns, objects :
          call' = [call EXCEPT !.step = "accounts", !.ns = ns, !.objects = objects]
    BY <1>1, Zenon DEF BundleNamespaceGenerator
  <2>2. QED
    BY <1>0, <2>1 DEF CallFields
<1>6. \A step, next, errors, objects : Generate(step, next, errors, objects) => next = "returned"
  <2> SUFFICES ASSUME NEW step, NEW next, NEW errors, NEW objects,
                      Generate(step, next, errors, objects)
               PROVE  next = "returned"
    OBVIOUS
  <2>1. \E all : call' = [call EXCEPT !.step = next, !.objects = all]
    BY <1>1, Zenon DEF Generate
  <2>2. QED
    BY <1>0, <2>1 DEF CallFields
<1>7. ~BundleCSVDeploymentGenerator
  <2> SUFFICES ASSUME BundleCSVDeploymentGenerator PROVE FALSE
    OBVIOUS
  <2>1. \E all : call' = [call EXCEPT !.step = "validating", !.objects = all]
    BY Zenon DEF BundleCSVDeploymentGenerator
  <2>2. QED
    BY <1>0, <2>1 DEF CallFields
<1>8. /\ ~BundleCSVServiceAccountGenerator /\ ~BundleCSVPermissionsGenerator
      /\ ~BundleCSVClusterPermissionsGenerator /\ ~BundleCRDGenerator
      /\ ~BundleAdditionalResourcesGenerator /\ ~BundleValidatingWebhookResourceGenerator
      /\ ~BundleMutatingWebhookResourceGenerator /\ ~BundleDeploymentServiceResourceGenerator
  BY <1>6 DEF BundleCSVServiceAccountGenerator, BundleCSVPermissionsGenerator,
              BundleCSVClusterPermissionsGenerator, BundleCRDGenerator,
              BundleAdditionalResourcesGenerator, BundleValidatingWebhookResourceGenerator,
              BundleMutatingWebhookResourceGenerator, BundleDeploymentServiceResourceGenerator
<1>9. QED
  BY <1>2, <1>3, <1>4, <1>5, <1>7, <1>8 DEF Next

LEMMA CertificatesSigned == Spec => []SignedInv
<1>1. Init => SignedInv
  <2>1. NoCall.step = "idle"
    BY DEF NoCall
  <2>2. QED
    BY <2>1 DEF Init, SignedInv, Returned
<1>2. ScopeInv /\ LinkInv /\ SignedInv /\ [Next]_vars => SignedInv'
  <2> SUFFICES ASSUME ScopeInv, LinkInv, SignedInv, [Next]_vars PROVE SignedInv'
    OBVIOUS
  <2>1. CASE UNCHANGED vars
    BY <2>1 DEF vars, SignedInv, Returned
  <2>2. CASE Next /\ call'.step = "returned"
    BY <2>2, OnlyCertificatesReturn, CertificatesSign
  <2>3. CASE call'.step # "returned"
    BY <2>3 DEF SignedInv, Returned
  <2>4. QED
    BY <2>1, <2>2, <2>3
<1>3. QED
  BY <1>1, <1>2, ScopesHold, LinksHold, PTL DEF Spec

\* The issuer that is generated for a deployment is the only one of its name, which is
\* cut most.
LEMMA IssuersResolve ==
  ASSUME LinkInv, Returned, NamesApart, NEW d \in WithWebhooks(bundle),
         IssuerOf(d, call.ns) \in call.objects
  PROVE  The("Issuer", call.ns, IssuerName(CertOf(d))) = {IssuerOf(d, call.ns)}
<1>1. PICK name, issuer : name = IssuerName(CertOf(d)) /\ issuer = IssuerOf(d, call.ns)
  OBVIOUS
<1>2. issuer \in The("Issuer", call.ns, name)
  BY <1>1 DEF IssuerOf, The, Rendered
<1>3. ASSUME NEW q \in The("Issuer", call.ns, name)
      PROVE  q = issuer
  <2>1. q \in call.objects /\ q.kind = "Issuer" /\ q.name = name
    BY DEF The, Rendered
  <2>2. CASE FromBundle(q, bundle)
    BY <1>2, <2>2, BundledIsAlone
  <2>3. ASSUME NEW e \in WithWebhooks(bundle), q = IssuerOf(e, call.ns)
        PROVE  q = issuer
    <3>1. IssuerName(CertOf(e)) = IssuerName(CertOf(d))
      BY <1>1, <2>1, <2>3 DEF IssuerOf
    <3>2. e = d
      BY <3>1 DEF NamesApart, CertOf
    <3>3. QED
      BY <1>1, <2>3, <3>2
  <2>4. QED
    BY <2>1, <2>2, <2>3, ReturnedLinks DEF Known
<1>4. QED
  BY <1>1, <1>2, <1>3

\* And so is the certificate.
LEMMA CertificatesResolve ==
  ASSUME LinkInv, Returned, NamesApart, NEW d \in WithWebhooks(bundle),
         CertificateOf(d, call.ns) \in call.objects
  PROVE  The("Certificate", call.ns, CertOf(d)) = {CertificateOf(d, call.ns)}
<1>1. PICK cert, c : cert = CertOf(d) /\ c = CertificateOf(d, call.ns)
  OBVIOUS
<1>2. c \in The("Certificate", call.ns, cert)
  BY <1>1 DEF CertificateOf, The, Rendered
<1>3. ASSUME NEW q \in The("Certificate", call.ns, cert)
      PROVE  q = c
  <2>1. q \in call.objects /\ q.kind = "Certificate" /\ q.name = cert
    BY DEF The, Rendered
  <2>2. CASE FromBundle(q, bundle)
    BY <1>2, <2>2, BundledIsAlone
  <2>3. ASSUME NEW e \in WithWebhooks(bundle), q = CertificateOf(e, call.ns)
        PROVE  q = c
    <3>1. CertOf(e) = CertOf(d)
      BY <1>1, <2>1, <2>3 DEF CertificateOf
    <3>2. e = d
      BY <3>1 DEF NamesApart, CertOf
    <3>3. QED
      BY <1>1, <2>3, <3>2
  <2>4. QED
    BY <2>1, <2>2, <2>3, ReturnedLinks DEF Known
<1>4. QED
  BY <1>1, <1>2, <1>3

\* Whoever calls a webhook trusts the secret that is named after the webhook's service.
LEMMA SecretBehind ==
  ASSUME LinkInv, SignedInv, Returned, NamesApart,
         call.request.provider \in {"cert-manager", "service-ca"},
         NEW d \in Served(bundle), NEW o \in Referring,
         o.service.ns = call.ns, o.service.name = WebhookServiceNameForDeployment(d.name),
         NEW s \in call.objects, IsService(s, d, bundle, call.ns)
  PROVE  SecretsBehind(o, s) = {CertOf(d.name)}
<1>1. PICK cert : cert = CertOf(d.name)
  OBVIOUS
<1>2. PICK provider : provider = call.request.provider
  OBVIOUS
<1>3. Signed(provider, bundle, call.ns, call.objects)
  BY <1>2 DEF SignedInv
<1>4. o \in call.objects /\ o.kind \in Webhooked /\ o.service # Absent
  BY DEF Referring, Rendered, Webhooked
<1>5. CASE provider = "cert-manager"
  <2>1. o.ca = <<call.ns, cert>>
    BY <1>1, <1>3, <1>4, <1>5 DEF Signed, CertOf
  <2>2. PICK c : c = CertificateOf(d.name, call.ns)
    OBVIOUS
  <2>3. d.name \in WithWebhooks(bundle)
    BY DEF Served
  <2>4. IssuerOf(d.name, call.ns) \in call.objects /\ c \in call.objects
    <3>1. AdditionalObjects(bundle, "cert-manager", call.ns) \subseteq call.objects
      BY <1>3, <1>5 DEF Signed
    <3>2. {IssuerOf(d.name, call.ns), c} \subseteq AdditionalObjects(bundle, "cert-manager", call.ns)
      BY <2>2, <2>3 DEF AdditionalObjects, CertificateOf, IssuerOf, CertOf
    <3>3. QED
      BY <3>1, <3>2
  <2>5. One("Issuer", call.ns, IssuerName(cert))
    BY <1>1, <2>3, <2>4, IssuersResolve, OnlyOne
  <2>6. /\ c.kind = "Certificate" /\ c.ns = call.ns /\ c.name = cert
        /\ c.secret = cert /\ c.issuer = IssuerName(cert)
    BY <1>1, <2>2 DEF CertificateOf
  <2>7. The("Certificate", call.ns, cert) = {c}
    BY <1>1, <2>2, <2>3, <2>4, CertificatesResolve
  <2>8. {x \in Rendered("Certificate") : o.ca = <<x.ns, x.name>> /\ One("Issuer", x.ns, x.issuer)}
          = {c}
    BY <2>1, <2>5, <2>6, <2>7 DEF The
  <2>9. QED
    BY <1>1, <1>2, <1>5, <2>6, <2>8 DEF SecretsBehind
<1>6. CASE provider = "service-ca"
  <2>1. o.ca = <<"inject-cabundle">>
    BY <1>3, <1>4, <1>6 DEF Signed
  <2>2. s.ca = <<CertName(s.name)>>
    BY <1>3, <1>6 DEF Signed
  <2>3. s.ca = <<cert>>
    BY <1>1, <2>2 DEF IsService, CertOf
  <2>4. Elements(s.ca) = {cert}
    BY <2>3 DEF Elements
  <2>5. QED
    BY <1>1, <1>2, <1>6, <2>1, <2>4 DEF SecretsBehind
<1>7. QED
  BY <1>2, <1>5, <1>6

\* Nothing but these secrets is at the path of the container.
Secured(pod, c, path, secrets) ==
  LET at == {i \in DOMAIN c.mounts : c.mounts[i].path = path}
  IN /\ Cardinality(at) = 1
     /\ \A i \in at :
          LET volumes == {k \in DOMAIN pod.volumes : pod.volumes[k].name = c.mounts[i].name}
          IN /\ Cardinality(volumes) = 1
             /\ {pod.volumes[k].source : k \in volumes} = secrets

\* With a provider, whoever calls a webhook trusts the certificate of the secret that every
\* container of the pods behind its service has at both paths, and has nothing else there,
\* whatever the bundle or a configuration mounts (generators.go:403-593), for every bundle
\* and request: when the names are apart, and the labels that the services select by.
THEOREM CertificatesAreTrusted == Spec => []CertificatesTrusted
<1>1. ASSUME ScopeInv, LinkInv, PodsInv, SignedInv, Returned, NamesApart, SelectorsApart,
             call.request.provider # Absent, NEW o \in Referring, NEW s \in ServicesOf(o),
             NEW e \in Behind(s)
      PROVE  \E secret : Trusted(e.pod, secret) /\ SecretsBehind(o, s) = {secret}
  <2>1. s \in Rendered("Service") /\ "selects" \in DOMAIN s /\ s.name = o.service.name
    BY DEF ServicesOf, The
  <2>2. PICK d \in Served(bundle) : IsService(s, d, bundle, call.ns)
    BY <1>1, <2>1, SelectingIsGenerated
  <2>3. o.service.ns = call.ns /\ o.service.name = WebhookServiceNameForDeployment(d.name)
    <3>1. o \in call.objects /\ o.kind \in {"validating", "mutating", "CustomResourceDefinition"}
      BY DEF Referring, Rendered
    <3>2. PICK w \in MadeOf(o, bundle) : o.service = ServiceReference(w, call.ns)
      BY <1>1, <3>1, ReturnedLinks DEF Known, Referring
    <3>3. QED
      BY <2>1, <2>2, <3>2 DEF ServiceReference, IsService
  <2>4. e \in The("Deployment", call.ns, d.name) /\ d \in Elements(bundle.deployments)
    BY <1>1, <2>2, BehindIs DEF Served
  <2>5. DeliveredPod(e.pod, d, bundle, renders, call.request, TRUE)
    BY <1>1, <2>4, ReturnedPods
  <2>6. Trusted(e.pod, CertOf(d.name))
    BY <1>1, <2>2, <2>5 DEF DeliveredPod, SoundPod, Served, CertOf
  <2>7. call.request.provider \in {"cert-manager", "service-ca"}
    <3>1. bundle \in Bundles /\ renders \in 1..MaxRenders /\ call.request \in Offered(bundle, renders)
      BY <1>1 DEF ScopeInv, Inputs, PodsInv, AskedFor, Returned
    <3>2. call.request.provider \in {Absent, "cert-manager", "service-ca"}
      BY <3>1, RequestsAssumption
    <3>3. QED
      BY <1>1, <3>2
  <2>8. SecretsBehind(o, s) = {CertOf(d.name)}
    BY <1>1, <2>1, <2>2, <2>3, <2>7, SecretBehind DEF Rendered
  <2>9. QED
    BY <2>6, <2>8
<1>2. ASSUME NEW pod, NEW secret, Trusted(pod, secret), NEW c \in Elements(pod.containers),
             NEW path \in ProtectedPaths
      PROVE  Secured(pod, c, path, {secret})
  <2> DEFINE at == {i \in DOMAIN c.mounts : c.mounts[i].path = path}
             volumes(i) == {k \in DOMAIN pod.volumes : pod.volumes[k].name = c.mounts[i].name}
  <2>1. PICK j \in DOMAIN c.mounts, k \in DOMAIN pod.volumes :
          /\ c.mounts[j].path = path /\ \A i \in DOMAIN c.mounts : c.mounts[i].path = path => i = j
          /\ pod.volumes[k].name = c.mounts[j].name /\ pod.volumes[k].source = secret
          /\ \A i \in DOMAIN pod.volumes : pod.volumes[i].name = c.mounts[j].name => i = k
    BY <1>2 DEF Trusted
  <2>2. at = {j}
    BY <2>1
  <2>3. volumes(j) = {k}
    BY <2>1
  <2>4. {pod.volumes[l].source : l \in volumes(j)} = {secret}
    BY <2>1, <2>3
  <2>5. Cardinality(at) = 1 /\ Cardinality(volumes(j)) = 1
    BY <2>2, <2>3, FS_Singleton
  <2>6. QED
    BY <2>2, <2>4, <2>5 DEF Secured
<1>3. ScopeInv /\ LinkInv /\ PodsInv /\ SignedInv => CertificatesTrusted
  <2> SUFFICES ASSUME ScopeInv, LinkInv, PodsInv, SignedInv, Returned, NamesApart,
                      SelectorsApart, call.request.provider # Absent, NEW o \in Referring,
                      NEW s \in ServicesOf(o), NEW d \in Behind(s),
                      NEW c \in Elements(d.pod.containers), NEW path \in ProtectedPaths
               PROVE  Secured(d.pod, c, path, SecretsBehind(o, s))
    BY DEF CertificatesTrusted, Secured
  <2>1. PICK secret : Trusted(d.pod, secret) /\ SecretsBehind(o, s) = {secret}
    BY <1>1
  <2>2. QED
    BY <1>2, <2>1
<1>4. QED
  BY <1>3, ScopesHold, LinksHold, PodsHold, CertificatesSigned, PTL

=============================================================================
