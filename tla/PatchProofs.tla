------------------------------ MODULE PatchProofs ------------------------------
(***************************************************************************)
(* What the answer of /mutate adds, exactly; that it can be applied; that  *)
(* an object it was applied to is settled: the webhook that patched it has *)
(* nothing to add to it and, under defaults that fit its own caps, nothing *)
(* against it; that /mutate denies only what its patch does not fix; and   *)
(* that the answers of two configurations fit together.                    *)
(***************************************************************************)
EXTENDS ComplianceProofs

(***************************************************************************)
(* The locations of a patch: what MissingLocations finds in a container,   *)
(* and the constraints of a pod spec that has none, if its pods are        *)
(* labelled; each if the policy that adds it is enabled, in either mode.   *)
(***************************************************************************)
InjectsConstraints(c, o) == InjectsSpread(c) /\ DOMAIN get_pod_labels(o) # {}

ResourceLocation(o, l) ==
    \E p \in DOMAIN o.specs : \E i \in DOMAIN o.specs[p].containers :
    \E m \in MissingLocations(o.specs[p].containers[i].resources) :
        l = ResourcesAt(p, i, m[1], m[2])

ConstraintsLocation(o, l) ==
    \E p \in DOMAIN o.specs : o.specs[p].constraints = <<>> /\ l = ConstraintsAt(p)

AddsExactly(c, o, patch) ==
    \A l : l \in DOMAIN patch <=>
        \/ InjectsResources(c) /\ ResourceLocation(o, l)
        \/ InjectsConstraints(c, o) /\ ConstraintsLocation(o, l)

-------------------------------------------------------------------------------
(***************************************************************************)
(* The patches of the policies.                                            *)
(***************************************************************************)
LEMMA MissingAreLocations ==
    ASSUME NEW resources, NEW m \in MissingLocations(resources)
    PROVE  m = <<m[1], m[2]>>
  BY DEF MissingLocations

LEMMA ResourcePatch ==
    ASSUME NEW policy, NEW o, IsObject(o), NEW l
    PROVE  l \in DOMAIN resource_limits(policy, o, TRUE).patches <=>
                policy.inject_defaults /\ ResourceLocation(o, l)
  <1> DEFINE spec == get_pod_spec(o)
             prefix == spec_prefix(o.kind)
             patch == resource_limits(policy, o, TRUE).patches
  <1>1. CASE ~has_pod_spec(o)
    <2>1. DOMAIN o.specs = {}
      BY <1>1, OnlyPodSpec
    <2>2. DOMAIN patch = {}
      BY <1>1 DEF resource_limits, allowed, PolicyOutput, NoPatch
    <2>3. QED
      BY <2>1, <2>2 DEF ResourceLocation
  <1>2. CASE has_pod_spec(o)
    <2>1. /\ prefix \in DOMAIN o.specs /\ spec = o.specs[prefix]
          /\ \A p \in DOMAIN o.specs : p = prefix
      BY <1>2, PathIsPrefix, OnlyPodSpec DEF has_pod_spec, get_pod_spec
    <2>2. patch = IF policy.inject_defaults
                  THEN generate_resource_patches(policy, spec, prefix) ELSE NoPatch
      BY <1>2 DEF resource_limits, resource_limits_spec, PolicyOutput
    <2>3. l \in DOMAIN generate_resource_patches(policy, spec, prefix) <=>
            \E i \in DOMAIN spec.containers :
            \E m \in MissingLocations(spec.containers[i].resources) :
                l = ResourcesAt(prefix, i, m[1], m[2])
      BY DEF generate_resource_patches
    <2>4. l \in DOMAIN generate_resource_patches(policy, spec, prefix) <=> ResourceLocation(o, l)
      BY <2>1, <2>3 DEF ResourceLocation
    <2>5. QED
      BY <2>2, <2>4 DEF NoPatch
  <1>3. QED
    BY <1>1, <1>2

LEMMA ConstraintsPatch ==
    ASSUME NEW policy, NEW o, IsObject(o), NEW l
    PROVE  l \in DOMAIN topology_spread(policy, o, TRUE).patches <=>
                /\ policy.inject_if_missing
                /\ DOMAIN get_pod_labels(o) # {}
                /\ ConstraintsLocation(o, l)
  <1> DEFINE spec == get_pod_spec(o)
             prefix == spec_prefix(o.kind)
             patch == topology_spread(policy, o, TRUE).patches
  <1>1. CASE ~has_pod_spec(o)
    <2>1. DOMAIN o.specs = {}
      BY <1>1, OnlyPodSpec
    <2>2. DOMAIN patch = {}
      BY <1>1 DEF topology_spread, allowed, PolicyOutput, NoPatch
    <2>3. QED
      BY <2>1, <2>2 DEF ConstraintsLocation
  <1>2. CASE has_pod_spec(o)
    <2>1. /\ prefix \in DOMAIN o.specs /\ spec = o.specs[prefix]
          /\ \A p \in DOMAIN o.specs : p = prefix
      BY <1>2, PathIsPrefix, OnlyPodSpec DEF has_pod_spec, get_pod_spec
    <2>2. patch = topology_spread_spec(policy, spec, o, TRUE).patches
      BY <1>2 DEF topology_spread
    <2>3. l \in DOMAIN patch <=>
            /\ spec.constraints = <<>> /\ policy.inject_if_missing
            /\ DOMAIN get_pod_labels(o) # {}
            /\ l = ConstraintsAt(prefix)
      BY <2>2 DEF topology_spread_spec, PolicyOutput, Given
    <2>4. ConstraintsLocation(o, l) <=> spec.constraints = <<>> /\ l = ConstraintsAt(prefix)
      BY <2>1 DEF ConstraintsLocation
    <2>5. QED
      BY <2>3, <2>4
  <1>3. QED
    BY <1>1, <1>2

LEMMA PolicyPatch ==
    ASSUME NEW c, NEW o, IsObject(o), NEW n \in PolicyName, NEW l
    PROVE  l \in DOMAIN PolicyOutputOf(c, n, o, TRUE).patches <=>
             \/ /\ n = "resource_limits"
                /\ c.resource_limits.policy.inject_defaults /\ ResourceLocation(o, l)
             \/ /\ n = "topology_spread"
                /\ c.topology_spread.policy.inject_if_missing
                /\ DOMAIN get_pod_labels(o) # {}
                /\ ConstraintsLocation(o, l)
  <1>1. CASE n = "resource_limits"
    <2>1. PolicyOutputOf(c, n, o, TRUE) = resource_limits(c.resource_limits.policy, o, TRUE)
      BY <1>1 DEF PolicyOutputOf
    <2>2. QED
      BY <1>1, <2>1, ResourcePatch
  <1>2. CASE n = "topology_spread"
    <2>1. PolicyOutputOf(c, n, o, TRUE) = topology_spread(c.topology_spread.policy, o, TRUE)
      BY <1>2 DEF PolicyOutputOf
    <2>2. QED
      BY <1>2, <2>1, ConstraintsPatch
  <1>3. CASE n = "image_registry"
    <2>1. PolicyOutputOf(c, n, o, TRUE) = image_registry(c.image_registry.policy, o)
      BY <1>3 DEF PolicyOutputOf
    <2>2. PolicyOutputOf(c, n, o, TRUE).patches = NoPatch
      BY <2>1, NothingOutput
    <2>3. QED
      BY <1>3, <2>2 DEF NoPatch
  <1>4. CASE n = "labels"
    <2>1. PolicyOutputOf(c, n, o, TRUE) = labels(compile_labels(c.labels.policy), o)
      BY <1>4 DEF PolicyOutputOf
    <2>2. PolicyOutputOf(c, n, o, TRUE).patches = NoPatch
      BY <2>1, NothingOutput
    <2>3. QED
      BY <1>4, <2>2 DEF NoPatch
  <1>5. QED
    BY <1>1, <1>2, <1>3, <1>4 DEF PolicyName

-------------------------------------------------------------------------------
(***************************************************************************)
(* All that is added: by every policy that is enabled.                     *)
(***************************************************************************)
LEMMA EvaluationPatch ==
    ASSUME NEW c, NEW o, IsObject(o), NEW request, request.object = {o}
    PROVE  LET patch == AllPatches(evaluate_all(c, request, TRUE)) IN
           AddsExactly(c, o, patch) /\ patch = [l \in DOMAIN patch |-> patch[l]]
  <1> DEFINE results == evaluate_all(c, request, TRUE)
             PatchOf(n) == PolicyOutputOf(c, n, o, TRUE).patches
  <1>1. DOMAIN results = {n \in PolicyName : c[n].enabled}
    BY DEF evaluate_all, policy_enabled
  <1>2. \A n \in DOMAIN results : results[n].patches = PatchOf(n)
    BY DEF evaluate_all, to_result, OutputFor
  <1> HIDE DEF results
  <1>3. \A l : l \in DOMAIN AllPatches(results) <=> \E n \in DOMAIN results : l \in DOMAIN PatchOf(n)
    BY <1>2 DEF AllPatches
  <1>4. ASSUME NEW l
        PROVE  (\E n \in DOMAIN results : l \in DOMAIN PatchOf(n)) <=>
                 \/ InjectsResources(c) /\ ResourceLocation(o, l)
                 \/ InjectsConstraints(c, o) /\ ConstraintsLocation(o, l)
    <2>1. \A n \in DOMAIN results : l \in DOMAIN PatchOf(n) <=>
             \/ /\ n = "resource_limits"
                /\ c.resource_limits.policy.inject_defaults /\ ResourceLocation(o, l)
             \/ /\ n = "topology_spread"
                /\ c.topology_spread.policy.inject_if_missing
                /\ DOMAIN get_pod_labels(o) # {}
                /\ ConstraintsLocation(o, l)
      BY <1>1, PolicyPatch
    <2> HIDE DEF PatchOf
    <2>2. QED
      BY <1>1, <2>1 DEF InjectsResources, InjectsSpread, InjectsConstraints, PolicyName
  <1>5. AddsExactly(c, o, AllPatches(results))
    BY <1>3, <1>4 DEF AddsExactly
  <1>6. AllPatches(results) = [l \in DOMAIN AllPatches(results) |-> AllPatches(results)[l]]
    BY DEF AllPatches
  <1>7. QED
    BY <1>5, <1>6 DEF results

LEMMA AnswerPatch ==
    ASSUME NEW c, NEW o, IsObject(o), NEW request, request.object = {o},
           ~evaluate_panics(c, request)
    PROVE  LET response == handle_webhook(c, request, "mutate") IN
           /\ response.patch = NoPatch \/ AddsExactly(c, o, response.patch)
           /\ response.allowed => AddsExactly(c, o, response.patch)
           /\ response.patch = [l \in DOMAIN response.patch |-> response.patch[l]]
  <1> DEFINE all == AllPatches(evaluate_all(c, request, TRUE))
             response == handle_webhook(c, request, "mutate")
  <1>1. AddsExactly(c, o, all) /\ all = [l \in DOMAIN all |-> all[l]]
    BY EvaluationPatch
  <1>2. NoPatch = [l \in DOMAIN NoPatch |-> NoPatch[l]]
    BY DEF NoPatch
  <1>3. response.patch \in {NoPatch, all} /\ (response.allowed => response.patch = all)
    BY AnswerPatches
  <1> HIDE DEF all, response
  <1>4. QED
    BY <1>1, <1>2, <1>3 DEF response

-------------------------------------------------------------------------------
(***************************************************************************)
(* A patch can be applied.                                                 *)
(***************************************************************************)
LEMMA ResourceHasParent ==
    ASSUME NEW o, NEW l, ResourceLocation(o, l)
    PROVE  HasParent(o, l)
  <1>1. PICK p, i, m :
          /\ p \in DOMAIN o.specs /\ i \in DOMAIN o.specs[p].containers
          /\ m \in MissingLocations(o.specs[p].containers[i].resources)
          /\ l = ResourcesAt(p, i, m[1], m[2])
    BY DEF ResourceLocation
  <1>2. l.prefix = p /\ l.container = i /\ l.section = m[1] /\ l.name = m[2]
    BY <1>1 DEF ResourcesAt
  <1>3. m[2] # Whole => m[1] \in DOMAIN o.specs[p].containers[i].resources
    BY <1>1, MissingAreLocations, MissingLocation
  <1>4. QED
    BY <1>1, <1>2, <1>3 DEF HasParent

LEMMA ConstraintsHasParent ==
    ASSUME NEW o, NEW l, ConstraintsLocation(o, l)
    PROVE  HasParent(o, l)
  BY DEF ConstraintsLocation, ConstraintsAt, HasParent

(* Of two locations missing in a container neither lies in the other. *)
LEMMA MissingApart ==
    ASSUME NEW o, IsObject(o), NEW l, ResourceLocation(o, l), NEW m, ResourceLocation(o, m)
    PROVE  ~Inside(l, m)
  <1> SUFFICES ASSUME Inside(l, m) PROVE FALSE
    OBVIOUS
  <1>1. PICK p, i, a :
          /\ p \in DOMAIN o.specs /\ i \in DOMAIN o.specs[p].containers
          /\ a \in MissingLocations(o.specs[p].containers[i].resources)
          /\ l = ResourcesAt(p, i, a[1], a[2])
    BY DEF ResourceLocation
  <1>2. PICK q, j, b :
          /\ q \in DOMAIN o.specs /\ j \in DOMAIN o.specs[q].containers
          /\ b \in MissingLocations(o.specs[q].containers[j].resources)
          /\ m = ResourcesAt(q, j, b[1], b[2])
    BY DEF ResourceLocation
  <1>3. /\ p = q /\ i = j
        /\ b[1] \in {Whole, a[1]} /\ b[2] = Whole
        /\ a[1] # b[1] \/ a[2] # b[2]
    BY <1>1, <1>2 DEF ResourcesAt, Inside
  <1> DEFINE resources == o.specs[p].containers[i].resources
  <1>4. /\ a = <<a[1], a[2]>> /\ a \in MissingLocations(resources)
        /\ b = <<b[1], b[2]>> /\ b \in MissingLocations(resources)
    BY <1>1, <1>2, <1>3, MissingAreLocations
  <1> HIDE DEF resources
  <1>5. /\ \/ a[1] = Whole /\ a[2] = Whole /\ DOMAIN resources = {}
           \/ a[1] \in Sections /\ a[2] = Whole /\ a[1] \notin DOMAIN resources
           \/ a[1] \in Sections /\ a[2] \in Managed /\ a[1] \in DOMAIN resources
        /\ \/ b[1] = Whole /\ b[2] = Whole /\ DOMAIN resources = {}
           \/ b[1] \in Sections /\ b[2] = Whole /\ b[1] \notin DOMAIN resources
           \/ b[1] \in Sections /\ b[2] \in Managed /\ b[1] \in DOMAIN resources
    BY <1>4, MissingLocation
  <1>6. DOMAIN resources = {} => a = <<Whole, Whole>>
    BY <1>4 DEF MissingLocations
  <1>7. QED
    BY <1>3, <1>4, <1>5, <1>6, SectionNames

LEMMA ConstraintsApart ==
    ASSUME NEW o, IsObject(o), NEW l, NEW m, ResourceLocation(o, l) \/ ConstraintsLocation(o, l),
           ConstraintsLocation(o, m)
    PROVE  ~Inside(l, m) /\ ~Inside(m, l)
  <1>1. PICK q \in DOMAIN o.specs : m = ConstraintsAt(q)
    BY DEF ConstraintsLocation
  <1>2. CASE ConstraintsLocation(o, l)
    BY <1>1, <1>2 DEF ConstraintsLocation, Inside, ConstraintsAt
  <1>3. CASE ResourceLocation(o, l)
    <2>1. PICK p, i :
            /\ p \in DOMAIN o.specs /\ i \in DOMAIN o.specs[p].containers
            /\ l.container = i
      BY <1>3 DEF ResourceLocation, ResourcesAt
    <2>2. l.container # 0
      BY <2>1, ContainerNumbers
    <2>3. QED
      BY <1>1, <2>2 DEF Inside, ConstraintsAt
  <1>4. QED
    BY <1>2, <1>3

LEMMA ExactPatchApplies ==
    ASSUME NEW c, NEW o, IsObject(o), NEW patch, AddsExactly(c, o, patch)
    PROVE  Applies(o, patch) /\ \A l, m \in DOMAIN patch : ~Inside(l, m)
  <1>1. \A l \in DOMAIN patch : ResourceLocation(o, l) \/ ConstraintsLocation(o, l)
    BY DEF AddsExactly
  <1>2. Applies(o, patch)
    BY <1>1, ResourceHasParent, ConstraintsHasParent DEF Applies
  <1>3. QED
    BY <1>1, <1>2, MissingApart, ConstraintsApart

LEMMA AnswerApplies ==
    ASSUME NEW c, NEW o, IsObject(o), NEW request, request.object = {o}
    PROVE  LET patch == handle_webhook(c, request, "mutate").patch IN
           Applies(o, patch) /\ \A l, m \in DOMAIN patch : ~Inside(l, m)
  <1> DEFINE answered == handle_webhook(c, request, "mutate").patch
             Fits(patch) == Applies(o, patch) /\ \A l, m \in DOMAIN patch : ~Inside(l, m)
  <1>1. answered = NoPatch \/ AddsExactly(c, o, answered)
    BY AnswerPatch, PanicAllows
  <1>2. Fits(NoPatch)
    BY DEF NoPatch, Applies
  <1>3. \A patch : AddsExactly(c, o, patch) => Fits(patch)
    BY ExactPatchApplies
  <1> HIDE DEF Fits
  <1>4. Fits(answered)
    BY <1>1, <1>2, <1>3
  <1>5. QED
    BY <1>4 DEF Fits

LEMMA TypedApplies == TypeOK => PatchApplies
  <1> SUFFICES ASSUME TypeOK, NEW r \in Replicas, NEW c \in config[r]
               PROVE  LET patch == handle_webhook(c, Request, "mutate").patch IN
                      Applies(object, patch) /\ \A l, m \in DOMAIN patch : ~Inside(l, m)
    BY DEF PatchApplies
  <1>1. IsObject(object) /\ Request.object = {object}
    BY DEF TypeOK, Request
  <1> HIDE DEF Request
  <1>2. QED
    BY <1>1, AnswerApplies

(* Every patch the webhook answers with can be applied, to objects of any   *)
(* kind, with any resources in any number of containers: what               *)
(* generate_resource_patches adds to is there, and no two of its operations *)
(* get in each other's way.                                                 *)
THEOREM PatchesApply == Spec => []PatchApplies
  <1>1. Spec => []TypeOK
    BY AdmissionTyped
  <1>2. QED
    BY <1>1, TypedApplies, PTL

-------------------------------------------------------------------------------
(***************************************************************************)
(* What a location that is added says about the object and the             *)
(* configuration, one location at a time.                                  *)
(***************************************************************************)
LEMMA ConstraintsAdded ==
    ASSUME NEW c, NEW o, IsObject(o), NEW patch, AddsExactly(c, o, patch),
           NEW p \in DOMAIN o.specs
    PROVE  ConstraintsAt(p) \in DOMAIN patch <=>
                InjectsConstraints(c, o) /\ o.specs[p].constraints = <<>>
  <1>1. ~ResourceLocation(o, ConstraintsAt(p))
    <2> SUFFICES ASSUME ResourceLocation(o, ConstraintsAt(p)) PROVE FALSE
      OBVIOUS
    <2>1. PICK q, i, m :
            /\ q \in DOMAIN o.specs /\ i \in DOMAIN o.specs[q].containers
            /\ ConstraintsAt(p) = ResourcesAt(q, i, m[1], m[2])
      BY DEF ResourceLocation
    <2>2. i = 0
      BY <2>1 DEF ConstraintsAt, ResourcesAt
    <2>3. QED
      BY <2>1, <2>2, ContainerNumbers
  <1>2. ConstraintsLocation(o, ConstraintsAt(p)) <=> o.specs[p].constraints = <<>>
    BY DEF ConstraintsLocation, ConstraintsAt
  <1>3. QED
    BY <1>1, <1>2 DEF AddsExactly

LEMMA ResourceAdded ==
    ASSUME NEW c, NEW o, IsObject(o), NEW patch, AddsExactly(c, o, patch),
           NEW p \in DOMAIN o.specs, NEW i \in DOMAIN o.specs[p].containers, NEW s, NEW n
    PROVE  ResourcesAt(p, i, s, n) \in DOMAIN patch <=>
                /\ InjectsResources(c)
                /\ <<s, n>> \in MissingLocations(o.specs[p].containers[i].resources)
  <1> DEFINE l == ResourcesAt(p, i, s, n)
  <1>1. ~ConstraintsLocation(o, l)
    <2>1. i # 0
      BY ContainerNumbers
    <2>2. QED
      BY <2>1 DEF ConstraintsLocation, ConstraintsAt, ResourcesAt
  <1>2. ASSUME ResourceLocation(o, l)
        PROVE  <<s, n>> \in MissingLocations(o.specs[p].containers[i].resources)
    <2>1. PICK q, j, m :
            /\ q \in DOMAIN o.specs /\ j \in DOMAIN o.specs[q].containers
            /\ m \in MissingLocations(o.specs[q].containers[j].resources)
            /\ l = ResourcesAt(q, j, m[1], m[2])
      BY <1>2 DEF ResourceLocation
    <2>2. q = p /\ j = i /\ m[1] = s /\ m[2] = n
      BY <2>1 DEF ResourcesAt
    <2>3. QED
      BY <2>1, <2>2, MissingAreLocations
  <1>3. ASSUME <<s, n>> \in MissingLocations(o.specs[p].containers[i].resources)
        PROVE  ResourceLocation(o, l)
    <2>1. l = ResourcesAt(p, i, <<s, n>>[1], <<s, n>>[2])
      OBVIOUS
    <2> HIDE DEF l
    <2>2. QED
      BY <1>3, <2>1 DEF ResourceLocation
  <1> HIDE DEF l
  <1>4. QED
    BY <1>1, <1>2, <1>3 DEF AddsExactly, l

-------------------------------------------------------------------------------
(***************************************************************************)
(* The selector of an injected constraint.                                 *)
(***************************************************************************)
LEMMA LabelsOfPods ==
    ASSUME NEW o, DOMAIN get_pod_labels(o) # {}
    PROVE  get_pod_labels(o) \in PodLabels(o)
  <1>1. CASE o.kind = "Pod"
    BY <1>1 DEF get_pod_labels, PodLabels
  <1>2. CASE o.kind # "Pod" /\ TemplateLabels \in DOMAIN o.templateLabels
    <2>1. get_pod_labels(o) = o.templateLabels[TemplateLabels]
      BY <1>2 DEF get_pod_labels
    <2>2. QED
      BY <1>2, <2>1 DEF PodLabels
  <1>3. CASE o.kind # "Pod" /\ TemplateLabels \notin DOMAIN o.templateLabels
    BY <1>3 DEF get_pod_labels, NoLabels
  <1>4. QED
    BY <1>1, <1>2, <1>3

LEMMA AnswerSelectsPods ==
    ASSUME NEW c, NEW o, IsObject(o), NEW patch, AddsMissing(c, o, patch),
           patch = NoPatch \/ AddsExactly(c, o, patch)
    PROVE  NewConstraintsSelectPods(o, Patched(o, patch))
  <1>1. Patched(o, patch).specs = [p \in DOMAIN o.specs |-> PatchedSpec(o.specs[p], p, patch)]
    BY DEF Patched, IsObject
  <1> SUFFICES ASSUME NEW p \in DOMAIN o.specs,
                      PatchedSpec(o.specs[p], p, patch).constraints # o.specs[p].constraints,
                      NEW i \in DOMAIN PatchedSpec(o.specs[p], p, patch).constraints
               PROVE  LET selector == PatchedSpec(o.specs[p], p, patch).constraints[i].selector IN
                      selector \in PodLabels(o) /\ DOMAIN selector # {}
    BY <1>1 DEF NewConstraintsSelectPods
  <1>2. /\ ConstraintsAt(p) \in DOMAIN patch
        /\ PatchedSpec(o.specs[p], p, patch).constraints = patch[ConstraintsAt(p)]
    BY DEF PatchedSpec
  <1>3. patch[ConstraintsAt(p)]
            = InjectedConstraints(c.topology_spread.policy, get_pod_labels(o))
    BY <1>2 DEF AddsMissing, AddsMissingConstraints
  <1>4. DOMAIN get_pod_labels(o) # {}
    <2>1. AddsExactly(c, o, patch)
      BY <1>2 DEF NoPatch
    <2>2. QED
      BY <1>2, <2>1, ConstraintsAdded DEF InjectsSpread, InjectsConstraints
  <1>5. PatchedSpec(o.specs[p], p, patch).constraints[i].selector = get_pod_labels(o)
    BY <1>2, <1>3 DEF InjectedConstraints
  <1>6. QED
    BY <1>4, <1>5, LabelsOfPods

LEMMA MutateSelectsPods ==
    ASSUME TypeOK, NEW r \in Replicas, Mutate(r)
    PROVE  NewConstraintsSelectPods(object, object')
  <1>1. PICK c \in config[r] :
          \/ object' = Patched(object, handle_webhook(c, Request, "mutate").patch)
          \/ object' = object
    BY DEF Mutate
  <1>2. CASE object' = object
    BY <1>2 DEF NewConstraintsSelectPods
  <1>3. CASE object' = Patched(object, handle_webhook(c, Request, "mutate").patch)
    <2> DEFINE patch == handle_webhook(c, Request, "mutate").patch
    <2>1. IsObject(object) /\ Request.object = {object}
      BY DEF TypeOK, Request
    <2>2. AddsMissing(c, object, patch)
      BY <2>1, MutationAddsMissing
    <2>3. patch = NoPatch \/ AddsExactly(c, object, patch)
      BY <2>1, AnswerPatch, PanicAllows
    <2> HIDE DEF patch
    <2>4. NewConstraintsSelectPods(object, Patched(object, patch))
      BY <2>1, <2>2, <2>3, AnswerSelectsPods
    <2>5. QED
      BY <1>3, <2>4 DEF patch
  <1>4. QED
    BY <1>1, <1>2, <1>3

LEMMA StepSelectsPods ==
    TypeOK /\ [Next]_vars => [AtMutation => NewConstraintsSelectPods(object, object')]_vars
  <1> SUFFICES ASSUME TypeOK, [Next]_vars, AtMutation
               PROVE  NewConstraintsSelectPods(object, object')
    OBVIOUS
  <1>1. CASE \E r \in Replicas : Mutate(r)
    BY <1>1, MutateSelectsPods
  <1>2. CASE \A r \in Replicas : ~Mutate(r)
    <2>1. object' = object
      BY <1>2, OnlyAnswersMutate
    <2>2. QED
      BY <2>1 DEF NewConstraintsSelectPods
  <1>3. QED
    BY <1>1, <1>2

(* An injected constraint counts the very pods of the workload, and is      *)
(* never one with an empty selector: where the pods have no labels          *)
(* get_pod_labels leads topology_spread.rs to a violation, not to a patch.  *)
THEOREM InjectedConstraintsSelectPods == Spec => InjectedConstraintSelectsPods
  BY InitTyped, NextTyped, StepSelectsPods, PTL DEF Spec, InjectedConstraintSelectsPods

-------------------------------------------------------------------------------
(***************************************************************************)
(* A container after a patch: complete if the policy injects, and with no  *)
(* amount but those it stated itself and the defaults.                     *)
(***************************************************************************)
Complete(resources) == \A s \in Sections : s \in DOMAIN resources /\ Managed \subseteq DOMAIN resources[s]

LEMMA CompleteLacksNothing ==
    ASSUME NEW resources, Complete(resources)
    PROVE  MissingLocations(resources) = {} /\ BothStated(resources)
  BY DEF Complete, MissingLocations, BothStated, Sections, Managed

LEMMA DefaultsTyped ==
    ASSUME NEW c \in PoliciesConfig
    PROVE  LET defaults == c.resource_limits.policy.defaults IN
           /\ DOMAIN defaults = Sections
           /\ \A s \in Sections : DOMAIN defaults[s] = Managed
           /\ IsResources(defaults)
  <1> DEFINE defaults == c.resource_limits.policy.defaults
  <1>1. defaults \in [Sections -> [Managed -> Quantity]]
    BY DEF PoliciesConfig, PolicyConfig, ResourceLimitsPolicy
  <1>2. \A s \in Sections : IsAmounts(defaults[s])
    BY <1>1, SectionNames DEF IsAmounts, IsMap
  <1>3. QED
    BY <1>1, <1>2 DEF IsResources, IsMap

LEMMA PatchedComplete ==
    ASSUME NEW c \in PoliciesConfig, NEW patch, NEW prefix, NEW i,
           NEW resources, IsResources(resources),
           \A s, n : ResourcesAt(prefix, i, s, n) \in DOMAIN patch <=>
                        <<s, n>> \in MissingLocations(resources),
           \A s, n : ResourcesAt(prefix, i, s, n) \in DOMAIN patch =>
                        patch[ResourcesAt(prefix, i, s, n)]
                            = DefaultAt(c.resource_limits.policy, s, n)
    PROVE  Complete(PatchedResources(resources, prefix, i, patch))
  <1> DEFINE At(s, n) == ResourcesAt(prefix, i, s, n)
             Added(s, n) == At(s, n) \in DOMAIN patch
             defaults == c.resource_limits.policy.defaults
             after == PatchedResources(resources, prefix, i, patch)
  <1>1. CASE DOMAIN resources = {}
    <2>1. Added(Whole, Whole)
      BY <1>1 DEF MissingLocations
    <2>2. after = defaults
      BY <2>1 DEF PatchedResources, DefaultAt
    <2>3. DOMAIN defaults = Sections /\ \A s \in Sections : DOMAIN defaults[s] = Managed
      BY DefaultsTyped
    <2> HIDE DEF after, defaults
    <2>4. Complete(after)
      BY <2>2, <2>3 DEF Complete
    <2>5. QED
      BY <2>4 DEF after
  <1>2. CASE DOMAIN resources # {}
    <2>1. ~Added(Whole, Whole)
      BY <1>2, MissingLocation, SectionNames
    <2>2. /\ DOMAIN after = {s \in Sections : s \in DOMAIN resources \/ Added(s, Whole)}
          /\ \A s \in DOMAIN after :
               after[s] = IF Added(s, Whole) THEN patch[At(s, Whole)]
                          ELSE [n \in {n \in ResourceNames : n \in DOMAIN resources[s] \/ Added(s, n)} |->
                                    IF Added(s, n) THEN patch[At(s, n)] ELSE resources[s][n]]
      BY <2>1 DEF PatchedResources
    <2> HIDE DEF after
    <2>3. ASSUME NEW s \in Sections
          PROVE  s \in DOMAIN after /\ Managed \subseteq DOMAIN after[s]
      <3>1. CASE s \notin DOMAIN resources
        <4>1. Added(s, Whole)
          <5>1. <<s, Whole>> \in MissingLocations(resources)
            BY <1>2, <3>1 DEF MissingLocations
          <5>2. QED
            BY <5>1
        <4>2. patch[At(s, Whole)] = defaults[s]
          BY <4>1, SectionNames DEF DefaultAt
        <4>3. s \in DOMAIN after /\ after[s] = defaults[s]
          BY <2>2, <4>1, <4>2
        <4>4. QED
          BY <4>3, DefaultsTyped
      <3>2. CASE s \in DOMAIN resources
        <4>1. ~Added(s, Whole)
          BY <3>2, MissingLocation, SectionNames
        <4>2. \A n \in Managed : n \in DOMAIN resources[s] \/ Added(s, n)
          BY <1>2, <3>2 DEF MissingLocations
        <4>3. s \in DOMAIN after
          BY <2>2, <3>2
        <4>4. after[s] = [n \in {n \in ResourceNames : n \in DOMAIN resources[s] \/ Added(s, n)} |->
                            IF Added(s, n) THEN patch[At(s, n)] ELSE resources[s][n]]
          BY <2>2, <4>1, <4>3
        <4>5. QED
          BY <4>2, <4>3, <4>4, SectionNames
      <3>3. QED
        BY <3>1, <3>2
    <2>4. QED
      BY <2>3 DEF Complete, after
  <1>3. QED
    BY <1>1, <1>2

LEMMA PatchedAmounts ==
    ASSUME NEW c \in PoliciesConfig, NEW patch, NEW prefix, NEW i,
           NEW resources, IsResources(resources),
           \A s, n : ResourcesAt(prefix, i, s, n) \in DOMAIN patch =>
                        /\ <<s, n>> \in MissingLocations(resources)
                        /\ patch[ResourcesAt(prefix, i, s, n)]
                             = DefaultAt(c.resource_limits.policy, s, n),
           NEW s \in DOMAIN PatchedResources(resources, prefix, i, patch),
           NEW n \in DOMAIN PatchedResources(resources, prefix, i, patch)[s]
    PROVE  LET amount == PatchedResources(resources, prefix, i, patch)[s][n]
               defaults == c.resource_limits.policy.defaults
           IN
           \/ s \in DOMAIN resources /\ n \in DOMAIN resources[s] /\ amount = resources[s][n]
           \/ /\ \E t, m : ResourcesAt(prefix, i, t, m) \in DOMAIN patch
              /\ s \in DOMAIN defaults /\ n \in DOMAIN defaults[s] /\ amount = defaults[s][n]
  <1> DEFINE At(t, m) == ResourcesAt(prefix, i, t, m)
             Added(t, m) == At(t, m) \in DOMAIN patch
             defaults == c.resource_limits.policy.defaults
             after == PatchedResources(resources, prefix, i, patch)
  <1>1. CASE Added(Whole, Whole)
    <2>1. after = defaults
      BY <1>1 DEF PatchedResources, DefaultAt
    <2>2. QED
      BY <1>1, <2>1
  <1>2. CASE ~Added(Whole, Whole)
    <2>1. /\ s \in Sections
          /\ s \in DOMAIN resources \/ Added(s, Whole)
          /\ after[s] = IF Added(s, Whole) THEN patch[At(s, Whole)]
                        ELSE [m \in {m \in ResourceNames : m \in DOMAIN resources[s] \/ Added(s, m)} |->
                                IF Added(s, m) THEN patch[At(s, m)] ELSE resources[s][m]]
      BY <1>2 DEF PatchedResources
    <2>2. CASE Added(s, Whole)
      <3>1. patch[At(s, Whole)] = defaults[s]
        BY <2>1, <2>2, SectionNames DEF DefaultAt
      <3>2. after[s] = defaults[s]
        BY <2>1, <2>2, <3>1
      <3>3. QED
        BY <2>1, <2>2, <3>2, DefaultsTyped
    <2>3. CASE ~Added(s, Whole)
      <3>1. /\ n \in ResourceNames
            /\ n \in DOMAIN resources[s] \/ Added(s, n)
            /\ after[s][n] = IF Added(s, n) THEN patch[At(s, n)] ELSE resources[s][n]
        BY <2>1, <2>3
      <3>2. CASE Added(s, n)
        <4>1. n \in Managed
          BY <2>1, <3>1, <3>2, MissingLocation, SectionNames
        <4>2. patch[At(s, n)] = defaults[s][n]
          BY <2>1, <3>2, <4>1, SectionNames DEF DefaultAt
        <4>3. s \in DOMAIN defaults /\ n \in DOMAIN defaults[s]
          BY <2>1, <4>1, DefaultsTyped
        <4>4. QED
          BY <3>1, <3>2, <4>2, <4>3
      <3>3. CASE ~Added(s, n)
        BY <2>1, <2>3, <3>1, <3>3
      <3>4. QED
        BY <3>2, <3>3
    <2>4. QED
      BY <2>2, <2>3
  <1>3. QED
    BY <1>1, <1>2

-------------------------------------------------------------------------------
(***************************************************************************)
(* The object a patch was applied to: nothing can be added to it any more. *)
(***************************************************************************)
LEMMA PatchedFields ==
    ASSUME NEW o, IsObject(o), NEW patch
    PROVE  LET after == Patched(o, patch) IN
           /\ after.kind = o.kind /\ after.labels = o.labels
           /\ get_pod_labels(after) = get_pod_labels(o)
           /\ DOMAIN after.specs = DOMAIN o.specs
           /\ \A p \in DOMAIN o.specs :
                /\ DOMAIN after.specs[p].containers = DOMAIN o.specs[p].containers
                /\ \A i \in DOMAIN o.specs[p].containers :
                     after.specs[p].containers[i].resources
                        = PatchedResources(o.specs[p].containers[i].resources, p, i, patch)
                /\ after.specs[p].constraints
                     = IF ConstraintsAt(p) \in DOMAIN patch
                       THEN patch[ConstraintsAt(p)] ELSE o.specs[p].constraints
  <1> DEFINE after == Patched(o, patch)
  <1>1. /\ after.kind = o.kind /\ after.labels = o.labels
        /\ after.templateLabels = o.templateLabels
        /\ after.specs = [p \in DOMAIN o.specs |-> PatchedSpec(o.specs[p], p, patch)]
    BY DEF Patched, IsObject
  <1> HIDE DEF after
  <1>2. get_pod_labels(after) = get_pod_labels(o)
    <2>1. CASE o.kind = "Pod"
      BY <1>1, <2>1 DEF get_pod_labels
    <2>2. CASE o.kind # "Pod" /\ TemplateLabels \in DOMAIN o.templateLabels
      BY <1>1, <2>2 DEF get_pod_labels
    <2>3. CASE o.kind # "Pod" /\ TemplateLabels \notin DOMAIN o.templateLabels
      BY <1>1, <2>3 DEF get_pod_labels
    <2>4. QED
      BY <2>1, <2>2, <2>3
  <1>3. ASSUME NEW p \in DOMAIN o.specs
        PROVE  LET spec == PatchedSpec(o.specs[p], p, patch) IN
               /\ DOMAIN spec.containers = DOMAIN o.specs[p].containers
               /\ \A i \in DOMAIN o.specs[p].containers :
                    spec.containers[i].resources
                        = PatchedResources(o.specs[p].containers[i].resources, p, i, patch)
               /\ spec.constraints = IF ConstraintsAt(p) \in DOMAIN patch
                                     THEN patch[ConstraintsAt(p)] ELSE o.specs[p].constraints
    <2>1. \A i \in DOMAIN o.specs[p].containers : IsContainer(o.specs[p].containers[i])
      BY DEF IsObject, IsPodSpec
    <2>2. QED
      BY <2>1 DEF PatchedSpec, IsContainer
  <1>4. QED
    BY <1>1, <1>2, <1>3 DEF after

LEMMA NoResourceMissing ==
    ASSUME NEW c \in PoliciesConfig, InjectsResources(c), NEW o, IsObject(o),
           NEW patch, AddsMissing(c, o, patch), AddsExactly(c, o, patch),
           NEW p \in DOMAIN o.specs, NEW i \in DOMAIN o.specs[p].containers
    PROVE  Complete(PatchedResources(o.specs[p].containers[i].resources, p, i, patch))
  <1> DEFINE resources == o.specs[p].containers[i].resources
  <1>1. IsResources(resources)
    BY DEF IsObject, IsPodSpec, IsContainer
  <1>2. \A s, n : ResourcesAt(p, i, s, n) \in DOMAIN patch <=> <<s, n>> \in MissingLocations(resources)
    BY ResourceAdded
  <1>3. \A s, n : ResourcesAt(p, i, s, n) \in DOMAIN patch =>
            patch[ResourcesAt(p, i, s, n)] = DefaultAt(c.resource_limits.policy, s, n)
    BY DEF AddsMissing, AddsMissingResources
  <1> HIDE DEF resources
  <1>4. Complete(PatchedResources(resources, p, i, patch))
    BY <1>1, <1>2, <1>3, PatchedComplete
  <1>5. QED
    BY <1>4 DEF resources

LEMMA NoneAddedTwice ==
    ASSUME NEW c \in PoliciesConfig, NEW o, IsObject(o),
           NEW patch, AddsMissing(c, o, patch), AddsExactly(c, o, patch)
    PROVE  LET after == Patched(o, patch) IN
           \A l : /\ ~(InjectsResources(c) /\ ResourceLocation(after, l))
                  /\ ~(InjectsConstraints(c, after) /\ ConstraintsLocation(after, l))
  <1> DEFINE after == Patched(o, patch)
  <1> SUFFICES ASSUME NEW l
               PROVE  /\ ~(InjectsResources(c) /\ ResourceLocation(after, l))
                      /\ ~(InjectsConstraints(c, after) /\ ConstraintsLocation(after, l))
    OBVIOUS
  <1>1. /\ get_pod_labels(after) = get_pod_labels(o)
        /\ DOMAIN after.specs = DOMAIN o.specs
        /\ \A p \in DOMAIN o.specs :
             /\ DOMAIN after.specs[p].containers = DOMAIN o.specs[p].containers
             /\ \A i \in DOMAIN o.specs[p].containers :
                  after.specs[p].containers[i].resources
                     = PatchedResources(o.specs[p].containers[i].resources, p, i, patch)
             /\ after.specs[p].constraints
                  = IF ConstraintsAt(p) \in DOMAIN patch
                    THEN patch[ConstraintsAt(p)] ELSE o.specs[p].constraints
    BY PatchedFields
  <1> HIDE DEF after
  <1>2. ASSUME InjectsResources(c), ResourceLocation(after, l)
        PROVE  FALSE
    <2>1. PICK p, i, m :
            /\ p \in DOMAIN o.specs /\ i \in DOMAIN o.specs[p].containers
            /\ m \in MissingLocations(after.specs[p].containers[i].resources)
      BY <1>1, <1>2 DEF ResourceLocation
    <2>2. Complete(after.specs[p].containers[i].resources)
      BY <1>1, <1>2, <2>1, NoResourceMissing
    <2>3. QED
      BY <2>1, <2>2, CompleteLacksNothing
  <1>3. ASSUME InjectsConstraints(c, after), ConstraintsLocation(after, l)
        PROVE  FALSE
    <2>1. PICK p \in DOMAIN o.specs : after.specs[p].constraints = <<>>
      BY <1>1, <1>3 DEF ConstraintsLocation
    <2>2. InjectsConstraints(c, o)
      BY <1>1, <1>3 DEF InjectsSpread, InjectsConstraints
    <2>3. CASE ConstraintsAt(p) \in DOMAIN patch
      <3>1. after.specs[p].constraints
                = InjectedConstraints(c.topology_spread.policy, get_pod_labels(o))
        BY <1>1, <2>3 DEF AddsMissing, AddsMissingConstraints
      <3>2. \A policy, selector : InjectedConstraints(policy, selector) # <<>>
        BY DEF InjectedConstraints
      <3>3. QED
        BY <2>1, <3>1, <3>2
    <2>4. CASE ConstraintsAt(p) \notin DOMAIN patch
      <3>1. o.specs[p].constraints # <<>>
        BY <2>2, <2>4, ConstraintsAdded
      <3>2. QED
        BY <1>1, <2>1, <2>4, <3>1
    <2>5. QED
      BY <2>3, <2>4
  <1>4. QED
    BY <1>2, <1>3

(* The answer of a configuration to an object it has itself patched adds nothing. *)
LEMMA SecondPatch ==
    ASSUME NEW c \in PoliciesConfig, NEW o, IsObject(o),
           NEW patch, AddsMissing(c, o, patch), AddsExactly(c, o, patch),
           NEW again, again.object = {Patched(o, patch)}
    PROVE  handle_webhook(c, again, "mutate").patch = NoPatch
  <1> DEFINE after == Patched(o, patch)
             second == handle_webhook(c, again, "mutate").patch
  <1>1. IsObject(after)
    BY PatchedTyped
  <1>2. CASE evaluate_panics(c, again)
    BY <1>2, PanicAllows
  <1>3. CASE ~evaluate_panics(c, again)
    <2>1. /\ second = NoPatch \/ AddsExactly(c, after, second)
          /\ second = [l \in DOMAIN second |-> second[l]]
      BY <1>1, <1>3, AnswerPatch
    <2>2. \A l : /\ ~(InjectsResources(c) /\ ResourceLocation(after, l))
                 /\ ~(InjectsConstraints(c, after) /\ ConstraintsLocation(after, l))
      BY NoneAddedTwice
    <2> HIDE DEF after, second
    <2>3. AddsExactly(c, after, second) => DOMAIN second = {}
      BY <2>2 DEF AddsExactly
    <2>4. second = NoPatch
      BY <2>1, <2>3 DEF NoPatch
    <2>5. QED
      BY <2>4 DEF second
  <1>4. QED
    BY <1>2, <1>3

-------------------------------------------------------------------------------
(***************************************************************************)
(* And what was allowed is compliant once it is patched, under defaults    *)
(* that fit the caps.                                                      *)
(***************************************************************************)
ComesFrom(sources, resources) ==
    \A s \in DOMAIN resources : \A n \in DOMAIN resources[s] : \E r \in sources :
        s \in DOMAIN r /\ n \in DOMAIN r[s] /\ resources[s][n] = r[s][n]

LEMMA WithinFromSources ==
    ASSUME NEW sources, NEW resources, ComesFrom(sources, resources), NEW name \in Managed, NEW cap,
           \A r \in sources : Within(Readable(r), name, cap)
    PROVE  Within(Readable(resources), name, cap)
  <1> SUFFICES ASSUME NEW s \in DOMAIN resources, name \in DOMAIN resources[s],
                      Reading(name, resources[s][name]) # {}
               PROVE  Amount(resources[s][name]) <= cap
    BY ReadableWithin
  <1>1. PICK r \in sources :
          s \in DOMAIN r /\ name \in DOMAIN r[s] /\ resources[s][name] = r[s][name]
    BY DEF ComesFrom
  <1>2. Within(Readable(r), name, cap)
    OBVIOUS
  <1>3. Amount(r[s][name]) <= cap
    BY <1>1, <1>2, ReadableWithin
  <1>4. QED
    BY <1>1, <1>3

LEMMA CapsFromSources ==
    ASSUME NEW policy, NEW sources, NEW resources, ComesFrom(sources, resources),
           \A r \in sources : WithinCaps(policy, Readable(r))
    PROVE  WithinCaps(policy, Readable(resources))
  <1>1. "cpu" \in Managed /\ "memory" \in Managed
    BY DEF Managed
  <1>2. \A max_cpu \in policy.max_cpu_millicores : Within(Readable(resources), "cpu", max_cpu)
    BY <1>1, WithinFromSources DEF WithinCaps
  <1>3. \A max_mem_mb \in policy.max_memory_mb :
          Within(Readable(resources), "memory", max_mem_mb * Kibi * Kibi * Kilo)
    <2> SUFFICES ASSUME NEW max_mem_mb \in policy.max_memory_mb
                 PROVE  Within(Readable(resources), "memory", max_mem_mb * Kibi * Kibi * Kilo)
      OBVIOUS
    <2> DEFINE cap == max_mem_mb * Kibi * Kibi * Kilo
    <2>1. \A r \in sources : Within(Readable(r), "memory", cap)
      BY DEF WithinCaps
    <2> HIDE DEF cap
    <2>2. Within(Readable(resources), "memory", cap)
      BY <1>1, <2>1, WithinFromSources
    <2>3. QED
      BY <2>2 DEF cap
  <1>4. QED
    BY <1>2, <1>3 DEF WithinCaps

LEMMA KeptStated ==
    ASSUME NEW before, NEW after, Keeps(before, after), BothStated(before)
    PROVE  BothStated(after)
  BY DEF Keeps, BothStated

LEMMA PatchedComesFrom ==
    ASSUME NEW c \in PoliciesConfig, NEW o, IsObject(o),
           NEW patch, AddsMissing(c, o, patch), AddsExactly(c, o, patch),
           NEW p \in DOMAIN o.specs, NEW i \in DOMAIN o.specs[p].containers
    PROVE  LET resources == o.specs[p].containers[i].resources IN
           ComesFrom({resources} \cup Given(InjectsResources(c), c.resource_limits.policy.defaults),
                     PatchedResources(resources, p, i, patch))
  <1> DEFINE policy == c.resource_limits.policy
             resources == o.specs[p].containers[i].resources
             after == PatchedResources(resources, p, i, patch)
             sources == {resources} \cup Given(InjectsResources(c), policy.defaults)
  <1>1. IsResources(resources)
    BY DEF IsObject, IsPodSpec, IsContainer
  <1>2. \A s, n : ResourcesAt(p, i, s, n) \in DOMAIN patch =>
                    /\ <<s, n>> \in MissingLocations(resources)
                    /\ patch[ResourcesAt(p, i, s, n)] = DefaultAt(policy, s, n)
    BY DEF AddsMissing, AddsMissingResources
  <1>3. (\E s, n : ResourcesAt(p, i, s, n) \in DOMAIN patch) => InjectsResources(c)
    BY ResourceAdded
  <1>4. ASSUME NEW s \in DOMAIN after, NEW n \in DOMAIN after[s]
        PROVE  \E r \in sources : s \in DOMAIN r /\ n \in DOMAIN r[s] /\ after[s][n] = r[s][n]
    <2>1. \/ s \in DOMAIN resources /\ n \in DOMAIN resources[s] /\ after[s][n] = resources[s][n]
          \/ /\ \E t, m : ResourcesAt(p, i, t, m) \in DOMAIN patch
             /\ s \in DOMAIN policy.defaults /\ n \in DOMAIN policy.defaults[s]
             /\ after[s][n] = policy.defaults[s][n]
      BY <1>1, <1>2, PatchedAmounts
    <2> HIDE DEF after, resources
    <2>2. QED
      BY <1>3, <2>1 DEF Given
  <1> HIDE DEF after, sources
  <1>5. ComesFrom(sources, after)
    BY <1>4 DEF ComesFrom
  <1>6. QED
    BY <1>5 DEF after, sources

(* What is complete, or already has both sections, obeys with both. *)
LEMMA PatchedStated ==
    ASSUME NEW c \in PoliciesConfig, NEW o, IsObject(o),
           NEW patch, AddsMissing(c, o, patch), AddsExactly(c, o, patch),
           NEW p \in DOMAIN o.specs, NEW i \in DOMAIN o.specs[p].containers
    PROVE  BothStated(PatchedResources(o.specs[p].containers[i].resources, p, i, patch)) <=>
                InjectsResources(c) \/ BothStated(o.specs[p].containers[i].resources)
  <1> DEFINE resources == o.specs[p].containers[i].resources
             after == PatchedResources(resources, p, i, patch)
  <1>1. CASE InjectsResources(c)
    <2>1. Complete(after)
      BY <1>1, NoResourceMissing
    <2> HIDE DEF after
    <2>2. BothStated(after)
      BY <2>1, CompleteLacksNothing
    <2>3. QED
      BY <1>1, <2>2 DEF after
  <1>2. CASE ~InjectsResources(c)
    <2>1. IsResources(resources)
      BY DEF IsObject, IsPodSpec, IsContainer
    <2>2. Keeps(resources, after)
      BY <2>1, ResourcesKept DEF AddsMissing, AddsMissingResources
    <2>3. ComesFrom({resources}, after)
      <3>1. {resources} \cup Given(InjectsResources(c), c.resource_limits.policy.defaults) = {resources}
        BY <1>2 DEF Given
      <3> HIDE DEF resources
      <3>2. QED
        BY <3>1, PatchedComesFrom DEF resources
    <2> HIDE DEF after, resources
    <2>4. BothStated(resources) => BothStated(after)
      BY <2>2, KeptStated
    <2>5. BothStated(after) => BothStated(resources)
      BY <2>3 DEF ComesFrom, BothStated
    <2>6. QED
      BY <1>2, <2>4, <2>5 DEF after, resources
  <1>3. QED
    BY <1>1, <1>2

LEMMA PatchedResourcesObey ==
    ASSUME NEW c \in PoliciesConfig, DefaultsFit(c), c.resource_limits.enabled,
           NEW o, IsObject(o), has_pod_spec(o),
           NEW patch, AddsMissing(c, o, patch), AddsExactly(c, o, patch),
           resource_limits(c.resource_limits.policy, o, TRUE).violations = {},
           NEW p \in DOMAIN o.specs, NEW i \in DOMAIN o.specs[p].containers
    PROVE  LET after == PatchedResources(o.specs[p].containers[i].resources, p, i, patch) IN
           BothStated(after) /\ WithinCaps(c.resource_limits.policy, Readable(after))
  <1> DEFINE policy == c.resource_limits.policy
             container == o.specs[p].containers[i]
             resources == container.resources
             after == PatchedResources(resources, p, i, patch)
             sources == {resources} \cup Given(InjectsResources(c), policy.defaults)
  <1>1. policy \in ResourceLimitsPolicy /\ IsResources(resources)
    BY DEF PoliciesConfig, PolicyConfig, IsObject, IsPodSpec, IsContainer
  <1>2. /\ MissingResources(policy, container, i, TRUE) = {}
        /\ CpuAboveCap(policy, container, i) = {}
        /\ MemoryAboveCap(policy, container, i) = {}
    <2>1. o.specs[p] = get_pod_spec(o)
      BY OnlyPodSpec
    <2> DEFINE Found(j) == MissingResources(policy, o.specs[p].containers[j], j, TRUE)
                           \cup CpuAboveCap(policy, o.specs[p].containers[j], j)
                           \cup MemoryAboveCap(policy, o.specs[p].containers[j], j)
    <2>2. resource_limits(policy, o, TRUE).violations
            = UNION {Found(j) : j \in DOMAIN o.specs[p].containers}
      BY <2>1 DEF resource_limits, resource_limits_spec, PolicyOutput
    <2> HIDE DEF Found
    <2>3. Found(i) = {}
      BY <2>2
    <2>4. QED
      BY <2>3 DEF Found
  <1>3. BothStated(after)
    <2>1. InjectsResources(c) \/ BothStated(resources)
      BY <1>2 DEF MissingResources, Given, Stated, BothStated, InjectsResources
    <2>2. QED
      BY <2>1, PatchedStated
  <1>4. \A r \in sources : WithinCaps(policy, Readable(r))
    <2>1. WithinCaps(policy, Readable(resources))
      BY <1>1, <1>2, CpuJudged, MemoryJudged DEF WithinCaps
    <2>2. InjectsResources(c) => WithinCaps(policy, Readable(policy.defaults))
      BY DEF DefaultsFit, InjectsResources
    <2> HIDE DEF policy, resources
    <2>3. QED
      BY <2>1, <2>2 DEF Given
  <1>5. ComesFrom(sources, after)
    BY PatchedComesFrom
  <1> HIDE DEF after, sources
  <1>6. WithinCaps(policy, Readable(after))
    BY <1>4, <1>5, CapsFromSources
  <1>7. QED
    BY <1>3, <1>6 DEF after

LEMMA PatchedConstraintsObey ==
    ASSUME NEW c \in PoliciesConfig, c.topology_spread.enabled,
           NEW o, IsObject(o),
           NEW patch, AddsMissing(c, o, patch), AddsExactly(c, o, patch),
           topology_spread(c.topology_spread.policy, o, TRUE).violations = {}
    PROVE  Obeys(c, "topology_spread", Patched(o, patch))
  <1> DEFINE policy == c.topology_spread.policy
             after == Patched(o, patch)
  <1>1. /\ DOMAIN after.specs = DOMAIN o.specs
        /\ \A p \in DOMAIN o.specs :
             after.specs[p].constraints = IF ConstraintsAt(p) \in DOMAIN patch
                                          THEN patch[ConstraintsAt(p)] ELSE o.specs[p].constraints
    BY PatchedFields
  <1>2. ASSUME NEW p \in DOMAIN o.specs
        PROVE  ObeysTopologySpread(policy, after.specs[p])
    <2>1. has_pod_spec(o) /\ o.specs[p] = get_pod_spec(o)
      BY OnlyPodSpec
    <2>2. CASE o.specs[p].constraints = <<>>
      <3>1. policy.inject_if_missing /\ DOMAIN get_pod_labels(o) # {}
        BY <2>1, <2>2 DEF topology_spread, topology_spread_spec, PolicyOutput, Given
      <3>2. ConstraintsAt(p) \in DOMAIN patch
        BY <2>2, <3>1, ConstraintsAdded DEF InjectsSpread, InjectsConstraints
      <3>3. after.specs[p].constraints = InjectedConstraints(policy, get_pod_labels(o))
        BY <1>1, <3>2 DEF AddsMissing, AddsMissingConstraints
      <3>4. policy.max_skew \in Int
        BY DEF PoliciesConfig, PolicyConfig, TopologySpreadPolicy
      <3> HIDE DEF policy, after
      <3>5. QED
        BY <3>3, <3>4 DEF ObeysTopologySpread, InjectedConstraints
    <2>3. CASE o.specs[p].constraints # <<>>
      <3>1. topology_spread(policy, o, FALSE).violations = {}
        BY <2>1, <2>3 DEF topology_spread, topology_spread_spec, PolicyOutput, Given
      <3>2. ObeysTopologySpread(policy, o.specs[p])
        BY <3>1, TopologyJudged DEF Obeys
      <3>3. after.specs[p].constraints = o.specs[p].constraints
        BY <1>1, <2>3, ConstraintsAdded
      <3>4. QED
        BY <3>2, <3>3 DEF ObeysTopologySpread
    <2>4. QED
      BY <2>2, <2>3
  <1> HIDE DEF after
  <1>3. QED
    BY <1>1, <1>2 DEF Obeys, after

LEMMA PatchedImagesObey ==
    ASSUME NEW c, NEW o, NEW after, OnlyAdds(o, after)
    PROVE  Obeys(c, "image_registry", after) <=> Obeys(c, "image_registry", o)
  <1>1. ASSUME NEW p \in DOMAIN o.specs
        PROVE  ObeysImageRegistry(c.image_registry.policy, after.specs[p]) <=>
                    ObeysImageRegistry(c.image_registry.policy, o.specs[p])
    <2>1. /\ DOMAIN after.specs[p].containers = DOMAIN o.specs[p].containers
          /\ \A i \in DOMAIN o.specs[p].containers :
                after.specs[p].containers[i].image = o.specs[p].containers[i].image
      BY DEF OnlyAdds, KeepsSpec
    <2>2. QED
      BY <2>1 DEF ObeysImageRegistry
  <1>2. QED
    BY <1>1 DEF Obeys, OnlyAdds

LEMMA PatchedLabelsObey ==
    ASSUME NEW c, NEW o, NEW after, OnlyAdds(o, after)
    PROVE  Obeys(c, "labels", after) <=> Obeys(c, "labels", o)
  BY DEF Obeys, ObeysLabels, OnlyAdds

LEMMA PatchedIsCompliant ==
    ASSUME NEW c \in PoliciesConfig, DefaultsFit(c), NEW o, IsObject(o),
           NEW request, request.object = {o}, ~evaluate_panics(c, request),
           handle_webhook(c, request, "mutate").allowed,
           NEW patch, AddsMissing(c, o, patch), AddsExactly(c, o, patch)
    PROVE  Compliant(c, Patched(o, patch))
  <1> DEFINE after == Patched(o, patch)
  <1> SUFFICES ASSUME NEW n \in Enforced(c) PROVE Obeys(c, n, after)
    BY DEF Compliant
  <1>1. n \in PolicyName /\ c[n].enabled
    BY DEF Enforced
  <1>2. PolicyOutputOf(c, n, o, TRUE).violations = {}
    BY Verdict
  <1>3. OnlyAdds(o, after)
    BY PatchedAdds
  <1>4. CASE n = "resource_limits"
    <2>1. PolicyOutputOf(c, n, o, TRUE) = resource_limits(c.resource_limits.policy, o, TRUE)
      BY <1>4 DEF PolicyOutputOf
    <2>2. resource_limits(c.resource_limits.policy, o, TRUE).violations = {}
      BY <1>2, <2>1
    <2>3. c.resource_limits.enabled
      BY <1>1, <1>4
    <2>4. ASSUME NEW p \in DOMAIN o.specs, NEW i \in DOMAIN o.specs[p].containers
          PROVE  LET resources == after.specs[p].containers[i].resources IN
                 /\ BothStated(resources)
                 /\ WithinCaps(c.resource_limits.policy, Readable(resources))
      <3>1. after.specs[p].containers[i].resources
              = PatchedResources(o.specs[p].containers[i].resources, p, i, patch)
        BY PatchedFields
      <3>2. has_pod_spec(o)
        BY OnlyPodSpec
      <3> HIDE DEF after
      <3>3. LET resources == PatchedResources(o.specs[p].containers[i].resources, p, i, patch) IN
            BothStated(resources) /\ WithinCaps(c.resource_limits.policy, Readable(resources))
        BY <2>2, <2>3, <3>2, PatchedResourcesObey
      <3>4. QED
        BY <3>1, <3>3
    <2>5. /\ DOMAIN after.specs = DOMAIN o.specs
          /\ \A p \in DOMAIN o.specs :
               DOMAIN after.specs[p].containers = DOMAIN o.specs[p].containers
      BY PatchedFields
    <2> HIDE DEF after
    <2>6. QED
      BY <1>4, <2>4, <2>5 DEF Obeys, ObeysResourceLimits
  <1>5. CASE n = "topology_spread"
    <2>1. PolicyOutputOf(c, n, o, TRUE) = topology_spread(c.topology_spread.policy, o, TRUE)
      BY <1>5 DEF PolicyOutputOf
    <2>2. topology_spread(c.topology_spread.policy, o, TRUE).violations = {}
      BY <1>2, <2>1
    <2>3. c.topology_spread.enabled
      BY <1>1, <1>5
    <2>4. QED
      BY <1>5, <2>2, <2>3, PatchedConstraintsObey
  <1>6. CASE n = "image_registry"
    <2>1. PolicyOutputOf(c, n, o, TRUE) = image_registry(c.image_registry.policy, o)
      BY <1>6 DEF PolicyOutputOf
    <2>2. Obeys(c, "image_registry", o)
      BY <1>2, <2>1, ImagesJudged
    <2>3. QED
      BY <1>3, <1>6, <2>2, PatchedImagesObey
  <1>7. CASE n = "labels"
    <2>1. PolicyOutputOf(c, n, o, TRUE) = labels(compile_labels(c.labels.policy), o)
      BY <1>7 DEF PolicyOutputOf
    <2>2. Obeys(c, "labels", o)
      BY <1>2, <2>1, LabelsJudged
    <2>3. QED
      BY <1>3, <1>7, <2>2, PatchedLabelsObey
  <1>8. QED
    BY <1>1, <1>4, <1>5, <1>6, <1>7 DEF PolicyName

-------------------------------------------------------------------------------
(***************************************************************************)
(* An evaluation that panics adds nothing, and an empty patch changes      *)
(* nothing.                                                                *)
(***************************************************************************)
LEMMA NothingPatchedIn ==
    ASSUME NEW resources, IsResources(resources), NEW prefix, NEW i
    PROVE  PatchedResources(resources, prefix, i, NoPatch) = resources
  <1> DEFINE amounts(s) == [n \in {n \in ResourceNames : n \in DOMAIN resources[s]} |-> resources[s][n]]
  <1>1. PatchedResources(resources, prefix, i, NoPatch)
            = [s \in {s \in Sections : s \in DOMAIN resources} |-> amounts(s)]
    BY DEF PatchedResources, NoPatch
  <1>2. ASSUME NEW s \in DOMAIN resources
        PROVE  amounts(s) = resources[s]
    <2>1. /\ DOMAIN resources[s] \subseteq ResourceNames
          /\ resources[s] = [n \in DOMAIN resources[s] |-> resources[s][n]]
      BY DEF IsResources, IsAmounts, IsMap
    <2>2. {n \in ResourceNames : n \in DOMAIN resources[s]} = DOMAIN resources[s]
      BY <2>1
    <2>3. QED
      BY <2>1, <2>2
  <1>3. /\ {s \in Sections : s \in DOMAIN resources} = DOMAIN resources
        /\ resources = [s \in DOMAIN resources |-> resources[s]]
    BY DEF IsResources, IsMap
  <1> HIDE DEF amounts
  <1>4. QED
    BY <1>1, <1>2, <1>3

LEMMA NothingPatched ==
    ASSUME NEW o, IsObject(o)
    PROVE  Patched(o, NoPatch) = o
  <1>1. ASSUME NEW p \in DOMAIN o.specs
        PROVE  PatchedSpec(o.specs[p], p, NoPatch) = o.specs[p]
    <2> DEFINE spec == o.specs[p]
               containers == [i \in DOMAIN spec.containers |->
                                [spec.containers[i] EXCEPT
                                    !.resources = PatchedResources(@, p, i, NoPatch)]]
    <2>1. IsPodSpec(spec)
      BY DEF IsObject
    <2>2. PatchedSpec(spec, p, NoPatch)
            = [containers |-> containers, constraints |-> spec.constraints]
      BY DEF PatchedSpec, NoPatch
    <2>3. ASSUME NEW i \in DOMAIN spec.containers
          PROVE  containers[i] = spec.containers[i]
      <3> DEFINE container == spec.containers[i]
      <3>1. IsContainer(container) /\ IsResources(container.resources)
        BY <2>1 DEF IsPodSpec, IsContainer
      <3>2. PatchedResources(container.resources, p, i, NoPatch) = container.resources
        BY <3>1, NothingPatchedIn
      <3>3. containers[i] = [container EXCEPT !.resources = container.resources]
        BY <3>2
      <3> HIDE DEF container, containers
      <3>4. containers[i] = container
        BY <3>1, <3>3 DEF IsContainer
      <3>5. QED
        BY <3>4 DEF container
    <2>4. spec.containers = [i \in DOMAIN spec.containers |-> spec.containers[i]]
      BY <2>1, SequenceDomain DEF IsPodSpec
    <2>5. /\ DOMAIN containers = DOMAIN spec.containers
          /\ containers = [i \in DOMAIN spec.containers |-> containers[i]]
      OBVIOUS
    <2> HIDE DEF containers, spec
    <2>6. containers = spec.containers
      BY <2>3, <2>4, <2>5
    <2>7. spec = [containers |-> spec.containers, constraints |-> spec.constraints]
      BY <2>1 DEF IsPodSpec
    <2>8. QED
      BY <2>2, <2>6, <2>7 DEF spec
  <1>2. o.specs = [p \in DOMAIN o.specs |-> o.specs[p]]
    BY DEF IsObject, IsMap
  <1>3. [p \in DOMAIN o.specs |-> PatchedSpec(o.specs[p], p, NoPatch)] = o.specs
    BY <1>1, <1>2
  <1>4. Patched(o, NoPatch) = [o EXCEPT !.specs = o.specs]
    BY <1>3 DEF Patched
  <1>5. QED
    BY <1>4 DEF IsObject

-------------------------------------------------------------------------------
(***************************************************************************)
(* The inductive invariant: the object under review is settled for the     *)
(* configuration whose answer left it as it is.                            *)
(***************************************************************************)
SettledFor(c, request) ==
    /\ handle_webhook(c, request, "mutate").patch = NoPatch
    /\ DefaultsFit(c) => \A w \in WebhookType : handle_webhook(c, request, w).allowed

Settled == \A c \in mutatedBy : SettledFor(c, Request)

LEMMA AnswerSettles ==
    ASSUME NEW c \in PoliciesConfig, NEW o, IsObject(o), NEW request, request.object = {o},
           handle_webhook(c, request, "mutate").allowed, NEW again,
           again.object = {Patched(o, handle_webhook(c, request, "mutate").patch)}
    PROVE  SettledFor(c, again)
  <1> DEFINE patch == handle_webhook(c, request, "mutate").patch
             after == Patched(o, patch)
  <1>1. CASE evaluate_panics(c, request)
    <2>1. patch = NoPatch
      BY <1>1, PanicAllows
    <2>2. again.object = request.object
      BY <2>1, NothingPatched
    <2>3. evaluate_panics(c, again)
      BY <1>1, <2>2 DEF evaluate_panics
    <2>4. QED
      BY <2>3, PanicAllows DEF SettledFor
  <1>2. CASE ~evaluate_panics(c, request)
    <2>1. AddsMissing(c, o, patch) /\ AddsExactly(c, o, patch)
      BY <1>2, MutationAddsMissing, AnswerPatch
    <2> HIDE DEF patch
    <2>2. again.object = {after} /\ IsObject(after)
      BY <2>1, PatchedTyped DEF patch
    <2>3. handle_webhook(c, again, "mutate").patch = NoPatch
      BY <2>1, <2>2, SecondPatch
    <2>4. ASSUME DefaultsFit(c), NEW w \in WebhookType
          PROVE  handle_webhook(c, again, w).allowed
      <3>1. Compliant(c, after)
        BY <1>2, <2>1, <2>4, PatchedIsCompliant
      <3>2. CapsScale(c)
        BY <2>4 DEF DefaultsFit
      <3> HIDE DEF after
      <3>3. QED
        BY <2>2, <3>1, <3>2, DeniedIsNotCompliant
    <2>5. QED
      BY <2>3, <2>4 DEF SettledFor
  <1>3. QED
    BY <1>1, <1>2

LEMMA InitSettled == Init => Settled
  BY DEF Init, Settled

LEMMA UnmutatedSettled ==
    ASSUME mutatedBy' = {}
    PROVE  Settled'
  BY DEF Settled

LEMMA UnchangedSettled ==
    ASSUME Settled, UNCHANGED <<operation, object, mutatedBy>>
    PROVE  Settled'
  <1>1. Request' = Request
    BY DEF Request
  <1> HIDE DEF Request
  <1>2. QED
    BY <1>1 DEF Settled

LEMMA MutateSettles ==
    ASSUME TypeOK, Settled, NEW r \in Replicas, Mutate(r)
    PROVE  Settled'
  <1>1. PICK c \in config[r] :
          \/ /\ handle_webhook(c, Request, "mutate").allowed
             /\ object' = Patched(object, handle_webhook(c, Request, "mutate").patch)
             /\ mutatedBy' = {c}
          \/ UNCHANGED <<object, mutatedBy>>
    BY DEF Mutate
  <1>2. UNCHANGED operation
    BY DEF Mutate
  <1>3. CASE UNCHANGED <<object, mutatedBy>>
    BY <1>2, <1>3, UnchangedSettled
  <1>4. CASE /\ handle_webhook(c, Request, "mutate").allowed
             /\ object' = Patched(object, handle_webhook(c, Request, "mutate").patch)
             /\ mutatedBy' = {c}
    <2>1. c \in PoliciesConfig /\ IsObject(object)
      BY AdmissionAssumption DEF TypeOK
    <2>2. Request.object = {object} /\ Request'.object = {object'}
      BY DEF Request
    <2> DEFINE again == Request'
    <2>3. again.object = {Patched(object, handle_webhook(c, Request, "mutate").patch)}
      BY <1>4, <2>2
    <2> HIDE DEF again, Request
    <2>4. SettledFor(c, again)
      BY <1>4, <2>1, <2>2, <2>3, AnswerSettles
    <2>5. QED
      BY <1>4, <2>4 DEF Settled, again
  <1>5. QED
    BY <1>1, <1>3, <1>4

LEMMA NextSettled == TypeOK /\ Settled /\ [Next]_vars => Settled'
  <1> SUFFICES ASSUME TypeOK, Settled, [Next]_vars PROVE Settled'
    OBVIOUS
  <1>1. ASSUME NEW op, NEW o, Submit(op, o)
        PROVE  Settled'
    <2>1. mutatedBy' = {}
      BY <1>1 DEF Submit
    <2>2. QED
      BY <2>1, UnmutatedSettled
  <1>2. CASE \E r \in Replicas : Mutate(r)
    BY <1>2, MutateSettles
  <1>3. CASE Change
    <2>1. UNCHANGED operation /\ (UNCHANGED <<object, mutatedBy>> \/ mutatedBy' = {})
      BY <1>3 DEF Change
    <2>2. QED
      BY <2>1, UnmutatedSettled, UnchangedSettled
  <1>4. CASE Delete \/ MutateUnanswered \/ Check \/ ValidateUnanswered \/ Operator
             \/ (\E r \in Replicas : Validate(r)) \/ UNCHANGED vars
    <2>1. UNCHANGED <<operation, object, mutatedBy>>
      BY <1>4 DEF Delete, MutateUnanswered, Check, ValidateUnanswered, Operator, Publish, Start,
                  Stop, Validate, vars, requestVars, historyVars
    <2>2. QED
      BY <2>1, UnchangedSettled
  <1>5. QED
    BY <1>1, <1>2, <1>3, <1>4 DEF Next, Client, Serve

LEMMA AlwaysSettled == Spec => []Settled
  <1>1. Spec => []TypeOK
    BY AdmissionTyped
  <1>2. QED
    BY <1>1, InitSettled, NextSettled, PTL DEF Spec

LEMMA SettledAccepted == Settled /\ DecisionsStand => MutatedIsAccepted
  <1> SUFFICES ASSUME Settled, DecisionsStand, NEW c \in mutatedBy, DefaultsFit(c),
                      outcome = "rejected", decidedBy = {c}
               PROVE  FALSE
    BY DEF MutatedIsAccepted
  <1>1. PICK w \in WebhookType : ~handle_webhook(c, Request, w).allowed
    BY DEF DecisionsStand, RejectedAsReviewed
  <1>2. QED
    BY <1>1 DEF Settled, SettledFor

LEMMA SettledIdempotent == Settled => PatchIsIdempotent
  BY DEF Settled, SettledFor, PatchIsIdempotent, WebhookType

(* An object the webhook has patched has nothing added when it is sent      *)
(* there again, by reinvocation or by an update that changes nothing, under *)
(* the configuration that patched it: generate_resource_patches leaves no   *)
(* section and no amount out, and a pod spec with constraints gets no more. *)
THEOREM PatchesAreIdempotent == Spec => []PatchIsIdempotent
  BY AlwaysSettled, SettledIdempotent, PTL

(* And /validate does not reject what /mutate let through and patched, if   *)
(* the defaults fit the caps and nothing came in between: each violation    *)
(* resource_limits.rs and topology_spread.rs keep silent about under        *)
(* /mutate is one their patch removes.                                      *)
THEOREM MutatedAccepted == Spec => []MutatedIsAccepted
  <1>1. Spec => []Settled
    BY AlwaysSettled
  <1>2. Spec => []DecisionsStand
    BY DecisionsAlwaysStand
  <1>3. QED
    BY <1>1, <1>2, SettledAccepted, PTL

-------------------------------------------------------------------------------
(***************************************************************************)
(* An object that obeys a policy with everything added obeys, as it is,    *)
(* what /mutate asks of it: only what is added may be missing.             *)
(***************************************************************************)
LEMMA KeptWithinCaps ==
    ASSUME NEW policy, NEW before, NEW after, Keeps(before, after),
           WithinCaps(policy, Readable(after))
    PROVE  WithinCaps(policy, Readable(before))
  <1>1. ComesFrom({after}, before)
    BY DEF Keeps, ComesFrom
  <1>2. \A r \in {after} : WithinCaps(policy, Readable(r))
    OBVIOUS
  <1>3. QED
    BY <1>1, <1>2, CapsFromSources

LEMMA ResourcesPass ==
    ASSUME NEW c \in PoliciesConfig, CapsScale(c), c.resource_limits.enabled,
           NEW o, IsObject(o), ~resource_limits_panics(c.resource_limits.policy, o),
           NEW patch, AddsMissing(c, o, patch), AddsExactly(c, o, patch),
           Obeys(c, "resource_limits", Patched(o, patch))
    PROVE  resource_limits(c.resource_limits.policy, o, TRUE).violations = {}
  <1> DEFINE policy == c.resource_limits.policy
             after == Patched(o, patch)
             spec == get_pod_spec(o)
             Found(i) == MissingResources(policy, spec.containers[i], i, TRUE)
                         \cup CpuAboveCap(policy, spec.containers[i], i)
                         \cup MemoryAboveCap(policy, spec.containers[i], i)
  <1>1. CASE ~has_pod_spec(o)
    BY <1>1 DEF resource_limits, allowed, PolicyOutput
  <1>2. CASE has_pod_spec(o)
    <2> DEFINE p == pod_spec_path(o.kind)
    <2>1. p \in DOMAIN o.specs /\ o.specs[p] = spec
      BY <1>2 DEF has_pod_spec, get_pod_spec
    <2>2. ASSUME NEW i \in DOMAIN spec.containers
          PROVE  Found(i) = {}
      <3> DEFINE container == spec.containers[i]
                 resources == container.resources
                 complete == PatchedResources(resources, p, i, patch)
      <3>1. policy \in ResourceLimitsPolicy /\ IsResources(resources)
        BY <2>1 DEF PoliciesConfig, PolicyConfig, IsObject, IsPodSpec, IsContainer
      <3>2. BothStated(complete) /\ WithinCaps(policy, Readable(complete))
        <4>1. /\ DOMAIN after.specs = DOMAIN o.specs
              /\ DOMAIN after.specs[p].containers = DOMAIN o.specs[p].containers
              /\ after.specs[p].containers[i].resources = complete
          BY <2>1, PatchedFields
        <4> HIDE DEF after, complete, p
        <4>2. ObeysResourceLimits(policy, after.specs[p])
          BY <2>1, <4>1 DEF Obeys, after
        <4>3. QED
          BY <2>1, <4>1, <4>2 DEF ObeysResourceLimits
      <3>3. MissingResources(policy, container, i, TRUE) = {}
        <4>1. InjectsResources(c) \/ BothStated(resources)
          BY <2>1, <3>2, PatchedStated
        <4>2. CASE InjectsResources(c)
          BY <4>2 DEF InjectsResources, MissingResources, Given
        <4>3. CASE BothStated(resources)
          BY <4>3, MissingJudged
        <4>4. QED
          BY <4>1, <4>2, <4>3
      <3>4. WithinCaps(policy, Readable(resources))
        <4>1. Keeps(resources, complete)
          BY <2>1, <3>1, ResourcesKept DEF AddsMissing, AddsMissingResources
        <4> HIDE DEF resources, complete, policy
        <4>2. QED
          BY <3>2, <4>1, KeptWithinCaps
      <3>5. \A max_mem_mb \in policy.max_memory_mb : max_mem_mb * Kibi * Kibi < Word
        BY <1>2, <3>1, ScaledUnlessPanic
      <3>6. CpuAboveCap(policy, container, i) = {}
        BY <3>1, <3>4, CpuJudged DEF WithinCaps
      <3>7. MemoryAboveCap(policy, container, i) = {}
        BY <3>1, <3>4, <3>5, MemoryJudged DEF WithinCaps
      <3>8. QED
        BY <3>3, <3>6, <3>7
    <2>3. resource_limits(policy, o, TRUE).violations
            = UNION {Found(i) : i \in DOMAIN spec.containers}
      BY <1>2 DEF resource_limits, resource_limits_spec, PolicyOutput
    <2> HIDE DEF Found
    <2>4. QED
      BY <2>2, <2>3
  <1>3. QED
    BY <1>1, <1>2

LEMMA ConstraintsPass ==
    ASSUME NEW c \in PoliciesConfig, NEW o, IsObject(o),
           NEW patch, AddsMissing(c, o, patch), AddsExactly(c, o, patch),
           Obeys(c, "topology_spread", Patched(o, patch))
    PROVE  topology_spread(c.topology_spread.policy, o, TRUE).violations = {}
  <1> DEFINE policy == c.topology_spread.policy
             after == Patched(o, patch)
             p == pod_spec_path(o.kind)
  <1>1. CASE ~has_pod_spec(o)
    BY <1>1 DEF topology_spread, allowed, PolicyOutput
  <1>2. CASE has_pod_spec(o)
    <2>1. p \in DOMAIN o.specs /\ o.specs[p] = get_pod_spec(o)
      BY <1>2 DEF has_pod_spec, get_pod_spec
    <2>2. /\ DOMAIN after.specs = DOMAIN o.specs
          /\ after.specs[p].constraints = IF ConstraintsAt(p) \in DOMAIN patch
                                          THEN patch[ConstraintsAt(p)] ELSE o.specs[p].constraints
      BY <2>1, PatchedFields
    <2> HIDE DEF after, p
    <2>3. ObeysTopologySpread(policy, after.specs[p])
      BY <2>1, <2>2 DEF Obeys, after
    <2>4. CASE o.specs[p].constraints = <<>>
      <3>1. ConstraintsAt(p) \in DOMAIN patch
        BY <2>2, <2>3, <2>4 DEF ObeysTopologySpread
      <3>2. InjectsConstraints(c, o)
        BY <2>1, <3>1, ConstraintsAdded
      <3>3. policy.inject_if_missing /\ DOMAIN get_pod_labels(o) # {}
        BY <3>2 DEF InjectsConstraints, InjectsSpread
      <3>4. SkewAboveMaximum(policy, <<>>) = {}
        BY DEF SkewAboveMaximum
      <3>5. topology_spread(policy, o, TRUE).violations
                = topology_spread_spec(policy, o.specs[p], o, TRUE).violations
        BY <1>2, <2>1 DEF topology_spread
      <3>6. QED
        BY <2>4, <3>3, <3>4, <3>5 DEF topology_spread_spec, PolicyOutput, Given
    <2>5. CASE o.specs[p].constraints # <<>>
      <3>1. after.specs[p].constraints = o.specs[p].constraints
        <4>1. ConstraintsAt(p) \notin DOMAIN patch
          BY <2>1, <2>5, ConstraintsAdded
        <4>2. QED
          BY <2>2, <4>1
      <3>2. ObeysTopologySpread(policy, o.specs[p])
        BY <2>3, <3>1 DEF ObeysTopologySpread
      <3>3. \A q \in DOMAIN o.specs : q = p
        BY OnlyPodSpec DEF p
      <3>4. Obeys(c, "topology_spread", o)
        BY <3>2, <3>3 DEF Obeys
      <3>5. QED
        BY <3>4, TopologyJudged
    <2>6. QED
      BY <2>4, <2>5
  <1>3. QED
    BY <1>1, <1>2

LEMMA CompletedPasses ==
    ASSUME NEW c \in PoliciesConfig, CapsScale(c), NEW o, IsObject(o),
           NEW request, request.object = {o}, ~evaluate_panics(c, request),
           NEW patch, AddsMissing(c, o, patch), AddsExactly(c, o, patch),
           Compliant(c, Patched(o, patch))
    PROVE  handle_webhook(c, request, "mutate").allowed
  <1> DEFINE after == Patched(o, patch)
  <1>1. OnlyAdds(o, after)
    BY PatchedAdds
  <1>2. ASSUME NEW n \in Enforced(c)
        PROVE  PolicyOutputOf(c, n, o, TRUE).violations = {}
    <2>1. n \in PolicyName /\ c[n].enabled /\ Obeys(c, n, after)
      BY DEF Enforced, Compliant
    <2> HIDE DEF after
    <2>2. CASE n = "resource_limits"
      <3>1. PolicyOutputOf(c, n, o, TRUE) = resource_limits(c.resource_limits.policy, o, TRUE)
        BY <2>2 DEF PolicyOutputOf
      <3>2. ~resource_limits_panics(c.resource_limits.policy, o)
        BY <2>2, EvaluatedUnlessPanic
      <3>3. c.resource_limits.enabled /\ Obeys(c, "resource_limits", Patched(o, patch))
        BY <2>1, <2>2 DEF after
      <3>4. resource_limits(c.resource_limits.policy, o, TRUE).violations = {}
        BY <3>2, <3>3, ResourcesPass
      <3>5. QED
        BY <3>1, <3>4
    <2>3. CASE n = "topology_spread"
      <3>1. PolicyOutputOf(c, n, o, TRUE) = topology_spread(c.topology_spread.policy, o, TRUE)
        BY <2>3 DEF PolicyOutputOf
      <3>2. Obeys(c, "topology_spread", Patched(o, patch))
        BY <2>1, <2>3 DEF after
      <3>3. topology_spread(c.topology_spread.policy, o, TRUE).violations = {}
        BY <3>2, ConstraintsPass
      <3>4. QED
        BY <3>1, <3>3
    <2>4. CASE n = "image_registry"
      <3>1. PolicyOutputOf(c, n, o, TRUE) = image_registry(c.image_registry.policy, o)
        BY <2>4 DEF PolicyOutputOf
      <3>2. Obeys(c, "image_registry", o)
        BY <1>1, <2>1, <2>4, PatchedImagesObey
      <3>3. QED
        BY <3>1, <3>2, ImagesJudged
    <2>5. CASE n = "labels"
      <3>1. PolicyOutputOf(c, n, o, TRUE) = labels(compile_labels(c.labels.policy), o)
        BY <2>5 DEF PolicyOutputOf
      <3>2. Obeys(c, "labels", o)
        BY <1>1, <2>1, <2>5, PatchedLabelsObey
      <3>3. QED
        BY <3>1, <3>2, LabelsJudged
    <2>6. QED
      BY <2>1, <2>2, <2>3, <2>4, <2>5 DEF PolicyName
  <1>3. QED
    BY <1>2, Verdict

(* Completed is what every evaluation that mutates finds there is to add. *)
LEMMA CompletedPatch ==
    ASSUME NEW c, NEW o, IsObject(o)
    PROVE  \E patch : /\ AddsMissing(c, o, patch) /\ AddsExactly(c, o, patch)
                      /\ Completed(c, o) = Patched(o, patch)
  <1> DEFINE request == [operation |-> operation, object |-> {o}]
             patch == AllPatches(evaluate_all(c, request, TRUE))
  <1>1. request.object = {o}
    OBVIOUS
  <1>2. Completed(c, o) = Patched(o, patch)
    BY DEF Completed
  <1> HIDE DEF request
  <1>3. AddsMissing(c, o, patch) /\ AddsExactly(c, o, patch)
    BY <1>1, EvaluationAddsMissing, EvaluationPatch
  <1>4. QED
    BY <1>2, <1>3 DEF request

LEMMA MutateRejectsRightly ==
    ASSUME TypeOK, NEW c \in Configs, CapsScale(c),
           ~handle_webhook(c, Request, "mutate").allowed
    PROVE  ~Compliant(c, object) /\ ~Compliant(c, Completed(c, object))
  <1>1. /\ c \in PoliciesConfig /\ IsObject(object)
        /\ Request.object = {object}
    BY AdmissionAssumption DEF TypeOK, Request
  <1>2. ~evaluate_panics(c, Request)
    BY PanicAllows
  <1>3. PICK patch : /\ AddsMissing(c, object, patch) /\ AddsExactly(c, object, patch)
                     /\ Completed(c, object) = Patched(object, patch)
    BY <1>1, CompletedPatch
  <1> HIDE DEF Request
  <1>4. ~Compliant(c, Patched(object, patch))
    BY <1>1, <1>2, <1>3, CompletedPasses
  <1>5. ~Compliant(c, object)
    BY <1>1, DeniedIsNotCompliant DEF WebhookType
  <1>6. QED
    BY <1>3, <1>4, <1>5

RejectsRightly ==
    phase # "idle" /\ outcome' = "rejected" =>
        \E c \in decidedBy' : CapsScale(c) =>
            /\ ~Compliant(c, object)
            /\ AtMutation => ~Compliant(c, Completed(c, object))

LEMMA StepRejectsRightly == TypeOK /\ DecisionsStand /\ [Next]_vars => [RejectsRightly]_vars
  <1> SUFFICES ASSUME TypeOK, DecisionsStand, [Next]_vars, phase # "idle", outcome' = "rejected"
               PROVE  \E c \in decidedBy' : CapsScale(c) =>
                        /\ ~Compliant(c, object)
                        /\ AtMutation => ~Compliant(c, Completed(c, object))
    BY DEF RejectsRightly
  <1>0. outcome = "none"
    BY DEF DecisionsStand, Undecided
  <1>1. ASSUME NEW r \in Replicas, Mutate(r)
        PROVE  \E c \in decidedBy' : CapsScale(c) =>
                    /\ ~Compliant(c, object)
                    /\ ~Compliant(c, Completed(c, object))
    <2>1. PICK c \in config[r] :
            \/ UNCHANGED outcome
            \/ ~handle_webhook(c, Request, "mutate").allowed /\ Decide("rejected", {c})
      BY <1>1 DEF Mutate
    <2>2. ~handle_webhook(c, Request, "mutate").allowed /\ decidedBy' = {c}
      BY <1>0, <2>1 DEF Decide
    <2>3. c \in Configs
      BY DEF TypeOK
    <2>4. QED
      BY <2>2, <2>3, MutateRejectsRightly
  <1>2. ASSUME NEW r \in Replicas, Validate(r)
        PROVE  ~AtMutation /\ \E c \in decidedBy' : CapsScale(c) => ~Compliant(c, object)
    <2>1. PICK c \in config[r] :
            Decide(IF handle_webhook(c, Request, "validate").allowed THEN "stored" ELSE "rejected", {c})
      BY <1>2 DEF Validate
    <2>2. ~handle_webhook(c, Request, "validate").allowed /\ decidedBy' = {c}
      BY <2>1 DEF Decide
    <2>3. c \in PoliciesConfig /\ IsObject(object) /\ Request.object = {object}
      BY AdmissionAssumption DEF TypeOK, Request
    <2>4. ~AtMutation
      BY <1>2 DEF Validate, AtMutation
    <2> HIDE DEF Request
    <2>5. CapsScale(c) => ~Compliant(c, object)
      BY <2>2, <2>3, DeniedIsNotCompliant DEF WebhookType
    <2>6. QED
      BY <2>2, <2>4, <2>5
  <1>3. CASE ~(\E r \in Replicas : Mutate(r) \/ Validate(r))
    BY <1>0, <1>3 DEF Next, Client, Serve, Operator, Submit, Delete, MutateUnanswered, Change,
                      Check, ValidateUnanswered, Decide, Publish, Start, Stop,
                      vars, clusterVars, requestVars, historyVars
  <1>4. QED
    BY <1>1, <1>2, <1>3

(* An object is rejected only for what it breaks, and by /mutate only for   *)
(* what its own patch would not fix: whatever the object, the configuration *)
(* and the replicas that answer, what resource_limits.rs:47 and             *)
(* topology_spread.rs:60 keep silent about is all that is added.            *)
THEOREM RejectedNotCompliant == Spec => RejectedIsNotCompliant
  <1>1. Init => TypeOK /\ DecisionsStand
    BY InitTyped, InitStands
  <1>2. TypeOK /\ DecisionsStand /\ [Next]_vars => (TypeOK /\ DecisionsStand)'
    BY NextTyped, NextStands
  <1>3. QED
    BY <1>1, <1>2, StepRejectsRightly, PTL DEF Spec, RejectedIsNotCompliant, RejectsRightly

-------------------------------------------------------------------------------
(***************************************************************************)
(* A rollout: what obeys a policy of d with all that d adds obeys it with  *)
(* all that c adds, if c adds as much.                                     *)
(***************************************************************************)
LEMMA RolloutResources ==
    ASSUME NEW c \in PoliciesConfig, NEW d \in PoliciesConfig, AddsAsMuch(c, d),
           NEW o, IsObject(o),
           NEW given, AddsMissing(c, o, given), AddsExactly(c, o, given),
           NEW wanted, AddsMissing(d, o, wanted), AddsExactly(d, o, wanted),
           Obeys(d, "resource_limits", Patched(o, wanted))
    PROVE  Obeys(d, "resource_limits", Patched(o, given))
  <1> DEFINE policy == d.resource_limits.policy
             Resources(p, i, patch) ==
                PatchedResources(o.specs[p].containers[i].resources, p, i, patch)
             Obeyed(p, i, patch) == /\ BothStated(Resources(p, i, patch))
                                    /\ WithinCaps(policy, Readable(Resources(p, i, patch)))
             AllObey(patch) ==
                \A p \in DOMAIN o.specs : \A i \in DOMAIN o.specs[p].containers : Obeyed(p, i, patch)
  <1>1. ASSUME NEW patch
        PROVE  Obeys(d, "resource_limits", Patched(o, patch)) <=> AllObey(patch)
    <2> DEFINE after == Patched(o, patch)
    <2>1. /\ DOMAIN after.specs = DOMAIN o.specs
          /\ \A p \in DOMAIN o.specs :
               /\ DOMAIN after.specs[p].containers = DOMAIN o.specs[p].containers
               /\ \A i \in DOMAIN o.specs[p].containers :
                    after.specs[p].containers[i].resources = Resources(p, i, patch)
      BY PatchedFields
    <2> HIDE DEF after, Resources, policy
    <2>2. \A p \in DOMAIN o.specs :
            ObeysResourceLimits(policy, after.specs[p]) <=>
                \A i \in DOMAIN o.specs[p].containers : Obeyed(p, i, patch)
      BY <2>1 DEF ObeysResourceLimits
    <2>3. Obeys(d, "resource_limits", after) <=>
            \A p \in DOMAIN o.specs : ObeysResourceLimits(policy, after.specs[p])
      BY <2>1 DEF Obeys, policy
    <2>4. QED
      BY <2>2, <2>3 DEF after
  <1>2. AllObey(wanted)
    BY <1>1
  <1>3. ASSUME NEW p \in DOMAIN o.specs, NEW i \in DOMAIN o.specs[p].containers
        PROVE  Obeyed(p, i, given)
    <2> DEFINE resources == o.specs[p].containers[i].resources
               defaults == c.resource_limits.policy.defaults
               sources == {resources} \cup Given(InjectsResources(c), defaults)
    <2>1. Obeyed(p, i, wanted)
      BY <1>2
    <2>2. IsResources(resources)
      BY DEF IsObject, IsPodSpec, IsContainer
    <2>3. BothStated(Resources(p, i, given))
      <3>1. InjectsResources(d) \/ BothStated(resources)
        BY <2>1, PatchedStated
      <3>2. InjectsResources(c) \/ BothStated(resources)
        BY <3>1 DEF AddsAsMuch
      <3>3. QED
        BY <3>2, PatchedStated
    <2>4. Keeps(resources, Resources(p, i, wanted))
      BY <2>2, ResourcesKept DEF AddsMissing, AddsMissingResources
    <2>5. ComesFrom(sources, Resources(p, i, given))
      BY PatchedComesFrom
    <2>6. InjectsResources(c) => WithinCaps(policy, Readable(defaults))
      BY DEF AddsAsMuch
    <2> HIDE DEF Resources, resources, defaults, policy
    <2>7. WithinCaps(policy, Readable(resources))
      BY <2>1, <2>4, KeptWithinCaps
    <2>8. \A r \in sources : WithinCaps(policy, Readable(r))
      BY <2>6, <2>7 DEF Given
    <2> HIDE DEF sources
    <2>9. WithinCaps(policy, Readable(Resources(p, i, given)))
      BY <2>5, <2>8, CapsFromSources
    <2>10. QED
      BY <2>3, <2>9
  <1> HIDE DEF Obeyed
  <1>4. QED
    BY <1>1, <1>3

LEMMA RolloutConstraints ==
    ASSUME NEW c \in PoliciesConfig, NEW d \in PoliciesConfig, AddsAsMuch(c, d),
           NEW o, IsObject(o),
           NEW given, AddsMissing(c, o, given), AddsExactly(c, o, given),
           NEW wanted, AddsMissing(d, o, wanted), AddsExactly(d, o, wanted),
           Obeys(d, "topology_spread", Patched(o, wanted))
    PROVE  Obeys(d, "topology_spread", Patched(o, given))
  <1> DEFINE policy == d.topology_spread.policy
             after(patch) == Patched(o, patch)
  <1>1. ASSUME NEW patch
        PROVE  /\ DOMAIN after(patch).specs = DOMAIN o.specs
               /\ \A p \in DOMAIN o.specs :
                    after(patch).specs[p].constraints =
                        IF ConstraintsAt(p) \in DOMAIN patch
                        THEN patch[ConstraintsAt(p)] ELSE o.specs[p].constraints
    BY PatchedFields
  <1>2. \A p \in DOMAIN o.specs : ObeysTopologySpread(policy, after(wanted).specs[p])
    BY <1>1 DEF Obeys
  <1>3. ASSUME NEW p \in DOMAIN o.specs
        PROVE  ObeysTopologySpread(policy, after(given).specs[p])
    <2> HIDE DEF after
    <2>1. CASE o.specs[p].constraints = <<>>
      <3>1. after(wanted).specs[p].constraints # <<>>
        BY <1>2 DEF ObeysTopologySpread
      <3>2. ConstraintsAt(p) \in DOMAIN wanted
        BY <1>1, <2>1, <3>1
      <3>3. InjectsConstraints(d, o)
        BY <3>2, ConstraintsAdded
      <3>4. InjectsConstraints(c, o) /\ c.topology_spread.policy.max_skew <= policy.max_skew
        BY <3>3 DEF InjectsConstraints, AddsAsMuch
      <3>5. ConstraintsAt(p) \in DOMAIN given
        BY <2>1, <3>4, ConstraintsAdded
      <3>6. after(given).specs[p].constraints
                = InjectedConstraints(c.topology_spread.policy, get_pod_labels(o))
        BY <1>1, <3>5 DEF AddsMissing, AddsMissingConstraints
      <3> HIDE DEF policy
      <3>7. QED
        BY <3>4, <3>6 DEF ObeysTopologySpread, InjectedConstraints
    <2>2. CASE o.specs[p].constraints # <<>>
      <3>1. ConstraintsAt(p) \notin DOMAIN given /\ ConstraintsAt(p) \notin DOMAIN wanted
        BY <2>2 DEF AddsMissing, AddsMissingConstraints
      <3>2. after(given).specs[p].constraints = after(wanted).specs[p].constraints
        BY <1>1, <3>1
      <3>3. QED
        BY <1>2, <3>2 DEF ObeysTopologySpread
    <2>3. QED
      BY <2>1, <2>2
  <1>4. QED
    BY <1>1, <1>3 DEF Obeys

LEMMA RolloutObeys ==
    ASSUME NEW c \in PoliciesConfig, NEW d \in PoliciesConfig, AddsAsMuch(c, d),
           NEW o, IsObject(o),
           NEW given, AddsMissing(c, o, given), AddsExactly(c, o, given),
           NEW wanted, AddsMissing(d, o, wanted), AddsExactly(d, o, wanted),
           Compliant(d, Patched(o, wanted))
    PROVE  Compliant(d, Patched(o, given))
  <1> SUFFICES ASSUME NEW n \in Enforced(d) PROVE Obeys(d, n, Patched(o, given))
    BY DEF Compliant
  <1>1. n \in PolicyName /\ Obeys(d, n, Patched(o, wanted))
    BY DEF Enforced, Compliant
  <1>2. CASE n = "resource_limits"
    BY <1>1, <1>2, RolloutResources
  <1>3. CASE n = "topology_spread"
    BY <1>1, <1>3, RolloutConstraints
  <1>4. OnlyAdds(o, Patched(o, wanted)) /\ OnlyAdds(o, Patched(o, given))
    BY PatchedAdds
  <1>5. CASE n = "image_registry"
    BY <1>1, <1>4, <1>5, PatchedImagesObey
  <1>6. CASE n = "labels"
    BY <1>1, <1>4, <1>6, PatchedLabelsObey
  <1>7. QED
    BY <1>1, <1>2, <1>3, <1>5, <1>6 DEF PolicyName

-------------------------------------------------------------------------------
(***************************************************************************)
(* The inductive invariant: an object that was mutated, and not changed    *)
(* since, is the one the answer was given with everything added.           *)
(***************************************************************************)
MutatedCompletely ==
    \A c \in mutatedBy : \A o \in mutatedFrom :
        ~evaluate_panics(c, [operation |-> operation, object |-> {o}]) => object = Completed(c, o)

LEMMA UnmutatedCompletely ==
    ASSUME mutatedBy' = {}
    PROVE  MutatedCompletely'
  BY DEF MutatedCompletely

LEMMA UnchangedCompletely ==
    ASSUME MutatedCompletely, UNCHANGED <<operation, object, mutatedBy, mutatedFrom>>
    PROVE  MutatedCompletely'
  BY DEF MutatedCompletely, Completed

LEMMA MutatesCompletely ==
    ASSUME MutatedCompletely, NEW r \in Replicas, Mutate(r)
    PROVE  MutatedCompletely'
  <1>1. PICK c \in config[r] :
          \/ /\ handle_webhook(c, Request, "mutate").allowed
             /\ object' = Patched(object, handle_webhook(c, Request, "mutate").patch)
             /\ mutatedBy' = {c}
             /\ mutatedFrom' = {object}
          \/ UNCHANGED <<object, mutatedBy, mutatedFrom>>
    BY DEF Mutate
  <1>2. UNCHANGED operation
    BY DEF Mutate
  <1>3. CASE UNCHANGED <<object, mutatedBy, mutatedFrom>>
    BY <1>2, <1>3, UnchangedCompletely
  <1>4. CASE /\ handle_webhook(c, Request, "mutate").allowed
             /\ object' = Patched(object, handle_webhook(c, Request, "mutate").patch)
             /\ mutatedBy' = {c}
             /\ mutatedFrom' = {object}
    <2> DEFINE all == AllPatches(evaluate_all(c, Request, TRUE))
    <2>1. ~evaluate_panics(c, Request) => handle_webhook(c, Request, "mutate").patch = all
      BY <1>4, AnswerPatches
    <2>2. ~evaluate_panics(c, Request) => object' = Patched(object, all)
      BY <1>4, <2>1
    <2>3. ~evaluate_panics(c, [operation |-> operation', object |-> {object}]) =>
            object' = Patched(object, AllPatches(evaluate_all(c,
                            [operation |-> operation', object |-> {object}], TRUE)))
      BY <1>2, <2>2 DEF Request
    <2>4. QED
      BY <1>4, <2>3 DEF MutatedCompletely, Completed
  <1>5. QED
    BY <1>1, <1>3, <1>4

LEMMA NextCompletely == MutatedCompletely /\ [Next]_vars => MutatedCompletely'
  <1> SUFFICES ASSUME MutatedCompletely, [Next]_vars PROVE MutatedCompletely'
    OBVIOUS
  <1>1. ASSUME NEW op, NEW o, Submit(op, o)
        PROVE  MutatedCompletely'
    <2>1. mutatedBy' = {}
      BY <1>1 DEF Submit
    <2>2. QED
      BY <2>1, UnmutatedCompletely
  <1>2. CASE \E r \in Replicas : Mutate(r)
    BY <1>2, MutatesCompletely
  <1>3. CASE Change
    <2>1. /\ UNCHANGED operation
          /\ UNCHANGED <<object, mutatedBy, mutatedFrom>> \/ mutatedBy' = {}
      BY <1>3 DEF Change
    <2>2. QED
      BY <2>1, UnmutatedCompletely, UnchangedCompletely
  <1>4. CASE Delete \/ MutateUnanswered \/ Check \/ ValidateUnanswered \/ Operator
             \/ (\E r \in Replicas : Validate(r)) \/ UNCHANGED vars
    <2>1. UNCHANGED <<operation, object, mutatedBy, mutatedFrom>>
      BY <1>4 DEF Delete, MutateUnanswered, Check, ValidateUnanswered, Operator, Publish, Start,
                  Stop, Validate, vars, requestVars, historyVars
    <2>2. QED
      BY <2>1, UnchangedCompletely
  <1>5. QED
    BY <1>1, <1>2, <1>3, <1>4 DEF Next, Client, Serve

LEMMA AlwaysCompletely == Spec => []MutatedCompletely
  <1>1. Init => MutatedCompletely
    BY DEF Init, MutatedCompletely
  <1>2. QED
    BY <1>1, NextCompletely, PTL DEF Spec

LEMMA SeamlessIfComplete ==
    TypeOK /\ DecisionsStand /\ MutatedCompletely => RolloutIsSeamless
  <1> SUFFICES ASSUME TypeOK, DecisionsStand, MutatedCompletely,
                      NEW c \in mutatedBy, NEW d \in decidedBy, NEW o \in mutatedFrom,
                      outcome = "rejected", AddsAsMuch(c, d),
                      ~evaluate_panics(c, [operation |-> operation, object |-> {o}]),
                      CapsScale(d), Compliant(d, Completed(d, o))
               PROVE  FALSE
    BY DEF RolloutIsSeamless
  <1>1. c \in PoliciesConfig /\ d \in PoliciesConfig /\ IsObject(o) /\ IsObject(object)
    BY AdmissionAssumption DEF TypeOK
  <1>2. object = Completed(c, o)
    BY DEF MutatedCompletely
  <1>3. PICK given : /\ AddsMissing(c, o, given) /\ AddsExactly(c, o, given)
                     /\ Completed(c, o) = Patched(o, given)
    BY <1>1, CompletedPatch
  <1>4. PICK wanted : /\ AddsMissing(d, o, wanted) /\ AddsExactly(d, o, wanted)
                      /\ Completed(d, o) = Patched(o, wanted)
    BY <1>1, CompletedPatch
  <1>5. Compliant(d, object)
    BY <1>1, <1>2, <1>3, <1>4, RolloutObeys
  <1>6. PICK w \in WebhookType : ~handle_webhook(d, Request, w).allowed
    BY DEF DecisionsStand, RejectedAsReviewed
  <1>7. Request.object = {object}
    BY DEF Request
  <1> HIDE DEF Request
  <1>8. QED
    BY <1>1, <1>5, <1>6, <1>7, DeniedIsNotCompliant

(* Patched under one configuration and judged under another, a request is   *)
(* rejected only for what the second would reject patched by itself, if the *)
(* first adds as much: for all configurations, objects and numbers of       *)
(* replicas.  What an answer adds depends on what is missing, and on the    *)
(* mode of no policy (engine.rs:87).                                        *)
THEOREM RolloutSeamless == Spec => []RolloutIsSeamless
  <1>1. Spec => []TypeOK
    BY AdmissionTyped
  <1>2. Spec => []DecisionsStand
    BY DecisionsAlwaysStand
  <1>3. QED
    BY <1>1, <1>2, AlwaysCompletely, SeamlessIfComplete, PTL
===============================================================================
