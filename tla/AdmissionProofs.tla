--------------------------- MODULE AdmissionProofs ---------------------------
(***************************************************************************)
(* Proofs about the admission pipeline, for all objects, configurations    *)
(* and replicas.                                                           *)
(***************************************************************************)
EXTENDS AdmissionProperties, TLAPS

(***************************************************************************)
(* The patch of a mutating answer.  At a container it adds only what       *)
(* MissingLocations finds missing there, with its default; and it adds     *)
(* constraints only where there are none.                                  *)
(***************************************************************************)
AddsMissingResources(c, o, patch) ==
    \A p \in DOMAIN o.specs : \A i \in DOMAIN o.specs[p].containers : \A s, n :
        ResourcesAt(p, i, s, n) \in DOMAIN patch =>
            /\ <<s, n>> \in MissingLocations(o.specs[p].containers[i].resources)
            /\ patch[ResourcesAt(p, i, s, n)] = DefaultAt(c.resource_limits.policy, s, n)

AddsMissingConstraints(c, o, patch) ==
    \A p \in DOMAIN o.specs :
        ConstraintsAt(p) \in DOMAIN patch =>
            /\ o.specs[p].constraints = <<>>
            /\ patch[ConstraintsAt(p)]
                 = InjectedConstraints(c.topology_spread.policy, get_pod_labels(o))

AddsMissing(c, o, patch) ==
    AddsMissingResources(c, o, patch) /\ AddsMissingConstraints(c, o, patch)

-------------------------------------------------------------------------------
(* Where a pod spec is read is where it is patched. *)
LEMMA PathIsPrefix ==
    ASSUME NEW o, IsObject(o), has_pod_spec(o)
    PROVE  pod_spec_path(o.kind) = spec_prefix(o.kind)
  <1>1. pod_spec_path(o.kind) \in PodSpecPaths(o.kind)
    BY DEF IsObject, IsMap, has_pod_spec
  <1>2. QED
    BY <1>1 DEF PodSpecPaths, TemplateKinds, pod_spec_path, spec_prefix

LEMMA SequenceDomain ==
    ASSUME NEW s, IsSequence(s)
    PROVE  /\ Len(s) \in Nat
           /\ DOMAIN s = 1 .. Len(s)
           /\ s = [i \in 1 .. Len(s) |-> s[i]]
  <1> DEFINE S == {s[i] : i \in DOMAIN s}
  <1>1. s \in Seq(S)
    BY DEF IsSequence
  <1> HIDE DEF S
  <1>2. QED
    BY <1>1

LEMMA ContainerNumbers ==
    ASSUME NEW o, IsObject(o), NEW p \in DOMAIN o.specs
    PROVE  /\ IsPodSpec(o.specs[p])
           /\ 0 \notin DOMAIN o.specs[p].containers
  <1>1. IsPodSpec(o.specs[p]) /\ IsSequence(o.specs[p].containers)
    BY DEF IsObject, IsPodSpec
  <1>2. QED
    BY <1>1, SequenceDomain

LEMMA ResourceOutput ==
    ASSUME NEW c, NEW o, IsObject(o)
    PROVE  AddsMissing(c, o, resource_limits(c.resource_limits.policy, o, TRUE).patches)
  <1> DEFINE policy == c.resource_limits.policy
             patch == resource_limits(policy, o, TRUE).patches
             spec == get_pod_spec(o)
             prefix == spec_prefix(o.kind)
  <1>1. CASE patch = NoPatch
    BY <1>1 DEF NoPatch, AddsMissing, AddsMissingResources, AddsMissingConstraints
  <1>2. CASE has_pod_spec(o) /\ patch = generate_resource_patches(policy, spec, prefix)
    <2>1. prefix \in DOMAIN o.specs /\ spec = o.specs[prefix]
      BY <1>2, PathIsPrefix DEF has_pod_spec, get_pod_spec
    <2>2. \A l \in DOMAIN patch :
            /\ \E i \in DOMAIN spec.containers :
                 \E m \in MissingLocations(spec.containers[i].resources) :
                    l = ResourcesAt(prefix, i, m[1], m[2])
            /\ patch[l] = DefaultAt(policy, l.section, l.name)
      BY <1>2 DEF generate_resource_patches
    <2>3. ASSUME NEW resources, NEW m \in MissingLocations(resources)
          PROVE  m = <<m[1], m[2]>>
      BY DEF MissingLocations
    <2>4. AddsMissingResources(c, o, patch)
      <3> SUFFICES ASSUME NEW p \in DOMAIN o.specs, NEW i \in DOMAIN o.specs[p].containers,
                          NEW s, NEW n, ResourcesAt(p, i, s, n) \in DOMAIN patch
                   PROVE  /\ <<s, n>> \in MissingLocations(o.specs[p].containers[i].resources)
                          /\ patch[ResourcesAt(p, i, s, n)] = DefaultAt(policy, s, n)
        BY DEF AddsMissingResources
      <3>1. PICK j \in DOMAIN spec.containers :
              \E m \in MissingLocations(spec.containers[j].resources) :
                ResourcesAt(p, i, s, n) = ResourcesAt(prefix, j, m[1], m[2])
        BY <2>2
      <3>2. PICK m \in MissingLocations(spec.containers[j].resources) :
              ResourcesAt(p, i, s, n) = ResourcesAt(prefix, j, m[1], m[2])
        BY <3>1
      <3>3. p = prefix /\ i = j /\ s = m[1] /\ n = m[2]
        BY <3>2 DEF ResourcesAt
      <3>4. patch[ResourcesAt(p, i, s, n)] = DefaultAt(policy, s, n)
        BY <2>2 DEF ResourcesAt
      <3>5. QED
        BY <2>1, <2>3, <3>2, <3>3, <3>4
    <2>5. AddsMissingConstraints(c, o, patch)
      <3>1. ASSUME NEW p \in DOMAIN o.specs, ConstraintsAt(p) \in DOMAIN patch
            PROVE  FALSE
        <4>1. PICK i \in DOMAIN spec.containers :
                \E m \in MissingLocations(spec.containers[i].resources) :
                    ConstraintsAt(p) = ResourcesAt(prefix, i, m[1], m[2])
          BY <2>2, <3>1
        <4>2. i = 0
          BY <4>1 DEF ConstraintsAt, ResourcesAt
        <4>3. QED
          BY <2>1, <4>2, ContainerNumbers
      <3>2. QED
        BY <3>1 DEF AddsMissingConstraints
    <2>6. QED
      BY <2>4, <2>5 DEF AddsMissing
  <1>3. QED
    BY <1>1, <1>2 DEF resource_limits, resource_limits_spec, PolicyOutput, allowed

LEMMA TopologyOutput ==
    ASSUME NEW c, NEW o, IsObject(o)
    PROVE  AddsMissing(c, o, topology_spread(c.topology_spread.policy, o, TRUE).patches)
  <1> DEFINE policy == c.topology_spread.policy
             patch == topology_spread(policy, o, TRUE).patches
             spec == get_pod_spec(o)
             prefix == spec_prefix(o.kind)
             Added == InjectedConstraints(policy, get_pod_labels(o))
  <1>1. CASE ~has_pod_spec(o)
    BY <1>1 DEF topology_spread, allowed, PolicyOutput, NoPatch, AddsMissing,
                AddsMissingResources, AddsMissingConstraints
  <1>2. CASE has_pod_spec(o)
    <2>1. prefix \in DOMAIN o.specs /\ spec = o.specs[prefix]
      BY <1>2, PathIsPrefix DEF has_pod_spec, get_pod_spec
    <2>2. patch = topology_spread_spec(policy, spec, o, TRUE).patches
      BY <1>2 DEF topology_spread
    <2>3. \A l \in DOMAIN patch :
            l = ConstraintsAt(prefix) /\ patch[l] = Added /\ spec.constraints = <<>>
      BY <2>2 DEF topology_spread_spec, PolicyOutput, Given
    <2>4. AddsMissingConstraints(c, o, patch)
      BY <2>1, <2>3 DEF AddsMissingConstraints, ConstraintsAt
    <2>5. ASSUME NEW p \in DOMAIN o.specs, NEW i \in DOMAIN o.specs[p].containers, NEW s, NEW n,
                 ResourcesAt(p, i, s, n) \in DOMAIN patch
          PROVE  FALSE
      <3>1. ResourcesAt(p, i, s, n) = ConstraintsAt(prefix)
        BY <2>3, <2>5
      <3>2. i = 0
        BY <3>1 DEF ConstraintsAt, ResourcesAt
      <3>3. QED
        BY <3>2, ContainerNumbers
    <2>6. AddsMissingResources(c, o, patch)
      BY <2>5 DEF AddsMissingResources
    <2>7. QED
      BY <2>4, <2>6 DEF AddsMissing
  <1>3. QED
    BY <1>1, <1>2

(* Image references and labels are only judged. *)
LEMMA NothingOutput ==
    /\ \A policy, o : image_registry(policy, o).patches = NoPatch
    /\ \A compiled, o : labels(compiled, o).patches = NoPatch
  BY DEF image_registry, labels, PolicyOutput, allowed

LEMMA OutputAddsMissing ==
    ASSUME NEW c, NEW o, IsObject(o), NEW request, request.object = {o}, NEW name \in PolicyName
    PROVE  AddsMissing(c, o, OutputFor(c, name, request, TRUE).patches)
  <1>1. OutputFor(c, name, request, TRUE) = PolicyOutputOf(c, name, o, TRUE)
    BY DEF OutputFor
  <1>2. AddsMissing(c, o, NoPatch)
    BY DEF NoPatch, AddsMissing, AddsMissingResources, AddsMissingConstraints
  <1>3. CASE name = "resource_limits"
    <2>1. PolicyOutputOf(c, name, o, TRUE) = resource_limits(c.resource_limits.policy, o, TRUE)
      BY <1>3 DEF PolicyOutputOf
    <2>2. QED
      BY <1>1, <2>1, ResourceOutput
  <1>4. CASE name = "topology_spread"
    <2>1. PolicyOutputOf(c, name, o, TRUE) = topology_spread(c.topology_spread.policy, o, TRUE)
      BY <1>4 DEF PolicyOutputOf
    <2>2. QED
      BY <1>1, <2>1, TopologyOutput
  <1>5. CASE name = "image_registry"
    <2>1. PolicyOutputOf(c, name, o, TRUE) = image_registry(c.image_registry.policy, o)
      BY <1>5 DEF PolicyOutputOf
    <2>2. OutputFor(c, name, request, TRUE).patches = NoPatch
      BY <1>1, <2>1, NothingOutput
    <2>3. QED
      BY <1>2, <2>2
  <1>6. CASE name = "labels"
    <2>1. PolicyOutputOf(c, name, o, TRUE) = labels(compile_labels(c.labels.policy), o)
      BY <1>6 DEF PolicyOutputOf
    <2>2. OutputFor(c, name, request, TRUE).patches = NoPatch
      BY <1>1, <2>1, NothingOutput
    <2>3. QED
      BY <1>2, <2>2
  <1>7. QED
    BY <1>3, <1>4, <1>5, <1>6 DEF PolicyName

(* What is added is added by one of the policies. *)
LEMMA EvaluationAddsMissing ==
    ASSUME NEW c, NEW o, IsObject(o), NEW request, request.object = {o}
    PROVE  AddsMissing(c, o, AllPatches(evaluate_all(c, request, TRUE)))
  <1> DEFINE results == evaluate_all(c, request, TRUE)
             patch == AllPatches(results)
             PatchOf(n) == OutputFor(c, n, request, TRUE).patches
  <1>1. \A n \in DOMAIN results : n \in PolicyName /\ results[n].patches = PatchOf(n)
    BY DEF evaluate_all, to_result
  <1> HIDE DEF results
  <1>2. ASSUME NEW l \in DOMAIN patch
        PROVE  \E n \in PolicyName : l \in DOMAIN PatchOf(n) /\ patch[l] = PatchOf(n)[l]
    <2> DEFINE n == CHOOSE n \in DOMAIN results : l \in DOMAIN results[n].patches
    <2>1. /\ \E m \in DOMAIN results : l \in DOMAIN results[m].patches
          /\ patch[l] = results[n].patches[l]
      BY DEF AllPatches
    <2>2. n \in DOMAIN results /\ l \in DOMAIN results[n].patches
      BY <2>1
    <2> HIDE DEF n, patch
    <2>3. QED
      BY <1>1, <2>1, <2>2
  <1>3. \A n \in PolicyName : AddsMissing(c, o, PatchOf(n))
    BY OutputAddsMissing
  <1> HIDE DEF PatchOf, patch
  <1>4. AddsMissingResources(c, o, patch)
    BY <1>2, <1>3 DEF AddsMissing, AddsMissingResources
  <1>5. AddsMissingConstraints(c, o, patch)
    BY <1>2, <1>3 DEF AddsMissing, AddsMissingConstraints
  <1>6. QED
    BY <1>4, <1>5 DEF AddsMissing, patch, results

(* The patch of an answer is all of that, or none. *)
LEMMA AnswerPatches ==
    ASSUME NEW c, NEW request
    PROVE  LET response == handle_webhook(c, request, "mutate")
               all == AllPatches(evaluate_all(c, request, TRUE))
           IN
           /\ response.patch \in {NoPatch, all}
           /\ response.allowed /\ ~evaluate_panics(c, request) => response.patch = all
  <1> DEFINE results == evaluate_all(c, request, TRUE)
             response == handle_webhook(c, request, "mutate")
             none == {n \in DOMAIN results : ~results[n].allowed} = {}
  <1>1. CASE evaluate_panics(c, request)
    BY <1>1 DEF handle_webhook, FailOpen
  <1>2. CASE ~evaluate_panics(c, request)
    <2>1. response = build_response(results, "mutate")
      BY <1>2 DEF handle_webhook
    <2> HIDE DEF results
    <2>2. /\ build_response(results, "mutate").allowed = none
          /\ build_response(results, "mutate").patch = IF none THEN AllPatches(results) ELSE NoPatch
      BY DEF build_response
    <2> HIDE DEF none, response
    <2>3. QED
      BY <2>1, <2>2 DEF results, response
  <1>3. QED
    BY <1>1, <1>2

LEMMA MutationAddsMissing ==
    ASSUME NEW c, NEW o, IsObject(o), NEW request, request.object = {o}
    PROVE  AddsMissing(c, o, handle_webhook(c, request, "mutate").patch)
  <1> DEFINE all == AllPatches(evaluate_all(c, request, TRUE))
             patch == handle_webhook(c, request, "mutate").patch
  <1>1. AddsMissing(c, o, NoPatch)
    BY DEF NoPatch, AddsMissing, AddsMissingResources, AddsMissingConstraints
  <1>2. AddsMissing(c, o, all)
    BY EvaluationAddsMissing
  <1>3. patch \in {NoPatch, all}
    BY AnswerPatches
  <1> HIDE DEF all, patch
  <1>4. AddsMissing(c, o, patch)
    BY <1>1, <1>2, <1>3
  <1>5. QED
    BY <1>4 DEF patch

-------------------------------------------------------------------------------
(***************************************************************************)
(* What the patch does to an object.                                       *)
(***************************************************************************)
LEMMA SectionNames ==
    /\ Whole \notin Sections /\ Whole \notin ResourceNames
    /\ Managed \subseteq ResourceNames
  BY DEF Whole, Sections, ResourceNames, Managed

LEMMA MissingLocation ==
    ASSUME NEW resources, NEW s, NEW n, <<s, n>> \in MissingLocations(resources)
    PROVE  \/ s = Whole /\ n = Whole /\ DOMAIN resources = {}
           \/ s \in Sections /\ n = Whole /\ s \notin DOMAIN resources
           \/ /\ s \in Sections /\ n \in Managed
              /\ s \in DOMAIN resources /\ n \notin DOMAIN resources[s]
  BY DEF MissingLocations

LEMMA ResourcesKept ==
    ASSUME NEW c, NEW patch, NEW prefix, NEW i, NEW resources, IsResources(resources),
           \A s, n : ResourcesAt(prefix, i, s, n) \in DOMAIN patch =>
                        <<s, n>> \in MissingLocations(resources)
    PROVE  Keeps(resources, PatchedResources(resources, prefix, i, patch))
  <1> DEFINE At(s, n) == ResourcesAt(prefix, i, s, n)
             Added(s, n) == At(s, n) \in DOMAIN patch
             after == PatchedResources(resources, prefix, i, patch)
  <1>1. CASE Added(Whole, Whole)
    <2>1. DOMAIN resources = {}
      BY <1>1, SectionNames, MissingLocation
    <2>2. QED
      BY <2>1 DEF Keeps
  <1>2. CASE ~Added(Whole, Whole)
    <2> SUFFICES ASSUME NEW s \in DOMAIN resources, NEW n \in DOMAIN resources[s]
                 PROVE  /\ s \in DOMAIN after
                        /\ n \in DOMAIN after[s]
                        /\ after[s][n] = resources[s][n]
      <3>1. \A s \in DOMAIN resources : s \in DOMAIN after
        BY <1>2 DEF PatchedResources, IsResources, IsMap
      <3>2. QED
        BY <3>1 DEF Keeps
    <2>1. s \in Sections /\ n \in ResourceNames
      BY DEF IsResources, IsAmounts, IsMap
    <2>2. ~Added(s, Whole) /\ ~Added(s, n)
      BY <2>1, SectionNames, MissingLocation
    <2>3. after[s] = [m \in {m \in ResourceNames : m \in DOMAIN resources[s] \/ Added(s, m)} |->
                        IF Added(s, m) THEN patch[At(s, m)] ELSE resources[s][m]]
      BY <1>2, <2>1, <2>2 DEF PatchedResources
    <2>4. s \in DOMAIN after
      BY <1>2, <2>1 DEF PatchedResources
    <2>5. QED
      BY <2>1, <2>2, <2>3, <2>4
  <1>3. QED
    BY <1>1, <1>2

LEMMA ResourcesTyped ==
    ASSUME NEW c \in PoliciesConfig, NEW patch, NEW prefix, NEW i,
           NEW resources, IsResources(resources),
           \A s, n : ResourcesAt(prefix, i, s, n) \in DOMAIN patch =>
                        /\ <<s, n>> \in MissingLocations(resources)
                        /\ patch[ResourcesAt(prefix, i, s, n)]
                             = DefaultAt(c.resource_limits.policy, s, n)
    PROVE  IsResources(PatchedResources(resources, prefix, i, patch))
  <1> DEFINE At(s, n) == ResourcesAt(prefix, i, s, n)
             Added(s, n) == At(s, n) \in DOMAIN patch
             defaults == c.resource_limits.policy.defaults
             after == PatchedResources(resources, prefix, i, patch)
             amounts(s) == [n \in {n \in ResourceNames : n \in DOMAIN resources[s] \/ Added(s, n)} |->
                                IF Added(s, n) THEN patch[At(s, n)] ELSE resources[s][n]]
  <1>1. defaults \in [Sections -> [Managed -> Quantity]]
    BY DEF PoliciesConfig, PolicyConfig, ResourceLimitsPolicy
  <1>2. \A s \in Sections : IsAmounts(defaults[s])
    BY <1>1, SectionNames DEF IsAmounts, IsMap
  <1>3. CASE Added(Whole, Whole)
    <2>1. after = defaults
      BY <1>3 DEF PatchedResources, DefaultAt
    <2>2. QED
      BY <1>1, <1>2, <2>1 DEF IsResources, IsMap
  <1>4. CASE ~Added(Whole, Whole)
    <2>1. /\ after = [s \in DOMAIN after |-> after[s]]
          /\ DOMAIN after \subseteq Sections
      BY <1>4 DEF PatchedResources
    <2>2. ASSUME NEW s \in DOMAIN after
          PROVE  IsAmounts(after[s])
      <3>1. CASE Added(s, Whole)
        <4>1. after[s] = patch[At(s, Whole)]
          BY <1>4, <2>2, <3>1 DEF PatchedResources
        <4>2. patch[At(s, Whole)] = defaults[s]
          BY <2>1, <3>1, SectionNames DEF DefaultAt
        <4>3. QED
          BY <1>2, <2>1, <4>1, <4>2
      <3>2. CASE ~Added(s, Whole)
        <4>1. after[s] = amounts(s) /\ s \in DOMAIN resources
          BY <1>4, <2>2, <3>2 DEF PatchedResources
        <4>2. IsAmounts(resources[s])
          BY <4>1 DEF IsResources
        <4>3. ASSUME NEW n \in DOMAIN amounts(s)
              PROVE  amounts(s)[n] \in Quantity
          <5>1. n \in ResourceNames
            OBVIOUS
          <5>2. CASE Added(s, n)
            <6>1. n \in Managed /\ s \in Sections
              BY <5>1, <5>2, SectionNames, MissingLocation
            <6>2. amounts(s)[n] = defaults[s][n]
              BY <5>1, <5>2, <6>1, SectionNames DEF DefaultAt
            <6>3. QED
              BY <1>1, <6>1, <6>2
          <5>3. CASE ~Added(s, n)
            BY <4>2, <5>1, <5>3 DEF IsAmounts
          <5>4. QED
            BY <5>2, <5>3
        <4>4. IsMap(amounts(s), ResourceNames)
          BY DEF IsMap
        <4> HIDE DEF amounts
        <4>5. QED
          BY <4>1, <4>3, <4>4 DEF IsAmounts
      <3>3. QED
        BY <3>1, <3>2
    <2> HIDE DEF after
    <2>3. QED
      BY <2>1, <2>2 DEF IsResources, IsMap, after
  <1>5. QED
    BY <1>3, <1>4

LEMMA SequenceOf ==
    ASSUME NEW n \in Nat, NEW f, f = [i \in 1 .. n |-> f[i]]
    PROVE  IsSequence(f) /\ DOMAIN f = 1 .. n
  <1> DEFINE S == {f[i] : i \in DOMAIN f}
  <1>1. f \in [1 .. n -> S] /\ DOMAIN f = 1 .. n
    OBVIOUS
  <1> HIDE DEF S
  <1>2. f \in Seq(S)
    BY <1>1
  <1>3. QED
    BY <1>1, <1>2 DEF IsSequence, S

LEMMA PodLabelsTyped ==
    ASSUME NEW o, IsObject(o)
    PROVE  IsLabels(get_pod_labels(o))
  <1>1. IsLabels(NoLabels)
    BY DEF NoLabels, IsLabels, IsMap
  <1>2. QED
    BY <1>1 DEF get_pod_labels, IsObject

LEMMA InjectedTyped ==
    ASSUME NEW c \in PoliciesConfig, NEW o, IsObject(o)
    PROVE  LET added == InjectedConstraints(c.topology_spread.policy, get_pod_labels(o)) IN
           /\ IsSequence(added)
           /\ \A i \in DOMAIN added : IsConstraint(added[i])
  <1> DEFINE added == InjectedConstraints(c.topology_spread.policy, get_pod_labels(o))
  <1>1. c.topology_spread.policy.max_skew \in Int
    BY DEF PoliciesConfig, PolicyConfig, TopologySpreadPolicy
  <1>2. added = [i \in 1 .. 1 |-> added[i]]
    BY DEF InjectedConstraints
  <1>3. IsSequence(added) /\ DOMAIN added = 1 .. 1
    BY <1>2, SequenceOf
  <1>4. IsConstraint(added[1])
    BY <1>1, PodLabelsTyped DEF InjectedConstraints, IsConstraint
  <1>5. QED
    BY <1>3, <1>4

LEMMA PatchedTyped ==
    ASSUME NEW c \in PoliciesConfig, NEW o, IsObject(o), NEW patch, AddsMissing(c, o, patch)
    PROVE  IsObject(Patched(o, patch))
  <1> DEFINE after == Patched(o, patch)
  <1>1. after = [kind |-> o.kind, labels |-> o.labels, templateLabels |-> o.templateLabels,
                 specs |-> [p \in DOMAIN o.specs |-> PatchedSpec(o.specs[p], p, patch)]]
    BY DEF Patched, IsObject
  <1>2. ASSUME NEW p \in DOMAIN o.specs
        PROVE  IsPodSpec(PatchedSpec(o.specs[p], p, patch))
    <2> DEFINE spec == o.specs[p]
               containers == PatchedSpec(spec, p, patch).containers
               constraints == PatchedSpec(spec, p, patch).constraints
               resources(i) == PatchedResources(spec.containers[i].resources, p, i, patch)
    <2>1. IsPodSpec(spec)
      BY DEF IsObject
    <2>2. /\ Len(spec.containers) \in Nat
          /\ DOMAIN spec.containers = 1 .. Len(spec.containers)
      BY <2>1, SequenceDomain DEF IsPodSpec
    <2>3. \A i \in DOMAIN spec.containers : IsContainer(spec.containers[i])
      BY <2>1 DEF IsPodSpec
    <2>4. containers = [i \in 1 .. Len(spec.containers) |->
                            [spec.containers[i] EXCEPT !.resources = resources(i)]]
      BY <2>2 DEF PatchedSpec
    <2>5. IsSequence(containers) /\ DOMAIN containers = DOMAIN spec.containers
      <3>1. containers = [i \in 1 .. Len(spec.containers) |-> containers[i]]
        BY <2>4
      <3> HIDE DEF containers
      <3>2. QED
        BY <2>2, <3>1, SequenceOf
    <2>6. ASSUME NEW i \in DOMAIN spec.containers
          PROVE  IsContainer(containers[i])
      <3>1. IsContainer(spec.containers[i]) /\ IsResources(spec.containers[i].resources)
        BY <2>3 DEF IsContainer
      <3>2. IsResources(resources(i))
        BY <3>1, ResourcesTyped DEF AddsMissing, AddsMissingResources
      <3>3. containers[i] = [image |-> spec.containers[i].image, resources |-> resources(i)]
        BY <2>2, <2>4, <3>1 DEF IsContainer
      <3> HIDE DEF resources
      <3>4. QED
        BY <3>1, <3>2, <3>3 DEF IsContainer
    <2>7. IsSequence(constraints) /\ \A i \in DOMAIN constraints : IsConstraint(constraints[i])
      <3>1. CASE ConstraintsAt(p) \in DOMAIN patch
        <4>1. constraints = InjectedConstraints(c.topology_spread.policy, get_pod_labels(o))
          BY <3>1 DEF PatchedSpec, AddsMissing, AddsMissingConstraints
        <4>2. QED
          BY <4>1, InjectedTyped
      <3>2. CASE ConstraintsAt(p) \notin DOMAIN patch
        <4>1. constraints = spec.constraints
          BY <3>2 DEF PatchedSpec
        <4>2. QED
          BY <2>1, <4>1 DEF IsPodSpec
      <3>3. QED
        BY <3>1, <3>2
    <2>8. PatchedSpec(spec, p, patch) = [containers |-> containers, constraints |-> constraints]
      BY DEF PatchedSpec
    <2> HIDE DEF containers, constraints, spec
    <2>9. QED
      BY <2>5, <2>6, <2>7, <2>8 DEF IsPodSpec, spec
  <1>3. QED
    BY <1>1, <1>2 DEF IsObject, IsMap

LEMMA PatchedAdds ==
    ASSUME NEW c, NEW o, IsObject(o), NEW patch, AddsMissing(c, o, patch)
    PROVE  OnlyAdds(o, Patched(o, patch))
  <1>1. /\ Patched(o, patch).kind = o.kind
        /\ Patched(o, patch).labels = o.labels
        /\ Patched(o, patch).specs = [p \in DOMAIN o.specs |-> PatchedSpec(o.specs[p], p, patch)]
    BY DEF Patched, IsObject
  <1>2. ASSUME NEW p \in DOMAIN o.specs
        PROVE  KeepsSpec(o.specs[p], PatchedSpec(o.specs[p], p, patch))
    <2> DEFINE spec == o.specs[p]
               after == PatchedSpec(spec, p, patch)
               resources(i) == PatchedResources(spec.containers[i].resources, p, i, patch)
    <2>1. after.containers = [i \in DOMAIN spec.containers |->
                                [spec.containers[i] EXCEPT !.resources = resources(i)]]
      BY DEF PatchedSpec
    <2>2. ASSUME NEW i \in DOMAIN spec.containers
          PROVE  /\ after.containers[i].image = spec.containers[i].image
                 /\ Keeps(spec.containers[i].resources, after.containers[i].resources)
      <3>1. IsContainer(spec.containers[i]) /\ IsResources(spec.containers[i].resources)
        BY DEF IsObject, IsPodSpec, IsContainer
      <3>2. Keeps(spec.containers[i].resources, resources(i))
        BY <3>1, ResourcesKept DEF AddsMissing, AddsMissingResources
      <3>3. /\ after.containers[i].image = spec.containers[i].image
            /\ after.containers[i].resources = resources(i)
        BY <2>1, <3>1 DEF IsContainer
      <3>4. QED
        BY <3>2, <3>3
    <2>3. spec.constraints # <<>> => after.constraints = spec.constraints
      BY DEF PatchedSpec, AddsMissing, AddsMissingConstraints
    <2>4. DOMAIN after.containers = DOMAIN spec.containers
      BY <2>1
    <2> HIDE DEF after
    <2>5. QED
      BY <2>2, <2>3, <2>4 DEF KeepsSpec, after
  <1>3. QED
    BY <1>1, <1>2 DEF OnlyAdds

(* The other webhooks make objects of objects. *)
LEMMA WithSidecarTyped ==
    ASSUME NEW o, IsObject(o), NEW c, IsContainer(c)
    PROVE  IsObject(WithSidecar(o, c))
  <1> DEFINE containers(p) == LET list == o.specs[p].containers IN
                                IF Len(list) < MaxContainers THEN Append(list, c) ELSE list
             specOf(p) == [o.specs[p] EXCEPT !.containers = containers(p)]
             specs == [p \in DOMAIN o.specs |-> specOf(p)]
  <1>1. WithSidecar(o, c) = [kind |-> o.kind, labels |-> o.labels,
                             templateLabels |-> o.templateLabels, specs |-> specs]
    <2>1. WithSidecar(o, c) = [o EXCEPT !.specs = specs]
      BY DEF WithSidecar
    <2> HIDE DEF specs
    <2>2. QED
      BY <2>1 DEF IsObject
  <1>2. ASSUME NEW p \in DOMAIN o.specs
        PROVE  IsPodSpec(specOf(p))
    <2> DEFINE list == o.specs[p].containers
               S == {list[i] : i \in DOMAIN list} \cup {c}
    <2>1. IsPodSpec(o.specs[p])
      BY DEF IsObject
    <2>2. specOf(p) = [containers |-> containers(p), constraints |-> o.specs[p].constraints]
      BY <2>1 DEF IsPodSpec
    <2>3. list \in Seq(S)
      <3>1. list \in Seq({list[i] : i \in DOMAIN list})
        BY <2>1 DEF IsPodSpec, IsSequence
      <3> DEFINE T == {list[i] : i \in DOMAIN list}
      <3>2. T \subseteq S
        OBVIOUS
      <3>3. list \in [1 .. Len(list) -> T] /\ Len(list) \in Nat
        BY <3>1
      <3> HIDE DEF S, T
      <3>4. QED
        BY <3>2, <3>3
    <2>4. \A e \in S : IsContainer(e)
      BY <2>1 DEF IsPodSpec
    <2> DEFINE more == Append(list, c)
    <2>5. more \in Seq(S)
      <3>1. c \in S
        OBVIOUS
      <3> HIDE DEF S, list
      <3>2. QED
        BY <2>3, <3>1
    <2>6. IsSequence(more) /\ \A i \in DOMAIN more : IsContainer(more[i])
      <3> HIDE DEF S, more
      <3>1. \A i \in DOMAIN more : more[i] \in S
        BY <2>5
      <3>2. more = [i \in 1 .. Len(more) |-> more[i]] /\ Len(more) \in Nat
        BY <2>5
      <3>3. QED
        BY <2>4, <3>1, <3>2, SequenceOf
    <2> HIDE DEF more, S
    <2>7. IsSequence(containers(p)) /\ \A i \in DOMAIN containers(p) : IsContainer(containers(p)[i])
      BY <2>1, <2>6 DEF IsPodSpec, more
    <2> HIDE DEF containers
    <2>8. QED
      BY <2>1, <2>2, <2>7 DEF IsPodSpec
  <1> HIDE DEF specOf
  <1>3. QED
    BY <1>1, <1>2 DEF IsObject, IsMap

LEMMA ChangedTyped ==
    ASSUME NEW o, IsObject(o), NEW after \in Changed(o)
    PROVE  IsObject(after)
  <1>1. CASE after = o
    BY <1>1
  <1>2. CASE \E c \in Sidecars : after = WithSidecar(o, c)
    BY <1>2, WithSidecarTyped, AdmissionAssumption
  <1>3. CASE \E m \in LabelChanges : after = [o EXCEPT !.labels = m]
    <2>1. PICK m \in LabelChanges : after = [o EXCEPT !.labels = m]
      BY <1>3
    <2>2. after = [kind |-> o.kind, labels |-> m, specs |-> o.specs,
                   templateLabels |-> o.templateLabels]
      BY <2>1 DEF IsObject
    <2>3. IsLabels(m)
      BY AdmissionAssumption
    <2>4. QED
      BY <2>2, <2>3 DEF IsObject
  <1>4. QED
    BY <1>1, <1>2, <1>3 DEF Changed

-------------------------------------------------------------------------------
LEMMA InitTyped == Init => TypeOK
  <1> SUFFICES ASSUME Init PROVE TypeOK
    OBVIOUS
  <1>1. object \in Submissions
    BY AdmissionAssumption DEF Init
  <1>2. IsObject(object)
    BY <1>1, AdmissionAssumption
  <1>3. QED
    BY <1>2 DEF Init, TypeOK, Phases, Outcomes, Operation

LEMMA DecideTyped ==
    ASSUME TypeOK, NEW result \in {"stored", "rejected", "invalid"}, NEW by \in SUBSET Configs,
           Decide(result, by)
    PROVE  /\ phase' \in Phases
           /\ outcome' \in Outcomes
           /\ decidedBy' \in SUBSET Configs
           /\ \A o \in stored' : IsObject(o)
  BY DEF TypeOK, Decide, Phases, Outcomes

(* The answer of a replica turns the object into one, and only adds to it. *)
LEMMA MutateEffect ==
    ASSUME TypeOK, NEW r \in Replicas, Mutate(r)
    PROVE  IsObject(object') /\ OnlyAdds(object, object')
  <1>1. PICK c \in config[r] :
          \/ object' = Patched(object, handle_webhook(c, Request, "mutate").patch)
          \/ object' = object
    BY DEF Mutate
  <1>2. c \in PoliciesConfig /\ IsObject(object)
    BY AdmissionAssumption DEF TypeOK
  <1>3. CASE object' = object
    BY <1>2, <1>3 DEF OnlyAdds, KeepsSpec, Keeps
  <1>4. CASE object' = Patched(object, handle_webhook(c, Request, "mutate").patch)
    <2> DEFINE patch == handle_webhook(c, Request, "mutate").patch
    <2>1. Request.object = {object}
      BY DEF Request
    <2>2. AddsMissing(c, object, patch)
      BY <1>2, <2>1, MutationAddsMissing
    <2> HIDE DEF patch
    <2>3. IsObject(Patched(object, patch)) /\ OnlyAdds(object, Patched(object, patch))
      BY <1>2, <2>2, PatchedTyped, PatchedAdds
    <2>4. QED
      BY <1>4, <2>3 DEF patch
  <1>5. QED
    BY <1>1, <1>3, <1>4

(* Every action preserves the types. *)
LEMMA NextTyped == TypeOK /\ [Next]_vars => TypeOK'
  <1> SUFFICES ASSUME TypeOK, [Next]_vars PROVE TypeOK'
    OBVIOUS
  <1>1. ASSUME NEW op \in {"CREATE", "UPDATE"}, NEW o \in Submissions \cup stored, Submit(op, o)
        PROVE  TypeOK'
    <2>1. IsObject(o)
      BY AdmissionAssumption DEF TypeOK
    <2>2. QED
      BY <1>1, <2>1 DEF Submit, TypeOK, clusterVars, Phases, Outcomes, Operation
  <1>2. CASE Delete
    BY <1>2 DEF Delete, TypeOK, clusterVars, historyVars, Phases, Outcomes, Operation
  <1>3. ASSUME NEW r \in Replicas, Mutate(r)
        PROVE  TypeOK'
    <2>1. IsObject(object')
      BY <1>3, MutateEffect
    <2>2. PICK c \in config[r] :
            \/ /\ phase' = AfterMutating
               /\ mutatedBy' = {c}
               /\ mutatedFrom' = {object}
               /\ UNCHANGED <<outcome, stored, decidedBy>>
            \/ Decide("rejected", {c}) /\ UNCHANGED <<mutatedBy, mutatedFrom>>
      BY <1>3 DEF Mutate
    <2>3. {c} \in SUBSET Configs
      BY DEF TypeOK
    <2>4. UNCHANGED <<operation, published, config>>
      BY <1>3 DEF Mutate, clusterVars
    <2>5. CASE Decide("rejected", {c}) /\ UNCHANGED <<mutatedBy, mutatedFrom>>
      BY <2>1, <2>3, <2>4, <2>5, DecideTyped DEF TypeOK
    <2>6. CASE /\ phase' = AfterMutating
               /\ mutatedBy' = {c}
               /\ mutatedFrom' = {object}
               /\ UNCHANGED <<outcome, stored, decidedBy>>
      BY <2>1, <2>3, <2>4, <2>6 DEF TypeOK, AfterMutating, Phases
    <2>7. QED
      BY <2>2, <2>5, <2>6
  <1>4. ASSUME NEW r \in Replicas, Validate(r)
        PROVE  TypeOK'
    <2>1. PICK c \in config[r] : Decide("stored", {c}) \/ Decide("rejected", {c})
      BY <1>4 DEF Validate
    <2>2. {c} \in SUBSET Configs
      BY DEF TypeOK
    <2>3. UNCHANGED <<operation, object, mutatedBy, mutatedFrom, published, config>>
      BY <1>4 DEF Validate, clusterVars
    <2>4. QED
      BY <2>1, <2>2, <2>3, DecideTyped DEF TypeOK
  <1>5. CASE MutateUnanswered
    BY <1>5 DEF MutateUnanswered, AfterMutating, TypeOK, clusterVars, historyVars, Phases
  <1>6. CASE Change
    <2>1. /\ object' \in Changed(object)
          /\ phase' \in {"checking", "reinvoking"}
          /\ mutatedBy' \in {mutatedBy, {}}
          /\ mutatedFrom' \in {mutatedFrom, {}}
          /\ UNCHANGED <<operation, outcome, stored, decidedBy, published, config>>
      BY <1>6 DEF Change, clusterVars
    <2>2. IsObject(object')
      BY <2>1, ChangedTyped DEF TypeOK
    <2>3. QED
      BY <2>1, <2>2 DEF TypeOK, Phases
  <1>7. CASE Check
    <2>1. UNCHANGED <<operation, object, mutatedBy, mutatedFrom, published, config>>
      BY <1>7 DEF Check, clusterVars
    <2>2. CASE Decide("invalid", {})
      BY <2>1, <2>2, DecideTyped DEF TypeOK
    <2>3. CASE phase' = "validating" /\ UNCHANGED <<outcome, stored, decidedBy>>
      BY <2>1, <2>3 DEF TypeOK, Phases
    <2>4. QED
      BY <1>7, <2>2, <2>3 DEF Check
  <1>8. CASE ValidateUnanswered
    BY <1>8, DecideTyped DEF ValidateUnanswered, TypeOK, clusterVars
  <1>9. CASE Publish
    BY <1>9 DEF Publish, TypeOK, requestVars, historyVars
  <1>10. ASSUME NEW r \in Replicas, Start(r)
         PROVE  TypeOK'
    BY <1>10 DEF Start, TypeOK, requestVars, historyVars
  <1>11. ASSUME NEW r \in Replicas, Stop(r)
         PROVE  TypeOK'
    BY <1>11 DEF Stop, TypeOK, requestVars, historyVars
  <1>12. CASE UNCHANGED vars
    BY <1>12 DEF TypeOK, vars, clusterVars, requestVars, historyVars
  <1>13. QED
    BY <1>1, <1>2, <1>3, <1>4, <1>5, <1>6, <1>7, <1>8, <1>9, <1>10, <1>11, <1>12
    DEF Next, Client, Serve, Operator

(* Whatever the objects, the configurations and the order of the calls, the *)
(* object under review and the stored one stay well-formed objects: a patch *)
(* puts lists where lists belong and readable amounts where amounts do      *)
(* (resource_limits.rs, topology_spread.rs).                                *)
THEOREM AdmissionTyped == Spec => []TypeOK
  BY InitTyped, NextTyped, PTL DEF Spec

-------------------------------------------------------------------------------
(* A step that is not an answer to /mutate leaves the object under review   *)
(* alone while that answer is awaited.                                      *)
LEMMA OnlyAnswersMutate ==
    ASSUME [Next]_vars, AtMutation, \A r \in Replicas : ~Mutate(r)
    PROVE  object' = object
  BY DEF Next, Client, Serve, Operator, AtMutation, Submit, Delete, Validate, MutateUnanswered,
         Change, Check, ValidateUnanswered, Publish, Start, Stop,
         vars, clusterVars, requestVars, historyVars

LEMMA StepOnlyAdds == TypeOK /\ [Next]_vars => [AtMutation => OnlyAdds(object, object')]_vars
  <1> SUFFICES ASSUME TypeOK, [Next]_vars, AtMutation
               PROVE  OnlyAdds(object, object')
    OBVIOUS
  <1>1. CASE \E r \in Replicas : Mutate(r)
    BY <1>1, MutateEffect
  <1>2. CASE \A r \in Replicas : ~Mutate(r)
    <2>1. object' = object
      BY <1>2, OnlyAnswersMutate
    <2>2. QED
      BY <2>1 DEF OnlyAdds, KeepsSpec, Keeps
  <1>3. QED
    BY <1>1, <1>2

(* The answer of /mutate never takes away or overwrites what the object     *)
(* says, for every object, configuration and number of containers           *)
(* (generate_resource_patches, topology_spread.rs: every operation is an    *)
(* addition where nothing was).                                             *)
THEOREM AnswersOnlyAdd == Spec => MutationOnlyAdds
  BY InitTyped, NextTyped, StepOnlyAdds, PTL DEF Spec, MutationOnlyAdds
===============================================================================
