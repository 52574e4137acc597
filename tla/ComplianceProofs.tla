--------------------------- MODULE ComplianceProofs ---------------------------
(***************************************************************************)
(* What is decided about a request is right for the configuration that     *)
(* decided it, and for the pods that come of it.                           *)
(***************************************************************************)
EXTENDS PolicyProofs, AdmissionProofs

(***************************************************************************)
(* The inductive invariant: a decision stands as the handler that made it  *)
(* gave it.  What is stored is what was reviewed, and no step between a    *)
(* decision and the next request changes the object it was about.          *)
(***************************************************************************)
Undecided == phase # "idle" => outcome = "none"

StoredAsReviewed ==
    outcome = "stored" =>
        /\ stored = {object}
        /\ \A c \in decidedBy : handle_webhook(c, Request, "validate").allowed

RejectedAsReviewed ==
    outcome = "rejected" =>
        \A c \in decidedBy : \E w \in WebhookType : ~handle_webhook(c, Request, w).allowed

DecisionsStand == Undecided /\ StoredAsReviewed /\ RejectedAsReviewed

-------------------------------------------------------------------------------
LEMMA InitStands == Init => DecisionsStand
  BY DEF Init, DecisionsStand, Undecided, StoredAsReviewed, RejectedAsReviewed

(* A step that decides nothing leaves a decision alone, or withdraws it. *)
LEMMA UndecidedStands ==
    ASSUME outcome' = "none"
    PROVE  DecisionsStand'
  BY DEF DecisionsStand, Undecided, StoredAsReviewed, RejectedAsReviewed

LEMMA UnchangedStands ==
    ASSUME DecisionsStand, UNCHANGED <<phase, operation, object, outcome, stored, decidedBy>>
    PROVE  DecisionsStand'
  BY DEF DecisionsStand, Undecided, StoredAsReviewed, RejectedAsReviewed, Request

LEMMA NextStands == DecisionsStand /\ [Next]_vars => DecisionsStand'
  <1> SUFFICES ASSUME DecisionsStand, [Next]_vars PROVE DecisionsStand'
    OBVIOUS
  <1>0. phase # "idle" => outcome = "none"
    BY DEF DecisionsStand, Undecided
  <1>1. ASSUME NEW op, NEW o, Submit(op, o)
        PROVE  DecisionsStand'
    <2>1. outcome' = "none"
      BY <1>1 DEF Submit
    <2>2. QED
      BY <2>1, UndecidedStands
  <1>2. CASE Delete
    <2>1. outcome' = "none"
      BY <1>2 DEF Delete
    <2>2. QED
      BY <2>1, UndecidedStands
  <1>3. ASSUME NEW r \in Replicas, Mutate(r)
        PROVE  DecisionsStand'
    <2>1. PICK c \in config[r] :
            \/ UNCHANGED outcome
            \/ /\ ~handle_webhook(c, Request, "mutate").allowed
               /\ Decide("rejected", {c}) /\ UNCHANGED object
      BY <1>3 DEF Mutate
    <2>2. UNCHANGED operation /\ outcome = "none"
      BY <1>0, <1>3 DEF Mutate, AtMutation
    <2>3. CASE UNCHANGED outcome
      BY <2>2, <2>3, UndecidedStands
    <2>4. CASE /\ ~handle_webhook(c, Request, "mutate").allowed
               /\ Decide("rejected", {c}) /\ UNCHANGED object
      <3>1. Request' = Request
        BY <2>2, <2>4 DEF Request
      <3>2. outcome' = "rejected" /\ decidedBy' = {c} /\ phase' = "idle"
        BY <2>4 DEF Decide
      <3>3. RejectedAsReviewed'
        BY <2>4, <3>1, <3>2 DEF RejectedAsReviewed, WebhookType
      <3>4. QED
        BY <3>2, <3>3 DEF DecisionsStand, Undecided, StoredAsReviewed
    <2>5. QED
      BY <2>1, <2>3, <2>4
  <1>4. ASSUME NEW r \in Replicas, Validate(r)
        PROVE  DecisionsStand'
    <2>1. PICK c \in config[r] :
            Decide(IF handle_webhook(c, Request, "validate").allowed THEN "stored" ELSE "rejected", {c})
      BY <1>4 DEF Validate
    <2>2. Request' = Request /\ UNCHANGED object
      BY <1>4 DEF Validate, Request
    <2>3. phase' = "idle" /\ decidedBy' = {c}
      BY <2>1 DEF Decide
    <2>4. CASE handle_webhook(c, Request, "validate").allowed
      <3>1. outcome' = "stored" /\ stored' = {object}
        BY <2>1, <2>4 DEF Decide
      <3>2. QED
        BY <2>2, <2>3, <2>4, <3>1
        DEF DecisionsStand, Undecided, StoredAsReviewed, RejectedAsReviewed
    <2>5. CASE ~handle_webhook(c, Request, "validate").allowed
      <3>1. outcome' = "rejected"
        BY <2>1, <2>5 DEF Decide
      <3>2. QED
        BY <2>2, <2>3, <2>5, <3>1
        DEF DecisionsStand, Undecided, StoredAsReviewed, RejectedAsReviewed, WebhookType
    <2>6. QED
      BY <2>4, <2>5
  <1>5. CASE MutateUnanswered
    <2>1. outcome' = "none"
      BY <1>0, <1>5 DEF MutateUnanswered, AtMutation
    <2>2. QED
      BY <2>1, UndecidedStands
  <1>6. CASE Change
    <2>1. outcome' = "none"
      BY <1>0, <1>6 DEF Change
    <2>2. QED
      BY <2>1, UndecidedStands
  <1>7. CASE Check
    <2>1. outcome = "none"
      BY <1>0, <1>7 DEF Check
    <2>2. outcome' = "none" \/ (outcome' = "invalid" /\ phase' = "idle")
      BY <1>7, <2>1 DEF Check, Decide
    <2>3. QED
      BY <2>2, UndecidedStands
      DEF DecisionsStand, Undecided, StoredAsReviewed, RejectedAsReviewed
  <1>8. CASE ValidateUnanswered
    <2>1. /\ outcome' = "stored" /\ stored' = {object} /\ phase' = "idle"
          /\ decidedBy' = {} /\ UNCHANGED object
      BY <1>8 DEF ValidateUnanswered, Decide
    <2>2. QED
      BY <2>1 DEF DecisionsStand, Undecided, StoredAsReviewed, RejectedAsReviewed
  <1>9. CASE Operator \/ UNCHANGED vars
    <2>1. UNCHANGED <<phase, operation, object, outcome, stored, decidedBy>>
      BY <1>9 DEF Operator, Publish, Start, Stop, vars, requestVars, historyVars
    <2>2. QED
      BY <2>1, UnchangedStands
  <1>10. QED
    BY <1>1, <1>2, <1>3, <1>4, <1>5, <1>6, <1>7, <1>8, <1>9 DEF Next, Client, Serve

LEMMA DecisionsAlwaysStand == Spec => []DecisionsStand
  BY InitStands, NextStands, PTL DEF Spec

-------------------------------------------------------------------------------
LEMMA StandingStored == TypeOK /\ DecisionsStand => StoredIsCompliant
  <1> SUFFICES ASSUME TypeOK, DecisionsStand, NEW c \in decidedBy, outcome = "stored",
                      NEW o \in stored,
                      ~evaluate_panics(c, [operation |-> operation, object |-> {o}])
               PROVE  Compliant(c, o)
    BY DEF StoredIsCompliant
  <1>1. /\ o = object
        /\ handle_webhook(c, Request, "validate").allowed
    BY DEF DecisionsStand, StoredAsReviewed
  <1>2. [operation |-> operation, object |-> {o}] = Request /\ Request.object = {o}
    BY <1>1 DEF Request
  <1>3. c \in PoliciesConfig /\ IsObject(o)
    BY <1>1, AdmissionAssumption DEF TypeOK
  <1> HIDE DEF Request
  <1>4. QED
    BY <1>1, <1>2, <1>3, AllowedIsCompliant

(* For all objects, configurations and orders of calls and restarts, a      *)
(* stored object whose validation was answered obeys every enforced policy  *)
(* of the configuration that answered: what the evaluations of              *)
(* policies/*.rs find is all there is to find (handlers.rs, build_response).*)
THEOREM StoredCompliant == Spec => []StoredIsCompliant
  <1>1. Spec => []TypeOK
    BY AdmissionTyped
  <1>2. Spec => []DecisionsStand
    BY DecisionsAlwaysStand
  <1>3. QED
    BY <1>1, <1>2, StandingStored, PTL

-------------------------------------------------------------------------------
(***************************************************************************)
(* The pods of a workload: the same pod spec is judged alike wherever it   *)
(* is found, and never more harshly by /mutate than by /validate.          *)
(***************************************************************************)
SameSpec(o, pod) ==
    /\ has_pod_spec(o) /\ has_pod_spec(pod)
    /\ get_pod_spec(pod) = get_pod_spec(o)

LEMMA PodHasSpec ==
    ASSUME NEW o, IsObject(o), NEW pod \in PodsOf(o)
    PROVE  SameSpec(o, pod)
  <1> DEFINE made(p, pod_labels) ==
               [kind |-> "Pod", labels |-> pod_labels, templateLabels |-> NoLabels,
                specs |-> [q \in {pod_spec_path("Pod")} |-> o.specs[p]]]
             sets == IF PodLabels(o) = {} THEN {NoLabels} ELSE PodLabels(o)
  <1>1. pod \in {made(p, pod_labels) : p \in DOMAIN o.specs, pod_labels \in sets}
    <2>1. o.kind # "Pod"
      BY DEF PodsOf
    <2>2. QED
      BY <2>1 DEF PodsOf
  <1>2. PICK p \in DOMAIN o.specs, pod_labels \in sets : pod = made(p, pod_labels)
    BY <1>1
  <1>3. /\ pod.kind = "Pod"
        /\ pod.specs = [q \in {pod_spec_path("Pod")} |-> o.specs[p]]
    BY <1>2
  <1>4. has_pod_spec(o) /\ o.specs[p] = get_pod_spec(o)
    BY OnlyPodSpec
  <1>5. QED
    BY <1>3, <1>4 DEF SameSpec, has_pod_spec, get_pod_spec

LEMMA SpecPanicsAlike ==
    ASSUME NEW c, NEW o, NEW pod, SameSpec(o, pod),
           NEW request, request.object = {o}, NEW creation, creation.object = {pod},
           evaluate_panics(c, request)
    PROVE  evaluate_panics(c, creation)
  <1>1. resource_limits_panics(c.resource_limits.policy, o)
    BY DEF evaluate_panics
  <1>2. resource_limits_panics(c.resource_limits.policy, pod)
    BY <1>1 DEF resource_limits_panics, SameSpec
  <1>3. QED
    BY <1>2 DEF evaluate_panics

LEMMA ResourcesFoundAlike ==
    ASSUME NEW policy, NEW o, NEW pod, SameSpec(o, pod), NEW mutating,
           resource_limits(policy, o, FALSE).violations = {}
    PROVE  resource_limits(policy, pod, mutating).violations = {}
  <1> DEFINE spec == get_pod_spec(o)
             Missing(i, m) == MissingResources(policy, spec.containers[i], i, m)
             Above(i) == CpuAboveCap(policy, spec.containers[i], i)
                         \cup MemoryAboveCap(policy, spec.containers[i], i)
  <1>1. /\ resource_limits(policy, o, FALSE).violations
                = UNION {Missing(i, FALSE) \cup Above(i) : i \in DOMAIN spec.containers}
        /\ resource_limits(policy, pod, mutating).violations
                = UNION {Missing(i, mutating) \cup Above(i) : i \in DOMAIN spec.containers}
    BY DEF resource_limits, resource_limits_spec, PolicyOutput, SameSpec
  <1>2. \A i : Missing(i, mutating) \subseteq Missing(i, FALSE)
    BY DEF MissingResources, Given
  <1> HIDE DEF Missing, Above
  <1>3. \A i \in DOMAIN spec.containers : Missing(i, FALSE) \cup Above(i) = {}
    BY <1>1
  <1>4. \A i \in DOMAIN spec.containers : Missing(i, mutating) \cup Above(i) = {}
    BY <1>2, <1>3
  <1>5. QED
    BY <1>1, <1>4

LEMMA ImagesFoundAlike ==
    ASSUME NEW policy, NEW o, NEW pod, SameSpec(o, pod)
    PROVE  image_registry(policy, pod) = image_registry(policy, o)
  BY DEF image_registry, SameSpec

LEMMA ConstraintsFoundAlike ==
    ASSUME NEW policy, NEW o, NEW pod, SameSpec(o, pod), NEW mutating,
           topology_spread(policy, o, FALSE).violations = {}
    PROVE  topology_spread(policy, pod, mutating).violations = {}
  <1> DEFINE spec == get_pod_spec(o)
             missing == spec.constraints = <<>>
             Above == SkewAboveMaximum(policy, spec.constraints)
             Found(reviewed, m) == topology_spread_spec(policy, spec, reviewed, m).violations
  <1>1. /\ topology_spread(policy, o, FALSE).violations = Found(o, FALSE)
        /\ topology_spread(policy, pod, mutating).violations = Found(pod, mutating)
    BY DEF topology_spread, SameSpec
  <1>2. Found(o, FALSE) = {} => Above = {} /\ ~missing
    BY DEF topology_spread_spec, PolicyOutput, Given
  <1>3. Above = {} /\ ~missing => Found(pod, mutating) = {}
    BY DEF topology_spread_spec, PolicyOutput, Given
  <1>4. QED
    BY <1>1, <1>2, <1>3

LEMMA PodIsAccepted ==
    ASSUME NEW c, NEW o, NEW pod, SameSpec(o, pod),
           NEW request, request.object = {o}, NEW creation, creation.object = {pod},
           handle_webhook(c, request, "validate").allowed, NEW w \in WebhookType
    PROVE  DeniedBy(handle_webhook(c, creation, w)) \subseteq {"labels"}
  <1>1. CASE evaluate_panics(c, creation)
    BY <1>1, PanicAllows
  <1>2. CASE ~evaluate_panics(c, creation)
    <2>1. ~evaluate_panics(c, request)
      BY <1>2, SpecPanicsAlike
    <2>2. \A n \in Enforced(c) : PolicyOutputOf(c, n, o, FALSE).violations = {}
      BY <2>1, Verdict
    <2>3. ASSUME NEW n \in Enforced(c), n # "labels", NEW mutating
          PROVE  PolicyOutputOf(c, n, pod, mutating).violations = {}
      <3>1. CASE n = "resource_limits"
        <4>1. PolicyOutputOf(c, n, o, FALSE) = resource_limits(c.resource_limits.policy, o, FALSE)
          BY <3>1 DEF PolicyOutputOf
        <4>2. PolicyOutputOf(c, n, pod, mutating) = resource_limits(c.resource_limits.policy, pod, mutating)
          BY <3>1 DEF PolicyOutputOf
        <4>3. resource_limits(c.resource_limits.policy, o, FALSE).violations = {}
          BY <2>2, <4>1
        <4>4. resource_limits(c.resource_limits.policy, pod, mutating).violations = {}
          BY <4>3, ResourcesFoundAlike
        <4>5. QED
          BY <4>2, <4>4
      <3>2. CASE n = "image_registry"
        <4>1. PolicyOutputOf(c, n, o, FALSE) = image_registry(c.image_registry.policy, o)
          BY <3>2 DEF PolicyOutputOf
        <4>2. PolicyOutputOf(c, n, pod, mutating) = image_registry(c.image_registry.policy, pod)
          BY <3>2 DEF PolicyOutputOf
        <4>3. image_registry(c.image_registry.policy, o).violations = {}
          BY <2>2, <4>1
        <4>4. image_registry(c.image_registry.policy, pod).violations = {}
          BY <4>3, ImagesFoundAlike
        <4>5. QED
          BY <4>2, <4>4
      <3>3. CASE n = "topology_spread"
        <4>1. PolicyOutputOf(c, n, o, FALSE) = topology_spread(c.topology_spread.policy, o, FALSE)
          BY <3>3 DEF PolicyOutputOf
        <4>2. PolicyOutputOf(c, n, pod, mutating) = topology_spread(c.topology_spread.policy, pod, mutating)
          BY <3>3 DEF PolicyOutputOf
        <4>3. topology_spread(c.topology_spread.policy, o, FALSE).violations = {}
          BY <2>2, <4>1
        <4>4. topology_spread(c.topology_spread.policy, pod, mutating).violations = {}
          BY <4>3, ConstraintsFoundAlike
        <4>5. QED
          BY <4>2, <4>4
      <3>4. QED
        BY <2>3, <3>1, <3>2, <3>3 DEF Enforced, PolicyName
    <2>4. CASE w = "mutate"
      <3>1. DeniedBy(handle_webhook(c, creation, w))
                = {n \in Enforced(c) : PolicyOutputOf(c, n, pod, TRUE).violations # {}}
        BY <1>2, <2>4, Verdict
      <3>2. QED
        BY <2>3, <3>1
    <2>5. CASE w = "validate"
      <3>1. DeniedBy(handle_webhook(c, creation, w))
                = {n \in Enforced(c) : PolicyOutputOf(c, n, pod, FALSE).violations # {}}
        BY <1>2, <2>5, Verdict
      <3>2. QED
        BY <2>3, <3>1
    <2>6. QED
      BY <2>4, <2>5 DEF WebhookType
  <1>3. QED
    BY <1>1, <1>2

LEMMA StandingPods == TypeOK /\ DecisionsStand => PodsAreAccepted
  <1> SUFFICES ASSUME TypeOK, DecisionsStand, NEW c \in decidedBy, NEW o \in stored,
                      outcome = "stored", NEW pod \in PodsOf(o), NEW w \in WebhookType
               PROVE  DeniedBy(handle_webhook(c, [operation |-> "CREATE", object |-> {pod}], w))
                        \subseteq {"labels"}
    BY DEF PodsAreAccepted
  <1> DEFINE creation == [operation |-> "CREATE", object |-> {pod}]
  <1>1. o = object /\ handle_webhook(c, Request, "validate").allowed
    BY DEF DecisionsStand, StoredAsReviewed
  <1>2. Request.object = {o} /\ creation.object = {pod}
    BY <1>1 DEF Request
  <1>3. SameSpec(o, pod)
    BY <1>1, PodHasSpec DEF TypeOK
  <1> HIDE DEF creation
  <1>4. DeniedBy(handle_webhook(c, creation, w)) \subseteq {"labels"}
    BY <1>1, <1>2, <1>3, PodIsAccepted
  <1>5. QED
    BY <1>4 DEF creation

(* The pods a controller makes of an admitted workload are denied by no     *)
(* policy but that of the labels, by either webhook, whatever the workload, *)
(* the kind and the configuration: get_pod_spec finds in a pod what it      *)
(* found in the template, and evaluate is no harsher when it mutates.       *)
THEOREM PodsAccepted == Spec => []PodsAreAccepted
  <1>1. Spec => []TypeOK
    BY AdmissionTyped
  <1>2. Spec => []DecisionsStand
    BY DecisionsAlwaysStand
  <1>3. QED
    BY <1>1, <1>2, StandingPods, PTL
===============================================================================
