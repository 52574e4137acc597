------------------------- MODULE AdmissionProperties -------------------------
(***************************************************************************)
(* What the admission pipeline promises.  The meaning of each policy is    *)
(* stated here from its description, on the object as the cluster sees     *)
(* it: the pod specs wherever they are in it, the amounts by their value.  *)
(***************************************************************************)
EXTENDS Admission

(* Memory is measured in units of 1/Kilo of a byte, like every amount. *)
Within(resources, name, cap) ==
    \A s \in DOMAIN resources :
        name \in DOMAIN resources[s] => Amount(resources[s][name]) <= cap

(* Leaving out the amounts the program cannot read. *)
Readable(resources) ==
    [s \in DOMAIN resources |->
        [n \in {n \in DOMAIN resources[s] :
                  /\ n = "cpu" => parse_cpu_millicores(resources[s][n]) # {}
                  /\ n = "memory" => parse_memory_bytes(resources[s][n]) # {}}
            |-> resources[s][n]]]

BothStated(resources) ==
    \A s \in Sections : s \in DOMAIN resources /\ DOMAIN resources[s] # {}

WithinCaps(policy, resources) ==
    /\ \A max_cpu \in policy.max_cpu_millicores : Within(resources, "cpu", max_cpu)
    /\ \A max_mem_mb \in policy.max_memory_mb :
          Within(resources, "memory", max_mem_mb * Kibi * Kibi * Kilo)

ObeysResourceLimits(policy, spec) ==
    \A i \in DOMAIN spec.containers :
        /\ BothStated(spec.containers[i].resources)
        /\ WithinCaps(policy, Readable(spec.containers[i].resources))

ObeysImageRegistry(policy, spec) ==
    \A i \in DOMAIN spec.containers :
        /\ spec.containers[i].image # {}
        /\ \A image \in spec.containers[i].image :
            /\ \E entry \in policy.registries :
                  registry_matches(parse_image_ref(image).registry, entry)
            /\ policy.allow_latest_tag \/ ~is_latest(parse_image_ref(image))

ObeysTopologySpread(policy, spec) ==
    /\ spec.constraints # <<>>
    /\ \A i \in DOMAIN spec.constraints : spec.constraints[i].maxSkew <= policy.max_skew

ObeysLabels(policy, o) ==
    \A l \in policy :
        /\ l.key \in DOMAIN o.labels
        /\ \A p \in l.pattern : o.labels[l.key] \in Compiled(p)

Obeys(c, name, o) ==
    /\ name = "labels" => ObeysLabels(c.labels.policy, o)
    /\ \A p \in DOMAIN o.specs :
        /\ name = "resource_limits" => ObeysResourceLimits(c.resource_limits.policy, o.specs[p])
        /\ name = "image_registry" => ObeysImageRegistry(c.image_registry.policy, o.specs[p])
        /\ name = "topology_spread" => ObeysTopologySpread(c.topology_spread.policy, o.specs[p])

Enforced(c) == {n \in PolicyName : c[n].enabled /\ c[n].mode = "enforce"}

Compliant(c, o) == \A n \in Enforced(c) : Obeys(c, n, o)

-------------------------------------------------------------------------------
(* A stored object whose validation was answered obeys every enforced      *)
(* policy of the configuration that answered (handlers.rs, build_response; *)
(* a debug build that panics lets the object through).                     *)
StoredIsCompliant ==
    \A c \in decidedBy :
        (outcome = "stored" /\ \A o \in stored : ~evaluate_panics(c, [operation |-> operation, object |-> {o}]))
            => \A o \in stored : Compliant(c, o)

(* The cap on memory can be scaled to bytes, or a build that cannot do it panics. *)
CapsScale(c) ==
    OverflowChecks \/ \A max_mem_mb \in c.resource_limits.policy.max_memory_mb :
                          max_mem_mb * Kibi * Kibi < Word

(* The object with all that the policies of c have to add to it. *)
Completed(c, o) ==
    Patched(o, AllPatches(evaluate_all(c, [operation |-> operation, object |-> {o}], TRUE)))

(* The webhook rejects an object only for an enforced policy of the        *)
(* configuration that answers, which the object breaks, and /mutate only   *)
(* for one it would break with everything added that the policies have to  *)
(* add: neither a warning, a policy that is switched off, something that   *)
(* will be patched (resource_limits.rs:47, topology_spread.rs:60) nor a    *)
(* lost call does it.  (A cap that wraps when evaluate scales it, in a     *)
(* release build, rejects nearly all.)                                     *)
RejectedIsNotCompliant ==
    [][phase # "idle" /\ outcome' = "rejected" =>
        \E c \in decidedBy' : CapsScale(c) =>
            /\ ~Compliant(c, object)
            /\ AtMutation => ~Compliant(c, Completed(c, object))]_vars

(* The defaults of a configuration do not break its own caps. *)
DefaultsFit(c) ==
    /\ CapsScale(c)
    /\ c.resource_limits.policy.inject_defaults =>
          WithinCaps(c.resource_limits.policy, Readable(c.resource_limits.policy.defaults))

(* What the mutating webhook let through and patched, the validating one   *)
(* does not reject, if both answered under the same configuration and      *)
(* nothing changed in between: the violations /mutate keeps silent about   *)
(* are those its patch removes (resource_limits.rs, topology_spread.rs).   *)
MutatedIsAccepted ==
    \A c \in mutatedBy :
        DefaultsFit(c) => ~(outcome = "rejected" /\ decidedBy = {c})

(* Under c the webhook adds all that it adds under d, and nothing that d forbids. *)
InjectsResources(c) == c.resource_limits.enabled /\ c.resource_limits.policy.inject_defaults

InjectsSpread(c) == c.topology_spread.enabled /\ c.topology_spread.policy.inject_if_missing

AddsAsMuch(c, d) ==
    /\ InjectsResources(d) => InjectsResources(c)
    /\ InjectsResources(c) =>
          WithinCaps(d.resource_limits.policy, Readable(c.resource_limits.policy.defaults))
    /\ InjectsSpread(d) => InjectsSpread(c)
    /\ InjectsSpread(c) => c.topology_spread.policy.max_skew <= d.topology_spread.policy.max_skew

(* While the replicas change from c to d, a request that is patched under  *)
(* one and judged under the other is not rejected for falling between the  *)
(* two: what d rejects it would reject with its own patch as well, if c    *)
(* adds as much as d.  So a policy is taken from warn to enforce without a *)
(* moment at which good objects are rejected (engine.rs:87: the patches    *)
(* are kept in either mode), and an evaluation that panics (handlers.rs:   *)
(* 98) is the only one that may fail to patch.                             *)
RolloutIsSeamless ==
    \A c \in mutatedBy : \A d \in decidedBy : \A o \in mutatedFrom :
        (/\ outcome = "rejected"
         /\ AddsAsMuch(c, d)
         /\ ~evaluate_panics(c, [operation |-> operation, object |-> {o}])
         /\ CapsScale(d))
            => ~Compliant(d, Completed(d, o))

(* The webhook has nothing to add to an object it has patched itself: the  *)
(* reinvocation of a mutating webhook, and an update that sends the object *)
(* back unchanged, change nothing.                                         *)
PatchIsIdempotent ==
    \A c \in mutatedBy :
        LET again == handle_webhook(c, Request, "mutate") IN
        again.patch = NoPatch /\ (DefaultsFit(c) => again.allowed)

(* Every patch the webhook answers with can be applied: each parent exists *)
(* in the object under review, and no added location lies in another.      *)
Inside(l, m) ==
    /\ l # m
    /\ l.prefix = m.prefix
    /\ l.container = m.container
    /\ m.section \in {Whole, l.section}
    /\ m.name = Whole

PatchApplies ==
    AtMutation =>
        \A r \in Replicas : \A c \in config[r] :
            LET patch == handle_webhook(c, Request, "mutate").patch IN
            Applies(object, patch) /\ \A l, m \in DOMAIN patch : ~Inside(l, m)

(* The answer of /mutate never takes away or overwrites what the object    *)
(* says: amounts a user stated, constraints, images and labels stay.       *)
Keeps(before, after) ==
    \A s \in DOMAIN before : s \in DOMAIN after /\
        \A n \in DOMAIN before[s] : n \in DOMAIN after[s] /\ after[s][n] = before[s][n]

KeepsSpec(before, after) ==
    /\ DOMAIN after.containers = DOMAIN before.containers
    /\ \A i \in DOMAIN before.containers :
        /\ after.containers[i].image = before.containers[i].image
        /\ Keeps(before.containers[i].resources, after.containers[i].resources)
    /\ before.constraints # <<>> => after.constraints = before.constraints

OnlyAdds(before, after) ==
    /\ after.kind = before.kind
    /\ after.labels = before.labels
    /\ DOMAIN after.specs = DOMAIN before.specs
    /\ \A p \in DOMAIN before.specs : KeepsSpec(before.specs[p], after.specs[p])

MutationOnlyAdds == [][AtMutation => OnlyAdds(object, object')]_vars

(* An injected constraint counts the very pods of the workload: its        *)
(* selector is the labels those pods will carry (get_pod_labels).          *)
PodLabels(o) ==
    IF o.kind = "Pod" THEN {o.labels} ELSE {o.templateLabels[p] : p \in DOMAIN o.templateLabels}

NewConstraintsSelectPods(before, after) ==
    \A p \in DOMAIN before.specs :
        after.specs[p].constraints # before.specs[p].constraints =>
            \A i \in DOMAIN after.specs[p].constraints :
                LET selector == after.specs[p].constraints[i].selector IN
                selector \in PodLabels(before) /\ DOMAIN selector # {}

InjectedConstraintSelectsPods ==
    [][AtMutation => NewConstraintsSelectPods(object, object')]_vars

(* What a controller makes of a workload: pods with its template's labels. *)
PodsOf(o) ==
    IF o.kind = "Pod" THEN {} ELSE
    { [kind |-> "Pod", labels |-> pod_labels, templateLabels |-> NoLabels,
       specs |-> [q \in {pod_spec_path("Pod")} |-> o.specs[p]]] :
        p \in DOMAIN o.specs,
        pod_labels \in IF PodLabels(o) = {} THEN {NoLabels} ELSE PodLabels(o) }

DeniedBy(response) == {denial[1] : denial \in response.denials}

(* The pods of a workload that was admitted are admitted too: what is      *)
(* checked in a template (get_pod_spec) is what is checked in its pods, or *)
(* a rollout would hang.  Required labels are the exception: labels.rs     *)
(* looks at the labels of the workload, and not at those of its template.  *)
PodsAreAccepted ==
    \A c \in decidedBy : \A o \in stored :
        outcome = "stored" =>
            \A pod \in PodsOf(o) : \A webhook_type \in WebhookType :
                DeniedBy(handle_webhook(c, [operation |-> "CREATE", object |-> {pod}], webhook_type))
                    \subseteq {"labels"}

-------------------------------------------------------------------------------
(* Statements of the documentation that the code does not keep.            *)

(* README.md:7 says containers exceeding the caps are rejected.  The       *)
(* amounts here are all of them, readable or not.                          *)
CapsAreEnforced ==
    \A c \in decidedBy : \A o \in stored :
        (outcome = "stored" /\ "resource_limits" \in Enforced(c)) =>
            \A p \in DOMAIN o.specs : \A i \in DOMAIN o.specs[p].containers :
                WithinCaps(c.resource_limits.policy, o.specs[p].containers[i].resources)

(* README.md:14 says the patch fixes the issue: a patched object is one    *)
(* the API server still takes, if it would have taken it unpatched.        *)
PatchKeepsObjectValid ==
    [][AtMutation /\ Valid(object) => Valid(object')]_vars

(* The same of an update of a pod, whose resources and constraints must    *)
(* stay what they are.                                                     *)
PatchKeepsUpdatePermitted ==
    [][AtMutation /\ Permitted(object) => Permitted(object')]_vars

(* config/policies.yaml:63 says a constraint is added if the pod has none. *)
MissingConstraintIsAdded ==
    \A c \in mutatedBy :
        c.topology_spread.enabled /\ c.topology_spread.policy.inject_if_missing =>
            \A p \in DOMAIN object.specs : \A pod_labels \in PodLabels(object) :
                DOMAIN pod_labels # {} => object.specs[p].constraints # <<>>
===============================================================================
