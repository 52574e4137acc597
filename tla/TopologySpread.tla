---------------------------- MODULE TopologySpread ----------------------------
(***************************************************************************)
(* policies/topology_spread.rs: a pod spec must have topology spread       *)
(* constraints of at most the configured skew, and one can be injected.    *)
(***************************************************************************)
EXTENDS Workload

TopologySpreadPolicy == [max_skew : Int, inject_if_missing : BOOLEAN]

(* get_pod_labels: the labels of a pod, or of the template below spec.template. *)
TemplateLabels == <<"spec", "template", "metadata", "labels">>

NoLabels == [n \in {} |-> n]

(* Faulty: the labels of the workload instead of those of its pods. *)
get_object_labels(object) == object.labels

get_pod_labels(object) ==
    CASE object.kind = "Pod" -> object.labels
      [] object.kind # "Pod" /\ TemplateLabels \in DOMAIN object.templateLabels
           -> object.templateLabels[TemplateLabels]
      [] OTHER -> NoLabels

SkewAboveMaximum(config, constraints) ==
    { Violation("skew", i, {}) :
        i \in {i \in DOMAIN constraints : constraints[i].maxSkew > config.max_skew} }

(* The selector is what the pod is labelled with when it is reviewed. *)
InjectedConstraints(config, labels) ==
    << [maxSkew |-> config.max_skew, selector |-> labels] >>

(* evaluate, of a pod spec found in the object. *)
topology_spread_spec(config, spec, object, mutating) ==
    LET missing == spec.constraints = <<>>
        inject == missing /\ config.inject_if_missing
        pod_labels == get_pod_labels(object)
        unlabelled == DOMAIN pod_labels = {}
    IN  PolicyOutput(
            SkewAboveMaximum(config, spec.constraints)
            \cup Given(missing /\ ~(mutating /\ inject), Violation("missing", 0, {}))
            \cup Given(inject /\ unlabelled, Violation("unlabelled", 0, {})),
            [l \in Given(inject /\ ~unlabelled, ConstraintsAt(spec_prefix(object.kind)))
                |-> InjectedConstraints(config, pod_labels)])

topology_spread(config, object, mutating) ==
    IF has_pod_spec(object)
    THEN topology_spread_spec(config, get_pod_spec(object), object, mutating)
    ELSE allowed
===============================================================================
