------------------------------- MODULE Workload -------------------------------
(***************************************************************************)
(* The objects the webhook reviews, the accessors of policies/mod.rs that  *)
(* reach into them, and JSON patches.                                      *)
(*                                                                         *)
(* An object has a kind, its own labels, the pod specs found in it and the *)
(* labels of its pod template, each at its path in the JSON document.  An  *)
(* absent and an empty map of labels, resources block or list of           *)
(* constraints are the same to every line of the program, so the model     *)
(* keeps the empty one; an absent and an empty requests or limits section  *)
(* differ.                                                                 *)
(***************************************************************************)
EXTENDS Integers, Sequences, Quantity

CONSTANTS Names        \* label keys and label values

TemplateKinds == {"Deployment", "ReplicaSet", "StatefulSet", "DaemonSet", "Job"}
Kinds == {"Pod", "CronJob", "ConfigMap"} \cup TemplateKinds

(* Where the schema of a kind has a pod spec; the API server drops what a schema does not have. *)
PodSpecPaths(kind) ==
    CASE kind = "Pod"           -> { <<"spec">> }
      [] kind \in TemplateKinds -> { <<"spec", "template", "spec">> }
      [] kind = "CronJob"       -> { <<"spec", "jobTemplate", "spec", "template", "spec">> }
      [] OTHER                  -> {}

TemplateLabelPaths ==
    { <<"spec", "template", "metadata", "labels">>,
      <<"spec", "jobTemplate", "spec", "template", "metadata", "labels">> }

(* A map is a function on some of the keys it may have. *)
IsMap(f, keys) == DOMAIN f \subseteq keys /\ f = [k \in DOMAIN f |-> f[k]]

IsLabels(m) == IsMap(m, Names) /\ \A n \in DOMAIN m : m[n] \in Names

Sections == {"requests", "limits"}
ResourceNames == {"cpu", "memory", "ephemeral-storage"}

IsAmounts(m) == IsMap(m, ResourceNames) /\ \A n \in DOMAIN m : m[n] \in Quantity
IsResources(m) == IsMap(m, Sections) /\ \A s \in DOMAIN m : IsAmounts(m[s])

(* An image reference is the sequence of its tokens; none is the empty set. *)
IsContainer(c) ==
    /\ c \in [image : SUBSET Seq(STRING), resources : {c.resources}]
    /\ IsResources(c.resources)

IsConstraint(c) == c \in [maxSkew : Int, selector : {c.selector}] /\ IsLabels(c.selector)

IsSequence(s) == s \in Seq({s[i] : i \in DOMAIN s})

IsPodSpec(spec) ==
    /\ spec \in [containers : {spec.containers}, constraints : {spec.constraints}]
    /\ IsSequence(spec.containers)
    /\ \A i \in DOMAIN spec.containers : IsContainer(spec.containers[i])
    /\ IsSequence(spec.constraints)
    /\ \A i \in DOMAIN spec.constraints : IsConstraint(spec.constraints[i])

IsObject(o) ==
    /\ o \in [kind : Kinds, labels : {o.labels}, specs : {o.specs},
              templateLabels : {o.templateLabels}]
    /\ IsLabels(o.labels)
    /\ IsMap(o.specs, PodSpecPaths(o.kind))
    /\ \A p \in DOMAIN o.specs : IsPodSpec(o.specs[p])
    /\ IsMap(o.templateLabels, TemplateLabelPaths)
    /\ \A p \in DOMAIN o.templateLabels : IsLabels(o.templateLabels[p])

(* Faulty: a cron job is taken for a workload with a template of its own. *)
pod_spec_path_shallow(kind) ==
    IF kind = "Pod" THEN <<"spec">> ELSE <<"spec", "template", "spec">>

(***************************************************************************)
(* get_pod_spec: the path of the pod spec in an object of this kind,       *)
(* whether there is one in the object, and the one that is.                *)
(***************************************************************************)
pod_spec_path(kind) ==
    CASE kind = "Pod"           -> <<"spec">>
      [] kind \in TemplateKinds -> <<"spec", "template", "spec">>
      [] kind = "CronJob"       -> <<"spec", "jobTemplate", "spec", "template", "spec">>
      [] OTHER                  -> <<>>

has_pod_spec(object) == pod_spec_path(object.kind) \in DOMAIN object.specs

get_pod_spec(object) == object.specs[pod_spec_path(object.kind)]

(* Faulty: the prefix of a cron job is that of the other templates. *)
spec_prefix_shallow(kind) ==
    IF kind = "Pod" THEN <<"spec">> ELSE <<"spec", "template", "spec">>

(* spec_prefix: where the patches of an object of this kind are rooted. *)
spec_prefix(kind) ==
    CASE kind = "Pod"     -> <<"spec">>
      [] kind = "CronJob" -> <<"spec", "jobTemplate", "spec", "template", "spec">>
      [] OTHER            -> <<"spec", "template", "spec">>

(***************************************************************************)
(* A patch maps each location it adds to the value added there, in JSON    *)
(* pointer order: below a pod spec, a container's resources block, one of  *)
(* its sections or one amount of a section; or the list of constraints.    *)
(* The program only ever adds.                                             *)
(***************************************************************************)
Whole == ""

ResourcesAt(prefix, i, section, name) ==
    [prefix |-> prefix, container |-> i, section |-> section, name |-> name]

ConstraintsAt(prefix) ==
    [prefix |-> prefix, container |-> 0, section |-> "topologySpreadConstraints", name |-> Whole]

NoPatch == [l \in {} |-> l]

(***************************************************************************)
(* The API server applies a patch: an addition fails when the parent of    *)
(* the location is missing, and with it the whole patch.                   *)
(***************************************************************************)
HasParent(object, l) ==
    /\ l.prefix \in DOMAIN object.specs
    /\ l.container = 0 \/
         LET containers == object.specs[l.prefix].containers IN
         /\ l.container \in DOMAIN containers
         /\ l.name # Whole => l.section \in DOMAIN containers[l.container].resources

Applies(object, patch) == \A l \in DOMAIN patch : HasParent(object, l)

PatchedResources(resources, prefix, i, patch) ==
    LET At(s, n) == ResourcesAt(prefix, i, s, n)
        Added(s, n) == At(s, n) \in DOMAIN patch
    IN
    IF Added(Whole, Whole)
    THEN patch[At(Whole, Whole)]
    ELSE [s \in {s \in Sections : s \in DOMAIN resources \/ Added(s, Whole)} |->
            IF Added(s, Whole)
            THEN patch[At(s, Whole)]
            ELSE [n \in {n \in ResourceNames : n \in DOMAIN resources[s] \/ Added(s, n)} |->
                    IF Added(s, n) THEN patch[At(s, n)] ELSE resources[s][n]]]

PatchedSpec(spec, prefix, patch) ==
    [containers |->
        [i \in DOMAIN spec.containers |->
            [spec.containers[i] EXCEPT !.resources = PatchedResources(@, prefix, i, patch)]],
     constraints |->
        IF ConstraintsAt(prefix) \in DOMAIN patch
        THEN patch[ConstraintsAt(prefix)]
        ELSE spec.constraints]

Patched(object, patch) ==
    [object EXCEPT !.specs =
        [p \in DOMAIN object.specs |-> PatchedSpec(object.specs[p], p, patch)]]

(***************************************************************************)
(* What every policy returns: its violations, each with what it is about,  *)
(* the container it is found in and the sections of it, and its patches.   *)
(***************************************************************************)
Violation(what, i, sections) == [what |-> what, container |-> i, sections |-> sections]

PolicyOutput(violations, patches) == [violations |-> violations, patches |-> patches]

allowed == PolicyOutput({}, NoPatch)

(* An optional value that is there when the condition holds. *)
Given(condition, value) == IF condition THEN {value} ELSE {}
===============================================================================
