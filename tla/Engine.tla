-------------------------------- MODULE Engine --------------------------------
(***************************************************************************)
(* engine.rs and the policies section of config.rs: which policies run on  *)
(* a request and what the mode of each makes of its output; and the part   *)
(* of handlers.rs that turns the results into one admission response.      *)
(***************************************************************************)
EXTENDS ResourceLimits, ImageRegistry, Labels, TopologySpread

(* PolicyName *)
PolicyName == {"resource_limits", "image_registry", "labels", "topology_spread"}
PolicyMode == {"enforce", "warn"}

(* PoliciesConfig: every policy is enabled or not, has a mode and its own settings. *)
PolicyConfig(policies) == [enabled : BOOLEAN, mode : PolicyMode, policy : policies]

PoliciesConfig ==
    [resource_limits : PolicyConfig(ResourceLimitsPolicy),
     image_registry : PolicyConfig(AllowedRegistriesPolicy),
     labels : PolicyConfig(RequiredLabelsPolicy),
     topology_spread : PolicyConfig(TopologySpreadPolicy)]

(* policy_mode and policy_enabled *)
policy_mode(config, name) == config[name].mode
policy_enabled(config, name) == config[name].enabled

(* An admission request names an operation and carries the object, except on deletion. *)
Operation == {"CREATE", "UPDATE", "DELETE"}
WebhookType == {"validate", "mutate"}

(* The output of one policy; a request without an object is allowed by each. *)
PolicyOutputOf(config, name, object, mutating) ==
    LET policy == config[name].policy IN
    CASE name = "resource_limits" -> resource_limits(policy, object, mutating)
      [] name = "image_registry"  -> image_registry(policy, object)
      [] name = "labels"          -> labels(compile_labels(policy), object)
      [] name = "topology_spread" -> topology_spread(policy, object, mutating)

OutputFor(config, name, request, mutating) ==
    IF request.object = {} THEN allowed
    ELSE PolicyOutputOf(config, name, CHOOSE o \in request.object : TRUE, mutating)

(* Faulty: only a policy that is enforced patches. *)
to_result_patching_enforced(config, name, output, include_patches) ==
    LET enforce == policy_mode(config, name) = "enforce" IN
    [allowed  |-> enforce => output.violations = {},
     denials  |-> IF enforce THEN output.violations ELSE {},
     warnings |-> IF enforce THEN {} ELSE output.violations,
     patches  |-> IF include_patches /\ enforce THEN output.patches ELSE NoPatch]

(***************************************************************************)
(* to_result: an enforced violation denies, a violation to warn about is   *)
(* a warning.  The patches are kept in either mode.                        *)
(***************************************************************************)
to_result(config, name, output, include_patches) ==
    LET enforce == policy_mode(config, name) = "enforce" IN
    [allowed  |-> enforce => output.violations = {},
     denials  |-> IF enforce THEN output.violations ELSE {},
     warnings |-> IF enforce THEN {} ELSE output.violations,
     patches  |-> IF include_patches THEN output.patches ELSE NoPatch]

(* evaluate_all: the result of every enabled policy. *)
evaluate_all(config, request, include_patches) ==
    [name \in {n \in PolicyName : policy_enabled(config, n)} |->
        to_result(config, name, OutputFor(config, name, request, include_patches), include_patches)]

(* Only the scaling of memory in resource_limits can panic. *)
evaluate_panics(config, request) ==
    /\ policy_enabled(config, "resource_limits")
    /\ \E object \in request.object :
          resource_limits_panics(config.resource_limits.policy, object)

(***************************************************************************)
(* build_response: denied when a policy denies; patched when none does and *)
(* the webhook mutates.                                                    *)
(***************************************************************************)
AllPatches(results) ==
    [l \in UNION {DOMAIN results[n].patches : n \in DOMAIN results} |->
        LET n == CHOOSE n \in DOMAIN results : l \in DOMAIN results[n].patches
        IN  results[n].patches[l]]

(* Faulty: one policy that allows the request is enough. *)
build_lenient_response(results, webhook_type) ==
    [allowed  |-> \E n \in DOMAIN results : results[n].allowed,
     denials  |-> {},
     warnings |-> UNION {{n} \X results[n].warnings : n \in DOMAIN results},
     patch    |-> IF webhook_type = "mutate" THEN AllPatches(results) ELSE NoPatch]

build_response(results, webhook_type) ==
    LET denied == {n \in DOMAIN results : ~results[n].allowed} IN
    [allowed  |-> denied = {},
     denials  |-> {<<n, results[n].denials>> : n \in denied},
     warnings |-> UNION {{n} \X results[n].warnings : n \in DOMAIN results},
     patch    |-> IF denied = {} /\ webhook_type = "mutate" THEN AllPatches(results) ELSE NoPatch]

(* Faulty: a panic in the evaluation of the policies denies the request. *)
FailClosed ==
    [allowed |-> FALSE, denials |-> {}, patch |-> NoPatch,
     warnings |-> {<<"sentinel", Violation("internal error", 0, {})>>}]

(* A panic in the evaluation of the policies lets the request through, as it is. *)
FailOpen ==
    [allowed |-> TRUE, denials |-> {}, patch |-> NoPatch,
     warnings |-> {<<"sentinel", Violation("internal error", 0, {})>>}]

(* handle_webhook, of a review that could be read *)
handle_webhook(config, request, webhook_type) ==
    IF evaluate_panics(config, request) THEN FailOpen
    ELSE build_response(evaluate_all(config, request, webhook_type = "mutate"), webhook_type)
===============================================================================
