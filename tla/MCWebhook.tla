------------------------------ MODULE MCWebhook ------------------------------
(***************************************************************************)
(* A call to /mutate and one to /validate at the same time, under a policy *)
(* that is enforced and one that warns.                                    *)
(***************************************************************************)
EXTENDS WebhookProperties

CONSTANTS m1, v1

MCCalls == {m1, v1}
MCWebhookOf == [c \in Calls |-> IF c = v1 THEN "validate" ELSE "mutate"]
MCPolicyOrder == <<"resource_limits", "labels">>
MCMode == [p \in Policies |-> IF p = "labels" THEN "warn" ELSE "enforce"]
===============================================================================
