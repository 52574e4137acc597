------------------------------ MODULE Admission ------------------------------
(***************************************************************************)
(* One admission request after another through the API server and the      *)
(* replicas of the webhook.                                                *)
(*                                                                         *)
(* The API server calls /mutate, lets the other mutating webhooks change   *)
(* the object, calls /mutate again if one did, checks the object, calls    *)
(* /validate and stores it.  It reaches any replica; a call that is not    *)
(* answered in time is ignored (failurePolicy: Ignore, deploy/k8s/base/    *)
(* webhook-config.yaml).  A replica reads its configuration once, when it  *)
(* starts, so during a rollout the two calls of one request can be         *)
(* answered under different configurations.                                *)
(*                                                                         *)
(* The API server, the other webhooks, the clients and the operator who    *)
(* edits the configuration are not in src/: their actions are external.    *)
(***************************************************************************)
EXTENDS Engine

CONSTANTS
    Replicas,        \* the replicas of the webhook
    Configs,         \* the configurations an operator publishes
    Submissions,     \* the objects clients create, and update to
    Sidecars,        \* the containers other mutating webhooks add
    LabelChanges,    \* the labels they set
    MaxContainers    \* bound: how many containers a pod grows to

ASSUME AdmissionAssumption ==
    /\ Replicas # {}
    /\ Configs # {}
    /\ Configs \subseteq PoliciesConfig
    /\ Submissions # {}
    /\ \A o \in Submissions : IsObject(o)
    /\ \A c \in Sidecars : IsContainer(c)
    /\ \A m \in LabelChanges : IsLabels(m)
    /\ MaxContainers \in Nat

VARIABLES
    published,   \* the configuration in the ConfigMap
    config,      \* the configuration each replica loaded when it started; none while it is down
    phase,       \* how far the API server is with the request
    operation,   \* the operation of the request
    object,      \* its object, as mutated so far
    outcome,     \* what became of the last request
    stored,      \* the object in the cluster, if there is one
    mutatedBy,   \* the configuration whose mutating answer left the object as it is, if any
    mutatedFrom, \* history: the object that answer was given, if any
    decidedBy    \* the configuration under which the last request was decided, if any

clusterVars == <<published, config>>
requestVars == <<phase, operation, object, outcome, stored>>
historyVars == <<mutatedBy, mutatedFrom, decidedBy>>
vars == <<clusterVars, requestVars, historyVars>>

Phases == {"idle", "mutating", "changing", "reinvoking", "checking", "validating"}
Outcomes == {"none", "stored", "rejected", "invalid"}

TypeOK ==
    /\ published \in Configs
    /\ config \in [Replicas -> SUBSET Configs]
    /\ phase \in Phases
    /\ operation \in Operation
    /\ IsObject(object)
    /\ outcome \in Outcomes
    /\ \A o \in stored : IsObject(o)
    /\ mutatedBy \in SUBSET Configs
    /\ \A o \in mutatedFrom : IsObject(o)
    /\ decidedBy \in SUBSET Configs

-------------------------------------------------------------------------------
(* What the API server itself refuses: more requested than the limit allows. *)
WithinLimits(resources) ==
    (* Both sections are there, and so are both amounts. *)
    Sections \subseteq DOMAIN resources =>
        \A n \in DOMAIN resources["requests"] \cap DOMAIN resources["limits"] :
            Amount(resources["requests"][n]) <= Amount(resources["limits"][n])

Valid(o) ==
    \A p \in DOMAIN o.specs : \A i \in DOMAIN o.specs[p].containers :
        WithinLimits(o.specs[p].containers[i].resources)

(* What it refuses to change in a pod that is stored: all of the spec but the images. *)
Fixed(o) ==
    [p \in DOMAIN o.specs |->
        [resources |-> [i \in DOMAIN o.specs[p].containers |-> o.specs[p].containers[i].resources],
         constraints |-> o.specs[p].constraints]]

Permitted(o) ==
    (operation = "UPDATE" /\ o.kind = "Pod") => \A s \in stored : Fixed(o) = Fixed(s)

Acceptable(o) == Valid(o) /\ Permitted(o)

Request == [operation |-> operation, object |-> {object}]

Init ==
    /\ published \in Configs
    /\ config = [r \in Replicas |-> {}]
    /\ phase = "idle"
    /\ operation = "CREATE"
    /\ object = CHOOSE o \in Submissions : TRUE
    /\ outcome = "none"
    /\ stored = {}
    /\ mutatedBy = {}
    /\ mutatedFrom = {}
    /\ decidedBy = {}

-------------------------------------------------------------------------------
(* A client creates the object, or updates the stored one or sends it back unchanged. *)
Submit(op, o) ==
    /\ phase = "idle"
    /\ CASE op = "CREATE" -> stored = {} /\ o \in Submissions
         [] op = "UPDATE" -> o \in stored \cup {s \in Submissions : \E t \in stored : s.kind = t.kind}
    /\ phase' = "mutating"
    /\ operation' = op
    /\ object' = o
    /\ outcome' = "none"
    /\ mutatedBy' = {}
    /\ mutatedFrom' = {}
    /\ decidedBy' = {}
    /\ UNCHANGED <<stored, clusterVars>>

(* No webhook is registered for deletions. *)
Delete ==
    /\ phase = "idle"
    /\ stored # {}
    /\ stored' = {}
    /\ outcome' = "none"
    /\ UNCHANGED <<phase, operation, object, historyVars, clusterVars>>

Decide(result, by) ==
    /\ phase' = "idle"
    /\ outcome' = result
    /\ decidedBy' = by
    /\ stored' = IF result = "stored" THEN {object} ELSE stored

(* The next call is one of /mutate. *)
AtMutation == phase \in {"mutating", "reinvoking"}

AfterMutating == IF phase = "mutating" THEN "changing" ELSE "checking"

(***************************************************************************)
(* A replica answers POST /mutate.  The API server applies the patch, or   *)
(* rejects the request.                                                    *)
(***************************************************************************)
Mutate(r) ==
    /\ AtMutation
    /\ \E c \in config[r] :
        LET response == handle_webhook(c, Request, "mutate") IN
        IF response.allowed
        THEN /\ object' = Patched(object, response.patch)
             /\ phase' = AfterMutating
             /\ mutatedBy' = {c}
             /\ mutatedFrom' = {object}
             /\ UNCHANGED <<outcome, stored, decidedBy>>
        ELSE Decide("rejected", {c}) /\ UNCHANGED <<object, mutatedBy, mutatedFrom>>
    /\ UNCHANGED <<operation, clusterVars>>

(* No answer within the timeout, or a connection refused: the call is ignored. *)
MutateUnanswered ==
    /\ AtMutation
    /\ phase' = AfterMutating
    /\ UNCHANGED <<operation, object, outcome, stored, historyVars, clusterVars>>

(***************************************************************************)
(* The other mutating webhooks leave the object alone, add a container to  *)
(* its pods or set its labels.  A change has the API server call /mutate   *)
(* again (reinvocationPolicy: IfNeeded).                                   *)
(***************************************************************************)
WithSidecar(o, c) ==
    [o EXCEPT !.specs = [p \in DOMAIN o.specs |->
        [o.specs[p] EXCEPT !.containers =
            IF Len(@) < MaxContainers THEN Append(@, c) ELSE @]]]

Changed(o) ==
    {o} \cup {WithSidecar(o, c) : c \in Sidecars} \cup {[o EXCEPT !.labels = m] : m \in LabelChanges}

Change ==
    /\ phase = "changing"
    /\ \E o \in Changed(object) :
        /\ object' = o
        /\ phase' = IF o = object THEN "checking" ELSE "reinvoking"
        /\ mutatedBy' = IF o = object THEN mutatedBy ELSE {}
        /\ mutatedFrom' = IF o = object THEN mutatedFrom ELSE {}
    /\ UNCHANGED <<operation, outcome, stored, decidedBy, clusterVars>>

(* The API server's own validation comes between mutation and validation. *)
Check ==
    /\ phase = "checking"
    /\ IF Acceptable(object)
       THEN phase' = "validating" /\ UNCHANGED <<outcome, stored, decidedBy>>
       ELSE Decide("invalid", {})
    /\ UNCHANGED <<operation, object, mutatedBy, mutatedFrom, clusterVars>>

(* A replica answers POST /validate. *)
Validate(r) ==
    /\ phase = "validating"
    /\ \E c \in config[r] :
        LET response == handle_webhook(c, Request, "validate")
        IN  Decide(IF response.allowed THEN "stored" ELSE "rejected", {c})
    /\ UNCHANGED <<operation, object, mutatedBy, mutatedFrom, clusterVars>>

ValidateUnanswered ==
    /\ phase = "validating"
    /\ Decide("stored", {})
    /\ UNCHANGED <<operation, object, mutatedBy, mutatedFrom, clusterVars>>

(***************************************************************************)
(* The operator edits the ConfigMap; a replica that starts reads it, and a *)
(* replica may stop at any moment.                                         *)
(***************************************************************************)
Publish ==
    /\ published' \in Configs
    /\ UNCHANGED <<config, requestVars, historyVars>>

Start(r) ==
    /\ config' = [config EXCEPT ![r] = {published}]
    /\ UNCHANGED <<published, requestVars, historyVars>>

Stop(r) ==
    /\ config' = [config EXCEPT ![r] = {}]
    /\ UNCHANGED <<published, requestVars, historyVars>>

-------------------------------------------------------------------------------
Client ==
    \/ \E op \in {"CREATE", "UPDATE"} : \E o \in Submissions \cup stored : Submit(op, o)
    \/ Delete

(* What the API server and the webhook do with a request that has been submitted. *)
Serve ==
    \/ \E r \in Replicas : Mutate(r) \/ Validate(r)
    \/ MutateUnanswered
    \/ Change
    \/ Check
    \/ ValidateUnanswered

Operator == Publish \/ \E r \in Replicas : Start(r) \/ Stop(r)

Next == Client \/ Serve \/ Operator

(***************************************************************************)
(* The API server goes on with a request: it takes its own steps, and a    *)
(* call that is not answered before its timeout is given up.  Nothing is   *)
(* assumed of the replicas, which may all be down for good, of the clients *)
(* or of the operator.                                                     *)
(***************************************************************************)
Fairness ==
    /\ WF_vars(MutateUnanswered)
    /\ WF_vars(Change)
    /\ WF_vars(Check)
    /\ WF_vars(ValidateUnanswered)

Spec == Init /\ [][Next]_vars /\ Fairness
===============================================================================
