------------------------------- MODULE Webhook -------------------------------
(***************************************************************************)
(* The handlers of one replica (handlers.rs) running concurrently, the     *)
(* counters they share (metrics.rs) and the scrapes of those counters      *)
(* (health.rs).                                                            *)
(*                                                                         *)
(* handle_webhook runs to its end without waiting for anything, but the    *)
(* runtime runs many calls in parallel, and each increments counters one   *)
(* at a time between the increments of the others and the reads of a       *)
(* scrape.  What a policy finds is left open: any policy may find a        *)
(* violation or have a patch, and the evaluation may panic.                *)
(***************************************************************************)
EXTENDS Integers, Sequences, FiniteSets

CONSTANTS
    Calls,        \* the reviews that are posted
    WebhookOf,    \* the webhook each is posted to
    PolicyOrder,  \* the enabled policies in the order of PolicyName::ALL
    Mode          \* the mode of each

Policies == {PolicyOrder[i] : i \in DOMAIN PolicyOrder}
WebhookType == {"validate", "mutate"}

(* The policies that can return patches. *)
Patching == Policies \cap {"resource_limits", "topology_spread"}
PolicyMode == {"enforce", "warn"}

ASSUME WebhookAssumption ==
    /\ IsFiniteSet(Calls)
    /\ WebhookOf \in [Calls -> WebhookType]
    /\ PolicyOrder \in Seq(Policies)
    /\ \A i, j \in DOMAIN PolicyOrder : PolicyOrder[i] = PolicyOrder[j] => i = j
    /\ Mode \in [Policies -> PolicyMode]

VARIABLES
    pc,           \* where each call is in handle_webhook
    violated,     \* the policies each call was found to violate
    patched,      \* the policies that have a patch for each call
    panicked,     \* the calls whose evaluation panicked
    recorded,     \* how many of the results of each call have been recorded and their durations observed
    reply,        \* the answer to each call, none until it is answered
    counter,      \* the value of every series
    page,         \* the series the scrape under way has read
    position      \* how many families it has read

callVars == <<pc, violated, patched, panicked, recorded, reply>>
scrapeVars == <<page, position>>
vars == <<callVars, counter, scrapeVars>>

Steps ==
    {"waiting", "received", "counted", "recording", "observing", "responding", "timing", "answered"}

(***************************************************************************)
(* The series of the metric families; the operation and resource labels of *)
(* the requests and the constant gauge of enabled policies are left out.   *)
(***************************************************************************)
RequestSeries(w) == <<"requests", w>>
ResponseSeries(allowed, w) == <<"responses", allowed, w>>
EvaluationSeries(p, result, mode) == <<"evaluations", p, result, mode>>
DurationSeries(w) == <<"durations", w>>
PolicyDurationSeries(p) == <<"policy durations", p>>

Results == {"allowed", "denied", "warning"}

Requests == {RequestSeries(w) : w \in WebhookType}
Responses == {ResponseSeries(allowed, w) : allowed \in {"true", "false"}, w \in WebhookType}
Evaluations ==
    {EvaluationSeries(p, result, mode) : p \in Policies, result \in Results, mode \in PolicyMode}
Durations == {DurationSeries(w) : w \in WebhookType}
PolicyDurations == {PolicyDurationSeries(p) : p \in Policies}

(* Faulty: the responses are registered after the evaluations. *)
FamiliesOutOfOrder == <<Requests, Evaluations, Responses, Durations, PolicyDurations>>

(* SentinelMetrics::new registers the families in this order, and encode reads them in it. *)
Families == <<Requests, Responses, Evaluations, Durations, PolicyDurations>>

Series == Requests \cup Responses \cup Evaluations \cup Durations \cup PolicyDurations

(* What a caller can tell of a call: it takes all the steps between for one. *)
Progress == [c \in Calls |-> IF pc[c] \in {"waiting", "answered"} THEN pc[c] ELSE "received"]

Service == INSTANCE ReviewService WITH progress <- Progress

(* The policies that deny a call, and those it is warned about (to_result). *)
Denied(c) == {p \in violated[c] : Mode[p] = "enforce"}
Warned(c) == {p \in violated[c] : Mode[p] = "warn"}

Init ==
    /\ pc = [c \in Calls |-> "waiting"]
    /\ violated = [c \in Calls |-> {}]
    /\ patched = [c \in Calls |-> {}]
    /\ panicked = {}
    /\ recorded = [c \in Calls |-> 0]
    /\ reply = [c \in Calls |-> {}]
    /\ counter = [s \in Series |-> 0]
    /\ page = [s \in {} |-> 0]
    /\ position = 0

-------------------------------------------------------------------------------
Goto(c, step) == pc' = [pc EXCEPT ![c] = step]

Inc(s) == counter' = [counter EXCEPT ![s] = @ + 1]

(* The review arrives; the body is JSON within the limit. *)
Receive(c) ==
    /\ pc[c] = "waiting"
    /\ Goto(c, "received")
    /\ UNCHANGED <<violated, patched, panicked, recorded, reply, counter, scrapeVars>>

(* Faulty: a review that could not be read is counted as a request. *)
AnswerUnreadableAndCount(c) ==
    /\ pc[c] = "received"
    /\ Goto(c, "answered")
    /\ Inc(RequestSeries(WebhookOf[c]))
    /\ reply' = [reply EXCEPT ![c] = {Service!Reply(Service!Unread, {}, {}, {})}]
    /\ UNCHANGED <<violated, patched, panicked, recorded, scrapeVars>>

(* It is no AdmissionReview, or one without a request: fail_open_response. *)
AnswerUnreadable(c) ==
    /\ pc[c] = "received"
    /\ Goto(c, "answered")
    /\ reply' = [reply EXCEPT ![c] = {Service!Reply(Service!Unread, {}, {}, {})}]
    /\ UNCHANGED <<violated, patched, panicked, recorded, counter, scrapeVars>>

(* record_request_metrics *)
RecordRequest(c) ==
    /\ pc[c] = "received"
    /\ Goto(c, "counted")
    /\ Inc(RequestSeries(WebhookOf[c]))
    /\ UNCHANGED <<violated, patched, panicked, recorded, reply, scrapeVars>>

AfterRecording(n) == IF n < Len(PolicyOrder) THEN "recording" ELSE "responding"

(* The enabled policies are evaluated; /validate drops their patches. *)
Evaluate(c) ==
    /\ pc[c] = "counted"
    /\ Goto(c, AfterRecording(0))
    /\ \E found \in SUBSET Policies : violated' = [violated EXCEPT ![c] = found]
    /\ \E patches \in SUBSET Patching :
        /\ WebhookOf[c] = "validate" => patches = {}
        /\ patched' = [patched EXCEPT ![c] = patches]
    /\ UNCHANGED <<panicked, recorded, reply, counter, scrapeVars>>

(* Faulty: the response of a panicked evaluation is not recorded. *)
PanicUnrecorded(c) ==
    /\ pc[c] = "counted"
    /\ Goto(c, "timing")
    /\ panicked' = panicked \cup {c}
    /\ UNCHANGED <<violated, patched, recorded, reply, counter, scrapeVars>>

(* The evaluation panics; catch_unwind goes on with an empty response. *)
Panic(c) ==
    /\ pc[c] = "counted"
    /\ Goto(c, "responding")
    /\ panicked' = panicked \cup {c}
    /\ UNCHANGED <<violated, patched, recorded, reply, counter, scrapeVars>>

(* Faulty: what is allowed is labelled as enforced. *)
ModeLabelOfResult(c, p) == IF p \in Warned(c) THEN "warn" ELSE "enforce"

(* The labels record_policy_eval_metrics gives the result of a policy. *)
ModeLabel(c, p) ==
    CASE p \in Denied(c) -> "enforce"
      [] p \in Warned(c) -> "warn"
      [] OTHER           -> Mode[p]

ResultLabel(c, p) ==
    CASE p \in Denied(c) -> "denied"
      [] p \in Warned(c) -> "warning"
      [] OTHER           -> "allowed"

(* The result that is recorded next. *)
Recording(c) == PolicyOrder[recorded[c] + 1]

(* record_policy_eval_metrics, one result after the other, *)
RecordEvaluation(c) ==
    /\ pc[c] = "recording"
    /\ Goto(c, "observing")
    /\ Inc(EvaluationSeries(Recording(c), ResultLabel(c, Recording(c)), ModeLabel(c, Recording(c))))
    /\ UNCHANGED <<violated, patched, panicked, recorded, reply, scrapeVars>>

(* and the time its policy took *)
ObserveEvaluation(c) ==
    /\ pc[c] = "observing"
    /\ Goto(c, AfterRecording(recorded[c] + 1))
    /\ Inc(PolicyDurationSeries(Recording(c)))
    /\ recorded' = [recorded EXCEPT ![c] = @ + 1]
    /\ UNCHANGED <<violated, patched, panicked, reply, scrapeVars>>

AllowedLabel(c) == IF Denied(c) = {} THEN "true" ELSE "false"

(* record_response_metrics *)
RecordResponse(c) ==
    /\ pc[c] = "responding"
    /\ Goto(c, "timing")
    /\ Inc(ResponseSeries(AllowedLabel(c), WebhookOf[c]))
    /\ UNCHANGED <<violated, patched, panicked, recorded, reply, scrapeVars>>

(* Faulty: a denied request keeps its patches. *)
ResponseWithPatches(c) == Service!Reply({c}, Denied(c), Warned(c), patched[c])

(* build_response: a denied request is not patched. *)
Response(c) ==
    Service!Reply({c}, Denied(c), Warned(c), IF Denied(c) = {} THEN patched[c] ELSE {})

(* observe_request_duration, and the answer *)
AnswerReview(c) ==
    /\ pc[c] = "timing"
    /\ Goto(c, "answered")
    /\ Inc(DurationSeries(WebhookOf[c]))
    /\ reply' = [reply EXCEPT ![c] = {Response(c)}]
    /\ UNCHANGED <<violated, patched, panicked, recorded, scrapeVars>>

(* metrics_handler: encode reads one family after the other while the handlers go on. *)
Scrape ==
    /\ position < Len(Families)
    /\ position' = position + 1
    /\ page' = [s \in DOMAIN page \cup Families[position + 1] |->
                    IF s \in DOMAIN page THEN page[s] ELSE counter[s]]
    /\ UNCHANGED <<callVars, counter>>

(* Faulty: the next scrape goes on in the buffer of the last one. *)
FinishScrapeKeepingPage ==
    /\ position = Len(Families)
    /\ position' = 0
    /\ UNCHANGED <<callVars, counter, page>>

FinishScrape ==
    /\ position = Len(Families)
    /\ position' = 0
    /\ page' = [s \in {} |-> 0]
    /\ UNCHANGED <<callVars, counter>>

-------------------------------------------------------------------------------
(* The steps of handle_webhook for one call. *)
Handle(c) ==
    \/ AnswerUnreadable(c)
    \/ RecordRequest(c)
    \/ Evaluate(c)
    \/ Panic(c)
    \/ RecordEvaluation(c)
    \/ ObserveEvaluation(c)
    \/ RecordResponse(c)
    \/ AnswerReview(c)

Next ==
    \/ \E c \in Calls : Receive(c) \/ Handle(c)
    \/ Scrape
    \/ FinishScrape

(* A handler never waits, so the runtime runs each that it has begun to its end. *)
Spec == Init /\ [][Next]_vars /\ \A c \in Calls : WF_vars(Handle(c))
===============================================================================
