-------------------------- MODULE WebhookProperties --------------------------
(***************************************************************************)
(* What can be relied on in the answers of the webhook and in its metrics. *)
(***************************************************************************)
EXTENDS Webhook

Replies ==
    [uid : SUBSET Calls, allowed : BOOLEAN, denied : SUBSET Policies, warned : SUBSET Policies,
     patched : SUBSET Policies]

TypeOK ==
    /\ pc \in [Calls -> Steps]
    /\ violated \in [Calls -> SUBSET Policies]
    /\ patched \in [Calls -> SUBSET Policies]
    /\ panicked \in SUBSET Calls
    /\ recorded \in [Calls -> 0 .. Len(PolicyOrder)]
    /\ reply \in [Calls -> SUBSET Replies]
    /\ counter \in [Series -> Nat]
    /\ page \in [UNION {Families[i] : i \in 1 .. position} -> Nat]
    /\ position \in 0 .. Len(Families)

(* The series a call has incremented by the time it is at its step. *)
Answered(c) == pc[c] = "answered" /\ \A r \in reply[c] : r.uid # Service!Unread

(* The results that are counted: those recorded, and the one whose duration is observed. *)
CountedResults(c) == recorded[c] + IF pc[c] = "observing" THEN 1 ELSE 0

RecordedBy(c) ==
    {RequestSeries(w) : w \in {w \in {WebhookOf[c]} :
        pc[c] \in {"counted", "recording", "observing", "responding", "timing"} \/ Answered(c)}}
    \cup {EvaluationSeries(PolicyOrder[i], ResultLabel(c, PolicyOrder[i]), ModeLabel(c, PolicyOrder[i])) :
            i \in 1 .. CountedResults(c)}
    \cup {PolicyDurationSeries(PolicyOrder[i]) : i \in 1 .. recorded[c]}
    \cup {ResponseSeries(AllowedLabel(c), w) : w \in {w \in {WebhookOf[c]} :
            pc[c] = "timing" \/ Answered(c)}}
    \cup {DurationSeries(w) : w \in {w \in {WebhookOf[c]} : Answered(c)}}

(* Every series counts exactly the calls that have come past its           *)
(* increment: none is lost or counted twice, whatever the interleaving, and *)
(* a call that cannot be read leaves no trace (handle_webhook).            *)
EachCallCountedOnce ==
    LET recorders == UNION {{c} \X RecordedBy(c) : c \in Calls} IN
    \A s \in Series : counter[s] = Cardinality({c \in Calls : <<c, s>> \in recorders})

(* What the series in S come to: the number of all that they count. *)
Counts(values, S) == UNION {{s} \X (1 .. values[s]) : s \in S}

Total(values, S) == Cardinality(Counts(values, S))

DeniedResponses == {ResponseSeries("false", w) : w \in WebhookType}
DeniedEvaluations == {EvaluationSeries(p, "denied", "enforce") : p \in Policies}

(* A scrape never shows more denied responses than denials by a policy,    *)
(* though it reads the families one after the other while handlers go on:  *)
(* a handler records the evaluations before the response, and the scrape   *)
(* reads them after it (metrics.rs, the order of registration).            *)
ScrapeExplainsDenials ==
    position >= 3 => Total(page, DeniedResponses) <= Total(page, DeniedEvaluations)

(* The evaluations of a policy that are counted carry the mode the policy  *)
(* is configured with, though the label is derived from the result         *)
(* (record_policy_eval_metrics).                                           *)
ModeLabelIsConfigured ==
    \A p \in Policies, result \in Results, mode \in PolicyMode :
        counter[EvaluationSeries(p, result, mode)] > 0 => mode = Mode[p]

(* Between calls the books balance: as many responses and durations as     *)
(* requests, and every policy evaluated and timed for each of them but     *)
(* those whose evaluation panicked, which only the evaluations lack.       *)
BooksBalance ==
    (\A c \in Calls : pc[c] \in {"waiting", "answered"}) =>
        /\ \A w \in WebhookType :
            LET responses == {s \in Responses : s[3] = w} IN
            /\ counter[RequestSeries(w)] = Total(counter, responses)
            /\ counter[RequestSeries(w)] = counter[DurationSeries(w)]
        /\ \A p \in Policies :
            LET evaluations == Total(counter, {s \in Evaluations : s[2] = p}) IN
            /\ evaluations = Total(counter, Requests) - Cardinality(panicked)
            /\ evaluations = counter[PolicyDurationSeries(p)]

(* The handlers implement the service: each review is answered once, with  *)
(* a permitted reply, and every review received is answered.               *)
Promise == Service!Spec
===============================================================================
