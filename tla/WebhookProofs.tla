---------------------------- MODULE WebhookProofs ----------------------------
(***************************************************************************)
(* Proofs about the handlers for any number of calls, any enabled policies *)
(* and any modes.                                                          *)
(***************************************************************************)
EXTENDS WebhookProperties, FiniteSetTheorems, FunctionTheorems, TLAPS

(***************************************************************************)
(* What holds of the progress of a single call besides its types: nothing  *)
(* is recorded before the evaluation, a result is left to record while     *)
(* results are recorded, no answer is given before the last step, and      *)
(* /validate has no patches.                                               *)
(***************************************************************************)
CallsConsistent ==
    \A c \in Calls :
        /\ pc[c] \in {"waiting", "received", "counted"} => recorded[c] = 0
        /\ pc[c] \in {"recording", "observing"} => recorded[c] < Len(PolicyOrder)
        /\ pc[c] # "answered" => reply[c] = {}
        /\ WebhookOf[c] = "validate" => patched[c] = {}

LEMMA PolicyOrderElements ==
    /\ Len(PolicyOrder) \in Nat
    /\ DOMAIN PolicyOrder = 1 .. Len(PolicyOrder)
    /\ \A i \in 1 .. Len(PolicyOrder) : PolicyOrder[i] \in Policies
    /\ \A i, j \in 1 .. Len(PolicyOrder) : PolicyOrder[i] = PolicyOrder[j] => i = j
  BY WebhookAssumption DEF Policies

LEMMA SeriesTypes ==
    /\ \A w \in WebhookType : RequestSeries(w) \in Series /\ DurationSeries(w) \in Series
    /\ \A a \in {"true", "false"}, w \in WebhookType : ResponseSeries(a, w) \in Series
    /\ \A p \in Policies, r \in Results, m \in PolicyMode : EvaluationSeries(p, r, m) \in Series
    /\ \A p \in Policies : PolicyDurationSeries(p) \in Series
  BY DEF Series, Requests, Responses, Evaluations, Durations, PolicyDurations

LEMMA LabelTypes ==
    ASSUME NEW c \in Calls, NEW p \in Policies
    PROVE  ResultLabel(c, p) \in Results /\ ModeLabel(c, p) \in PolicyMode
  BY WebhookAssumption DEF ResultLabel, ModeLabel, Results, PolicyMode

LEMMA FamilyIndex ==
    /\ Len(Families) = 5
    /\ Families[1] = Requests /\ Families[2] = Responses
    /\ Families[3] = Evaluations /\ Families[4] = Durations
    /\ Families[5] = PolicyDurations
  BY DEF Families

LEMMA FamilyRead ==
    ASSUME NEW i \in 1 .. Len(Families)
    PROVE  Families[i] \subseteq Series
  BY FamilyIndex DEF Series

LEMMA ReplyTypes ==
    ASSUME TypeOK, NEW c \in Calls
    PROVE  /\ Service!Reply(Service!Unread, {}, {}, {}) \in Replies
           /\ Response(c) \in Replies
  BY DEF TypeOK, Replies, Response, Service!Reply, Service!Unread, Denied, Warned

Consistent == TypeOK /\ CallsConsistent

LEMMA ConsistentStep == Consistent /\ [Next]_vars => Consistent'
  <1> SUFFICES ASSUME Consistent, [Next]_vars
               PROVE  Consistent'
    OBVIOUS
  <1> USE DEF Consistent
  <1>inc. ASSUME NEW s \in Series, Inc(s)
          PROVE  counter' \in [Series -> Nat]
    BY <1>inc DEF Inc, TypeOK
  <1>1. ASSUME NEW c \in Calls, Receive(c)
        PROVE  Consistent'
    BY <1>1 DEF Receive, Goto, scrapeVars, TypeOK, Steps, CallsConsistent
  <1>2. ASSUME NEW c \in Calls, AnswerUnreadable(c)
        PROVE  Consistent'
    BY <1>2, ReplyTypes DEF AnswerUnreadable, Goto, scrapeVars, TypeOK, Steps, CallsConsistent
  <1>3. ASSUME NEW c \in Calls, RecordRequest(c)
        PROVE  Consistent'
    <2>1. counter' \in [Series -> Nat]
      BY <1>3, <1>inc, SeriesTypes, WebhookAssumption DEF RecordRequest
    <2>2. QED
      BY <1>3, <2>1 DEF RecordRequest, Goto, scrapeVars, TypeOK, Steps, CallsConsistent
  <1>4. ASSUME NEW c \in Calls, Evaluate(c)
        PROVE  Consistent'
    BY <1>4, PolicyOrderElements
    DEF Evaluate, AfterRecording, Goto, scrapeVars, TypeOK, Steps, CallsConsistent, Patching
  <1>5. ASSUME NEW c \in Calls, Panic(c)
        PROVE  Consistent'
    BY <1>5 DEF Panic, Goto, scrapeVars, TypeOK, Steps, CallsConsistent
  <1>index. ASSUME NEW c \in Calls, pc[c] \in {"recording", "observing"}
        PROVE  /\ recorded[c] \in Nat /\ recorded[c] < Len(PolicyOrder)
               /\ recorded[c] + 1 \in 1 .. Len(PolicyOrder) /\ Recording(c) \in Policies
    BY <1>index, PolicyOrderElements DEF Recording, TypeOK, CallsConsistent
  <1>6. ASSUME NEW c \in Calls, RecordEvaluation(c)
        PROVE  Consistent'
    <2>1. counter' \in [Series -> Nat]
      BY <1>index, <1>6, <1>inc, SeriesTypes, LabelTypes DEF RecordEvaluation
    <2>2. QED
      BY <1>index, <1>6, <2>1 DEF RecordEvaluation, Goto, scrapeVars, TypeOK, Steps, CallsConsistent
  <1>observe. ASSUME NEW c \in Calls, ObserveEvaluation(c)
        PROVE  Consistent'
    <2>1. counter' \in [Series -> Nat]
      BY <1>index, <1>observe, <1>inc, SeriesTypes DEF ObserveEvaluation
    <2>2. QED
      BY <1>index, <1>observe, <2>1, PolicyOrderElements
      DEF ObserveEvaluation, AfterRecording, Goto, scrapeVars, TypeOK, Steps, CallsConsistent
  <1>7. ASSUME NEW c \in Calls, RecordResponse(c)
        PROVE  Consistent'
    <2>1. counter' \in [Series -> Nat]
      BY <1>7, <1>inc, SeriesTypes, WebhookAssumption DEF RecordResponse, AllowedLabel
    <2>2. QED
      BY <1>7, <2>1 DEF RecordResponse, Goto, scrapeVars, TypeOK, Steps, CallsConsistent
  <1>8. ASSUME NEW c \in Calls, AnswerReview(c)
        PROVE  Consistent'
    <2>1. counter' \in [Series -> Nat]
      BY <1>8, <1>inc, SeriesTypes, WebhookAssumption DEF AnswerReview
    <2>2. QED
      BY <1>8, <2>1, ReplyTypes DEF AnswerReview, Goto, scrapeVars, TypeOK, Steps, CallsConsistent
  <1>9. CASE Scrape
    <2>1. /\ position \in 0 .. 4 /\ position' = position + 1 /\ position' \in 0 .. Len(Families)
      BY <1>9, FamilyIndex DEF Scrape, TypeOK
    <2>2. DOMAIN page = UNION {Families[i] : i \in 1 .. position}
      BY DEF TypeOK
    <2>3. UNION {Families[i] : i \in 1 .. position'}
            = DOMAIN page \cup Families[position + 1]
      BY <2>1, <2>2
    <2>4. Families[position + 1] \subseteq Series
      BY <2>1, FamilyIndex, FamilyRead
    <2>5. page' \in [UNION {Families[i] : i \in 1 .. position'} -> Nat]
      BY <1>9, <2>2, <2>3, <2>4 DEF Scrape, TypeOK
    <2>6. QED
      BY <1>9, <2>1, <2>5 DEF Scrape, callVars, TypeOK, CallsConsistent
  <1>10. CASE FinishScrape
    <2>1. UNION {Families[i] : i \in 1 .. 0} = {}
      OBVIOUS
    <2>2. QED
      BY <1>10, <2>1, FamilyIndex DEF FinishScrape, callVars, TypeOK, CallsConsistent
  <1>11. CASE UNCHANGED vars
    BY <1>11 DEF vars, callVars, scrapeVars, TypeOK, CallsConsistent
  <1>12. QED
    BY <1>1, <1>2, <1>3, <1>4, <1>5, <1>6, <1>observe, <1>7, <1>8, <1>9, <1>10, <1>11 DEF Next, Handle

LEMMA ConsistentInit == Init => Consistent
  BY PolicyOrderElements, FamilyIndex DEF Init, Consistent, CallsConsistent, TypeOK, Steps

LEMMA AlwaysConsistent == Spec => []Consistent
  BY ConsistentInit, ConsistentStep, PTL DEF Spec

(* The types of all variables (handlers.rs, metrics.rs, health.rs). *)
THEOREM TypeCorrect == Spec => []TypeOK
  BY AlwaysConsistent, PTL DEF Consistent

-------------------------------------------------------------------------------
(* EachCallCountedOnce, without the pairs that make it fast to evaluate. *)
LEMMA Recorders ==
    /\ EachCallCountedOnce <=>
        \A s \in Series : counter[s] = Cardinality({c \in Calls : s \in RecordedBy(c)})
    /\ EachCallCountedOnce' <=>
        \A s \in Series : counter'[s] = Cardinality({c \in Calls : s \in RecordedBy(c)'})
  <1> DEFINE recorders == UNION {{c} \X RecordedBy(c) : c \in Calls}
             after == UNION {{c} \X RecordedBy(c)' : c \in Calls}
  <1>1. /\ \A c \in Calls : \A s : <<c, s>> \in recorders <=> s \in RecordedBy(c)
        /\ \A c \in Calls : \A s : <<c, s>> \in after <=> s \in RecordedBy(c)'
    OBVIOUS
  <1>2. \A s : {c \in Calls : <<c, s>> \in recorders} = {c \in Calls : s \in RecordedBy(c)}
    BY <1>1
  <1>3. \A s : {c \in Calls : <<c, s>> \in after} = {c \in Calls : s \in RecordedBy(c)'}
    BY <1>1
  <1>4. QED
    BY <1>2, <1>3 DEF EachCallCountedOnce

(***************************************************************************)
(* Counting.  A step that increments a series for a call that had not      *)
(* incremented it adds the call to those the series counts; every other    *)
(* step leaves the series and what the calls have recorded alone.          *)
(***************************************************************************)
LEMMA StepCounts ==
    ASSUME TypeOK, EachCallCountedOnce,
           NEW c \in Calls, NEW t \in Series, Inc(t), t \notin RecordedBy(c),
           RecordedBy(c)' = RecordedBy(c) \cup {t},
           \A d \in Calls \ {c} : RecordedBy(d)' = RecordedBy(d)
    PROVE  EachCallCountedOnce'
  <1> SUFFICES ASSUME NEW s \in Series
               PROVE  counter'[s] = Cardinality({d \in Calls : s \in RecordedBy(d)'})
    BY Recorders
  <1> DEFINE Before == {d \in Calls : s \in RecordedBy(d)}
             After == {d \in Calls : s \in RecordedBy(d)'}
  <1>1. IsFiniteSet(Before)
    BY FS_Subset, WebhookAssumption
  <1>2. counter[s] = Cardinality(Before)
    BY Recorders
  <1>3. CASE s = t
    <2>1. After = Before \cup {c} /\ c \notin Before
      BY <1>3
    <2>2. Cardinality(After) = Cardinality(Before) + 1
      BY <1>1, <2>1, FS_AddElement
    <2>3. counter'[s] = counter[s] + 1
      BY <1>3 DEF Inc, TypeOK
    <2>4. QED
      BY <1>2, <2>2, <2>3
  <1>4. CASE s # t
    <2>1. After = Before
      BY <1>4
    <2>2. counter'[s] = counter[s]
      BY <1>4 DEF Inc, TypeOK
    <2>3. QED
      BY <1>2, <2>1, <2>2
  <1>5. QED
    BY <1>3, <1>4

LEMMA StepKeepsCounts ==
    ASSUME EachCallCountedOnce, counter' = counter,
           \A d \in Calls : RecordedBy(d)' = RecordedBy(d)
    PROVE  EachCallCountedOnce'
  <1>1. \A s : {d \in Calls : s \in RecordedBy(d)'} = {d \in Calls : s \in RecordedBy(d)}
    OBVIOUS
  <1>2. QED
    BY <1>1, Recorders

(* What a call has recorded depends on its own variables alone. *)
LEMMA RecordedByOthers ==
    ASSUME NEW d \in Calls, pc'[d] = pc[d], violated'[d] = violated[d],
           recorded'[d] = recorded[d], reply'[d] = reply[d]
    PROVE  RecordedBy(d)' = RecordedBy(d)
  BY DEF RecordedBy, CountedResults, Answered, ResultLabel, ModeLabel, AllowedLabel, Denied, Warned

LEMMA CountingStep == Consistent /\ EachCallCountedOnce /\ [Next]_vars => EachCallCountedOnce'
  <1> SUFFICES ASSUME Consistent, EachCallCountedOnce, [Next]_vars
               PROVE  EachCallCountedOnce'
    OBVIOUS
  <1> USE DEF Consistent
  <1>1. ASSUME NEW c \in Calls, Receive(c)
        PROVE  EachCallCountedOnce'
    <2>1. \A d \in Calls \ {c} : RecordedBy(d)' = RecordedBy(d)
      BY <1>1, RecordedByOthers DEF Receive, Goto, TypeOK
    <2>2. RecordedBy(c)' = RecordedBy(c)
      BY <1>1 DEF Receive, Goto, TypeOK, RecordedBy, CountedResults, Answered, ResultLabel, ModeLabel, AllowedLabel, Denied, Warned
    <2>3. QED
      BY <1>1, <2>1, <2>2, StepKeepsCounts DEF Receive
  <1>2. ASSUME NEW c \in Calls, AnswerUnreadable(c)
        PROVE  EachCallCountedOnce'
    <2>1. \A d \in Calls \ {c} : RecordedBy(d)' = RecordedBy(d)
      BY <1>2, RecordedByOthers DEF AnswerUnreadable, Goto, TypeOK
    <2>2. ~Answered(c) /\ ~Answered(c)'
      BY <1>2 DEF AnswerUnreadable, Goto, TypeOK, Answered, Service!Reply
    <2>3. RecordedBy(c)' = RecordedBy(c)
      BY <1>2, <2>2 DEF AnswerUnreadable, Goto, TypeOK, RecordedBy, CountedResults, ResultLabel, ModeLabel, AllowedLabel, Denied, Warned
    <2>4. QED
      BY <1>2, <2>1, <2>3, StepKeepsCounts DEF AnswerUnreadable
  <1>3. ASSUME NEW c \in Calls, RecordRequest(c)
        PROVE  EachCallCountedOnce'
    <2> DEFINE t == RequestSeries(WebhookOf[c])
    <2>1. \A d \in Calls \ {c} : RecordedBy(d)' = RecordedBy(d)
      BY <1>3, RecordedByOthers DEF RecordRequest, Goto, TypeOK
    <2>2. RecordedBy(c) = {}
      BY <1>3 DEF RecordRequest, TypeOK, CallsConsistent, RecordedBy, CountedResults, Answered
    <2>3. RecordedBy(c)' = {t}
      BY <1>3 DEF RecordRequest, Goto, TypeOK, CallsConsistent, RecordedBy, CountedResults, Answered
    <2>4. t \in Series /\ Inc(t)
      BY <1>3, SeriesTypes, WebhookAssumption DEF RecordRequest
    <2>5. QED
      BY <2>1, <2>2, <2>3, <2>4, StepCounts
  <1>4. ASSUME NEW c \in Calls, Evaluate(c)
        PROVE  EachCallCountedOnce'
    <2>1. \A d \in Calls \ {c} : RecordedBy(d)' = RecordedBy(d)
      BY <1>4, RecordedByOthers DEF Evaluate, Goto, TypeOK
    <2>2. /\ recorded[c] = 0 /\ recorded' = recorded
          /\ pc[c] = "counted" /\ pc'[c] \in {"recording", "responding"}
      BY <1>4 DEF Evaluate, Goto, AfterRecording, TypeOK, CallsConsistent
    <2>3. RecordedBy(c)' = RecordedBy(c)
      BY <2>2 DEF RecordedBy, CountedResults, Answered
    <2>4. QED
      BY <1>4, <2>1, <2>3, StepKeepsCounts DEF Evaluate
  <1>5. ASSUME NEW c \in Calls, Panic(c)
        PROVE  EachCallCountedOnce'
    <2>1. \A d \in Calls \ {c} : RecordedBy(d)' = RecordedBy(d)
      BY <1>5, RecordedByOthers DEF Panic, Goto, TypeOK
    <2>2. /\ recorded[c] = 0 /\ recorded' = recorded
          /\ pc[c] = "counted" /\ pc'[c] = "responding"
      BY <1>5 DEF Panic, Goto, TypeOK, CallsConsistent
    <2>3. RecordedBy(c)' = RecordedBy(c)
      BY <2>2 DEF RecordedBy, CountedResults, Answered
    <2>4. QED
      BY <1>5, <2>1, <2>3, StepKeepsCounts DEF Panic
  <1> DEFINE Of(c, i) == EvaluationSeries(PolicyOrder[i], ResultLabel(c, PolicyOrder[i]),
                                          ModeLabel(c, PolicyOrder[i]))
  <1>6. ASSUME NEW c \in Calls, RecordEvaluation(c)
        PROVE  EachCallCountedOnce'
    <2> DEFINE next == recorded[c] + 1
    <2>1. \A d \in Calls \ {c} : RecordedBy(d)' = RecordedBy(d)
      BY <1>6, RecordedByOthers DEF RecordEvaluation, Goto, TypeOK
    <2>2. /\ recorded[c] \in Nat /\ next \in 1 .. Len(PolicyOrder) /\ recorded' = recorded
          /\ pc[c] = "recording" /\ pc'[c] = "observing" /\ violated' = violated
      BY <1>6, PolicyOrderElements DEF RecordEvaluation, Goto, TypeOK, CallsConsistent
    <2>3. RecordedBy(c) = {RequestSeries(WebhookOf[c])} \cup {Of(c, i) : i \in 1 .. recorded[c]}
                          \cup {PolicyDurationSeries(PolicyOrder[i]) : i \in 1 .. recorded[c]}
      BY <2>2 DEF RecordedBy, CountedResults, Answered
    <2>4. RecordedBy(c)' = {RequestSeries(WebhookOf[c])} \cup {Of(c, i) : i \in 1 .. next}
                           \cup {PolicyDurationSeries(PolicyOrder[i]) : i \in 1 .. recorded[c]}
      BY <2>2 DEF RecordedBy, CountedResults, Answered, ResultLabel, ModeLabel, Denied, Warned
    <2>5. 1 .. next = (1 .. recorded[c]) \cup {next}
      BY <2>2
    <2>6. RecordedBy(c)' = RecordedBy(c) \cup {Of(c, next)}
      BY <2>3, <2>4, <2>5
    <2>7. Of(c, next) \in Series /\ Inc(Of(c, next))
      BY <1>6, <2>2, SeriesTypes, LabelTypes, PolicyOrderElements DEF RecordEvaluation, Recording
    <2>8. \A i \in 1 .. recorded[c] : PolicyOrder[i] # PolicyOrder[next]
      BY <2>2, PolicyOrderElements
    <2>9. \A i \in 1 .. recorded[c] : Of(c, i) # Of(c, next)
      BY <2>8 DEF EvaluationSeries
    <2>10. /\ Of(c, next) # RequestSeries(WebhookOf[c])
           /\ \A p : Of(c, next) # PolicyDurationSeries(p)
      BY DEF EvaluationSeries, RequestSeries, PolicyDurationSeries
    <2>11. Of(c, next) \notin RecordedBy(c)
      BY <2>3, <2>9, <2>10
    <2>12. QED
      BY <2>1, <2>6, <2>7, <2>11, StepCounts
  <1>observe. ASSUME NEW c \in Calls, ObserveEvaluation(c)
              PROVE  EachCallCountedOnce'
    <2> DEFINE next == recorded[c] + 1
               t == PolicyDurationSeries(PolicyOrder[next])
    <2>1. \A d \in Calls \ {c} : RecordedBy(d)' = RecordedBy(d)
      BY <1>observe, RecordedByOthers DEF ObserveEvaluation, Goto, TypeOK
    <2>2. /\ recorded[c] \in Nat /\ next \in 1 .. Len(PolicyOrder) /\ recorded'[c] = next
          /\ pc[c] = "observing" /\ pc'[c] \in {"recording", "responding"} /\ violated' = violated
      BY <1>observe, PolicyOrderElements
      DEF ObserveEvaluation, AfterRecording, Goto, TypeOK, CallsConsistent
    <2>3. RecordedBy(c) = {RequestSeries(WebhookOf[c])} \cup {Of(c, i) : i \in 1 .. next}
                          \cup {PolicyDurationSeries(PolicyOrder[i]) : i \in 1 .. recorded[c]}
      BY <2>2 DEF RecordedBy, CountedResults, Answered
    <2>4. RecordedBy(c)' = {RequestSeries(WebhookOf[c])} \cup {Of(c, i) : i \in 1 .. next}
                           \cup {PolicyDurationSeries(PolicyOrder[i]) : i \in 1 .. next}
      BY <2>2 DEF RecordedBy, CountedResults, Answered, ResultLabel, ModeLabel, Denied, Warned
    <2>5. 1 .. next = (1 .. recorded[c]) \cup {next}
      BY <2>2
    <2>6. RecordedBy(c)' = RecordedBy(c) \cup {t}
      BY <2>3, <2>4, <2>5
    <2>7. t \in Series /\ Inc(t)
      BY <1>observe, <2>2, SeriesTypes, PolicyOrderElements DEF ObserveEvaluation, Recording
    <2>8. \A i \in 1 .. recorded[c] : PolicyOrder[i] # PolicyOrder[next]
      BY <2>2, PolicyOrderElements
    <2>9. \A i \in 1 .. recorded[c] : PolicyDurationSeries(PolicyOrder[i]) # t
      BY <2>8 DEF PolicyDurationSeries
    <2>10. t # RequestSeries(WebhookOf[c]) /\ \A i : t # Of(c, i)
      BY DEF EvaluationSeries, RequestSeries, PolicyDurationSeries
    <2>11. t \notin RecordedBy(c)
      BY <2>3, <2>9, <2>10
    <2>12. QED
      BY <2>1, <2>6, <2>7, <2>11, StepCounts
  <1>7. ASSUME NEW c \in Calls, RecordResponse(c)
        PROVE  EachCallCountedOnce'
    <2> DEFINE t == ResponseSeries(AllowedLabel(c), WebhookOf[c])
    <2>1. \A d \in Calls \ {c} : RecordedBy(d)' = RecordedBy(d)
      BY <1>7, RecordedByOthers DEF RecordResponse, Goto, TypeOK
    <2>2. /\ pc[c] = "responding" /\ pc'[c] = "timing"
          /\ violated' = violated /\ recorded' = recorded
      BY <1>7 DEF RecordResponse, Goto, TypeOK
    <2>3. RecordedBy(c)' = RecordedBy(c) \cup {t}
      BY <2>2 DEF RecordedBy, CountedResults, Answered, ResultLabel, ModeLabel, AllowedLabel, Denied, Warned
    <2>4. t \notin RecordedBy(c)
      BY <2>2 DEF RecordedBy, CountedResults, Answered, ResponseSeries, RequestSeries, EvaluationSeries, PolicyDurationSeries
    <2>5. t \in Series /\ Inc(t)
      BY <1>7, SeriesTypes, WebhookAssumption DEF RecordResponse, AllowedLabel
    <2>6. QED
      BY <2>1, <2>3, <2>4, <2>5, StepCounts
  <1>8. ASSUME NEW c \in Calls, AnswerReview(c)
        PROVE  EachCallCountedOnce'
    <2> DEFINE t == DurationSeries(WebhookOf[c])
    <2>1. \A d \in Calls \ {c} : RecordedBy(d)' = RecordedBy(d)
      BY <1>8, RecordedByOthers DEF AnswerReview, Goto, TypeOK
    <2>2. /\ pc[c] = "timing" /\ pc'[c] = "answered" /\ ~Answered(c) /\ Answered(c)'
          /\ violated' = violated /\ recorded' = recorded
      <3>1. /\ pc[c] = "timing" /\ pc'[c] = "answered" /\ reply'[c] = {Response(c)}
            /\ violated' = violated /\ recorded' = recorded
        BY <1>8 DEF AnswerReview, Goto, TypeOK
      <3>2. Response(c).uid # Service!Unread
        BY DEF Response, Service!Reply, Service!Unread
      <3>3. QED
        BY <3>1, <3>2 DEF Answered
    <2>3. RecordedBy(c)' = RecordedBy(c) \cup {t}
      BY <2>2 DEF RecordedBy, CountedResults, ResultLabel, ModeLabel, AllowedLabel, Denied, Warned
    <2>4. t \notin RecordedBy(c)
      BY <2>2
      DEF RecordedBy, CountedResults, DurationSeries, ResponseSeries, RequestSeries, EvaluationSeries,
          PolicyDurationSeries
    <2>5. t \in Series /\ Inc(t)
      BY <1>8, SeriesTypes, WebhookAssumption DEF AnswerReview
    <2>6. QED
      BY <2>1, <2>3, <2>4, <2>5, StepCounts
  <1>9. ASSUME UNCHANGED <<callVars, counter>>
        PROVE  EachCallCountedOnce'
    <2>1. \A d \in Calls : RecordedBy(d)' = RecordedBy(d)
      BY <1>9, RecordedByOthers DEF callVars
    <2>2. QED
      BY <1>9, <2>1, StepKeepsCounts
  <1>10. QED
    BY <1>1, <1>2, <1>3, <1>4, <1>5, <1>6, <1>observe, <1>7, <1>8, <1>9
    DEF Next, Handle, Scrape, FinishScrape, vars

(* No series loses an increment or counts a call twice, however many calls *)
(* are handled at once (handle_webhook and the counters it shares).        *)
THEOREM CountersExact == Spec => []EachCallCountedOnce
  <1>1. Init => EachCallCountedOnce
    <2> SUFFICES ASSUME Init, NEW s \in Series
                 PROVE  counter[s] = Cardinality({c \in Calls : s \in RecordedBy(c)})
      BY Recorders
    <2>1. {c \in Calls : s \in RecordedBy(c)} = {}
      BY DEF Init, RecordedBy, CountedResults, Answered
    <2>2. QED
      BY <2>1, FS_EmptySet DEF Init
  <1>2. QED
    BY <1>1, CountingStep, AlwaysConsistent, PTL DEF Spec

(* An evaluation is counted under the mode its policy is configured with   *)
(* (record_policy_eval_metrics): the mode label follows from the result.   *)
THEOREM ModesExact == Spec => []ModeLabelIsConfigured
  <1>1. ASSUME Consistent, EachCallCountedOnce
        PROVE  ModeLabelIsConfigured
    <2> SUFFICES ASSUME NEW p \in Policies, NEW result \in Results, NEW mode \in PolicyMode,
                        counter[EvaluationSeries(p, result, mode)] > 0
                 PROVE  mode = Mode[p]
      BY DEF ModeLabelIsConfigured
    <2> DEFINE s == EvaluationSeries(p, result, mode)
    <2>1. counter[s] = Cardinality({c \in Calls : s \in RecordedBy(c)})
      BY <1>1, SeriesTypes, Recorders
    <2>2. {c \in Calls : s \in RecordedBy(c)} # {}
      BY <2>1, FS_EmptySet
    <2>3. PICK c \in Calls : s \in RecordedBy(c)
      BY <2>2
    <2>4. PICK i \in 1 .. CountedResults(c) :
            s = EvaluationSeries(PolicyOrder[i], ResultLabel(c, PolicyOrder[i]),
                                 ModeLabel(c, PolicyOrder[i]))
      BY <2>3 DEF RecordedBy, EvaluationSeries, PolicyDurationSeries, RequestSeries, ResponseSeries, DurationSeries
    <2>5. p = PolicyOrder[i] /\ mode = ModeLabel(c, PolicyOrder[i])
      BY <2>4 DEF EvaluationSeries
    <2>6. QED
      BY <2>5 DEF ModeLabel, Denied, Warned
  <1>2. QED
    BY <1>1, AlwaysConsistent, CountersExact, PTL

-------------------------------------------------------------------------------
(***************************************************************************)
(* The handlers implement the service.                                     *)
(***************************************************************************)
LEMMA ResponsePermitted ==
    ASSUME Consistent, NEW c \in Calls
    PROVE  Response(c) \in Service!Permitted(c)
  <1> DEFINE kept == IF Denied(c) = {} THEN patched[c] ELSE {}
  <1>1. Denied(c) \in SUBSET Service!Enforced /\ Warned(c) \in SUBSET (Policies \ Service!Enforced)
    BY DEF Consistent, TypeOK, Denied, Warned, Service!Enforced
  <1>2. kept \in SUBSET Policies
    BY DEF Consistent, TypeOK
  <1>3. Response(c) \in Service!Verdicts(c)
    BY <1>1, <1>2 DEF Response, Service!Verdicts
  <1>4. /\ Response(c).patched = kept
        /\ Response(c).allowed = (Denied(c) = {})
    BY DEF Response, Service!Reply
  <1>5. kept # {} => WebhookOf[c] = "mutate" /\ Denied(c) = {}
    BY WebhookAssumption DEF Consistent, CallsConsistent, WebhookType
  <1>6. QED
    BY <1>3, <1>4, <1>5 DEF Service!Permitted

LEMMA ServiceStep == Consistent /\ [Next]_vars => [Service!Next]_(Service!vars)
  <1> SUFFICES ASSUME Consistent, [Next]_vars
               PROVE  Service!Next \/ UNCHANGED Service!vars
    OBVIOUS
  <1>1. ASSUME NEW c \in Calls, Receive(c)
        PROVE  Service!Next
    <2>1. Service!Receive(c)
      BY <1>1 DEF Receive, Goto, Progress, Consistent, TypeOK, Service!Receive
    <2>2. QED
      BY <2>1 DEF Service!Next
  <1>2. ASSUME NEW c \in Calls, NEW r \in Service!Permitted(c), pc[c] \notin {"waiting", "answered"},
               Goto(c, "answered"), reply' = [reply EXCEPT ![c] = {r}]
        PROVE  Service!Next
    <2>1. Service!Answer(c)
      BY <1>2 DEF Goto, Progress, Consistent, TypeOK, Service!Answer
    <2>2. QED
      BY <2>1 DEF Service!Next
  <1>3. ASSUME NEW c \in Calls, AnswerUnreadable(c)
        PROVE  Service!Next
    <2>1. Service!Reply(Service!Unread, {}, {}, {}) \in Service!Permitted(c)
      BY DEF Service!Permitted
    <2>2. QED
      BY <1>2, <1>3, <2>1 DEF AnswerUnreadable
  <1>4. ASSUME NEW c \in Calls, AnswerReview(c)
        PROVE  Service!Next
    BY <1>2, <1>4, ResponsePermitted DEF AnswerReview
  <1>5. ASSUME NEW c \in Calls, NEW step \in Steps \ {"waiting", "answered"},
               pc[c] \notin {"waiting", "answered"}, Goto(c, step), UNCHANGED reply
        PROVE  UNCHANGED Service!vars
    BY <1>5 DEF Goto, Progress, Consistent, TypeOK, Service!vars
  <1>6. ASSUME NEW c \in Calls,
               RecordRequest(c) \/ Evaluate(c) \/ Panic(c) \/ RecordEvaluation(c)
                 \/ ObserveEvaluation(c) \/ RecordResponse(c)
        PROVE  UNCHANGED Service!vars
    BY <1>5, <1>6
    DEF RecordRequest, Evaluate, Panic, RecordEvaluation, ObserveEvaluation, RecordResponse,
        AfterRecording, Steps
  <1>7. ASSUME UNCHANGED callVars
        PROVE  UNCHANGED Service!vars
    BY <1>7 DEF callVars, Progress, Service!vars
  <1>8. QED
    BY <1>1, <1>3, <1>4, <1>6, <1>7 DEF Next, Handle, Scrape, FinishScrape, vars

(* The handlers take no step the service does not (handle_webhook): each   *)
(* review is answered once, only an enforced policy denies it, and only an *)
(* allowed answer of /mutate has patches.  That each is answered at last   *)
(* is left to the model checker.                                           *)
THEOREM ImplementsService == Spec => Service!Init /\ [][Service!Next]_(Service!vars)
  <1>1. Init => Service!Init
    BY DEF Init, Progress, Service!Init
  <1>2. QED
    BY <1>1, ServiceStep, AlwaysConsistent, PTL DEF Spec

-------------------------------------------------------------------------------
(***************************************************************************)
(* Sums of series.  What the series in S come to is at least the number of *)
(* calls that some of them counts, and is that number when no call is      *)
(* counted by two of them.                                                 *)
(***************************************************************************)
LEMMA FiniteCounts ==
    ASSUME NEW S, IsFiniteSet(S), NEW values, \A s \in S : values[s] \in Nat
    PROVE  IsFiniteSet(Counts(values, S))
  <1> DEFINE Of(s) == {s} \X (1 .. values[s])
             all == {Of(s) : s \in S}
  <1>1. ASSUME NEW s \in S
        PROVE  IsFiniteSet(Of(s))
    <2>1. IsFiniteSet(1 .. values[s])
      BY FS_Interval
    <2>2. [k \in 1 .. values[s] |-> <<s, k>>] \in Surjection(1 .. values[s], Of(s))
      BY Fun_IsSurj
    <2>3. QED
      BY <2>1, <2>2, FS_Surjection
  <1>2. [s \in S |-> Of(s)] \in Surjection(S, all)
    <2>1. [s \in S |-> Of(s)] \in [S -> all]
      OBVIOUS
    <2>2. \A t \in all : \E s \in S : [r \in S |-> Of(r)][s] = t
      OBVIOUS
    <2>3. QED
      BY <2>1, <2>2, Fun_IsSurj
  <1>3. IsFiniteSet(all)
    BY <1>2, FS_Surjection
  <1>4. \A T \in all : IsFiniteSet(T)
    BY <1>1
  <1>5. QED
    BY <1>3, <1>4, FS_UNION DEF Counts

LEMMA TotalOfCalls ==
    ASSUME NEW S, IsFiniteSet(S), NEW values, NEW calls, NEW all,
           \A s \in S : IsFiniteSet(calls[s]) /\ values[s] = Cardinality(calls[s]),
           all = UNION {calls[s] : s \in S}
    PROVE  /\ Total(values, S) \in Nat
           /\ Cardinality(all) <= Total(values, S)
           /\ (\A r, s \in S : r # s => calls[r] \cap calls[s] = {})
                => Cardinality(all) = Total(values, S)
  <1> DEFINE numbering == [s \in S |-> CHOOSE f : f \in Bijection(1 .. values[s], calls[s])]
             call == [n \in Counts(values, S) |-> numbering[n[1]][n[2]]]
  <1>1. ASSUME NEW s \in S
        PROVE  /\ values[s] \in Nat
               /\ numbering[s] \in [1 .. values[s] -> calls[s]]
               /\ \A i, j \in 1 .. values[s] : numbering[s][i] = numbering[s][j] => i = j
               /\ \A c \in calls[s] : \E k \in 1 .. values[s] : numbering[s][k] = c
    <2>1. values[s] \in Nat /\ \E f : f \in Bijection(1 .. values[s], calls[s])
      BY FS_CardinalityType, Fun_ExistsBij
    <2>2. numbering[s] \in Bijection(1 .. values[s], calls[s])
      BY <2>1
    <2> HIDE DEF numbering
    <2>3. QED
      BY <2>1, <2>2 DEF Bijection, Injection, Surjection, IsInjective
  <1> HIDE DEF numbering
  <1>2. \A n : n \in Counts(values, S) <=> \E s \in S : \E k \in 1 .. values[s] : n = <<s, k>>
    BY DEF Counts
  <1>3. \A s \in S : \A k \in 1 .. values[s] : call[<<s, k>>] = numbering[s][k]
    BY <1>2
  <1>4. call \in [Counts(values, S) -> all]
    <2>1. ASSUME NEW n \in Counts(values, S)
          PROVE  numbering[n[1]][n[2]] \in all
      <3>1. PICK s \in S : \E k \in 1 .. values[s] : n = <<s, k>>
        BY <1>2
      <3>2. PICK k \in 1 .. values[s] : n = <<s, k>>
        BY <3>1
      <3>3. numbering[s][k] \in calls[s]
        BY <1>1
      <3>4. QED
        BY <3>2, <3>3
    <2>2. QED
      BY <2>1
  <1>5. IsFiniteSet(Counts(values, S))
    BY <1>1, FiniteCounts
  <1> HIDE DEF call
  <1>6. call \in Surjection(Counts(values, S), all)
    <2>1. ASSUME NEW c \in all
          PROVE  \E n \in Counts(values, S) : call[n] = c
      <3>1. PICK s \in S : c \in calls[s]
        OBVIOUS
      <3>2. PICK k \in 1 .. values[s] : numbering[s][k] = c
        BY <1>1, <3>1
      <3>3. QED
        BY <1>2, <1>3, <3>2
    <2>2. QED
      BY <1>4, <2>1, Fun_IsSurj
  <1>7. ASSUME \A r, s \in S : r # s => calls[r] \cap calls[s] = {}
        PROVE  call \in Injection(Counts(values, S), all)
    <2>1. ASSUME NEW m \in Counts(values, S), NEW n \in Counts(values, S), call[m] = call[n]
          PROVE  m = n
      <3>1. PICK r, i : r \in S /\ i \in 1 .. values[r] /\ m = <<r, i>>
        BY <1>2
      <3>2. PICK s, k : s \in S /\ k \in 1 .. values[s] /\ n = <<s, k>>
        BY <1>2
      <3>3. numbering[r][i] \in calls[r] /\ numbering[s][k] \in calls[s]
        BY <1>1, <3>1, <3>2
      <3>4. numbering[r][i] = numbering[s][k]
        BY <1>3, <2>1, <3>1, <3>2
      <3>5. r = s
        BY <1>7, <3>1, <3>2, <3>3, <3>4
      <3>6. i = k
        BY <1>1, <3>1, <3>2, <3>4, <3>5
      <3>7. QED
        BY <3>1, <3>2, <3>5, <3>6
    <2>2. QED
      BY <1>4, <2>1, Fun_IsInj
  <1>8. Total(values, S) \in Nat
    BY <1>5, FS_CardinalityType DEF Total
  <1>9. /\ Cardinality(all) <= Total(values, S)
        /\ Cardinality(all) = Total(values, S) <=> call \in Injection(Counts(values, S), all)
    BY <1>5, <1>6, FS_Surjection DEF Total
  <1>10. QED
    BY <1>7, <1>8, <1>9

LEMMA TotalOfEqual ==
    ASSUME NEW S, NEW u, NEW v, \A s \in S : u[s] = v[s]
    PROVE  Total(u, S) = Total(v, S)
  <1>1. \A n : n \in Counts(u, S) <=> n \in Counts(v, S)
    BY DEF Counts
  <1>2. Counts(u, S) = Counts(v, S)
    BY <1>1
  <1>3. QED
    BY <1>2 DEF Total

(***************************************************************************)
(* How far each call has come with its records: a call has recorded all    *)
(* the results of its evaluation once it responds, or none if it panicked  *)
(* or could not be read, and violates nothing before it is evaluated.      *)
(***************************************************************************)
Recordings ==
    \A c \in Calls :
        /\ pc[c] \in {"waiting", "received", "counted"} => violated[c] = {} /\ c \notin panicked
        /\ c \in panicked =>
            /\ pc[c] \in {"responding", "timing"} \/ Answered(c)
            /\ violated[c] = {} /\ recorded[c] = 0
        /\ (pc[c] \in {"responding", "timing"} \/ Answered(c)) /\ c \notin panicked =>
            recorded[c] = Len(PolicyOrder)
        /\ pc[c] = "answered" /\ ~Answered(c) => violated[c] = {} /\ recorded[c] = 0

Explained == Consistent /\ Recordings

LEMMA RecordingsStep == Explained /\ [Next]_vars => Recordings'
  <1> SUFFICES ASSUME Explained, [Next]_vars
               PROVE  Recordings'
    OBVIOUS
  <1> USE DEF Explained, Consistent
  <1>len. Len(PolicyOrder) \in Nat
    BY PolicyOrderElements
  <1>1. ASSUME NEW c \in Calls, Receive(c)
        PROVE  Recordings'
    BY <1>1 DEF Receive, Goto, TypeOK, Recordings, Answered
  <1>2. ASSUME NEW c \in Calls, AnswerUnreadable(c)
        PROVE  Recordings'
    <2>1. ~Answered(c)'
      BY <1>2 DEF AnswerUnreadable, Goto, TypeOK, Answered, Service!Reply
    <2>2. \A d \in Calls \ {c} : pc'[d] = pc[d] /\ (Answered(d)' <=> Answered(d))
      BY <1>2 DEF AnswerUnreadable, Goto, TypeOK, Answered
    <2>3. /\ pc[c] = "received" /\ pc'[c] = "answered"
          /\ UNCHANGED <<violated, panicked, recorded>>
      BY <1>2 DEF AnswerUnreadable, Goto, TypeOK
    <2>4. QED
      BY <2>1, <2>2, <2>3 DEF TypeOK, Recordings, CallsConsistent
  <1>3. ASSUME NEW c \in Calls, RecordRequest(c)
        PROVE  Recordings'
    BY <1>3 DEF RecordRequest, Goto, TypeOK, Recordings, Answered
  <1>4. ASSUME NEW c \in Calls, Evaluate(c)
        PROVE  Recordings'
    <2>1. \A d \in Calls \ {c} : /\ pc'[d] = pc[d] /\ (Answered(d)' <=> Answered(d))
                                 /\ violated'[d] = violated[d]
      BY <1>4 DEF Evaluate, Goto, TypeOK, Answered
    <2>2. /\ pc[c] = "counted" /\ recorded[c] = 0
          /\ UNCHANGED <<panicked, recorded>>
      BY <1>4 DEF Evaluate, Goto, TypeOK, CallsConsistent
    <2>3. \/ pc'[c] = "recording"
          \/ pc'[c] = "responding" /\ Len(PolicyOrder) = 0
      BY <1>4, <1>len DEF Evaluate, Goto, AfterRecording, TypeOK
    <2>4. QED
      BY <2>1, <2>2, <2>3 DEF TypeOK, Recordings, Answered
  <1>5. ASSUME NEW c \in Calls, Panic(c)
        PROVE  Recordings'
    BY <1>5 DEF Panic, Goto, TypeOK, CallsConsistent, Recordings, Answered
  <1>6. ASSUME NEW c \in Calls, RecordEvaluation(c)
        PROVE  Recordings'
    BY <1>6 DEF RecordEvaluation, Goto, TypeOK, Recordings, Answered
  <1>7. ASSUME NEW c \in Calls, ObserveEvaluation(c)
        PROVE  Recordings'
    <2>1. \A d \in Calls \ {c} : /\ pc'[d] = pc[d] /\ (Answered(d)' <=> Answered(d))
                                 /\ recorded'[d] = recorded[d]
      BY <1>7 DEF ObserveEvaluation, Goto, TypeOK, Answered
    <2>2. /\ pc[c] = "observing" /\ recorded[c] \in Nat /\ recorded[c] < Len(PolicyOrder)
          /\ recorded'[c] = recorded[c] + 1 /\ UNCHANGED <<panicked, violated>>
      BY <1>7, <1>len DEF ObserveEvaluation, TypeOK, CallsConsistent
    <2>3. \/ pc'[c] = "recording"
          \/ pc'[c] = "responding" /\ recorded'[c] = Len(PolicyOrder)
      BY <1>7, <1>len, <2>2 DEF ObserveEvaluation, Goto, AfterRecording, TypeOK
    <2>4. c \notin panicked
      BY <2>2 DEF Recordings, Answered
    <2>5. QED
      BY <2>1, <2>2, <2>3, <2>4 DEF TypeOK, Recordings, Answered
  <1>8. ASSUME NEW c \in Calls, RecordResponse(c)
        PROVE  Recordings'
    BY <1>8 DEF RecordResponse, Goto, TypeOK, Recordings, Answered
  <1>9. ASSUME NEW c \in Calls, AnswerReview(c)
        PROVE  Recordings'
    <2>1. Answered(c)'
      <3>1. pc'[c] = "answered" /\ reply'[c] = {Response(c)}
        BY <1>9 DEF AnswerReview, Goto, TypeOK
      <3>2. Response(c).uid # Service!Unread
        BY DEF Response, Service!Reply, Service!Unread
      <3>3. QED
        BY <3>1, <3>2 DEF Answered
    <2>2. \A d \in Calls \ {c} : pc'[d] = pc[d] /\ (Answered(d)' <=> Answered(d))
      BY <1>9 DEF AnswerReview, Goto, TypeOK, Answered
    <2>3. /\ pc[c] = "timing" /\ pc'[c] = "answered"
          /\ UNCHANGED <<violated, panicked, recorded>>
      BY <1>9 DEF AnswerReview, Goto, TypeOK
    <2>4. QED
      BY <2>1, <2>2, <2>3 DEF Recordings
  <1>10. ASSUME UNCHANGED callVars
         PROVE  Recordings'
    BY <1>10 DEF callVars, Recordings, Answered
  <1>11. QED
    BY <1>1, <1>2, <1>3, <1>4, <1>5, <1>6, <1>7, <1>8, <1>9, <1>10
    DEF Next, Handle, Scrape, FinishScrape, vars

LEMMA AlwaysExplained == Spec => []Explained
  <1>1. Init => Recordings
    BY DEF Init, Recordings, Answered
  <1>2. QED
    BY <1>1, RecordingsStep, AlwaysConsistent, PTL DEF Spec, Explained

(***************************************************************************)
(* The calls a series counts.                                              *)
(***************************************************************************)
CallsOf(s) == {c \in Calls : s \in RecordedBy(c)}

LEMMA RecordedMembers ==
    ASSUME NEW c \in Calls
    PROVE  /\ \A w : RequestSeries(w) \in RecordedBy(c) <=>
                /\ w = WebhookOf[c]
                /\ \/ pc[c] \in {"counted", "recording", "observing", "responding", "timing"}
                   \/ Answered(c)
           /\ \A a, w : ResponseSeries(a, w) \in RecordedBy(c) <=>
                a = AllowedLabel(c) /\ w = WebhookOf[c] /\ (pc[c] = "timing" \/ Answered(c))
           /\ \A p, r, m : EvaluationSeries(p, r, m) \in RecordedBy(c) <=>
                \E i \in 1 .. CountedResults(c) :
                    /\ p = PolicyOrder[i]
                    /\ r = ResultLabel(c, PolicyOrder[i]) /\ m = ModeLabel(c, PolicyOrder[i])
           /\ \A w : DurationSeries(w) \in RecordedBy(c) <=> w = WebhookOf[c] /\ Answered(c)
           /\ \A p : PolicyDurationSeries(p) \in RecordedBy(c) <=>
                \E i \in 1 .. recorded[c] : p = PolicyOrder[i]
  <1> USE DEF RecordedBy, RequestSeries, ResponseSeries, EvaluationSeries, DurationSeries,
              PolicyDurationSeries
  <1>1. \A w : RequestSeries(w) \in RecordedBy(c) <=>
            /\ w = WebhookOf[c]
            /\ \/ pc[c] \in {"counted", "recording", "observing", "responding", "timing"}
               \/ Answered(c)
    OBVIOUS
  <1>2. \A a, w : ResponseSeries(a, w) \in RecordedBy(c) <=>
            a = AllowedLabel(c) /\ w = WebhookOf[c] /\ (pc[c] = "timing" \/ Answered(c))
    OBVIOUS
  <1>3. \A p, r, m : EvaluationSeries(p, r, m) \in RecordedBy(c) <=>
            \E i \in 1 .. CountedResults(c) :
                /\ p = PolicyOrder[i]
                /\ r = ResultLabel(c, PolicyOrder[i]) /\ m = ModeLabel(c, PolicyOrder[i])
    OBVIOUS
  <1>4. \A w : DurationSeries(w) \in RecordedBy(c) <=> w = WebhookOf[c] /\ Answered(c)
    OBVIOUS
  <1>5. \A p : PolicyDurationSeries(p) \in RecordedBy(c) <=>
            \E i \in 1 .. recorded[c] : p = PolicyOrder[i]
    OBVIOUS
  <1>6. QED
    BY <1>1, <1>2, <1>3, <1>4, <1>5

LEMMA TotalOfCounters ==
    ASSUME TypeOK, EachCallCountedOnce, NEW S \in SUBSET Series, IsFiniteSet(S),
           NEW all, all = {c \in Calls : \E s \in S : s \in RecordedBy(c)}
    PROVE  /\ Total(counter, S) \in Nat
           /\ Cardinality(all) <= Total(counter, S)
           /\ (\A r, s \in S, c \in Calls : r \in RecordedBy(c) /\ s \in RecordedBy(c) => r = s)
                => Total(counter, S) = Cardinality(all)
  <1> DEFINE calls == [s \in S |-> CallsOf(s)]
  <1>1. \A s \in S : calls[s] = CallsOf(s)
    OBVIOUS
  <1>2. all = UNION {calls[s] : s \in S}
    BY DEF CallsOf
  <1> HIDE DEF calls
  <1>3. ASSUME NEW s \in S
        PROVE  IsFiniteSet(calls[s]) /\ counter[s] = Cardinality(calls[s])
    <2>1. counter[s] = Cardinality(CallsOf(s))
      BY Recorders DEF CallsOf
    <2>2. IsFiniteSet(CallsOf(s))
      BY FS_Subset, WebhookAssumption DEF CallsOf
    <2>3. QED
      BY <1>1, <2>1, <2>2
  <1>4. /\ Total(counter, S) \in Nat
        /\ Cardinality(all) <= Total(counter, S)
        /\ (\A r, s \in S : r # s => calls[r] \cap calls[s] = {})
              => Cardinality(all) = Total(counter, S)
    BY <1>2, <1>3, TotalOfCalls
  <1>5. ASSUME \A r, s \in S, c \in Calls : r \in RecordedBy(c) /\ s \in RecordedBy(c) => r = s
        PROVE  \A r, s \in S : r # s => calls[r] \cap calls[s] = {}
    BY <1>1, <1>5 DEF CallsOf
  <1>6. QED
    BY <1>4, <1>5

LEMMA FinitePolicies == IsFiniteSet(Policies)
  <1>1. [i \in 1 .. Len(PolicyOrder) |-> PolicyOrder[i]]
            \in Surjection(1 .. Len(PolicyOrder), Policies)
    BY PolicyOrderElements, Fun_IsSurj DEF Policies
  <1>2. IsFiniteSet(1 .. Len(PolicyOrder))
    BY PolicyOrderElements, FS_Interval
  <1>3. QED
    BY <1>1, <1>2, FS_Surjection

LEMMA FinitePair == ASSUME NEW a, NEW b PROVE IsFiniteSet({a, b})
  <1>1. IsFiniteSet({a} \cup {b})
    BY FS_Singleton, FS_AddElement
  <1>2. {a, b} = {a} \cup {b}
    OBVIOUS
  <1>3. QED
    BY <1>1, <1>2

LEMMA FiniteSeries ==
    /\ IsFiniteSet(Requests) /\ Requests \subseteq Series
    /\ IsFiniteSet(DeniedResponses) /\ DeniedResponses \subseteq Series
    /\ IsFiniteSet(DeniedEvaluations) /\ DeniedEvaluations \subseteq Series
    /\ \A w \in WebhookType : IsFiniteSet({s \in Responses : s[3] = w})
    /\ \A p \in Policies : IsFiniteSet({s \in Evaluations : s[2] = p})
  <1>1. IsFiniteSet(Requests)
    <2>1. Requests = {RequestSeries("validate"), RequestSeries("mutate")}
      BY DEF Requests, WebhookType
    <2>2. QED
      BY <2>1, FinitePair
  <1>2. IsFiniteSet(DeniedResponses)
    <2>1. DeniedResponses = {ResponseSeries("false", "validate"), ResponseSeries("false", "mutate")}
      BY DEF DeniedResponses, WebhookType
    <2>2. QED
      BY <2>1, FinitePair
  <1>3. IsFiniteSet(DeniedEvaluations)
    <2>1. [p \in Policies |-> EvaluationSeries(p, "denied", "enforce")]
              \in Surjection(Policies, DeniedEvaluations)
      BY Fun_IsSurj DEF DeniedEvaluations
    <2>2. QED
      BY <2>1, FinitePolicies, FS_Surjection
  <1>4. ASSUME NEW w \in WebhookType
        PROVE  IsFiniteSet({s \in Responses : s[3] = w})
    <2>1. {s \in Responses : s[3] = w} = {ResponseSeries("true", w), ResponseSeries("false", w)}
      BY DEF Responses, ResponseSeries
    <2>2. QED
      BY <2>1, FinitePair
  <1>5. ASSUME NEW p \in Policies
        PROVE  IsFiniteSet({s \in Evaluations : s[2] = p})
    <2> DEFINE Under(m) == {EvaluationSeries(p, r, m) : r \in Results}
    <2>1. ASSUME NEW m
          PROVE  IsFiniteSet(Under(m))
      <3>1. Under(m) = {EvaluationSeries(p, "allowed", m), EvaluationSeries(p, "denied", m)}
                            \cup {EvaluationSeries(p, "warning", m)}
        BY DEF Results
      <3>2. IsFiniteSet({EvaluationSeries(p, "allowed", m), EvaluationSeries(p, "denied", m)})
        BY FinitePair
      <3>3. IsFiniteSet({EvaluationSeries(p, "allowed", m), EvaluationSeries(p, "denied", m)}
                            \cup {EvaluationSeries(p, "warning", m)})
        BY <3>2, FS_AddElement
      <3> HIDE DEF Under
      <3>4. QED
        BY <3>1, <3>3
    <2> HIDE DEF Under
    <2>2. IsFiniteSet(Under("enforce") \cup Under("warn"))
      BY <2>1, FS_Union
    <2>3. {s \in Evaluations : s[2] = p} = Under("enforce") \cup Under("warn")
      <3>1. \A q, r, m : EvaluationSeries(q, r, m)[2] = q
        BY DEF EvaluationSeries
      <3>2. \A s : s \in Evaluations <=>
                \E q \in Policies, r \in Results, m \in PolicyMode : s = EvaluationSeries(q, r, m)
        BY DEF Evaluations
      <3>3. \A s : s \in Evaluations /\ s[2] = p <=>
                \E r \in Results, m \in PolicyMode : s = EvaluationSeries(p, r, m)
        BY <3>1, <3>2
      <3>4. PolicyMode = {"enforce", "warn"}
        BY DEF PolicyMode
      <3>5. QED
        BY <3>3, <3>4 DEF Under
    <2>4. QED
      BY <2>2, <2>3
  <1>6. DeniedResponses \subseteq Series /\ DeniedEvaluations \subseteq Series
    BY SeriesTypes DEF DeniedResponses, DeniedEvaluations, Results, PolicyMode
  <1>7. QED
    BY <1>1, <1>2, <1>3, <1>4, <1>5, <1>6 DEF Series

-------------------------------------------------------------------------------
(***************************************************************************)
(* A scrape under way.  The calls whose denied response has been recorded  *)
(* only grow, their responses are exactly the denied ones, and each had a  *)
(* denial by a policy recorded before.                                     *)
(***************************************************************************)
DeniedCalls == {c \in Calls : (pc[c] = "timing" \/ Answered(c)) /\ Denied(c) # {}}

ScrapeConsistent ==
    /\ position >= 2 => Total(page, DeniedResponses) <= Cardinality(DeniedCalls)
    /\ position >= 3 => Total(page, DeniedResponses) <= Total(page, DeniedEvaluations)

LEMMA DeniedCallsFinite == IsFiniteSet(DeniedCalls) /\ Cardinality(DeniedCalls) \in Nat
  BY WebhookAssumption, FS_Subset, FS_CardinalityType DEF DeniedCalls

LEMMA DenialsCounted ==
    ASSUME Explained, EachCallCountedOnce
    PROVE  /\ Total(counter, DeniedResponses) = Cardinality(DeniedCalls)
           /\ Total(counter, DeniedEvaluations) \in Nat
           /\ Cardinality(DeniedCalls) <= Total(counter, DeniedEvaluations)
  <1> USE DEF Explained, Consistent
  <1>1. \A c \in Calls :
            c \in DeniedCalls <=> \E s \in DeniedResponses : s \in RecordedBy(c)
    <2> SUFFICES ASSUME NEW c \in Calls
                 PROVE  c \in DeniedCalls <=> \E s \in DeniedResponses : s \in RecordedBy(c)
      OBVIOUS
    <2>1. (\E s \in DeniedResponses : s \in RecordedBy(c))
            <=> \E w \in WebhookType : ResponseSeries("false", w) \in RecordedBy(c)
      BY DEF DeniedResponses
    <2>2. (\E w \in WebhookType : ResponseSeries("false", w) \in RecordedBy(c))
            <=> "false" = AllowedLabel(c) /\ (pc[c] = "timing" \/ Answered(c))
      BY RecordedMembers, WebhookAssumption
    <2>3. "false" = AllowedLabel(c) <=> Denied(c) # {}
      BY DEF AllowedLabel
    <2>4. QED
      BY <2>1, <2>2, <2>3 DEF DeniedCalls
  <1>2. DeniedCalls = {c \in Calls : \E s \in DeniedResponses : s \in RecordedBy(c)}
    BY <1>1 DEF DeniedCalls
  <1>3. \A r, s \in DeniedResponses, c \in Calls : r \in RecordedBy(c) /\ s \in RecordedBy(c) => r = s
    BY RecordedMembers DEF DeniedResponses
  <1>4. Total(counter, DeniedResponses) = Cardinality(DeniedCalls)
    BY <1>2, <1>3, FiniteSeries, TotalOfCounters
  <1> DEFINE explained == {c \in Calls : \E s \in DeniedEvaluations : s \in RecordedBy(c)}
  <1>5. ASSUME NEW c \in DeniedCalls
        PROVE  \E s \in DeniedEvaluations : s \in RecordedBy(c)
    <2>1. c \in Calls /\ (pc[c] = "timing" \/ Answered(c)) /\ Denied(c) # {}
      BY DEF DeniedCalls
    <2>2. PICK p \in Denied(c) : TRUE
      BY <2>1
    <2>3. p \in Policies /\ c \in Calls
      BY DEF DeniedCalls, Denied, TypeOK
    <2>4. PICK i \in 1 .. Len(PolicyOrder) : p = PolicyOrder[i]
      BY <2>3, PolicyOrderElements DEF Policies
    <2>5. c \notin panicked
      BY <2>1, <2>2 DEF Recordings, Denied
    <2>6. recorded[c] = Len(PolicyOrder)
      BY <2>1, <2>5 DEF Recordings
    <2>7. CountedResults(c) = Len(PolicyOrder)
      <3>1. pc[c] # "observing"
        BY <2>1 DEF Answered
      <3>2. QED
        BY <2>6, <3>1, PolicyOrderElements DEF CountedResults
    <2>8. p \in Denied(c) /\ p \notin Warned(c)
      BY <2>2 DEF Denied, Warned
    <2>9. ResultLabel(c, p) = "denied"
      BY <2>8 DEF ResultLabel
    <2>10. ModeLabel(c, p) = "enforce"
      BY <2>8 DEF ModeLabel
    <2>11. EvaluationSeries(p, "denied", "enforce") \in RecordedBy(c)
      BY <2>3, <2>4, <2>7, <2>9, <2>10, RecordedMembers
    <2>12. QED
      BY <2>3, <2>11 DEF DeniedEvaluations
  <1>6. /\ Total(counter, DeniedEvaluations) \in Nat
        /\ Cardinality(explained) <= Total(counter, DeniedEvaluations)
    BY FiniteSeries, TotalOfCounters
  <1>7. IsFiniteSet(explained) /\ Cardinality(explained) \in Nat
    BY WebhookAssumption, FS_Subset, FS_CardinalityType
  <1>8. DeniedCalls \subseteq explained
    BY <1>5 DEF DeniedCalls
  <1> HIDE DEF explained
  <1>9. Cardinality(DeniedCalls) <= Cardinality(explained)
    BY <1>7, <1>8, FS_Subset
  <1>10. QED
    BY <1>4, <1>6, <1>7, <1>9, DeniedCallsFinite

LEMMA DeniedCallsGrow ==
    ASSUME Explained, [Next]_vars
    PROVE  DeniedCalls \subseteq DeniedCalls'
  <1> USE DEF Explained, Consistent
  <1> SUFFICES ASSUME NEW d \in DeniedCalls
               PROVE  (pc'[d] = "timing" \/ Answered(d)') /\ violated'[d] = violated[d]
    BY DEF DeniedCalls, Denied
  <1>1. d \in Calls /\ (pc[d] = "timing" \/ Answered(d))
    BY DEF DeniedCalls
  <1>2. ASSUME NEW c \in Calls, AnswerReview(c)
        PROVE  (pc'[d] = "timing" \/ Answered(d)') /\ violated'[d] = violated[d]
    <2>1. pc'[c] = "answered" /\ reply'[c] = {Response(c)} /\ violated' = violated
      BY <1>2 DEF AnswerReview, Goto, TypeOK
    <2>2. Response(c).uid # Service!Unread
      BY DEF Response, Service!Reply, Service!Unread
    <2>3. Answered(c)'
      BY <2>1, <2>2 DEF Answered
    <2>4. c # d => pc'[d] = pc[d] /\ reply'[d] = reply[d]
      BY <1>1, <1>2 DEF AnswerReview, Goto, TypeOK
    <2>5. QED
      BY <1>1, <2>1, <2>3, <2>4 DEF Answered
  <1>3. ASSUME NEW c \in Calls,
               Receive(c) \/ AnswerUnreadable(c) \/ RecordRequest(c) \/ Evaluate(c) \/ Panic(c)
                 \/ RecordEvaluation(c) \/ ObserveEvaluation(c) \/ RecordResponse(c)
        PROVE  (pc'[d] = "timing" \/ Answered(d)') /\ violated'[d] = violated[d]
    <2>1. pc[c] \notin {"timing", "answered"}
      BY <1>3 DEF Receive, AnswerUnreadable, RecordRequest, Evaluate, Panic, RecordEvaluation,
                  ObserveEvaluation, RecordResponse
    <2>2. c # d
      BY <1>1, <2>1 DEF Answered
    <2>3. pc'[d] = pc[d] /\ reply'[d] = reply[d] /\ violated'[d] = violated[d]
      BY <1>1, <1>3, <2>2
      DEF Receive, AnswerUnreadable, RecordRequest, Evaluate, Panic, RecordEvaluation,
          ObserveEvaluation, RecordResponse, Goto, TypeOK
    <2>4. QED
      BY <1>1, <2>3 DEF Answered
  <1>4. ASSUME UNCHANGED callVars
        PROVE  (pc'[d] = "timing" \/ Answered(d)') /\ violated'[d] = violated[d]
    BY <1>1, <1>4 DEF callVars, Answered
  <1>5. QED
    BY <1>2, <1>3, <1>4 DEF Next, Handle, Scrape, FinishScrape, vars

LEMMA ScrapeStep ==
    Explained /\ EachCallCountedOnce /\ ScrapeConsistent /\ [Next]_vars => ScrapeConsistent'
  <1> SUFFICES ASSUME Explained, EachCallCountedOnce, ScrapeConsistent, [Next]_vars
               PROVE  ScrapeConsistent'
    OBVIOUS
  <1> USE DEF Explained, Consistent
  <1> DEFINE responses == Total(page, DeniedResponses)
             denials == Total(page, DeniedEvaluations)
             read == UNION {Families[i] : i \in 1 .. position}
  <1>1. Cardinality(DeniedCalls) <= Cardinality(DeniedCalls')
    <2>1. IsFiniteSet(DeniedCalls')
      BY WebhookAssumption, FS_Subset DEF DeniedCalls
    <2>2. QED
      BY <2>1, DeniedCallsGrow, FS_Subset
  <1>2. /\ Cardinality(DeniedCalls) \in Nat /\ Cardinality(DeniedCalls') \in Nat
    <2>1. IsFiniteSet(DeniedCalls')
      BY WebhookAssumption, FS_Subset DEF DeniedCalls
    <2>2. QED
      BY <2>1, DeniedCallsFinite, FS_CardinalityType
  <1>3. position \in 0 .. 5 /\ page \in [read -> Nat]
    BY FamilyIndex DEF TypeOK
  <1>4. /\ \A s \in DeniedResponses : s \in Families[2] /\ s \notin Families[1]
        /\ \A s \in DeniedEvaluations : s \in Families[3] /\ s \notin Families[1] \cup Families[2]
    BY FamilyIndex
    DEF DeniedResponses, DeniedEvaluations, Requests, Responses, Evaluations, RequestSeries,
        ResponseSeries, EvaluationSeries, Results, PolicyMode
  <1>5. responses \in Nat \/ position < 2
    <2> SUFFICES ASSUME position >= 2 PROVE responses \in Nat
      BY <1>3
    <2>1. DeniedResponses \subseteq read
      BY <1>3, <1>4
    <2>2. \A s \in DeniedResponses : page[s] \in Nat
      BY <1>3, <2>1
    <2>3. QED
      BY <2>2, FiniteSeries, FiniteCounts, FS_CardinalityType DEF Total
  <1>6. ASSUME UNCHANGED scrapeVars
        PROVE  ScrapeConsistent'
    <2>1. responses' = responses /\ denials' = denials /\ position' = position
      BY <1>6 DEF scrapeVars, Total, Counts, DeniedResponses, DeniedEvaluations
    <2>2. position' >= 2 => responses' <= Cardinality(DeniedCalls')
      BY <1>1, <1>2, <1>3, <1>5, <2>1 DEF ScrapeConsistent
    <2>3. QED
      BY <2>1, <2>2 DEF ScrapeConsistent
  <1>7. CASE FinishScrape
    BY <1>7 DEF FinishScrape, ScrapeConsistent
  <1>8. CASE Scrape
    <2>1. position' = position + 1 /\ position \in 0 .. 4
      BY <1>3, <1>8, FamilyIndex DEF Scrape
    <2>2. \A s \in Families[position + 1] \ read : page'[s] = counter[s]
      BY <1>3, <1>8 DEF Scrape
    <2>3. \A s \in read : page'[s] = page[s]
      BY <1>3, <1>8 DEF Scrape
    <2>4. DeniedCalls' = DeniedCalls
      BY <1>8 DEF Scrape, callVars, DeniedCalls, Answered, Denied
    <2>5. responses' = Total(page', DeniedResponses) /\ denials' = Total(page', DeniedEvaluations)
      BY DEF Total, Counts, DeniedResponses, DeniedEvaluations
    <2>6. CASE position = 0
      BY <2>1, <2>6 DEF ScrapeConsistent
    <2>7. CASE position = 1
      <3>1. \A s \in DeniedResponses : page'[s] = counter[s]
        BY <1>4, <2>2, <2>7
      <3>2. responses' = Cardinality(DeniedCalls)
        BY <2>5, <3>1, TotalOfEqual, DenialsCounted
      <3>3. QED
        BY <1>2, <2>1, <2>4, <2>7, <3>2 DEF ScrapeConsistent
    <2>8. CASE position = 2
      <3>1. \A s \in DeniedResponses : page'[s] = page[s]
        BY <1>4, <2>3, <2>8
      <3>2. responses' = responses
        BY <2>5, <3>1, TotalOfEqual
      <3>3. \A s \in DeniedEvaluations : page'[s] = counter[s]
        BY <1>4, <2>2, <2>8
      <3>4. denials' = Total(counter, DeniedEvaluations)
        BY <2>5, <3>3, TotalOfEqual
      <3>5. responses <= Cardinality(DeniedCalls)
        BY <2>8 DEF ScrapeConsistent
      <3>6. responses' <= denials'
        BY <1>2, <1>5, <2>8, <3>2, <3>4, <3>5, DenialsCounted
      <3>7. QED
        BY <2>1, <2>4, <3>2, <3>5, <3>6 DEF ScrapeConsistent
    <2>9. CASE position >= 3
      <3>1. \A s \in DeniedResponses \cup DeniedEvaluations : page'[s] = page[s]
        BY <1>3, <1>4, <2>3, <2>9
      <3>2. responses' = responses /\ denials' = denials
        BY <2>5, <3>1, TotalOfEqual
      <3>3. QED
        BY <1>3, <2>1, <2>4, <2>9, <3>2 DEF ScrapeConsistent
    <2>10. QED
      BY <2>1, <2>6, <2>7, <2>8, <2>9
  <1>9. QED
    BY <1>6, <1>7, <1>8
    DEF Next, Handle, vars, Receive, AnswerUnreadable, RecordRequest, Evaluate, Panic,
        RecordEvaluation, ObserveEvaluation, RecordResponse, AnswerReview

(* A scrape never shows more denied responses than denials by a policy:    *)
(* record_policy_eval_metrics comes before record_response_metrics in      *)
(* handle_webhook, and the responses are read before the evaluations.      *)
THEOREM ScrapesExplained == Spec => []ScrapeExplainsDenials
  <1>1. Init => ScrapeConsistent
    BY DEF Init, ScrapeConsistent
  <1>2. Spec => []ScrapeConsistent
    BY <1>1, ScrapeStep, AlwaysExplained, CountersExact, PTL DEF Spec
  <1>3. ScrapeConsistent => ScrapeExplainsDenials
    BY DEF ScrapeConsistent, ScrapeExplainsDenials
  <1>4. QED
    BY <1>2, <1>3, PTL

-------------------------------------------------------------------------------
(***************************************************************************)
(* Between calls every call is unread or has recorded all it ever will.    *)
(***************************************************************************)
Quiet == \A c \in Calls : pc[c] \in {"waiting", "answered"}

Read == {c \in Calls : Answered(c)}

LEMMA QuietRecords ==
    ASSUME Explained, Quiet, NEW c \in Calls
    PROVE  /\ \A w : RequestSeries(w) \in RecordedBy(c) <=> w = WebhookOf[c] /\ c \in Read
           /\ \A w : DurationSeries(w) \in RecordedBy(c) <=> w = WebhookOf[c] /\ c \in Read
           /\ \A w : (\E a : ResponseSeries(a, w) \in RecordedBy(c)) <=> w = WebhookOf[c] /\ c \in Read
           /\ \A p \in Policies : PolicyDurationSeries(p) \in RecordedBy(c) <=> c \in Read \ panicked
           /\ \A p \in Policies :
                (\E r, m : EvaluationSeries(p, r, m) \in RecordedBy(c)) <=> c \in Read \ panicked
  <1> USE DEF Explained, Consistent
  <1>1. pc[c] \in {"waiting", "answered"} /\ (c \in Read <=> Answered(c))
    BY DEF Quiet, Read
  <1>2. CountedResults(c) = recorded[c]
    <2>1. recorded[c] \in Nat /\ pc[c] # "observing"
      BY <1>1, PolicyOrderElements DEF TypeOK
    <2>2. QED
      BY <2>1 DEF CountedResults
  <1>3. recorded[c] = IF c \in Read \ panicked THEN Len(PolicyOrder) ELSE 0
    BY <1>1 DEF Recordings, CallsConsistent, Answered
  <1>4. ASSUME NEW p \in Policies
        PROVE  (\E i \in 1 .. recorded[c] : p = PolicyOrder[i]) <=> c \in Read \ panicked
    <2>1. \E i \in 1 .. Len(PolicyOrder) : p = PolicyOrder[i]
      BY PolicyOrderElements DEF Policies
    <2>2. QED
      BY <1>3, <2>1
  <1>5. \A p \in Policies : PolicyDurationSeries(p) \in RecordedBy(c) <=> c \in Read \ panicked
    BY <1>4, RecordedMembers
  <1>6. ASSUME NEW p \in Policies
        PROVE  (\E r, m : EvaluationSeries(p, r, m) \in RecordedBy(c)) <=> c \in Read \ panicked
    <2>1. (\E r, m : EvaluationSeries(p, r, m) \in RecordedBy(c))
            <=> \E i \in 1 .. recorded[c] : p = PolicyOrder[i]
      BY <1>2, RecordedMembers
    <2>2. QED
      BY <1>4, <2>1
  <1>7. QED
    BY <1>1, <1>5, <1>6, RecordedMembers

LEMMA BooksOfWebhook ==
    ASSUME Explained, EachCallCountedOnce, Quiet, NEW w \in WebhookType
    PROVE  /\ counter[RequestSeries(w)] = Total(counter, {s \in Responses : s[3] = w})
           /\ counter[RequestSeries(w)] = counter[DurationSeries(w)]
  <1> USE DEF Explained, Consistent
  <1> DEFINE responses == {s \in Responses : s[3] = w}
             posted == {c \in Read : WebhookOf[c] = w}
  <1>1. counter[RequestSeries(w)] = Cardinality(posted)
    <2>1. counter[RequestSeries(w)] = Cardinality({c \in Calls : RequestSeries(w) \in RecordedBy(c)})
      BY SeriesTypes, Recorders
    <2>2. {c \in Calls : RequestSeries(w) \in RecordedBy(c)} = posted
      BY QuietRecords DEF Read
    <2>3. QED
      BY <2>1, <2>2
  <1>2. counter[DurationSeries(w)] = Cardinality(posted)
    <2>1. counter[DurationSeries(w)] = Cardinality({c \in Calls : DurationSeries(w) \in RecordedBy(c)})
      BY SeriesTypes, Recorders
    <2>2. {c \in Calls : DurationSeries(w) \in RecordedBy(c)} = posted
      BY QuietRecords DEF Read
    <2>3. QED
      BY <2>1, <2>2
  <1>3. \A s : s \in responses <=> \E a \in {"true", "false"} : s = ResponseSeries(a, w)
    BY DEF Responses, ResponseSeries
  <1>4. responses \subseteq Series /\ IsFiniteSet(responses)
    BY FiniteSeries DEF Series
  <1> HIDE DEF responses
  <1>5. \A c \in Calls : c \in posted <=> \E s \in responses : s \in RecordedBy(c)
    <2> SUFFICES ASSUME NEW c \in Calls
                 PROVE  c \in posted <=> \E s \in responses : s \in RecordedBy(c)
      OBVIOUS
    <2>1. (\E s \in responses : s \in RecordedBy(c))
            <=> \E a \in {"true", "false"} : ResponseSeries(a, w) \in RecordedBy(c)
      BY <1>3
    <2>2. \A a : ResponseSeries(a, w) \in RecordedBy(c) => a \in {"true", "false"}
      BY RecordedMembers DEF AllowedLabel
    <2>3. QED
      BY <2>1, <2>2, QuietRecords
  <1>6. posted = {c \in Calls : \E s \in responses : s \in RecordedBy(c)}
    BY <1>5 DEF Read
  <1>7. \A r, s \in responses, c \in Calls : r \in RecordedBy(c) /\ s \in RecordedBy(c) => r = s
    BY <1>3, RecordedMembers
  <1> HIDE DEF posted
  <1>8. Total(counter, responses) = Cardinality(posted)
    BY <1>4, <1>6, <1>7, TotalOfCounters
  <1>9. QED
    BY <1>1, <1>2, <1>8 DEF responses

LEMMA BooksOfPolicy ==
    ASSUME Explained, EachCallCountedOnce, Quiet, NEW p \in Policies
    PROVE  /\ Total(counter, {s \in Evaluations : s[2] = p})
                = Total(counter, Requests) - Cardinality(panicked)
           /\ Total(counter, {s \in Evaluations : s[2] = p}) = counter[PolicyDurationSeries(p)]
  <1> USE DEF Explained, Consistent
  <1> DEFINE evaluations == {s \in Evaluations : s[2] = p}
             evaluated == Read \ panicked
  <1>1. counter[PolicyDurationSeries(p)] = Cardinality(evaluated)
    <2>1. counter[PolicyDurationSeries(p)]
            = Cardinality({c \in Calls : PolicyDurationSeries(p) \in RecordedBy(c)})
      BY SeriesTypes, Recorders
    <2>2. {c \in Calls : PolicyDurationSeries(p) \in RecordedBy(c)} = evaluated
      BY QuietRecords DEF Read
    <2>3. QED
      BY <2>1, <2>2
  <1>2. \A s : s \in evaluations <=>
            \E r \in Results, m \in PolicyMode : s = EvaluationSeries(p, r, m)
    <2>1. \A q, r, m : EvaluationSeries(q, r, m)[2] = q
      BY DEF EvaluationSeries
    <2>2. \A s : s \in Evaluations <=>
            \E q \in Policies, r \in Results, m \in PolicyMode : s = EvaluationSeries(q, r, m)
      BY DEF Evaluations
    <2>3. QED
      BY <2>1, <2>2
  <1>3. evaluations \subseteq Series /\ IsFiniteSet(evaluations)
    BY FiniteSeries DEF Series
  <1> HIDE DEF evaluations
  <1>4. \A c \in Calls : c \in evaluated <=> \E s \in evaluations : s \in RecordedBy(c)
    <2> SUFFICES ASSUME NEW c \in Calls
                 PROVE  c \in evaluated <=> \E s \in evaluations : s \in RecordedBy(c)
      OBVIOUS
    <2>1. (\E s \in evaluations : s \in RecordedBy(c))
            <=> \E r \in Results, m \in PolicyMode : EvaluationSeries(p, r, m) \in RecordedBy(c)
      BY <1>2
    <2>2. \A r, m : EvaluationSeries(p, r, m) \in RecordedBy(c) => r \in Results /\ m \in PolicyMode
      BY RecordedMembers, LabelTypes
    <2>3. QED
      BY <2>1, <2>2, QuietRecords
  <1>5. evaluated = {c \in Calls : \E s \in evaluations : s \in RecordedBy(c)}
    BY <1>4 DEF Read
  <1>6. \A r, s \in evaluations, c \in Calls : r \in RecordedBy(c) /\ s \in RecordedBy(c) => r = s
    <2> SUFFICES ASSUME NEW r \in evaluations, NEW s \in evaluations, NEW c \in Calls,
                        r \in RecordedBy(c), s \in RecordedBy(c)
                 PROVE  r = s
      OBVIOUS
    <2>1. \A result, m : EvaluationSeries(p, result, m) \in RecordedBy(c) =>
            result = ResultLabel(c, p) /\ m = ModeLabel(c, p)
      BY RecordedMembers
    <2>2. QED
      BY <1>2, <2>1
  <1> HIDE DEF evaluated
  <1>7. Total(counter, evaluations) = Cardinality(evaluated)
    BY <1>3, <1>5, <1>6, TotalOfCounters
  <1>8. \A c \in Calls : c \in Read <=> \E s \in Requests : s \in RecordedBy(c)
    BY QuietRecords, WebhookAssumption DEF Requests
  <1>9. Read = {c \in Calls : \E s \in Requests : s \in RecordedBy(c)}
    BY <1>8 DEF Read
  <1>10. \A r, s \in Requests, c \in Calls : r \in RecordedBy(c) /\ s \in RecordedBy(c) => r = s
    BY RecordedMembers DEF Requests
  <1>11. Total(counter, Requests) = Cardinality(Read)
    BY <1>9, <1>10, FiniteSeries, TotalOfCounters
  <1>12. panicked \subseteq Read
    BY DEF Read, Recordings, Quiet, TypeOK
  <1>13. IsFiniteSet(Read) /\ IsFiniteSet(panicked)
    BY <1>12, FS_Subset, WebhookAssumption DEF Read
  <1>14. Cardinality(evaluated) = Cardinality(Read) - Cardinality(panicked)
    <2>1. Cardinality(Read \ panicked) = Cardinality(Read) - Cardinality(Read \cap panicked)
      BY <1>13, FS_Difference
    <2>2. Read \cap panicked = panicked
      BY <1>12
    <2>3. QED
      BY <2>1, <2>2 DEF evaluated
  <1>15. QED
    BY <1>1, <1>7, <1>11, <1>14 DEF evaluations

(* Between calls the books balance (handle_webhook, metrics.rs): responses *)
(* and durations come to the requests, and the evaluations of each policy  *)
(* to the requests less the panicked evaluations.                          *)
THEOREM BooksBalanced == Spec => []BooksBalance
  <1>1. ASSUME Explained, EachCallCountedOnce
        PROVE  BooksBalance
    <2> SUFFICES ASSUME Quiet
                 PROVE  /\ \A w \in WebhookType :
                            /\ counter[RequestSeries(w)] = Total(counter, {s \in Responses : s[3] = w})
                            /\ counter[RequestSeries(w)] = counter[DurationSeries(w)]
                        /\ \A p \in Policies :
                            /\ Total(counter, {s \in Evaluations : s[2] = p})
                                 = Total(counter, Requests) - Cardinality(panicked)
                            /\ Total(counter, {s \in Evaluations : s[2] = p})
                                 = counter[PolicyDurationSeries(p)]
      BY DEF BooksBalance, Quiet
    <2>1. QED
      BY <1>1, BooksOfWebhook, BooksOfPolicy
  <1>2. QED
    BY <1>1, AlwaysExplained, CountersExact, PTL
===============================================================================
