---------------------------- MODULE ReviewService ----------------------------
(***************************************************************************)
(* What the webhook promises to whoever calls it: every review it receives *)
(* is answered, once, in one step as far as the caller can tell, and the   *)
(* answer is one the configuration permits.                                *)
(***************************************************************************)
CONSTANTS
    Calls,        \* the reviews that are posted
    WebhookOf,    \* the webhook each is posted to: "validate" or "mutate"
    Policies,     \* the policies that are enabled
    Mode          \* the mode of each: "enforce" or "warn"

VARIABLES
    progress,     \* how far each call is: "waiting", "received" or "answered"
    reply         \* the answer to each call, none until it is answered

vars == <<progress, reply>>

Enforced == {p \in Policies : Mode[p] = "enforce"}

(***************************************************************************)
(* A reply carries the uid of the review, whether the request is allowed,  *)
(* the policies it is denied by, those it is warned about and those that   *)
(* patch it.  A review that could not be read is answered without its uid. *)
(***************************************************************************)
Reply(uid, denied, warned, patched) ==
    [uid |-> uid, allowed |-> denied = {}, denied |-> denied, warned |-> warned, patched |-> patched]

Unread == {}

(* Only an enforced policy denies, only one that warns warns, and only an  *)
(* allowed request to /mutate is patched.                                  *)
Verdicts(call) ==
    { Reply({call}, denied, warned, patched) :
        denied \in SUBSET Enforced, warned \in SUBSET (Policies \ Enforced),
        patched \in SUBSET Policies }

Permitted(call) ==
    {Reply(Unread, {}, {}, {})}
    \cup {v \in Verdicts(call) : v.patched # {} => WebhookOf[call] = "mutate" /\ v.allowed}

Init ==
    /\ progress = [c \in Calls |-> "waiting"]
    /\ reply = [c \in Calls |-> {}]

Receive(c) ==
    /\ progress[c] = "waiting"
    /\ progress' = [progress EXCEPT ![c] = "received"]
    /\ UNCHANGED reply

Answer(c) ==
    /\ progress[c] = "received"
    /\ progress' = [progress EXCEPT ![c] = "answered"]
    /\ \E r \in Permitted(c) : reply' = [reply EXCEPT ![c] = {r}]

Next == \E c \in Calls : Receive(c) \/ Answer(c)

Spec == Init /\ [][Next]_vars /\ \A c \in Calls : WF_vars(Answer(c))
===============================================================================
