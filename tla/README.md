# k8s-sentinel: models, checks and proofs

k8s-sentinel is an admission webhook. The Kubernetes API server posts every
pod and deployment that is created or updated to `/mutate`, which answers with
a JSON patch, and then to `/validate`, which answers allow or deny. This
directory holds TLA+ modules of the program, the TLC configurations that check
them on small instances, and proofs of what matters most for every instance.

## The system

| part | source (below `src/src`) | state it keeps | operations | talks to |
|---|---|---|---|---|
| policies | `policies/*.rs` | none | one `evaluate` per policy: violations and patches of one object | engine |
| engine | `engine.rs` | configuration, compiled patterns; never changed | `evaluate_validate`, `evaluate_mutate` | handlers |
| config | `config.rs` | read once, at the start | `load`, `policy_mode`, `policy_enabled` | main, engine, metrics |
| handlers | `handlers.rs` | none of their own | `handle_validate`, `handle_mutate` | engine, metrics |
| metrics | `metrics.rs` | counters and histograms, shared by all handlers | registration, increments | handlers, health |
| health | `health.rs` | the `ready` flag, the registry | `healthz`, `readyz`, `metrics_handler` | kubelet, Prometheus |
| server | `main.rs` | listeners, the set of connections, the shutdown channel | bind, accept, handshake, drain | everything |
| tls | `tls.rs` | the certificate, read once | `load_tls_config` | server |

Outside the program, and modelled only as far as it meets the program: the API
server (when it calls, what it does with the answers, its own validation, which
certificate it trusts), the other mutating webhooks, the controllers that create
pods, the clients, the kubelet, cert-manager, and the operator who edits the
ConfigMap and restarts the replicas.

What is hard in it:

* **A protocol of two calls.** `/mutate` keeps silent about what its patch will
  fix, and `/validate` then judges the result. Between the two lie other
  webhooks, a second call of `/mutate`, the API server's own validation, another
  replica with another configuration, and timeouts that are ignored. Each call
  is stateless; only the pair has a meaning.
* **Partial objects.** Each of requests, limits, CPU, memory, labels and
  constraints may be missing by itself, at a path that depends on the kind.
* **Concurrency.** Handlers run in parallel and increment shared counters one
  at a time, while scrapes read the families one after the other.
* **Failing open.** Unreadable reviews, panics and lost calls all end in allow.
* **Arithmetic and strings.** Quantities are scaled in `u64`; image references
  are taken apart by searching for separators.
* **The life cycle.** Two servers, a signal, and connections that outlast both:
  ready too early or too long, a drain that drops a call or never ends.
* **Certificates.** Two files read one after the other while they may be
  swapped, by a process that never reads them again.

PROJECT.json lists every place where one of these bites, as `hazards`.

## The modules

```
Quantity ── Workload ──┬─ ResourceLimits ──┐
                       ├─ ImageRegistry ───┼─ Engine ── Admission ── AdmissionProperties ── MCAdmission
                       ├─ Labels ──────────┤                               │
                       └─ TopologySpread ──┘                               ├── AdmissionProofs ──┐
                                                                           └── PolicyProofs ─────┴─ ComplianceProofs ── PatchProofs
ImageRegistry ── ImageReferences ──┬─ MCImages
                                   └─ ImageProofs
ReviewService    <= refined by =  Webhook ── WebhookProperties ──┬─ MCWebhook
                                                                 └─ WebhookProofs
GracefulShutdown <= refined by =  Server ── ServerProperties ──┬─ MCServer
                                                               └─ ServerProofs
Certificates ── CertificatesProperties ──┬─ MCCertificates
                                         └─ CertificatesProofs
```

**Quantity** — `parse_cpu_millicores` and `parse_memory_bytes`, and, beside
them, what an amount means to Kubernetes. A quantity is a number, in units of
1/Kilo so that "1.5" is whole, and a suffix; it is below 2^63, where the API
server cuts quantities off (`Quantity`). The scale factors and the width of
`u64` are constants; TLC gets 10, 16 and 2^24, which keep the order of the
suffixes and the possibility of overflow. `OverflowChecks` tells a debug build,
which panics, from a release build, which wraps (the Dockerfile builds the
latter). An optional result is a set of at most one element, here and in all
modules.

**Workload** — the objects under review: a kind, labels, pod specs by their path
in the document, template labels by theirs; `get_pod_spec` and `spec_prefix`
translate between kind and path as `policies/mod.rs` does, separately. A patch
maps locations to what is added there. Its application is the API server's.

**ResourceLimits, ImageRegistry, Labels, TopologySpread** — one per policy,
operator for function. Violations are kept as what they are about; the text of
messages is not. A regular expression is known by the values it matches.

**Engine** — `evaluate_all`, `to_result`, `build_response`, and `handle_webhook`
as a function from a configuration and a request to a response.

**Admission** — the composition: one request after the other through the API
server and any number of replicas. `config[r]` is what replica `r` loaded when
it started, or nothing while it is down. `Mutate(r)` and `Validate(r)` are the
handlers; `MutateUnanswered` and `ValidateUnanswered` are every way a call can
fail to be answered, all of them ignored (`failurePolicy: Ignore`): no replica,
a timeout, a body above the limit, an unreadable review. `Change` is another
webhook, which leads to a reinvocation; `Check` is the API server's own
validation, of the object (`Valid`) and of an update of a stored pod, which may
change neither resources nor constraints (`Permitted`); `Publish`, `Start` and
`Stop` are the rollout. `mutatedBy`, `mutatedFrom` and `decidedBy` are history:
which configuration made the object what it is, what it made it of, and which
decided. The model registers the webhook for every kind the policies
know; the base manifests register pods and deployments.

**Webhook** — inside one replica: the steps of concurrent calls, each a stretch
of `handle_webhook` between two effects another call or a scrape can see.
`pc` says where a call is, `counter` holds the series, and `page` and
`position` the scrape under way. What a policy finds is left open. The operation
and resource labels are left out (they only split a series), and so is the gauge
of enabled policies, which never changes.

**ReviewService** — the abstract specification the handlers implement: every
review received is answered, once, by an answer the configuration permits.
In Webhook the instance `Service` maps every step between arrival and answer to
"received".

**Server** — one life of the process. `main`, `https` and `http` say how far
`main`, `run_https_server` and `run_http_server` are; `ready` is the flag that
they and `readyz` share; `signal` is `shutdown_signal`, from before its handler
is installed to the send on the watch channel. `task[c]` is where a connection
is: in the backlog of the listener, in a handshake, open, in a request, finished
but not joined (a JoinSet keeps it), joined; or refused, reset or cut. The
actions `Accept`, `AcceptFails`, `StopAccepting`, `Join` and `EndHttps` are the
accept loop and the drain; `Handshake` to `EndTask` are the spawned task.
Around them stand the clients, who connect while the service lists the replica
(`endpoint`) and may hold a connection for ever; the kubelet, which probes
`readyz` and acts on the verdict later (`Probe`, `ActOnProbe`); and a scraper.
A signal that nothing catches kills the process, unless it is process 1, as
under the ENTRYPOINT of the Dockerfile.

**GracefulShutdown** — what "graceful" promises, in terms of a set of held
connections: none is taken once it drains, none is dropped unless the process
dies, and it ends when none is left. ServerProperties gives the mapping
(`State`, `Held`, the connections that were cut).

**Certificates** — `load_tls_config` as its two reads (`ReadCert`, `ReadKey`),
between which the kubelet may swap the files (`Sync`), which cert-manager or a
person replaces (`Renew`); the CA injector (`Inject`), expiry and restarts. A
file is known by the key pair it belongs to, or by what is wrong with it. The
certificate is its own authority, as in the base manifests (`selfSigned`); with
a CA the old one would be accepted until it expires, which is not modelled.

**ImageReferences** — references built from a host, a path of at most three
components, a tag and a digest, what they name, and what the string functions
make of them, against entries of at most four parts. `PartsAssumption` is the
syntax of references: which part may contain which separator, and that a host
has a dot or a port or is localhost.

Definitions marked *Faulty* are variants of the definition below them with a
plausible mistake. No specification uses them: each shows that a property would
notice the mistake.

## What the runs check

| run | instance | shows |
|---|---|---|
| `admission` | 12 workloads, 4 configurations, 1 replica, 1 sidecar, 1 change of labels, at most 2 containers; release build | 250,020 states. `StoredIsCompliant`, `RejectedIsNotCompliant`: decisions agree with the meaning of the policies, stated independently, and nothing is rejected for what its own patch would add. `MutatedIsAccepted`, `PatchIsIdempotent`, `PatchApplies`, `MutationOnlyAdds`, `InjectedConstraintSelectsPods`: the promises of the two-call protocol. `PodsAreAccepted`: what a controller makes of an admitted workload is admitted |
| `rollout` | 3 workloads, 4 configurations, 2 replicas; debug build | 77,100 states. The decisions again, with the calls of one request answered under different configurations and with panics; `RolloutIsSeamless`: no workload falls between two configurations that would each have completed it |
| `images` | 6 hosts, 4 components, paths up to 3, 3 tags, 1 digest, against 78 entries | 8,304 states. `AdmitsOnlyBelow`, `AdmitsAllBelow`, `LatestIsRecognised` |
| `webhook` | one call to each endpoint, two policies, one enforced and one warning; a scrape | 344,938 states. `EachCallCountedOnce`, `ScrapeExplainsDenials`, `ModeLabelIsConfigured`, `BooksBalance`, and `Promise`, the refinement of ReviewService |
| `server` | 2 connections, descriptors for 1 | 17,941 states. `RoutedIsServed`, `Withdrawn`: what the service sends to a replica is served until the process is on its way out, and then nothing more is sent. `QueuedIsTaken`, `DrainEnds`: with clients that leave some day, the backlog is taken, and a signal, or the loss of its handler, ends the process. `Promise`, the refinement of GracefulShutdown |
| `certificates` | 2 replicas, 4 contents of the secret: two renewals, a mistake, and its repair | 7,866 states. `ComesUp`: a replica that finds files that do not match, or are no good, comes up once the secret is good. `RestartsHeal`: restarted replicas are accepted |
| `drain`, `rotation`, `caps`, `defaults`, `update`, `cronjob` | a connection, a replica or a workload or two each | six statements of the documentation and the comments that the code does not keep (below) |

The workloads of `admission` are chosen by branch: no resources, one section,
one amount, an empty patch, an amount above a cap, an amount the parser cannot
read, a foreign image, a latest tag, no labels, a skew above the maximum, two
containers that need different patches, a cron job, and an object with no pods.
The configurations are all policies enforced, all warning, no injection, and
defaults that exceed their own cap. A second container is as far as a pod
grows: containers are evaluated one by one, and the one added shows that a patch
finds the right one. One replica is enough there, since it may restart under
another configuration between any two calls; `rollout` has two at once, under
all enforced, all warning, no injection, and a cap too large to scale. Two calls
are enough in `webhook` for an increment left out or made twice on one path, a
wrong label of one endpoint, and a scrape that falls between two increments of
either (one increment is atomic: it is the library's); the theorem below is
about any number. A scrape reads a family in one step, where the library reads
its series one by one: counters only grow, so what a page is said to show of two
families holds of that too. Two connections and one descriptor are the least with which
`accept` fails for want of descriptors while a task is running, one waits in the
backlog while another drains, and the drain joins finished tasks beside running
ones; `MaxOpen` stands for the limit of open files. The versions of the secret
are a sequence with an end, so that it settles: `RestartsHeal` is about what
comes after the last renewal, and four suffice for each of the two reads and the
injector to lag behind by one and by two.

Some properties need a word:

* `MutatedIsAccepted` and `PatchIsIdempotent` ask that the defaults fit the
  caps (`DefaultsFit`). With defaults that do not, every object they are
  injected into is denied; nothing in `load` checks it.
* `StoredIsCompliant` is about requests whose `/validate` was answered; one
  that was not is let through by design. It reads amounts the way the program
  can: `CapsAreEnforced` is the same without that excuse, and fails.
* A cap of 2^44 MiB or more wraps in a release build and denies what is within
  it. `RejectedIsNotCompliant` and `DefaultsFit` except it (`CapsScale`).
  `rollout` has such a cap in a debug build, which panics and lets the object
  through; the runs of the release build leave it out. A stated amount cannot
  wrap: the API server cuts quantities at 2^63.
* `RejectedIsNotCompliant` is about the step that rejects. An object that lacks
  resources breaks its policy, so that alone would let `/mutate` reject what it
  is there to complete. A rejection by `/mutate` must therefore also be one of
  the object with everything added that the policies of that configuration add
  (`Completed`).
* `RolloutIsSeamless` is about two configurations at once: what `/validate`
  rejects under `d` after `/mutate` has answered under `c` is what `d` would
  reject with its own additions too. It asks that `c` adds what `d` adds and
  nothing `d` forbids (`AddsAsMuch`), which a change of mode from warn to
  enforce does; the modes themselves may differ in any way. An evaluation that
  panics adds nothing and is excepted.
* `PodsAreAccepted` exempts the required labels: `labels.rs` looks at the labels
  of the workload, and of each pod, but never at those of the template. The pods
  of a deployment that was admitted for its own labels are denied if its
  template lacks them.
* `RoutedIsServed` ends where the process leaves: between the signal and the
  moment the kubelet notices, connections still come in and are reset. There is
  no delay between the two in the code or the manifests.
* `RestartsHeal` assumes that somebody restarts stale replicas; `rotation`
  shows that without that a renewal is never taken up.

### What the code does not keep

* `drain`: main.rs:44 announces a graceful shutdown. The drain waits for every
  connection and tells none to close, so an idle one, as the API server keeps,
  holds the process until it is killed.
* `rotation`: cert-manager.yaml:4-5 says the certificate the webhook uses is
  rotated. It is read once.

* `caps`: README.md:7 says containers exceeding the caps are rejected. An amount
  of memory with a suffix the parser does not know, "1Ti" for one, is let
  through.
* `defaults`: README.md:14 says the patch will fix the issue. A default limit
  below what the container requests makes a valid object invalid.
* `update`: README.md:14 again. A pod that came to be while no replica answered
  gets the patch with its next update, whatever that is about; the patch touches
  what may not change in a stored pod, and the update is refused. A finalizer
  can then not be taken off.
* `cronjob`: config/policies.yaml:63 says a constraint is added if the pod has
  none. The labels of a CronJob's pods are looked for where it has none.

## Fairness

* Webhook: weak fairness of the handler of each call. `handle_webhook` is a
  synchronous function: it waits for nothing, so a thread that has begun it
  ends it. Nothing is assumed of arrivals or of scrapes.
* Admission: weak fairness of the API server's own steps, among them that it
  gives up a call at its timeout (`timeoutSeconds: 5`). No property of the runs
  rests on it: that a request is decided in the end is the API server's doing,
  whatever the webhook does. Nothing is assumed of the replicas, which may be
  down for good, of the clients or of the operator.

* Server: weak fairness of what the runtime runs when it is ready to run (the
  binds, the accept loop, the tasks, joins, the handler of the signal), of the
  end of a request to the HTTP server, which has a short answer and no body, and
  of the kubelet's probes. Clients may do nothing for ever; `Polite`, that every
  client leaves some day, is an assumption of the two properties that need it.
* Certificates: the kubelet starts what is down and swaps the files, and the
  injector catches up. Nothing is assumed of renewals and restarts in `Spec`;
  `RestartedSpec` adds that stale replicas are restarted.

## What is proved

WebhookProofs, for any finite number of calls, any enabled policies in any
order and any modes, from `WebhookAssumption` alone:

* `TypeCorrect` — `Spec => []TypeOK`. The inductive invariant is `Consistent`,
  the types and four facts about each call (`CallsConsistent`): nothing is
  recorded before the evaluation, something is left to record while recording,
  no answer exists before the last step, `/validate` carries no patches. The
  types alone are not inductive: `recorded` could pass the number of policies.
* `CountersExact` — `Spec => []EachCallCountedOnce`. `RecordedBy(c)` is what a
  call has incremented, as a function of where it is. Every step adds at most
  one series to one call's set, one it did not have (`PolicyOrder` has no
  duplicates), and increments exactly that series (`StepCounts`), or changes
  neither (`StepKeepsCounts`).
* `ModesExact` — `Spec => []ModeLabelIsConfigured`, a consequence: a series
  that counts something has a call that recorded it, under the configured mode.
* `ImplementsService` — the safety part of `Promise`: every step of the
  handlers is a step of ReviewService or leaves its variables alone.

AdmissionProofs, for any objects, configurations, replicas, other webhooks and
order of calls, from `AdmissionAssumption` alone (the objects clients submit and
what other webhooks put into them are well-formed):

* `AdmissionTyped` — `Spec => []TypeOK`; the types are inductive. The work is in
  `Mutate`: what the four policies put into the object must leave it an object.
* `AnswersOnlyAdd` — `Spec => MutationOnlyAdds`. Both rest on what a patch is,
  `AddsMissing`: at a container it adds only what `MissingLocations` found
  missing there, with its default, and constraints only where there are none.
  The lemmas go along the code: each policy's output adds only what is missing
  (`ResourceOutput`, `TopologyOutput`, `NothingOutput`), so does the merge of the
  enabled policies (`EvaluationAddsMissing`, `MutationAddsMissing`), and applying such a patch keeps what
  was there (`PatchedAdds`) and the types (`PatchedTyped`). `PathIsPrefix` is
  where the two translations of a kind into a path have to agree.

ServerProofs, for any finite number of connections and any limit of descriptors,
from `ServerAssumption` alone:

* `ServerTyped` — `Spec => []TypeOK`. `Coherent`, a part of it, is what makes
  the types inductive and the rest provable: ready exactly when bound, the
  kubelet believes only that, only a shutdown drains, nothing waits where
  nothing listens, no task outlives its set or the process.
* `RoutedServed` — `Spec => []RoutedIsServed`: a connection is refused or reset
  only where `Listening` is false, which with `endpoint` and `Coherent` means
  that the process is leaving; and `Leaving` is for good.
* `ImplementsShutdown` — the safety part of `Promise`, one lemma per kind of
  step: those of the servers, of a task, and of the death of the process.

PolicyProofs, ComplianceProofs and PatchProofs rest on AdmissionProofs, and are
as general: any objects, configurations, replicas and order of calls, either
build.

* PolicyProofs has the lemmas about the pure functions. An amount the parsers
  can read is read exactly, below the width of the word (`CpuReadExactly`,
  `MemoryReadExactly`); a cap that scales is compared exactly, and one that
  wraps only gets smaller (`MemoryCapScaled`), which is why what was allowed is
  within the caps even then. Policy by policy (`ResourcesJudged`,
  `ImagesJudged`, `LabelsJudged`, `TopologyJudged`), finding nothing is obeying
  the policy, where the meaning of each is stated on the object as the cluster
  sees it; `AllowedIsCompliant` and `DeniedIsNotCompliant` put them together
  through `to_result` and `build_response`.
* `StoredCompliant` — `Spec => []StoredIsCompliant`. This is not inductive: it
  says what an object is, and not how the decision came about. The invariant is
  `DecisionsStand`: what is stored is what was reviewed and what the handler of
  `decidedBy` allows, what is rejected is what one denies, and while a request
  is under way nothing is decided. It is inductive by itself, and the lemmas
  about the functions turn it into the property.
* `PodsAccepted` — `Spec => []PodsAreAccepted`, from the same invariant: each
  policy but that of the labels finds in the pod what it found in the template
  (`PodIsAccepted`), and finds no more on `/mutate` than on `/validate`. It
  needs that an object has a pod spec only where its kind has one, which is the
  type of objects (`PodSpecPaths`).
* `PatchesApply` — `Spec => []PatchApplies`. `AddsExactly` says which locations
  a patch has: those `MissingLocations` finds, and the constraints of specs
  without any, each if its policy is to inject. Any patch of an answer is that
  (`AnswerPatch`), or empty; and such locations have their parents and do not
  lie in each other.
* `InjectedConstraintsSelectPods` — `Spec => InjectedConstraintSelectsPods`, by
  the values of the same patches.
* `PatchesAreIdempotent`, `MutatedAccepted` — `Spec => []PatchIsIdempotent`,
  `Spec => []MutatedIsAccepted`. The invariant is `Settled`: a configuration in
  `mutatedBy` has nothing to add to the object and, if its defaults fit its
  caps, nothing against it. The work is in the step that makes it so,
  `AnswerSettles`: after a patch with exactly what was missing, nothing is
  (`PatchedComplete`, `SecondPatch`), every amount is one that was stated or a
  default (`PatchedAmounts`), and so what is left of the violations is what
  `/mutate` would have denied (`PatchedIsCompliant`).

* `RejectedNotCompliant` — `Spec => RejectedIsNotCompliant`. Nothing is decided
  while a request is under way (`Undecided`, a part of `DecisionsStand`), so a
  step that rejects is an answer of a replica. For `/validate`
  `DeniedIsNotCompliant` is enough. For `/mutate` the object completed by its
  configuration is looked at policy by policy: if it obeyed one, that policy
  would deny nothing while mutating (`ResourcesPass`, `ConstraintsPass`,
  `CompletedPasses`), for it keeps silent only about what is added
  (`EvaluationPatch`), and everything stated in the object is still stated in
  the completed one (`PatchedStated`).
* `RolloutSeamless` — `Spec => []RolloutIsSeamless`. The invariant
  `MutatedCompletely` says that an object that went through `/mutate` under `c`
  is `mutatedFrom` with all that `c` adds, unless the evaluation panicked. Policy by policy (`RolloutResources`, `RolloutConstraints`,
  `RolloutObeys`), if the object completed by `d` obeys `d`, so does the one
  completed by `c`, when `c` adds as much.

WebhookProofs also has the two properties of totals, again for any number of
calls. `Total` is the size of the set of all that is counted, and no sum over a
set, so that bijections take the place of inductions.

* `ScrapesExplained` — `Spec => []ScrapeExplainsDenials`. `Recordings` says
  that a call past its evaluations has recorded all of them, unless it panicked
  and denies nothing. So at every moment (`DenialsCounted`) the denied responses are no more than the denials;
  the invariant of the scrape (`ScrapeConsistent`) is that what it has read of
  the responses is no more than the denied responses there are now, and stays
  so, as counters only grow, until the evaluations are read.
* `BooksBalanced` — `Spec => []BooksBalance`, from `CountersExact`: when no call
  is under way every call has recorded all it ever will (`QuietRecords`), and
  each family counts the same set of calls.

ImageProofs, for any hosts, components, tags, digests and entries that have the
syntax of references (`PartsAssumption`):

* `OnlyBelowAdmitted`, `AllBelowAdmitted`, `LatestRecognised` —
  `Spec => []AdmitsOnlyBelow`, `[]AdmitsAllBelow`, `[]LatestIsRecognised`.
  `TagCut` and `DigestCut` are where the colon after the last slash and the
  first "@" have to be the right ones; `PathParsed` says that what is left is
  the path as written. `EntryMatchesBeginning` reduces `registry_matches` on
  texts to one path beginning with the other, part by part: a slash that ends an
  entry can only be met by a slash. `RegistryOfPath` is `extract_registry`, and
  `RegistryFound` that what it finds begins the full name of the image.
  (Characters are strings, and the provers know no string to be one: the proofs
  are about sequences over `Characters`, all strings and the literals.)

CertificatesProofs, for any replicas and any sequence of secrets:

* `CertificatesTyped` — `Spec => []TypeOK`: no replica is ahead of its files, no
  file of the secret, and what has expired is older than what is trusted.

Only model-checked: liveness (`Withdrawn`, `QueuedIsTaken`,
`DrainEnds`, `ComesUp`, `RestartsHeal`, the fairness of both `Promise`s), which
the prover does not do. Every invariant and every action property of the runs
that hold is a theorem; so is the safety part of the refinements.

## What is not modelled

What `load` makes of the YAML file and the environment. The merging is figment's;
whatever comes of it is a configuration of the type, of which the properties
hold whichever it is, or an error, and then the replica does not start
(`Server.Fail`, `Admission.Stop`). The default strings are settings like others.

The text of messages, logs, routes, buckets of histograms. Rounding of `f64`. The
limit of a request body: a call above it is one that is not answered. Labels of
pods that change after a constraint was injected: the program never compares the
two. initContainers, which the program does not look at either. A container that has
no resources block at all, as against an empty one: the API server always writes
one. JSON of the
wrong shape: the API server decodes and re-encodes objects, so a section of
resources is an object and an amount a string. Which error `load_tls_config`
reports. Ciphers, HTTP/2 streams and keep-alive timers. The load tests and
dashboards, which are clients of the program.

## Plan

Done: the modules above. Left:

1. **Proofs**: the safety a liveness property rests on, where it is more than
   the fairness: that `endpoint`, once withdrawn from a process on its way out,
   stays so (`Withdrawn`); that what waits in the backlog of a draining server is
   only ever reset; that the version a replica serves never goes back.
2. **Refinement of Admission** by an abstract specification of the two calls
   as one decision, whose safety part the lemmas of ComplianceProofs and
   PatchProofs would give.
