----------------------------- MODULE MCAdmission -----------------------------
(***************************************************************************)
(* Instances of the admission pipeline for the model checker: a handful of *)
(* workloads that each reach another branch of the policies, and a handful *)
(* of configurations.                                                      *)
(***************************************************************************)
EXTENDS AdmissionProperties

MCNames == {"app", "web", "version", "v1", "new"}

NoResources == [s \in {} |-> s]
NoImage == {}

Image(s) == {s}
GoodImage == Image(<<"gcr", ".", "io", "/", "team", "/", "web", ":", "v1">>)
LatestImage == Image(<<"gcr", ".", "io", "/", "team", "/", "web">>)
ForeignImage == Image(<<"web", ":", "v1">>)

(* "n" with the suffix; the number is kept in units of 1/Kilo. *)
Q(n, suffix) == [number |-> n * Kilo, suffix |-> suffix]

Both(requests, limits) == [s \in Sections |-> IF s = "requests" THEN requests ELSE limits]
CpuMemory(cpu, memory) == [n \in {"cpu", "memory"} |-> IF n = "cpu" THEN cpu ELSE memory]
One(name, q) == [n \in {name} |-> q]
Section(s, amounts) == [x \in {s} |-> amounts]

Small == CpuMemory(Q(1, "m"), Q(1, "Mi"))
Medium == CpuMemory(Q(2, "m"), Q(2, "Mi"))

Web(image, resources) == [image |-> image, resources |-> resources]
Spread(skew, selector) == [maxSkew |-> skew, selector |-> selector]

AppLabels == [n \in {"app", "version"} |-> IF n = "app" THEN "web" ELSE "v1"]
OldLabels == [n \in {"app"} |-> "web"]
EmptyMap == [n \in {} |-> n]

At(path, x) == [p \in {path} |-> x]

Pod(labels_, containers, constraints) ==
    [kind |-> "Pod", labels |-> labels_, templateLabels |-> EmptyMap,
     specs |-> At(<<"spec">>, [containers |-> containers, constraints |-> constraints])]

Deployment(labels_, containers, constraints) ==
    [kind |-> "Deployment", labels |-> AppLabels,
     templateLabels |-> At(TemplateLabels, labels_),
     specs |-> At(<<"spec", "template", "spec">>,
                  [containers |-> containers, constraints |-> constraints])]

CronJob(labels_, containers) ==
    [kind |-> "CronJob", labels |-> AppLabels,
     templateLabels |->
        At(<<"spec", "jobTemplate", "spec", "template", "metadata", "labels">>, labels_),
     specs |-> At(<<"spec", "jobTemplate", "spec", "template", "spec">>,
                  [containers |-> containers, constraints |-> <<>>])]

ConfigMap == [kind |-> "ConfigMap", labels |-> AppLabels, specs |-> EmptyMap, templateLabels |-> EmptyMap]

(* The workloads, each named for what is particular about it. *)
BarePod == Pod(AppLabels, <<Web(GoodImage, NoResources)>>, <<>>)
UnlabelledPod == Pod(EmptyMap, <<Web(GoodImage, NoResources)>>, <<>>)
CompletePod == Pod(AppLabels, <<Web(GoodImage, Both(Small, Medium))>>, <<Spread(1, AppLabels)>>)
PartialPod == Pod(AppLabels, <<Web(GoodImage, Section("requests", One("cpu", Q(1, "m"))))>>, <<>>)
GreedyPod == Pod(AppLabels, <<Web(GoodImage, Both(One("cpu", Q(1, "")), One("cpu", Q(1, ""))))>>, <<>>)
LatestPod == Pod(OldLabels, <<Web(LatestImage, Both(Small, Medium))>>, <<>>)
HungryPod == Pod(AppLabels, <<Web(GoodImage, Section("requests", One("memory", Q(4, "Mi"))))>>,
                 <<Spread(1, AppLabels)>>)
HugePod == Pod(AppLabels, <<Web(GoodImage, Both(One("memory", Q(1, "Ti")), One("memory", Q(1, "Ti"))))>>,
               <<Spread(1, AppLabels)>>)
SkewedDeployment ==
    Deployment(AppLabels,
               <<Web(GoodImage, NoResources),
                 Web(ForeignImage, Both(One("ephemeral-storage", Q(1, "Mi")), Medium))>>,
               <<Spread(1, AppLabels), Spread(2, AppLabels)>>)
BareDeployment == Deployment(OldLabels, <<Web(GoodImage, Section("limits", Medium))>>, <<>>)
PlainCronJob == CronJob(AppLabels, <<Web(GoodImage, Section("requests", Small))>>)

MCSubmissions ==
    {BarePod, UnlabelledPod, CompletePod, PartialPod, GreedyPod, LatestPod, HungryPod, HugePod,
     SkewedDeployment, BareDeployment, PlainCronJob, ConfigMap}

MCSidecars == {Web(GoodImage, NoResources)}
MCLabelChanges == {AppLabels}

(* The configurations. *)
Policy(enabled, mode, policy) == [enabled |-> enabled, mode |-> mode, policy |-> policy]

Limits(max_cpu, max_mem, inject, default) ==
    [max_cpu_millicores |-> max_cpu, max_memory_mb |-> max_mem, inject_defaults |-> inject,
     defaults |-> default]

Registries == [registries |-> {<<"gcr", ".", "io">>}, allow_latest_tag |-> FALSE]
AnyTag == [Registries EXCEPT !.allow_latest_tag = TRUE]
VersionPattern == [valid |-> TRUE, matches |-> {"v1"}, literal |-> {}]
RequiredLabels ==
    {[key |-> "app", pattern |-> {}], [key |-> "version", pattern |-> {VersionPattern}]}

SpreadPolicy(inject) == [max_skew |-> 1, inject_if_missing |-> inject]

Strict ==
    [resource_limits |-> Policy(TRUE, "enforce", Limits({4}, {8}, TRUE, Both(Small, Medium))),
     image_registry |-> Policy(TRUE, "enforce", Registries),
     labels |-> Policy(TRUE, "enforce", RequiredLabels),
     topology_spread |-> Policy(TRUE, "enforce", SpreadPolicy(TRUE))]

Warning == [n \in PolicyName |-> [Strict[n] EXCEPT !.mode = "warn"]]

(* Nothing is injected, and there is no cap on the CPU. *)
ValidateOnly ==
    [Strict EXCEPT !.resource_limits = Policy(TRUE, "enforce", Limits({}, {1}, FALSE, Both(Small, Medium))),
                   !.image_registry = Policy(TRUE, "warn", AnyTag),
                   !.topology_spread = Policy(TRUE, "enforce", SpreadPolicy(FALSE))]

(* The default limits exceed the caps; the other policies are off or warn. *)
Misfit ==
    [Strict EXCEPT !.resource_limits = Policy(TRUE, "enforce", Limits({1}, {8}, TRUE, Both(Small, Medium))),
                   !.image_registry.enabled = FALSE,
                   !.labels.enabled = FALSE,
                   !.topology_spread.mode = "warn"]

MCConfigs == {Strict, Warning, ValidateOnly, Misfit}

(* For a rollout: few workloads, and a cap too large to be scaled to bytes. *)
Overflowing ==
    [Strict EXCEPT !.resource_limits.policy.max_memory_mb = {Word \div (Kibi * Kibi)},
                   !.topology_spread.mode = "warn"]

FewSubmissions == {BarePod, CompletePod, SkewedDeployment}
RolloutConfigs == {Strict, Warning, ValidateOnly, Overflowing}

(* For what the documentation says and the code does not keep. *)
StrictConfig == {Strict}
HugeSubmission == {HugePod}
HungrySubmissions == {HungryPod, BareDeployment}
BareSubmission == {BarePod}
CronJobSubmission == {PlainCronJob}
WarningConfig == {Warning}
===============================================================================
