----------------------------- MODULE PolicyProofs -----------------------------
(***************************************************************************)
(* What the policies find is what is wrong with an object, for all objects *)
(* and configurations: the violations of policies/*.rs against the meaning *)
(* of each policy in AdmissionProperties, and the verdict of the handlers  *)
(* against both.                                                           *)
(***************************************************************************)
EXTENDS AdmissionProperties, TLAPS

(* What the program reads of an amount of CPU or memory, if it can read it. *)
Reading(name, q) == IF name = "cpu" THEN parse_cpu_millicores(q) ELSE parse_memory_bytes(q)

-------------------------------------------------------------------------------
(***************************************************************************)
(* Arithmetic: amounts are read exactly, and scaled caps never grow.       *)
(***************************************************************************)
LEMMA ScaleKeepsOrder ==
    ASSUME NEW a \in Nat, NEW b \in Nat, NEW k \in Nat \ {0}
    PROVE  /\ a * k < b * k <=> a < b
           /\ a * k <= b * k <=> a <= b
  OBVIOUS

LEMMA Division ==
    ASSUME NEW n \in Nat, NEW k \in Nat \ {0}
    PROVE  /\ n \div k \in Nat
           /\ n % k = 0 => n = (n \div k) * k
  OBVIOUS

LEMMA WrapBelow ==
    ASSUME NEW n \in Nat
    PROVE  /\ Wrap(n) \in Nat
           /\ Wrap(n) <= n
           /\ n < Word => Wrap(n) = n
  BY ScaleAssumption DEF Wrap

LEMMA FactorNatural == \A s \in QuantitySuffixes : Factor[s] \in Nat
  <1>1. /\ Kilo \in Nat /\ Kibi \in Nat
        /\ Kilo * Kilo \in Nat /\ Kibi * Kibi \in Nat
        /\ Kilo * Kilo * Kilo \in Nat /\ Kibi * Kibi * Kibi \in Nat
        /\ Kilo * Kilo * Kilo * Kilo \in Nat /\ Kibi * Kibi * Kibi * Kibi \in Nat
    BY ScaleAssumption
  <1>2. QED
    BY <1>1 DEF Factor

LEMMA CpuReadExactly ==
    ASSUME NEW q \in Quantity, NEW cpu_m \in parse_cpu_millicores(q)
    PROVE  Amount(q) = cpu_m /\ cpu_m \in Nat
  <1>1. q.number \in Nat /\ q.suffix \in {"m", ""}
    BY DEF Quantity, parse_cpu_millicores
  <1>2. CASE q.suffix = "m"
    <2> DEFINE millicores == q.number \div Kilo
    <2>1. millicores \in Nat
      BY <1>1, Division, ScaleAssumption
    <2>2. parse_cpu_millicores(q) = {millicores}
      BY <1>2 DEF parse_cpu_millicores
    <2>3. Amount(q) = millicores
      BY <1>1, <1>2, <2>1, ScaleAssumption DEF Amount
    <2>4. QED
      BY <2>1, <2>2, <2>3
  <1>3. CASE q.suffix = ""
    <2>1. Factor[q.suffix] = 1
      BY <1>3 DEF Factor, QuantitySuffixes
    <2>2. parse_cpu_millicores(q) = {q.number}
      BY <1>3 DEF parse_cpu_millicores
    <2>3. Amount(q) = q.number * Factor[q.suffix]
      BY <1>3 DEF Amount
    <2>4. \A n \in Nat : n * 1 = n
      OBVIOUS
    <2>5. Amount(q) = q.number
      BY <1>1, <2>1, <2>3, <2>4
    <2>6. QED
      BY <1>1, <2>2, <2>5
  <1>4. QED
    BY <1>1, <1>2, <1>3

(* No amount the Kubernetes type can hold wraps. *)
LEMMA MemoryReadExactly ==
    ASSUME NEW q \in Quantity, NEW mem_bytes \in parse_memory_bytes(q)
    PROVE  Amount(q) = mem_bytes * Kilo /\ mem_bytes \in Nat
  <1> DEFINE k == q.number \div Kilo
             f == Factor[q.suffix]
  <1>1. /\ q.number \in Nat /\ q.suffix \in QuantitySuffixes
        /\ q.suffix # "m" /\ q.number % Kilo = 0
        /\ mem_bytes = Wrap(k * f)
        /\ Amount(q) < Word * Kilo
    BY DEF Quantity, parse_memory_bytes, MemorySuffixes, ParsesAsU64
  <1>2. f \in Nat /\ k \in Nat /\ q.number = k * Kilo
    <2>1. f \in Nat
      BY <1>1, FactorNatural
    <2>2. QED
      BY <1>1, <2>1, Division, ScaleAssumption
  <1>3. Amount(q) = q.number * f
    BY <1>1 DEF Amount
  <1> HIDE DEF k, f
  <1>4. Amount(q) = (k * f) * Kilo /\ k * f \in Nat
    BY <1>2, <1>3, ScaleAssumption
  <1>5. k * f < Word
    BY <1>1, <1>4, ScaleKeepsOrder, ScaleAssumption
  <1>6. QED
    BY <1>1, <1>4, <1>5, WrapBelow

(* A cap on memory, as evaluate scales it, against the cap it stands for. *)
LEMMA MemoryCapScaled ==
    ASSUME NEW max_mem_mb \in Nat
    PROVE  /\ MaxMemBytes(max_mem_mb) \in Nat
           /\ MaxMemBytes(max_mem_mb) <= max_mem_mb * Kibi * Kibi
           /\ max_mem_mb * Kibi * Kibi < Word =>
                MaxMemBytes(max_mem_mb) = max_mem_mb * Kibi * Kibi
  <1>1. max_mem_mb * Kibi * Kibi \in Nat
    BY ScaleAssumption
  <1>2. QED
    BY <1>1, WrapBelow DEF MaxMemBytes

LEMMA MemoryComparedExactly ==
    ASSUME NEW q \in Quantity, NEW mem_bytes \in parse_memory_bytes(q), NEW max_mem_mb \in Nat
    PROVE  /\ mem_bytes <= MaxMemBytes(max_mem_mb) =>
                Amount(q) <= max_mem_mb * Kibi * Kibi * Kilo
           /\ /\ Amount(q) <= max_mem_mb * Kibi * Kibi * Kilo
              /\ max_mem_mb * Kibi * Kibi < Word
              => mem_bytes <= MaxMemBytes(max_mem_mb)
  <1> DEFINE cap == max_mem_mb * Kibi * Kibi
  <1>1. cap \in Nat
    BY ScaleAssumption
  <1>2. Amount(q) = mem_bytes * Kilo /\ mem_bytes \in Nat
    BY MemoryReadExactly
  <1>3. mem_bytes <= cap <=> Amount(q) <= cap * Kilo
    <2> HIDE DEF cap
    <2>1. mem_bytes * Kilo <= cap * Kilo <=> mem_bytes <= cap
      BY <1>1, <1>2, ScaleKeepsOrder, ScaleAssumption
    <2>2. QED
      BY <1>2, <2>1
  <1>4. QED
    BY <1>1, <1>2, <1>3, MemoryCapScaled

-------------------------------------------------------------------------------
(***************************************************************************)
(* resource_limits: what a container states and what is found in it.       *)
(***************************************************************************)
LEMMA AmountsTyped ==
    ASSUME NEW resources, IsResources(resources), NEW s \in DOMAIN resources,
           NEW name \in DOMAIN resources[s]
    PROVE  s \in Sections /\ resources[s][name] \in Quantity
  BY DEF IsResources, IsAmounts, IsMap

LEMMA StatingIsStated ==
    ASSUME NEW container, NEW s, NEW name, NEW q
    PROVE  q \in Stating(container, s, name) <=>
             /\ s \in DOMAIN container.resources
             /\ name \in DOMAIN container.resources[s]
             /\ q = container.resources[s][name]
  BY DEF Stating

LEMMA ReadableWithin ==
    ASSUME NEW resources, NEW name \in Managed, NEW cap
    PROVE  Within(Readable(resources), name, cap) <=>
             \A s \in DOMAIN resources :
                name \in DOMAIN resources[s] /\ Reading(name, resources[s][name]) # {}
                    => Amount(resources[s][name]) <= cap
  <1> DEFINE Read(s) == {n \in DOMAIN resources[s] :
                            /\ n = "cpu" => parse_cpu_millicores(resources[s][n]) # {}
                            /\ n = "memory" => parse_memory_bytes(resources[s][n]) # {}}
  <1>1. /\ DOMAIN Readable(resources) = DOMAIN resources
        /\ \A s \in DOMAIN resources :
              Readable(resources)[s] = [n \in Read(s) |-> resources[s][n]]
    BY DEF Readable
  <1>2. \A s \in DOMAIN resources :
          name \in Read(s) <=>
            name \in DOMAIN resources[s] /\ Reading(name, resources[s][name]) # {}
    BY DEF Reading, Managed
  <1> HIDE DEF Read
  <1>3. \A s \in DOMAIN resources :
          /\ DOMAIN Readable(resources)[s] = Read(s)
          /\ \A n \in Read(s) : Readable(resources)[s][n] = resources[s][n]
    BY <1>1
  <1>4. QED
    BY <1>1, <1>2, <1>3 DEF Within

LEMMA MissingJudged ==
    ASSUME NEW settings, NEW container, NEW i, NEW mutating
    PROVE  /\ MissingResources(settings, container, i, FALSE) = {} => BothStated(container.resources)
           /\ BothStated(container.resources) =>
                MissingResources(settings, container, i, mutating) = {}
  <1>1. Sections \ Stated(container) = {} <=> BothStated(container.resources)
    BY DEF Stated, BothStated
  <1>2. QED
    BY <1>1 DEF MissingResources, Given

LEMMA CpuJudged ==
    ASSUME NEW policy \in ResourceLimitsPolicy, NEW container, IsResources(container.resources), NEW i
    PROVE  CpuAboveCap(policy, container, i) = {} <=>
             \A max_cpu \in policy.max_cpu_millicores :
                Within(Readable(container.resources), "cpu", max_cpu)
  <1> DEFINE resources == container.resources
             AtMost(max_cpu) == \A s \in DOMAIN resources :
                "cpu" \in DOMAIN resources[s] =>
                    \A cpu_m \in parse_cpu_millicores(resources[s]["cpu"]) : cpu_m <= max_cpu
  <1>1. policy.max_cpu_millicores \subseteq Nat
    BY DEF ResourceLimitsPolicy
  <1>2. ASSUME NEW s \in DOMAIN resources, "cpu" \in DOMAIN resources[s]
        PROVE  /\ s \in Sections
               /\ \A cpu_m \in parse_cpu_millicores(resources[s]["cpu"]) :
                    cpu_m \in Nat /\ Amount(resources[s]["cpu"]) = cpu_m
    BY <1>2, AmountsTyped, CpuReadExactly
  <1>3. CpuAboveCap(policy, container, i) = {} <=>
          \A max_cpu \in policy.max_cpu_millicores : AtMost(max_cpu)
    <2>1. CpuAboveCap(policy, container, i) = {} <=>
            \A s \in Sections : \A max_cpu \in policy.max_cpu_millicores :
            \A q \in Stating(container, s, "cpu") :
            \A cpu_m \in parse_cpu_millicores(q) : ~(cpu_m > max_cpu)
      BY DEF CpuAboveCap
    <2>2. ASSUME NEW s \in Sections, NEW q \in Stating(container, s, "cpu"),
                 NEW max_cpu \in policy.max_cpu_millicores, NEW cpu_m \in parse_cpu_millicores(q)
          PROVE  ~(cpu_m > max_cpu) <=> cpu_m <= max_cpu
      <3>1. cpu_m \in Nat /\ max_cpu \in Nat
        BY <1>1, <1>2, StatingIsStated
      <3>2. QED
        BY <3>1
    <2>3. QED
      BY <1>2, <2>1, <2>2, StatingIsStated
  <1>4. ASSUME NEW max_cpu \in policy.max_cpu_millicores
        PROVE  AtMost(max_cpu) <=> Within(Readable(resources), "cpu", max_cpu)
    <2>1. Within(Readable(resources), "cpu", max_cpu) <=>
            \A s \in DOMAIN resources :
              "cpu" \in DOMAIN resources[s] /\ parse_cpu_millicores(resources[s]["cpu"]) # {}
                => Amount(resources[s]["cpu"]) <= max_cpu
      BY ReadableWithin DEF Managed, Reading
    <2>2. QED
      BY <1>2, <2>1
  <1>5. QED
    BY <1>3, <1>4

LEMMA MemoryJudged ==
    ASSUME NEW policy \in ResourceLimitsPolicy, NEW container, IsResources(container.resources), NEW i
    PROVE  LET Obeyed == \A max_mem_mb \in policy.max_memory_mb :
                            Within(Readable(container.resources), "memory",
                                   max_mem_mb * Kibi * Kibi * Kilo)
           IN
           /\ MemoryAboveCap(policy, container, i) = {} => Obeyed
           /\ /\ \A max_mem_mb \in policy.max_memory_mb : max_mem_mb * Kibi * Kibi < Word
              /\ Obeyed
              => MemoryAboveCap(policy, container, i) = {}
  <1> DEFINE resources == container.resources
             scale(max_mem_mb) == max_mem_mb * Kibi * Kibi
             AtMost(max_mem_mb) == \A s \in DOMAIN resources :
                "memory" \in DOMAIN resources[s] =>
                    \A mem_bytes \in parse_memory_bytes(resources[s]["memory"]) :
                        mem_bytes <= MaxMemBytes(max_mem_mb)
             KeepsCap(max_mem_mb) == Within(Readable(resources), "memory", scale(max_mem_mb) * Kilo)
  <1>1. policy.max_memory_mb \subseteq Nat
    BY DEF ResourceLimitsPolicy
  <1>2. ASSUME NEW s \in DOMAIN resources, "memory" \in DOMAIN resources[s],
               NEW mem_bytes \in parse_memory_bytes(resources[s]["memory"])
        PROVE  s \in Sections /\ mem_bytes \in Nat
    BY <1>2, AmountsTyped, MemoryReadExactly
  <1>3. MemoryAboveCap(policy, container, i) = {} <=>
          \A max_mem_mb \in policy.max_memory_mb : AtMost(max_mem_mb)
    <2>1. MemoryAboveCap(policy, container, i) = {} <=>
            \A s \in Sections : \A max_mem_mb \in policy.max_memory_mb :
            \A q \in Stating(container, s, "memory") :
            \A mem_bytes \in parse_memory_bytes(q) : ~(mem_bytes > MaxMemBytes(max_mem_mb))
      BY DEF MemoryAboveCap
    <2>2. ASSUME NEW s \in Sections, NEW q \in Stating(container, s, "memory"),
                 NEW max_mem_mb \in policy.max_memory_mb, NEW mem_bytes \in parse_memory_bytes(q)
          PROVE  ~(mem_bytes > MaxMemBytes(max_mem_mb)) <=> mem_bytes <= MaxMemBytes(max_mem_mb)
      <3>1. mem_bytes \in Nat /\ MaxMemBytes(max_mem_mb) \in Nat
        BY <1>1, <1>2, StatingIsStated, MemoryCapScaled
      <3>2. QED
        BY <3>1
    <2>3. \A s \in DOMAIN resources : s \in Sections
      BY DEF IsResources, IsMap
    <2>4. QED
      BY <2>1, <2>2, <2>3, StatingIsStated
  <1>4. ASSUME NEW max_mem_mb \in policy.max_memory_mb
        PROVE  /\ AtMost(max_mem_mb) => KeepsCap(max_mem_mb)
               /\ scale(max_mem_mb) < Word /\ KeepsCap(max_mem_mb) => AtMost(max_mem_mb)
    <2>1. KeepsCap(max_mem_mb) <=>
            \A s \in DOMAIN resources :
              "memory" \in DOMAIN resources[s] /\ parse_memory_bytes(resources[s]["memory"]) # {}
                => Amount(resources[s]["memory"]) <= scale(max_mem_mb) * Kilo
      BY ReadableWithin DEF Managed, Reading
    <2>2. ASSUME NEW s \in DOMAIN resources, "memory" \in DOMAIN resources[s],
                 NEW mem_bytes \in parse_memory_bytes(resources[s]["memory"])
          PROVE  /\ mem_bytes <= MaxMemBytes(max_mem_mb) =>
                        Amount(resources[s]["memory"]) <= scale(max_mem_mb) * Kilo
                 /\ /\ Amount(resources[s]["memory"]) <= scale(max_mem_mb) * Kilo
                    /\ scale(max_mem_mb) < Word
                    => mem_bytes <= MaxMemBytes(max_mem_mb)
      BY <1>1, <2>2, AmountsTyped, MemoryComparedExactly
    <2> HIDE DEF KeepsCap, scale, resources
    <2>3. QED
      BY <2>1, <2>2
  <1> HIDE DEF AtMost
  <1>5. QED
    BY <1>3, <1>4

(* The caps a build can scale, or panics at before it compares anything. *)
LEMMA ScaledUnlessPanic ==
    ASSUME NEW c, CapsScale(c), NEW o, has_pod_spec(o),
           ~resource_limits_panics(c.resource_limits.policy, o),
           NEW i \in DOMAIN get_pod_spec(o).containers,
           c.resource_limits.policy \in ResourceLimitsPolicy
    PROVE  \A max_mem_mb \in c.resource_limits.policy.max_memory_mb :
                max_mem_mb * Kibi * Kibi < Word
  <1> SUFFICES ASSUME NEW max_mem_mb \in c.resource_limits.policy.max_memory_mb
               PROVE  max_mem_mb * Kibi * Kibi < Word
    OBVIOUS
  <1>1. max_mem_mb \in Nat
    BY DEF ResourceLimitsPolicy
  <1>2. max_mem_mb * Kibi * Kibi \in Nat
    BY <1>1, ScaleAssumption
  <1>3. CASE OverflowChecks
    <2>1. ~(max_mem_mb * Kibi * Kibi >= Word)
      BY <1>3 DEF resource_limits_panics
    <2>2. QED
      BY <1>2, <2>1, ScaleAssumption
  <1>4. CASE ~OverflowChecks
    BY <1>4 DEF CapsScale
  <1>5. QED
    BY <1>3, <1>4

(* The pod spec the program reads is the one the object has. *)
LEMMA OnlyPodSpec ==
    ASSUME NEW o, IsObject(o), NEW p \in DOMAIN o.specs
    PROVE  /\ p = pod_spec_path(o.kind)
           /\ has_pod_spec(o)
           /\ o.specs[p] = get_pod_spec(o)
           /\ IsPodSpec(o.specs[p])
  <1>1. p \in PodSpecPaths(o.kind) /\ IsPodSpec(o.specs[p])
    BY DEF IsObject, IsMap
  <1>2. p = pod_spec_path(o.kind)
    BY <1>1 DEF PodSpecPaths, pod_spec_path, TemplateKinds
  <1>3. QED
    BY <1>1, <1>2 DEF has_pod_spec, get_pod_spec

LEMMA ContainerJudged ==
    ASSUME NEW policy \in ResourceLimitsPolicy, NEW container, IsResources(container.resources),
           NEW i, NEW mutating
    PROVE  LET Found(m) == MissingResources(policy, container, i, m)
                           \cup CpuAboveCap(policy, container, i)
                           \cup MemoryAboveCap(policy, container, i)
               Obeyed == /\ BothStated(container.resources)
                         /\ WithinCaps(policy, Readable(container.resources))
           IN
           /\ Found(FALSE) = {} => Obeyed
           /\ /\ \A max_mem_mb \in policy.max_memory_mb : max_mem_mb * Kibi * Kibi < Word
              /\ Obeyed
              => Found(mutating) = {}
  <1> DEFINE cpu == CpuAboveCap(policy, container, i)
             memory == MemoryAboveCap(policy, container, i)
             missing(m) == MissingResources(policy, container, i, m)
  <1>1. \A m : missing(m) \cup cpu \cup memory = {} <=> missing(m) = {} /\ cpu = {} /\ memory = {}
    OBVIOUS
  <1> HIDE DEF cpu, memory, missing
  <1>2. QED
    BY <1>1, MissingJudged, CpuJudged, MemoryJudged DEF WithinCaps, cpu, memory, missing

LEMMA ResourcesJudged ==
    ASSUME NEW c \in PoliciesConfig, NEW o, IsObject(o), NEW mutating,
           ~resource_limits_panics(c.resource_limits.policy, o)
    PROVE  LET Found(m) == resource_limits(c.resource_limits.policy, o, m).violations IN
           /\ Found(FALSE) = {} => Obeys(c, "resource_limits", o)
           /\ CapsScale(c) /\ Obeys(c, "resource_limits", o) => Found(mutating) = {}
  <1> DEFINE policy == c.resource_limits.policy
             Found(m) == resource_limits(policy, o, m).violations
             spec == get_pod_spec(o)
             Finding(m, i) == MissingResources(policy, spec.containers[i], i, m)
                              \cup CpuAboveCap(policy, spec.containers[i], i)
                              \cup MemoryAboveCap(policy, spec.containers[i], i)
             Obeyed(i) == /\ BothStated(spec.containers[i].resources)
                          /\ WithinCaps(policy, Readable(spec.containers[i].resources))
  <1>1. policy \in ResourceLimitsPolicy
    BY DEF PoliciesConfig, PolicyConfig
  <1>2. Obeys(c, "resource_limits", o) <=>
            \A p \in DOMAIN o.specs : ObeysResourceLimits(policy, o.specs[p])
    BY DEF Obeys
  <1>3. CASE ~has_pod_spec(o)
    <2>1. \A m : Found(m) = {}
      BY <1>3 DEF resource_limits, allowed, PolicyOutput
    <2>2. DOMAIN o.specs = {}
      BY <1>3, OnlyPodSpec
    <2>3. QED
      BY <1>2, <2>1, <2>2
  <1>4. CASE has_pod_spec(o)
    <2>1. IsPodSpec(spec)
      BY <1>4, OnlyPodSpec DEF has_pod_spec, get_pod_spec
    <2>2. \A m : Found(m) = {} <=> \A i \in DOMAIN spec.containers : Finding(m, i) = {}
      BY <1>4 DEF resource_limits, resource_limits_spec, PolicyOutput
    <2>3. Obeys(c, "resource_limits", o) <=> \A i \in DOMAIN spec.containers : Obeyed(i)
      <3>1. \A p \in DOMAIN o.specs : o.specs[p] = spec
        BY OnlyPodSpec
      <3>2. DOMAIN o.specs # {}
        BY <1>4 DEF has_pod_spec
      <3>3. QED
        BY <1>2, <3>1, <3>2 DEF ObeysResourceLimits
    <2>4. ASSUME NEW i \in DOMAIN spec.containers
          PROVE  /\ Finding(FALSE, i) = {} => Obeyed(i)
                 /\ CapsScale(c) /\ Obeyed(i) => Finding(mutating, i) = {}
      <3>1. IsResources(spec.containers[i].resources)
        BY <2>1 DEF IsPodSpec, IsContainer
      <3>2. CapsScale(c) => \A max_mem_mb \in policy.max_memory_mb : max_mem_mb * Kibi * Kibi < Word
        BY <1>1, <1>4, ScaledUnlessPanic
      <3>3. QED
        BY <1>1, <3>1, <3>2, ContainerJudged
    <2> HIDE DEF Finding, Obeyed, Found
    <2>5. QED
      BY <2>2, <2>3, <2>4 DEF Found
  <1>5. QED
    BY <1>3, <1>4

-------------------------------------------------------------------------------
(* The other policies. *)
LEMMA ImagesJudged ==
    ASSUME NEW c, NEW o, IsObject(o)
    PROVE  image_registry(c.image_registry.policy, o).violations = {} <=>
                Obeys(c, "image_registry", o)
  <1> DEFINE policy == c.image_registry.policy
             spec == get_pod_spec(o)
             Obeyed(container) ==
                /\ container.image # {}
                /\ \A image \in container.image :
                    /\ \E entry \in policy.registries :
                          registry_matches(parse_image_ref(image).registry, entry)
                    /\ policy.allow_latest_tag \/ ~is_latest(parse_image_ref(image))
  <1>1. Obeys(c, "image_registry", o) <=>
            \A p \in DOMAIN o.specs : ObeysImageRegistry(policy, o.specs[p])
    BY DEF Obeys
  <1>2. ASSUME NEW container, NEW i
        PROVE  ImageViolations(policy, container, i) = {} <=> Obeyed(container)
    <2>1. CASE container.image = {}
      BY <2>1 DEF ImageViolations
    <2>2. CASE container.image # {}
      <3> DEFINE foreign(image) == \A entry \in policy.registries :
                                    ~registry_matches(parse_image_ref(image).registry, entry)
                 latest(image) == ~policy.allow_latest_tag /\ is_latest(parse_image_ref(image))
                 Finding(image) == Given(foreign(image), Violation("registry", i, {}))
                                   \cup Given(latest(image), Violation("latest", i, {}))
      <3>1. ImageViolations(policy, container, i) = UNION {Finding(image) : image \in container.image}
        BY <2>2 DEF ImageViolations
      <3>2. \A image : Finding(image) = {} <=> ~foreign(image) /\ ~latest(image)
        BY DEF Given
      <3> HIDE DEF Finding
      <3>3. ImageViolations(policy, container, i) = {} <=>
                \A image \in container.image : Finding(image) = {}
        BY <3>1
      <3>4. QED
        BY <2>2, <3>2, <3>3
    <2>3. QED
      BY <2>1, <2>2
  <1>3. CASE ~has_pod_spec(o)
    <2>1. DOMAIN o.specs = {}
      BY <1>3, OnlyPodSpec
    <2>2. QED
      BY <1>1, <1>3, <2>1 DEF image_registry, allowed, PolicyOutput
  <1>4. CASE has_pod_spec(o)
    <2>1. image_registry(policy, o).violations = {} <=>
            \A i \in DOMAIN spec.containers : ImageViolations(policy, spec.containers[i], i) = {}
      BY <1>4 DEF image_registry, PolicyOutput
    <2>2. \A p \in DOMAIN o.specs : o.specs[p] = spec
      BY OnlyPodSpec
    <2>3. DOMAIN o.specs # {}
      BY <1>4 DEF has_pod_spec
    <2>4. Obeys(c, "image_registry", o) <=> \A i \in DOMAIN spec.containers : Obeyed(spec.containers[i])
      BY <1>1, <2>2, <2>3 DEF ObeysImageRegistry
    <2> HIDE DEF Obeyed
    <2>5. QED
      BY <1>2, <2>1, <2>4
  <1>5. QED
    BY <1>3, <1>4

LEMMA LabelsJudged ==
    ASSUME NEW c, NEW o
    PROVE  labels(compile_labels(c.labels.policy), o).violations = {} <=> Obeys(c, "labels", o)
  <1> DEFINE policy == c.labels.policy
             compiled(l) == [key |-> l.key, pattern |-> {Compiled(p) : p \in l.pattern}]
             Lacks(cl) == \/ cl.key \notin DOMAIN o.labels
                          \/ \E accepted \in cl.pattern : o.labels[cl.key] \notin accepted
  <1>1. compile_labels(policy) = {compiled(l) : l \in policy}
    BY DEF compile_labels
  <1>2. labels(compile_labels(policy), o).violations
            = {Violation(cl.key, 0, {}) : cl \in {cl \in compile_labels(policy) : Lacks(cl)}}
    BY DEF labels, PolicyOutput
  <1>3. labels(compile_labels(policy), o).violations = {} <=>
            \A cl \in compile_labels(policy) : ~Lacks(cl)
    BY <1>2
  <1>4. \A l : Lacks(compiled(l)) <=>
            ~(l.key \in DOMAIN o.labels /\ \A p \in l.pattern : o.labels[l.key] \in Compiled(p))
    OBVIOUS
  <1> HIDE DEF Lacks
  <1>5. labels(compile_labels(policy), o).violations = {} <=> ObeysLabels(policy, o)
    BY <1>1, <1>3, <1>4 DEF ObeysLabels
  <1>6. Obeys(c, "labels", o) <=> ObeysLabels(policy, o)
    BY DEF Obeys
  <1>7. QED
    BY <1>5, <1>6

LEMMA TopologyJudged ==
    ASSUME NEW c \in PoliciesConfig, NEW o, IsObject(o), NEW mutating
    PROVE  LET Found(m) == topology_spread(c.topology_spread.policy, o, m).violations IN
           /\ Found(FALSE) = {} => Obeys(c, "topology_spread", o)
           /\ Obeys(c, "topology_spread", o) => Found(mutating) = {}
  <1> DEFINE policy == c.topology_spread.policy
             Found(m) == topology_spread(policy, o, m).violations
             spec == get_pod_spec(o)
  <1>1. Obeys(c, "topology_spread", o) <=>
            \A p \in DOMAIN o.specs : ObeysTopologySpread(policy, o.specs[p])
    BY DEF Obeys
  <1>2. CASE ~has_pod_spec(o)
    <2>1. DOMAIN o.specs = {}
      BY <1>2, OnlyPodSpec
    <2>2. QED
      BY <1>1, <1>2, <2>1 DEF topology_spread, allowed, PolicyOutput
  <1>3. CASE has_pod_spec(o)
    <2>1. Obeys(c, "topology_spread", o) <=> ObeysTopologySpread(policy, spec)
      <3>1. \A p \in DOMAIN o.specs : o.specs[p] = spec
        BY OnlyPodSpec
      <3>2. DOMAIN o.specs # {}
        BY <1>3 DEF has_pod_spec
      <3>3. QED
        BY <1>1, <3>1, <3>2
    <2>2. SkewAboveMaximum(policy, spec.constraints) = {} <=>
            \A i \in DOMAIN spec.constraints : spec.constraints[i].maxSkew <= policy.max_skew
      <3>1. policy.max_skew \in Int
        BY DEF PoliciesConfig, PolicyConfig, TopologySpreadPolicy
      <3>2. \A i \in DOMAIN spec.constraints : spec.constraints[i].maxSkew \in Int
        BY <1>3, OnlyPodSpec DEF has_pod_spec, get_pod_spec, IsPodSpec, IsConstraint
      <3>3. \A i \in DOMAIN spec.constraints :
              ~(spec.constraints[i].maxSkew > policy.max_skew)
                <=> spec.constraints[i].maxSkew <= policy.max_skew
        BY <3>1, <3>2
      <3>4. QED
        BY <3>3 DEF SkewAboveMaximum
    <2> DEFINE missing == spec.constraints = <<>>
               unlabelled == DOMAIN get_pod_labels(o) = {}
               inject == missing /\ policy.inject_if_missing
    <2>3. \A m : Found(m) = SkewAboveMaximum(policy, spec.constraints)
                  \cup Given(missing /\ ~(m /\ inject), Violation("missing", 0, {}))
                  \cup Given(inject /\ unlabelled, Violation("unlabelled", 0, {}))
      BY <1>3 DEF topology_spread, topology_spread_spec, PolicyOutput
    <2>4. QED
      BY <2>1, <2>2, <2>3 DEF ObeysTopologySpread, Given
  <1>4. QED
    BY <1>2, <1>3

-------------------------------------------------------------------------------
(***************************************************************************)
(* The handlers: what the results of the policies make of the answer.      *)
(***************************************************************************)
LEMMA PolicyJudged ==
    ASSUME NEW c \in PoliciesConfig, NEW o, IsObject(o), NEW n \in PolicyName, NEW mutating,
           n = "resource_limits" => ~resource_limits_panics(c.resource_limits.policy, o)
    PROVE  LET Found(m) == PolicyOutputOf(c, n, o, m).violations IN
           /\ Found(FALSE) = {} => Obeys(c, n, o)
           /\ CapsScale(c) /\ Obeys(c, n, o) => Found(mutating) = {}
  <1>1. CASE n = "resource_limits"
    <2>1. \A m : PolicyOutputOf(c, n, o, m) = resource_limits(c.resource_limits.policy, o, m)
      BY <1>1 DEF PolicyOutputOf
    <2>2. QED
      BY <1>1, <2>1, ResourcesJudged
  <1>2. CASE n = "image_registry"
    <2>1. \A m : PolicyOutputOf(c, n, o, m) = image_registry(c.image_registry.policy, o)
      BY <1>2 DEF PolicyOutputOf
    <2>2. QED
      BY <1>2, <2>1, ImagesJudged
  <1>3. CASE n = "labels"
    <2>1. \A m : PolicyOutputOf(c, n, o, m) = labels(compile_labels(c.labels.policy), o)
      BY <1>3 DEF PolicyOutputOf
    <2>2. QED
      BY <1>3, <2>1, LabelsJudged
  <1>4. CASE n = "topology_spread"
    <2>1. \A m : PolicyOutputOf(c, n, o, m) = topology_spread(c.topology_spread.policy, o, m)
      BY <1>4 DEF PolicyOutputOf
    <2>2. QED
      BY <1>4, <2>1, TopologyJudged
  <1>5. QED
    BY <1>1, <1>2, <1>3, <1>4 DEF PolicyName

(* An answer names the enforced policies that found something, and allows if there are none. *)
LEMMA ResponseVerdict ==
    ASSUME NEW c, NEW o, NEW request, request.object = {o}, NEW w, NEW mutating
    PROVE  LET response == build_response(evaluate_all(c, request, mutating), w)
               Found(n) == PolicyOutputOf(c, n, o, mutating).violations
           IN
           /\ DeniedBy(response) = {n \in Enforced(c) : Found(n) # {}}
           /\ response.allowed <=> \A n \in Enforced(c) : Found(n) = {}
  <1> DEFINE results == evaluate_all(c, request, mutating)
             Found(n) == PolicyOutputOf(c, n, o, mutating).violations
             denied == {n \in DOMAIN results : ~results[n].allowed}
             denial(n) == <<n, results[n].denials>>
  <1>1. \A n : OutputFor(c, n, request, mutating).violations = Found(n)
    BY DEF OutputFor
  <1>2. /\ DOMAIN results = {n \in PolicyName : c[n].enabled}
        /\ \A n \in DOMAIN results :
             results[n].allowed <=> (c[n].mode = "enforce" => Found(n) = {})
    BY <1>1 DEF evaluate_all, to_result, policy_enabled, policy_mode
  <1>3. /\ build_response(results, w).allowed <=> denied = {}
        /\ build_response(results, w).denials = {denial(n) : n \in denied}
    BY DEF build_response
  <1>4. \A n : denial(n)[1] = n
    OBVIOUS
  <1> HIDE DEF results, Found
  <1>5. denied = {n \in Enforced(c) : Found(n) # {}}
    BY <1>2 DEF Enforced
  <1> HIDE DEF denied, denial
  <1>6. DeniedBy(build_response(results, w)) = denied
    BY <1>3, <1>4 DEF DeniedBy
  <1>7. QED
    BY <1>3, <1>5, <1>6 DEF Found, results

LEMMA Verdict ==
    ASSUME NEW c, NEW o, NEW request, request.object = {o}, ~evaluate_panics(c, request)
    PROVE  LET response(w) == handle_webhook(c, request, w)
               Found(n, mutating) == PolicyOutputOf(c, n, o, mutating).violations
           IN
           /\ DeniedBy(response("mutate")) = {n \in Enforced(c) : Found(n, TRUE) # {}}
           /\ DeniedBy(response("validate")) = {n \in Enforced(c) : Found(n, FALSE) # {}}
           /\ response("mutate").allowed <=> \A n \in Enforced(c) : Found(n, TRUE) = {}
           /\ response("validate").allowed <=> \A n \in Enforced(c) : Found(n, FALSE) = {}
  <1>1. handle_webhook(c, request, "mutate") = build_response(evaluate_all(c, request, TRUE), "mutate")
    BY DEF handle_webhook
  <1>2. handle_webhook(c, request, "validate") = build_response(evaluate_all(c, request, FALSE), "validate")
    BY DEF handle_webhook
  <1>3. LET response == build_response(evaluate_all(c, request, TRUE), "mutate")
            Found(n) == PolicyOutputOf(c, n, o, TRUE).violations
        IN
        /\ DeniedBy(response) = {n \in Enforced(c) : Found(n) # {}}
        /\ response.allowed <=> \A n \in Enforced(c) : Found(n) = {}
    BY ResponseVerdict
  <1>4. LET response == build_response(evaluate_all(c, request, FALSE), "validate")
            Found(n) == PolicyOutputOf(c, n, o, FALSE).violations
        IN
        /\ DeniedBy(response) = {n \in Enforced(c) : Found(n) # {}}
        /\ response.allowed <=> \A n \in Enforced(c) : Found(n) = {}
    BY ResponseVerdict
  <1>5. QED
    BY <1>1, <1>2, <1>3, <1>4

LEMMA PanicAllows ==
    ASSUME NEW c, NEW request, NEW w, evaluate_panics(c, request)
    PROVE  LET response == handle_webhook(c, request, w) IN
           response.allowed /\ response.patch = NoPatch /\ DeniedBy(response) = {}
  BY DEF handle_webhook, FailOpen, DeniedBy

LEMMA EvaluatedUnlessPanic ==
    ASSUME NEW c, NEW o, NEW request, request.object = {o}, ~evaluate_panics(c, request)
    PROVE  "resource_limits" \in Enforced(c) => ~resource_limits_panics(c.resource_limits.policy, o)
  BY DEF evaluate_panics, Enforced, policy_enabled

(* What the validating webhook allows obeys every enforced policy. *)
LEMMA AllowedIsCompliant ==
    ASSUME NEW c \in PoliciesConfig, NEW o, IsObject(o), NEW request, request.object = {o},
           ~evaluate_panics(c, request), handle_webhook(c, request, "validate").allowed
    PROVE  Compliant(c, o)
  <1> SUFFICES ASSUME NEW n \in Enforced(c) PROVE Obeys(c, n, o)
    BY DEF Compliant
  <1>1. n \in PolicyName
    BY DEF Enforced
  <1>2. PolicyOutputOf(c, n, o, FALSE).violations = {}
    BY Verdict
  <1>3. n = "resource_limits" => ~resource_limits_panics(c.resource_limits.policy, o)
    BY EvaluatedUnlessPanic
  <1>4. QED
    BY <1>1, <1>2, <1>3, PolicyJudged

(* What either webhook denies breaks one, whichever answer it was. *)
LEMMA DeniedIsNotCompliant ==
    ASSUME NEW c \in PoliciesConfig, CapsScale(c), NEW o, IsObject(o),
           NEW request, request.object = {o}, NEW w \in WebhookType,
           ~handle_webhook(c, request, w).allowed
    PROVE  ~Compliant(c, o)
  <1>1. ~evaluate_panics(c, request)
    BY PanicAllows
  <1>2. PICK n \in Enforced(c), mutating \in BOOLEAN :
            PolicyOutputOf(c, n, o, mutating).violations # {}
    BY <1>1, Verdict DEF WebhookType
  <1>3. n \in PolicyName
    BY DEF Enforced
  <1>4. n = "resource_limits" => ~resource_limits_panics(c.resource_limits.policy, o)
    BY <1>1, EvaluatedUnlessPanic
  <1>5. ~Obeys(c, n, o)
    BY <1>2, <1>3, <1>4, PolicyJudged
  <1>6. QED
    BY <1>5 DEF Compliant
===============================================================================
