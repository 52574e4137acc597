---------------------------- MODULE ResourceLimits ----------------------------
(***************************************************************************)
(* policies/resource_limits.rs: every container must state requests and    *)
(* limits, no stated amount may exceed the caps, and what is missing can   *)
(* be injected.                                                            *)
(***************************************************************************)
EXTENDS Workload

Managed == {"cpu", "memory"}

(* ResourceLimitsPolicy; a cap that is not configured is the empty set. *)
ResourceLimitsPolicy ==
    [max_cpu_millicores : SUBSET Nat, max_memory_mb : SUBSET Nat,
     inject_defaults : BOOLEAN, defaults : [Sections -> [Managed -> Quantity]]]

(* has_requests and has_limits of evaluate: the section is there and has an amount. *)
Stated(container) ==
    {s \in Sections \cap DOMAIN container.resources : DOMAIN container.resources[s] # {}}

(* The one amount a container states for a resource in a section, if any. *)
Stating(container, section, name) ==
    { container.resources[s][name] :
        s \in {s \in {section} \cap DOMAIN container.resources :
                 name \in DOMAIN container.resources[s]} }

(* Faulty: a patch that will add what is missing makes no difference. *)
MissingEvenIfPatched(config, container, i, mutating) ==
    LET missing == Sections \ Stated(container)
    IN  Given(missing # {}, Violation("missing", i, missing))

(* Nothing is missing from a container whose defaults the patch adds. *)
MissingResources(config, container, i, mutating) ==
    LET missing == Sections \ Stated(container)
        will_be_patched == mutating /\ config.inject_defaults
    IN  Given(missing # {} /\ ~will_be_patched, Violation("missing", i, missing))

CpuAboveCap(config, container, i) ==
    { Violation("cpu", i, {s}) :
        s \in {s \in Sections :
                 \E max_cpu \in config.max_cpu_millicores :
                 \E q \in Stating(container, s, "cpu") :
                 \E cpu_m \in parse_cpu_millicores(q) : cpu_m > max_cpu} }

MaxMemBytes(max_mem_mb) == Wrap(max_mem_mb * Kibi * Kibi)

MemoryAboveCap(config, container, i) ==
    { Violation("memory", i, {s}) :
        s \in {s \in Sections :
                 \E max_mem_mb \in config.max_memory_mb :
                 \E q \in Stating(container, s, "memory") :
                 \E mem_bytes \in parse_memory_bytes(q) : mem_bytes > MaxMemBytes(max_mem_mb)} }

(* Faulty: the limits section is never added. *)
MissingLocationsButLimits(resources) ==
    IF DOMAIN resources = {}
    THEN {<<Whole, Whole>>}
    ELSE {<<s, Whole>> : s \in {"requests"} \ DOMAIN resources}
         \cup {l \in Sections \X Managed :
                 l[1] \in DOMAIN resources /\ l[2] \notin DOMAIN resources[l[1]]}

(* Faulty: the amounts of a section are added whether it has them or not. *)
MissingLocationsAndOthers(resources) ==
    IF DOMAIN resources = {}
    THEN {<<Whole, Whole>>}
    ELSE {<<s, Whole>> : s \in Sections \ DOMAIN resources}
         \cup {l \in Sections \X Managed : l[1] \in DOMAIN resources}

(* Faulty: the whole block is added when either section is missing. *)
MissingLocationsAsBlock(resources) ==
    IF DOMAIN resources # Sections
    THEN {<<Whole, Whole>>}
    ELSE {l \in Sections \X Managed : l[2] \notin DOMAIN resources[l[1]]}

(***************************************************************************)
(* generate_resource_patches: the whole block, a whole section, or the     *)
(* amounts a section lacks, whichever is the smallest that is missing.     *)
(***************************************************************************)
MissingLocations(resources) ==
    IF DOMAIN resources = {}
    THEN {<<Whole, Whole>>}
    ELSE {<<s, Whole>> : s \in Sections \ DOMAIN resources}
         \cup {l \in Sections \X Managed :
                 l[1] \in DOMAIN resources /\ l[2] \notin DOMAIN resources[l[1]]}

(* Faulty: a missing section is given the whole block. *)
DefaultBlockAt(config, section, name) ==
    IF name = Whole THEN config.defaults ELSE config.defaults[section][name]

DefaultAt(config, section, name) ==
    IF section = Whole THEN config.defaults
    ELSE IF name = Whole THEN config.defaults[section]
    ELSE config.defaults[section][name]

generate_resource_patches(config, spec, prefix) ==
    [l \in UNION { {ResourcesAt(prefix, i, m[1], m[2]) :
                      m \in MissingLocations(spec.containers[i].resources)} :
                    i \in DOMAIN spec.containers }
        |-> DefaultAt(config, l.section, l.name)]

(* evaluate, of a pod spec found in an object of the given kind. *)
resource_limits_spec(config, spec, kind, mutating) ==
    PolicyOutput(
        UNION { MissingResources(config, spec.containers[i], i, mutating)
                \cup CpuAboveCap(config, spec.containers[i], i)
                \cup MemoryAboveCap(config, spec.containers[i], i) :
                i \in DOMAIN spec.containers },
        IF config.inject_defaults
        THEN generate_resource_patches(config, spec, spec_prefix(kind))
        ELSE NoPatch)

resource_limits(config, object, mutating) ==
    IF has_pod_spec(object)
    THEN resource_limits_spec(config, get_pod_spec(object), object.kind, mutating)
    ELSE allowed

(***************************************************************************)
(* In a debug build evaluate panics when scaling the configured cap or a   *)
(* stated amount of memory overflows.                                      *)
(***************************************************************************)
resource_limits_panics(config, object) ==
    /\ OverflowChecks
    /\ has_pod_spec(object)
    /\ \E max_mem_mb \in config.max_memory_mb :
       \E i \in DOMAIN get_pod_spec(object).containers :
          \/ max_mem_mb * Kibi * Kibi >= Word
          \/ \E s \in Sections :
             \E q \in Stating(get_pod_spec(object).containers[i], s, "memory") :
                parse_memory_panics(q)
===============================================================================
