---------------------------- MODULE ImageRegistry ----------------------------
(***************************************************************************)
(* policies/image_registry.rs: images must come from an allowed registry   *)
(* and must not be the latest.                                             *)
(*                                                                         *)
(* An image reference is the sequence of its characters, with every run of *)
(* letters that the program treats alike written as one: what matters is   *)
(* where the separators ".", "/", ":" and "@" stand.                       *)
(***************************************************************************)
EXTENDS Workload, SequencesExt

(* AllowedRegistriesPolicy *)
AllowedRegistriesPolicy == [registries : SUBSET Seq(STRING), allow_latest_tag : BOOLEAN]

(* str::find and str::rfind: the position of a character, or 0. *)
Find(s, c) == SelectInSeq(s, LAMBDA x : x = c)
RFind(s, c) == SelectLastInSeq(s, LAMBDA x : x = c)

Upto(s, n) == SubSeq(s, 1, n - 1)
From(s, n) == SubSeq(s, n + 1, Len(s))

DockerHub == <<"docker", ".", "io">>
Localhost == <<"localhost">>

(***************************************************************************)
(* extract_registry: everything before the last slash when the part before *)
(* the first one names a host; otherwise Docker Hub and that first part.   *)
(***************************************************************************)
HasExplicitRegistry(first) == Contains(first, ".") \/ Contains(first, ":") \/ first = Localhost

(* Faulty: an explicit registry is its host alone. *)
extract_host(name_part) ==
    LET first == Upto(name_part, Find(name_part, "/")) IN
    IF Find(name_part, "/") = 0 THEN DockerHub \o <<"/", "library">>
    ELSE IF HasExplicitRegistry(first) THEN first
    ELSE DockerHub \o <<"/">> \o first

extract_registry(name_part) ==
    LET first == Upto(name_part, Find(name_part, "/")) IN
    IF Find(name_part, "/") = 0 THEN DockerHub \o <<"/", "library">>
    ELSE IF HasExplicitRegistry(first) THEN Upto(name_part, RFind(name_part, "/"))
    ELSE DockerHub \o <<"/">> \o first

(***************************************************************************)
(* parse_image_ref: the digest is cut off at the first "@"; the tag starts *)
(* at the first colon after the last slash.                                *)
(***************************************************************************)
parse_image_ref(image) ==
    LET has_digest == Contains(image, "@")
        image_no_digest == IF has_digest THEN Upto(image, Find(image, "@")) ELSE image
        last_slash == RFind(image_no_digest, "/")
        colon == Find(From(image_no_digest, last_slash), ":")
        colon_pos == last_slash + colon
    IN  [registry |->
            extract_registry(IF colon = 0 THEN image_no_digest ELSE Upto(image_no_digest, colon_pos)),
         tag |-> IF colon = 0 THEN <<>> ELSE From(image_no_digest, colon_pos),
         has_digest |-> has_digest]

(* Faulty: a name that begins like the entry matches it. *)
registry_begins_like(registry, entry) == IsPrefix(entry, registry)

(* registry_matches: the entry itself or something below it. *)
registry_matches(registry, entry) ==
    \/ registry = entry
    \/ IsPrefix(entry \o <<"/">>, registry)

(* Faulty: an image that is pinned by its digest is taken for the latest. *)
is_untagged(ref) == ref.tag = <<"latest">> \/ ref.tag = <<>>

is_latest(ref) == ref.tag = <<"latest">> \/ (ref.tag = <<>> /\ ~ref.has_digest)

ImageViolations(config, container, i) ==
    IF container.image = {} THEN {Violation("no image", i, {})}
    ELSE UNION { LET ref == parse_image_ref(image) IN
                 Given(\A entry \in config.registries : ~registry_matches(ref.registry, entry),
                       Violation("registry", i, {}))
                 \cup Given(~config.allow_latest_tag /\ is_latest(ref),
                            Violation("latest", i, {})) :
                 image \in container.image }

(* evaluate *)
image_registry(config, object) ==
    IF has_pod_spec(object)
    THEN LET containers == get_pod_spec(object).containers IN
         PolicyOutput(UNION {ImageViolations(config, containers[i], i) : i \in DOMAIN containers},
                      NoPatch)
    ELSE allowed
===============================================================================
