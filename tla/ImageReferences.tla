--------------------------- MODULE ImageReferences ---------------------------
(***************************************************************************)
(* What parse_image_ref and registry_matches make of an image reference,   *)
(* against what the reference names.                                       *)
(*                                                                         *)
(* A reference names an optional host, a path of components, an optional   *)
(* tag and an optional digest, each written with its separator.  Without a *)
(* host it names an image of Docker Hub, in "library" when its path is a   *)
(* single component.  This is the reading of the container runtimes, which *)
(* are external; the program's reading is ImageRegistry.                   *)
(***************************************************************************)
EXTENDS ImageRegistry

CONSTANTS
    Hosts, Components, Tags, Digests,   \* the parts references are made of
    Entries                             \* entries of the allowlist, as paths

(* The parts are told apart by their separators, and a host by what it contains. *)
ASSUME PartsAssumption ==
    /\ \A h \in Hosts :
        h \in Seq(STRING) /\ HasExplicitRegistry(h) /\ ~Contains(h, "/") /\ ~Contains(h, "@")
    /\ \A c \in Components :
        c \in Seq(STRING) /\ ~Contains(c, "/") /\ ~Contains(c, ":") /\ ~Contains(c, "@")
    /\ \A t \in Tags :
        t \in Seq(STRING) /\ t # <<>> /\ ~Contains(t, "/") /\ ~Contains(t, "@")
    /\ \A d \in Digests : d \in Seq(STRING)
    /\ \A entry \in Entries :
        /\ entry \in Seq(Seq(STRING)) /\ Len(entry) \in 1 .. 4
        /\ \A i \in DOMAIN entry : ~Contains(entry[i], "/")

VARIABLES
    reference,   \* the reference a container names its image by
    parsed       \* what the program has parsed it to, if it has yet

vars == <<reference, parsed>>

Option(S) == {{}} \cup {{x} : x \in S}
PathsUpTo(n) == UNION {[1 .. k -> Components] : k \in 1 .. n}

References == [host : Option(Hosts), path : PathsUpTo(3), tag : Option(Tags), digest : Option(Digests)]

(* A first component that looks like a host is one; and Docker Hub has no deeper paths. *)
IsReference(ref) == ref.host = {} => Len(ref.path) <= 2 /\ ~HasExplicitRegistry(ref.path[1])

(* The components joined by slashes. *)
Slashed(first, rest) == first \o <<"/">> \o rest

Joined(path) ==
    CASE Len(path) = 1 -> path[1]
      [] Len(path) = 2 -> Slashed(path[1], path[2])
      [] Len(path) = 3 -> Slashed(path[1], Slashed(path[2], path[3]))
      [] Len(path) = 4 -> Slashed(path[1], Slashed(path[2], Slashed(path[3], path[4])))

(* The optional part of a reference, as a sequence of at most one, *)
Optional(option) == IF option = {} THEN <<>> ELSE <<CHOOSE x \in option : TRUE>>

(* and as it is written after its separator. *)
Written(separator, option) ==
    IF option = {} THEN <<>> ELSE <<separator>> \o (CHOOSE x \in option : TRUE)

Image(ref) ==
    Joined(Optional(ref.host) \o ref.path) \o Written(":", ref.tag) \o Written("@", ref.digest)

(* The host and the path of what the reference names, as one path. *)
Official(ref) == ref.host \in {{}, {DockerHub}} /\ Len(ref.path) = 1

FullName(ref) ==
    (IF ref.host = {} THEN <<DockerHub>> ELSE Optional(ref.host))
    \o (IF Official(ref) THEN <<<<"library">>>> ELSE <<>>)
    \o ref.path

(* The image lies below the entry of an allowlist. *)
Below(ref, entry) ==
    Len(entry) < Len(FullName(ref)) /\ SubSeq(FullName(ref), 1, Len(entry)) = entry

Init ==
    /\ reference \in {ref \in References : IsReference(ref)}
    /\ parsed = {}

Parse ==
    /\ parsed = {}
    /\ parsed' = {parse_image_ref(Image(reference))}
    /\ UNCHANGED reference

Spec == Init /\ [][Parse]_vars

-------------------------------------------------------------------------------
(* An entry of the allowlist admits no image but those below it: not those *)
(* of a host or a component whose name merely begins like the entry        *)
(* (registry_matches), nor those another reading of the reference would    *)
(* find there (extract_registry).                                          *)
AdmitsOnlyBelow ==
    \A p \in parsed, entry \in Entries :
        registry_matches(p.registry, Joined(entry)) => Below(reference, entry)

(* It admits every image below it, but for one spelling: an official image *)
(* of Docker Hub with its host written out is not found in "library".      *)
AdmitsAllBelow ==
    \A p \in parsed, entry \in Entries :
        Below(reference, entry) /\ ~(Official(reference) /\ reference.host # {})
            => registry_matches(p.registry, Joined(entry))

(* The latest tag is refused however the reference comes by it, and only   *)
(* then: a port is no tag and a digest needs none (parse_image_ref).       *)
LatestIsRecognised ==
    \A p \in parsed :
        is_latest(p) <=>
            \/ reference.tag = {<<"latest">>}
            \/ reference.tag = {} /\ reference.digest = {}
===============================================================================
