-------------------------------- MODULE Labels --------------------------------
(***************************************************************************)
(* policies/labels.rs: an object must carry the required labels, with      *)
(* values their patterns match.                                            *)
(***************************************************************************)
EXTENDS Workload

(***************************************************************************)
(* A required label is a key and, optionally, a pattern.  A pattern is     *)
(* known by what it does: whether it is a regular expression at all, the   *)
(* values that one matches, and the values that contain it literally.      *)
(***************************************************************************)
Pattern == [valid : BOOLEAN, matches : SUBSET Names, literal : SUBSET Names]
RequiredLabel == [key : Names, pattern : SUBSET Pattern]
RequiredLabelsPolicy == SUBSET RequiredLabel

(* compile_labels: a pattern that does not compile is matched literally. *)
Compiled(pattern) == IF pattern.valid THEN pattern.matches ELSE pattern.literal

compile_labels(config) ==
    { [key |-> l.key, pattern |-> {Compiled(p) : p \in l.pattern}] : l \in config }

(* evaluate: an object without metadata labels lacks every required one. *)
labels(compiled, object) ==
    PolicyOutput(
        { Violation(cl.key, 0, {}) :
            cl \in {cl \in compiled :
                     \/ cl.key \notin DOMAIN object.labels
                     \/ \E accepted \in cl.pattern : object.labels[cl.key] \notin accepted} },
        NoPatch)
===============================================================================
