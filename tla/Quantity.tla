------------------------------- MODULE Quantity -------------------------------
(***************************************************************************)
(* Resource quantities such as "500m", "1.5" or "512Mi", and the two      *)
(* functions of policies/resource_limits.rs that read them.                *)
(*                                                                         *)
(* A quantity is its number and its suffix.  The number is kept in units   *)
(* of 1/Kilo, so that "1.5" is the whole number 1.5 * Kilo; nothing the    *)
(* program compares is finer than that.  The scale factors and the width   *)
(* of u64 are constants: the model checker uses small ones.                *)
(***************************************************************************)
EXTENDS Integers

CONSTANTS
    Kilo,            \* 1000, the decimal scale factor
    Kibi,            \* 1024, the binary scale factor
    Word,            \* 2^64, one more than the largest u64
    OverflowChecks   \* TRUE in a debug build (panic), FALSE in a release build (wrap)

ASSUME ScaleAssumption ==
    /\ Kilo \in Nat \ {0, 1}
    /\ Kibi \in Nat \ {0, 1}
    /\ Word \in Nat \ {0}
    /\ OverflowChecks \in BOOLEAN

QuantitySuffixes == {"m", "", "k", "M", "G", "T", "Ki", "Mi", "Gi", "Ti"}

(***************************************************************************)
(* What a quantity means, from the definition of the Kubernetes type: the  *)
(* factor of its suffix, and the amount in units of 1/Kilo, which is       *)
(* millicores for a CPU.                                                   *)
(***************************************************************************)
Factor ==
    [s \in QuantitySuffixes |->
        CASE s = "k"  -> Kilo
          [] s = "M"  -> Kilo * Kilo
          [] s = "G"  -> Kilo * Kilo * Kilo
          [] s = "T"  -> Kilo * Kilo * Kilo * Kilo
          [] s = "Ki" -> Kibi
          [] s = "Mi" -> Kibi * Kibi
          [] s = "Gi" -> Kibi * Kibi * Kibi
          [] s = "Ti" -> Kibi * Kibi * Kibi * Kibi
          [] OTHER    -> 1]

Amount(q) == IF q.suffix = "m" THEN q.number \div Kilo ELSE q.number * Factor[q.suffix]

(* The Kubernetes type holds no amount above 2^63, and cuts down what is written to that. *)
Quantity == {q \in [number : Nat, suffix : QuantitySuffixes] : Amount(q) < Word * Kilo}

(***************************************************************************)
(* Arithmetic on u64: the product as the release build stores it.          *)
(***************************************************************************)
Wrap(n) == n % Word

(***************************************************************************)
(* parse_cpu_millicores: the strings the f64 parser takes are those with   *)
(* no suffix or with the suffix "m"; the cast truncates.  An optional      *)
(* result is a set of at most one number.                                  *)
(***************************************************************************)
parse_cpu_millicores(q) ==
    CASE q.suffix = "m" -> {q.number \div Kilo}
      [] q.suffix = ""  -> {q.number}
      [] OTHER          -> {}

(***************************************************************************)
(* parse_memory_bytes: a whole number that fits a u64, with one of six     *)
(* suffixes or none, times the factor of the suffix in u64 arithmetic.     *)
(***************************************************************************)
MemorySuffixes == {"Gi", "Mi", "Ki", "G", "M", "k", ""}

ParsesAsU64(q) == q.number % Kilo = 0 /\ q.number \div Kilo < Word

parse_memory_bytes(q) ==
    IF q.suffix \in MemorySuffixes /\ ParsesAsU64(q)
    THEN {Wrap((q.number \div Kilo) * Factor[q.suffix])}
    ELSE {}

(* The multiplication in parse_memory_bytes panics in a debug build. *)
parse_memory_panics(q) ==
    /\ OverflowChecks
    /\ q.suffix \in MemorySuffixes
    /\ ParsesAsU64(q)
    /\ (q.number \div Kilo) * Factor[q.suffix] >= Word
===============================================================================
