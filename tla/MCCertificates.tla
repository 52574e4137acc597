---------------------------- MODULE MCCertificates ----------------------------
(***************************************************************************)
(* Renewals with a new key each, with a kept key, and a secret replaced by *)
(* one that is no good.                                                    *)
(***************************************************************************)
EXTENDS CertificatesProperties

CONSTANTS k1, k2

Pair(k) == [cert |-> k, key |-> k]

(* A mistake made by hand, mended by the next version, which has the key of the last good one. *)
MCSecrets == <<Pair(k1), Pair(k2), [cert |-> k2, key |-> "empty"], Pair(k2)>>

Renewals == <<Pair(k1), Pair(k2)>>
===============================================================================
