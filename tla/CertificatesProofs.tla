-------------------------- MODULE CertificatesProofs --------------------------
(***************************************************************************)
(* Proofs about the certificates, for any replicas, secrets and renewals.  *)
(***************************************************************************)
EXTENDS CertificatesProperties, TLAPS

(* The versions are typed, and no part of the cluster is ahead of the secret. *)
THEOREM CertificatesTyped == Spec => []TypeOK
<1>1. Init => TypeOK
    BY CertificatesAssumption DEF Init, TypeOK, Versions
<1>2. TypeOK /\ [Next]_vars => TypeOK'
  <2> SUFFICES ASSUME TypeOK, [Next]_vars PROVE TypeOK'
    OBVIOUS
  <2> USE CertificatesAssumption DEF TypeOK, Versions
  <2>1. CASE Renew
    BY <2>1 DEF Renew
  <2>2. CASE Inject
    BY <2>2 DEF Inject
  <2>3. CASE Expire
    BY <2>3 DEF Expire
  <2>4. ASSUME NEW r \in Replicas, Sync(r) PROVE TypeOK'
    BY <2>4 DEF Sync, clusterVars
  <2>5. ASSUME NEW r \in Replicas, ReadCert(r) PROVE TypeOK'
    BY <2>5 DEF ReadCert, clusterVars
  <2>6. ASSUME NEW r \in Replicas, ReadKey(r) PROVE TypeOK'
    BY <2>6 DEF ReadKey, Exits, clusterVars
  <2>7. ASSUME NEW r \in Replicas, Restart(r) PROVE TypeOK'
    BY <2>7 DEF Restart, clusterVars
  <2>8. CASE UNCHANGED vars
    BY <2>8 DEF vars, clusterVars
  <2> QED
    BY <2>1, <2>2, <2>3, <2>4, <2>5, <2>6, <2>7, <2>8 DEF Next
<1> QED
    BY <1>1, <1>2, PTL DEF Spec
===============================================================================
