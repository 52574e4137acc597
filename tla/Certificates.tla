----------------------------- MODULE Certificates -----------------------------
(***************************************************************************)
(* The certificate of the webhook (tls.rs) through the restarts of its     *)
(* replicas and the renewals of cert-manager (cert-manager.yaml).          *)
(*                                                                         *)
(* A secret holds a certificate and a private key.  cert-manager replaces  *)
(* both at once, the kubelet swaps both files of a replica at once some    *)
(* time later, and the CA injector tells the API server some time later    *)
(* which certificate to trust.  A replica reads the two files one after    *)
(* the other when it starts, and never again.                              *)
(***************************************************************************)
EXTENDS Integers

CONSTANTS
    Replicas,    \* of the deployment
    Keys,        \* key pairs
    Secrets,     \* the contents of the secret, one after the other
    Last         \* how many there are

(* What a file can hold: nothing readable, no PEM section, or a certificate *)
(* for a key pair (its private key, in the key file).                       *)
File == {"unreadable", "empty"} \cup Keys
Versions == 1 .. Last

ASSUME CertificatesAssumption ==
    /\ Last \in Nat \ {0}
    /\ Keys \cap {"unreadable", "empty"} = {}
    /\ Secrets \in [Versions -> [cert : File, key : File]]

VARIABLES
    secret,      \* the version of the secret
    trusted,     \* the version the API server trusts
    expired,     \* the certificates up to this version have expired
    mounted,     \* the version of the files of each replica
    replica,     \* whether it is down, between its two reads, or serving
    cert         \* the version of the certificate it has read

clusterVars == <<secret, trusted, expired>>
vars == <<clusterVars, mounted, replica, cert>>

(* load_tls_config succeeds; rustls compares the key with the certificate. *)
load_tls_config(certFile, keyFile) == certFile \in Keys /\ keyFile = certFile

Usable(v) == load_tls_config(Secrets[v].cert, Secrets[v].key)

Init ==
    /\ secret = 1
    /\ trusted = 1
    /\ expired = 0
    /\ mounted = [r \in Replicas |-> 1]
    /\ replica = [r \in Replicas |-> "down"]
    /\ cert = [r \in Replicas |-> 1]

-------------------------------------------------------------------------------
(* cert-manager renews the certificate, or somebody replaces the secret by hand. *)
Renew ==
    /\ secret < Last
    /\ secret' = secret + 1
    /\ UNCHANGED <<trusted, expired, mounted, replica, cert>>

(* The CA injector fills in caBundle. *)
Inject ==
    /\ trusted # secret
    /\ trusted' = secret
    /\ UNCHANGED <<secret, expired, mounted, replica, cert>>

(* Faulty: it is renewed when it has expired. *)
ExpireFirst ==
    /\ expired < trusted
    /\ expired' = expired + 1
    /\ UNCHANGED <<secret, trusted, mounted, replica, cert>>

(* A certificate expires 720 hours after it was to be renewed (renewBefore), *)
(* when the kubelets and the injector have long caught up.                   *)
Expire ==
    /\ expired + 1 < trusted
    /\ \A r \in Replicas : expired + 1 < mounted[r]
    /\ expired' = expired + 1
    /\ UNCHANGED <<secret, trusted, mounted, replica, cert>>

(* Faulty: the files are mounted one by one (subPath), and stay as they were. *)
SyncNever(r) == FALSE /\ UNCHANGED vars

(* The kubelet swaps the directory of the volume. *)
Sync(r) ==
    /\ mounted[r] # secret
    /\ mounted' = [mounted EXCEPT ![r] = secret]
    /\ UNCHANGED <<clusterVars, replica, cert>>

(* The process starts and reads the certificate. *)
ReadCert(r) ==
    /\ replica[r] = "down"
    /\ replica' = [replica EXCEPT ![r] = "loading"]
    /\ cert' = [cert EXCEPT ![r] = mounted[r]]
    /\ UNCHANGED <<clusterVars, mounted>>

(* Faulty: it stays without a certificate. *)
Lingers == "loading"

(* exit(1), after which the kubelet starts the process again. *)
Exits == "down"

(* It reads the key and serves the pair, or exits. *)
ReadKey(r) ==
    /\ replica[r] = "loading"
    /\ replica' = [replica EXCEPT ![r] =
            IF load_tls_config(Secrets[cert[r]].cert, Secrets[mounted[r]].key) THEN "serving" ELSE Exits]
    /\ UNCHANGED <<clusterVars, mounted, cert>>

(* It is restarted: a rollout, an eviction, an operator. *)
Restart(r) ==
    /\ replica[r] = "serving"
    /\ replica' = [replica EXCEPT ![r] = "down"]
    /\ UNCHANGED <<clusterVars, mounted, cert>>

-------------------------------------------------------------------------------
(* The API server accepts the certificate that a replica presents: a self-  *)
(* signed one is its own authority, so it trusts no other.                  *)
Accepted(r) == replica[r] = "serving" /\ cert[r] = trusted /\ cert[r] > expired

(* A replica that the API server has stopped to accept, or is about to. *)
Stale(r) == replica[r] = "serving" /\ cert[r] # mounted[r]

Next ==
    \/ Renew \/ Inject \/ Expire
    \/ \E r \in Replicas : Sync(r) \/ ReadCert(r) \/ ReadKey(r) \/ Restart(r)

(* The kubelet starts what is down, and it and the injector catch up. *)
Fairness ==
    /\ WF_vars(Inject)
    /\ \A r \in Replicas : WF_vars(Sync(r)) /\ WF_vars(ReadCert(r)) /\ WF_vars(ReadKey(r))

Spec == Init /\ [][Next]_vars /\ Fairness

(* Somebody restarts the replicas that serve what was replaced. *)
RestartedSpec == Spec /\ \A r \in Replicas : WF_vars(Stale(r) /\ Restart(r))
===============================================================================
