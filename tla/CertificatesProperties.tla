------------------------ MODULE CertificatesProperties ------------------------
(***************************************************************************)
(* What renewals and restarts may do to the calls of the API server.       *)
(***************************************************************************)
EXTENDS Certificates

TypeOK ==
    /\ secret \in Versions
    /\ trusted \in 1 .. secret
    /\ expired \in 0 .. trusted - 1
    /\ mounted \in [Replicas -> 1 .. secret]
    /\ replica \in [Replicas -> {"down", "loading", "serving"}]
    /\ cert \in [Replicas -> Versions]
    /\ \A r \in Replicas : cert[r] <= mounted[r]

(* A replica that exits because the files were swapped between its reads   *)
(* (tls.rs:29-36), so that they do not match, or because they were no      *)
(* good, comes up once the secret is good (main.rs:174-178).               *)
ComesUp ==
    \A r \in Replicas :
        replica[r] # "serving" ~> replica[r] = "serving" \/ ~Usable(secret)

(* Once the replicas that serve what was replaced are restarted, every call *)
(* is accepted again, whichever renewals fell between the steps of their   *)
(* restarts: reading the files at the start is enough (tls.rs:28), if the  *)
(* files are kept up to date (deployment.yaml:80-83).                      *)
RestartsHeal ==
    <>[](Usable(secret) => \A r \in Replicas : replica[r] = "serving" => Accepted(r))

(* The certificate the webhook uses is rotated: a replica that serves one  *)
(* that was renewed comes to be accepted again (cert-manager.yaml:4-5).    *)
RotationReachesWebhook ==
    \A r \in Replicas :
        replica[r] = "serving" /\ cert[r] # secret ~> Accepted(r) \/ replica[r] # "serving"
===============================================================================
